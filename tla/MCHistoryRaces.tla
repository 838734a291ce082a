---------------------------- MODULE MCHistoryRaces ----------------------------
(***************************************************************************)
(* Two processes on one history, in two stories: captures are inserted,    *)
(* deleted and evicted while a write may fail, or one capture is edited    *)
(* and pinned while retention wants its pixels.                            *)
(***************************************************************************)
EXTENDS MCHistoryStore

\* the second story: no write fails any more
Edited == spent.fault = MaxFaults

Ops == IF Edited THEN {"update", "evict"} ELSE {"insert", "delete", "evict"}

Written == IF Edited THEN Docs ELSE {d1}

Pending == IF Edited THEN 2 ELSE Cardinality(Slots)

\* whether a step belongs to its story
Told ==
  /\ Edited' = Edited
  /\ \A p \in Procs : /\ job'[p].op \in Ops \union {"none", "open", "repair"}
                      /\ job'[p].rec # None => job'[p].rec.doc \in Written
  /\ Cardinality({s \in Slots : markers'[s] # None}) <= Pending
=============================================================================

------------------------- MODULE HistoryStoreProofs -------------------------
(***************************************************************************)
(* Theorems about HistoryStore, for every value of its constants.  First   *)
(* the invariant behind PixelsKept; then what edits, pins and the index owe*)
(* the history: sidecars are edited, never overwritten; pinned captures    *)
(* keep their pixels; the index follows the sidecars; the bytes it counts  *)
(* are on disk.                                                            *)
(***************************************************************************)
EXTENDS HistoryStore, TLAPS, FiniteSetTheorems

USE StoreAssumption

-----------------------------------------------------------------------------
(* The locals of a call                                                    *)

\* the types of the fields of a call's locals
LEMMA JobFields ==
  ASSUME NEW j \in Job
  PROVE  /\ j.op \in {"none", "open", "insert", "update", "delete", "evict", "gc", "repair"}
         /\ j.id \in Ids \union {None} /\ j.rec \in Record \union {None}
         /\ j.hash \in Hashes \union {NoImage} /\ j.change \in Change \union {None}
         /\ j.mine \in SUBSET Slots /\ j.pending \in SUBSET Slots
         /\ j.after \in {"idle", "delete", "evict", "gc"}
         /\ j.forced \in SUBSET Ids /\ j.over \in SUBSET Ids /\ j.seen \in Nat
         /\ j.missing \in SUBSET Ids /\ j.sweep \in SUBSET Hashes
  BY DEF Job

LEMMA NoJobTyped == NoJob \in Job
  BY DEF Job, NoJob

-----------------------------------------------------------------------------
(* Steps that leave files and index alone                                  *)

\* A step outside a transaction that only moves the call on keeps everything,
\* as long as it has no markers of its own and takes on none.
LEMMA LocalStep ==
  ASSUME IInv, NEW p \in Procs, NEW l \in Pcs \ Holding, NEW j \in Job,
         pc[p] \notin Holding, Goto(p, l, j),
         UNCHANGED <<records, db, tx, markers, lock>>, used' \subseteq Ids,
         blobs' \subseteq Hashes, lost' \subseteq Hashes,
         blobs \union lost \subseteq blobs' \union lost',
         spent' \in [crash : Nat, fault : Nat, blob : Nat, record : Nat],
         j.mine = {}, j.missing = {}, j.pending \subseteq job[p].pending,
         l = "clear" => pc[p] = "clear",
         Ready(l, j)
  PROVE  IInv'
<1>a. /\ pc' = [pc EXCEPT ![p] = l] /\ pc \in [Procs -> Pcs]
      /\ job' = [job EXCEPT ![p] = j] /\ job \in [Procs -> Job]
  BY DEF IInv, TypeOK, Goto
<1>b. \A q \in Procs : pc[q] \in Holding <=> lock = q
  BY DEF IInv, TypeOK
<1>c. \A q \in Procs : q # p => pc'[q] = pc[q] /\ job'[q] = job[q]
  BY <1>a
<1>d. pc'[p] = l /\ job'[p] = j /\ lock # p
  BY <1>a, <1>b
<1>1. TypeOK'
  BY <1>a, <1>b, <1>c, <1>d DEF IInv, TypeOK
<1>2. PixelsKept'
  BY DEF IInv, PixelsKept, Live
<1>3. Doubtful' \subseteq Doubtful
  <2>1. Clearing' \subseteq Clearing
    BY <1>c, <1>d DEF Clearing
  <2>2. \A q \in Procs : pc'[q] = "write" => q # p
    BY <1>d DEF Holding
  <2> QED
    BY <1>c, <2>1, <2>2 DEF Doubtful
<1>4. Known'
  BY <1>3 DEF IInv, Known, Showing, Covers, Live
<1>5. TxFollows' /\ TxFull'
  <2>1. Condemned' = Condemned
    BY <1>c, <1>d DEF Condemned
  <2>2. \A q \in Procs : lock = q => job'[q] = job[q]
    BY <1>c, <1>d
  <2> QED
    BY <2>1, <2>2 DEF IInv, TxFollows, TxFull, Showing, Covers, Live
<1>6. ASSUME NEW q \in Procs PROVE JobOK(q)'
  <2>1. \A r \in Procs : job'[r].pending \subseteq job[r].pending
    BY <1>c, <1>d
  <2>2. JobOK(q)
    BY DEF IInv
  <2>3. CASE q = p
    BY <1>d, <2>3 DEF JobOK, Holding
  <2>4. CASE q # p
    BY <1>c, <2>1, <2>2, <2>4 DEF JobOK, Showing, Covers, Live, Referenced
  <2> QED
    BY <2>3, <2>4
<1> QED
  BY <1>1, <1>2, <1>4, <1>5, <1>6 DEF IInv

\* The end of a transaction without a commit: the rows go back to what was
\* committed, and the markers of sidecars already written stay behind.
LEMMA DropTransaction ==
  ASSUME IInv, NEW p \in Procs, NEW l \in Pcs \ Holding, NEW j \in Job,
         lock = p, lock' = None, tx' = db, Goto(p, l, j),
         UNCHANGED <<records, blobs, db, used, lost>>,
         spent' \in [crash : Nat, fault : Nat, blob : Nat, record : Nat],
         \/ UNCHANGED markers
         \/ \E s \in Slots : markers[s] = None /\ markers' = [markers EXCEPT ![s] = Torn],
         j.mine = {}, j.missing = {}, Ready(l, j),
         \/ l # "clear" /\ j.pending = {}
         \/ l = "clear" /\ pc[p] = "write" /\ job[p].op # "evict" /\ j.pending = job[p].mine
  PROVE  IInv'
<1>a. /\ pc' = [pc EXCEPT ![p] = l] /\ pc \in [Procs -> Pcs]
      /\ job' = [job EXCEPT ![p] = j] /\ job \in [Procs -> Job]
      /\ markers \in [Slots -> Ids \union {None, Torn}]
  BY DEF IInv, TypeOK, Goto
<1>b. \A q \in Procs : pc[q] \in Holding <=> lock = q
  BY DEF IInv, TypeOK
<1>c. \A q \in Procs : q # p => pc'[q] = pc[q] /\ job'[q] = job[q] /\ pc'[q] \notin Holding
  BY <1>a, <1>b
<1>d. pc'[p] = l /\ job'[p] = j /\ p # None
  BY <1>a
<1>e. \A q \in Procs : q # p => job[q].mine = {} /\ job[q].missing = {}
  BY <1>b, <1>c DEF IInv, JobOK, Holding
<1>m. /\ \A s \in Slots, id \in Ids : markers[s] = id <=> markers'[s] = id
      /\ markers' \in [Slots -> Ids \union {None, Torn}]
  BY <1>a
<1>1. TypeOK'
  <2>1. db \in Index
    BY DEF IInv, TypeOK
  <2> QED
    BY <1>a, <1>b, <1>c, <1>d, <1>m, <2>1 DEF IInv, TypeOK
<1>2. PixelsKept'
  BY DEF IInv, PixelsKept, Live
<1>3. Doubtful' \subseteq Doubtful
  <2>1. CASE l # "clear"
    <3>1. Clearing' \subseteq Clearing
      BY <1>c, <1>d, <2>1 DEF Clearing
    <3> QED
      BY <1>c, <1>d, <3>1 DEF Doubtful, Holding
  <2>2. CASE l = "clear"
    <3>1. Clearing' \subseteq Clearing \union job[p].mine
      BY <1>c, <1>d, <2>2 DEF Clearing
    <3>2. job[p].mine \subseteq Doubtful
      BY <2>2 DEF Doubtful
    <3> QED
      BY <1>c, <1>d, <3>1, <3>2 DEF Doubtful, Holding
  <2> QED
    BY <2>1, <2>2
<1>4. Known'
  BY <1>3, <1>m DEF IInv, Known, Showing, Covers, Live
<1>5. TxFollows' /\ TxFull'
  BY <1>d DEF TxFollows, TxFull, Condemned, Showing, Covers, Live
<1>6. ASSUME NEW q \in Procs PROVE JobOK(q)'
  <2>2. JobOK(q)
    BY DEF IInv
  <2>3. CASE q = p
    BY <1>d, <2>3 DEF JobOK, Holding
  <2>4. CASE q # p
    BY <1>c, <1>e, <2>2, <2>4 DEF JobOK, Holding
  <2> QED
    BY <2>3, <2>4
<1> QED
  BY <1>1, <1>2, <1>4, <1>5, <1>6 DEF IInv

\* The beginning of a transaction that still has nothing of its own on disk.
\* Its rows know every user of pixels the committed ones knew, and all of
\* them once markers were repaired or when it is going to unlink.
LEMMA BeginTransaction ==
  ASSUME IInv, NEW p \in Procs, NEW j \in Job,
         NEW l \in {"rewrite", "mark", "next", "collect", "commit"},
         lock = None, lock' = p, Goto(p, l, j), tx' \in Index,
         UNCHANGED <<records, db, markers, used, spent>>,
         blobs' \subseteq Hashes, lost' \subseteq Hashes,
         blobs \union lost \subseteq blobs' \union lost',
         Ready(l, j), j.mine = {}, j.missing # {} => l = "rewrite",
         \A id \in Showing \ j.missing : Covers(db.rows, id) => Covers(tx'.rows, id),
         j.op \in {"delete", "evict", "gc"} \/ j.pending # {} =>
           \A id \in Showing \ j.missing : Covers(tx'.rows, id),
         \A id \in j.missing : ~Live(tx'.rows[id]),
         l = "mark" =>
           /\ j.id \in Ids
           /\ Live(j.rec) /\ j.id \notin Unreadable => j.rec.hash \in blobs' \union lost'
           /\ j.op = "delete" => j.rec = None,
         l = "next" => j.op = "evict",
         l = "collect" => j.op = "gc" /\ \A h \in j.sweep : ~Referenced(tx'.rows, h)
  PROVE  IInv'
<1>a. /\ pc' = [pc EXCEPT ![p] = l] /\ pc \in [Procs -> Pcs]
      /\ job' = [job EXCEPT ![p] = j] /\ job \in [Procs -> Job]
      /\ l \in Holding /\ l \in Pcs
  BY DEF IInv, TypeOK, Goto, Holding, Pcs
<1>b. \A q \in Procs : pc[q] \notin Holding
  BY DEF IInv, TypeOK
<1>c. \A q \in Procs : q # p => pc'[q] = pc[q] /\ job'[q] = job[q]
  BY <1>a
<1>d. pc'[p] = l /\ job'[p] = j /\ p # None
  BY <1>a
<1>e. \A q \in Procs : job'[q].mine = {}
  BY <1>b, <1>c, <1>d DEF IInv, JobOK, Holding
<1>1. TypeOK'
  BY <1>a, <1>b, <1>c, <1>d DEF IInv, TypeOK
<1>2. PixelsKept'
  BY DEF IInv, PixelsKept, Live
<1>3. Doubtful' \subseteq Doubtful
  <2>1. Clearing' \subseteq Clearing
    BY <1>c, <1>d DEF Clearing
  <2> QED
    BY <1>c, <1>d, <2>1 DEF Doubtful
<1>4. Known'
  BY <1>3 DEF IInv, Known, Showing, Covers, Live
<1>5. TxFollows' /\ TxFull'
  <2>1. Condemned' = j.missing
    BY <1>d DEF Condemned
  <2>2. Showing' = Showing
    BY DEF Showing, Live
  <2> QED
    BY <1>d, <2>1, <2>2 DEF TxFollows, TxFull, Covers, Live
<1>6. ASSUME NEW q \in Procs PROVE JobOK(q)'
  <2>2. JobOK(q)
    BY DEF IInv
  <2>3. CASE q = p
    BY <1>d, <1>e, <2>3 DEF JobOK, Live, Referenced
  <2>4. CASE q # p
    BY <1>b, <1>c, <1>e, <2>2, <2>4 DEF JobOK, Holding
  <2> QED
    BY <2>3, <2>4
<1> QED
  BY <1>1, <1>2, <1>4, <1>5, <1>6 DEF IInv

\* A step inside a delete, a retention pass or a collection that writes no
\* sidecar and no marker: those transactions know every user of pixels, and
\* the step keeps it so.
LEMMA HolderStep ==
  ASSUME IInv, NEW p \in Procs, NEW j \in Job,
         NEW l \in {"mark", "next", "collect", "commit"},
         lock = p, pc[p] # "rewrite", Goto(p, l, j), tx' \in Index, blobs' \subseteq Hashes,
         UNCHANGED <<records, db, markers, lock, used, lost, spent>>,
         PixelsKept', Ready(l, j),
         j.mine = job[p].mine, j.pending = job[p].pending, j.missing = job[p].missing,
         j.op = job[p].op, j.op \in {"delete", "evict", "gc"},
         \A id \in Showing : Covers(tx.rows, id) => Covers(tx'.rows, id),
         l = "mark" => /\ j.op = "evict" /\ j.id \in Ids
                       /\ Live(j.rec) /\ j.id \notin Unreadable => j.rec.hash \in blobs' \union lost,
         l = "next" => j.op = "evict",
         l = "collect" => j.op = "gc" /\ j.mine = {}
                          /\ \A h \in j.sweep : ~Referenced(tx'.rows, h)
  PROVE  IInv'
<1>a. /\ pc' = [pc EXCEPT ![p] = l] /\ pc \in [Procs -> Pcs]
      /\ job' = [job EXCEPT ![p] = j] /\ job \in [Procs -> Job]
      /\ l \in Holding /\ l \in Pcs
  BY DEF IInv, TypeOK, Goto, Holding, Pcs
<1>b. \A q \in Procs : pc[q] \in Holding <=> q = p
  BY DEF IInv, TypeOK
<1>c. \A q \in Procs : q # p => pc'[q] = pc[q] /\ job'[q] = job[q]
  BY <1>a
<1>d. pc'[p] = l /\ job'[p] = j /\ p # None
  BY <1>a
<1>e. \A q \in Procs : job'[q].mine = job[q].mine /\ job'[q].pending = job[q].pending
  BY <1>c, <1>d
<1>f. Condemned = {} /\ Condemned' = {}
  BY <1>b, <1>c, <1>d DEF IInv, JobOK, Condemned
<1>g. Showing' = Showing
  BY DEF Showing, Live
<1>h. \A id \in Showing : Covers(tx.rows, id) /\ Covers(tx'.rows, id)
  BY <1>f DEF IInv, TxFull
<1>1. TypeOK'
  BY <1>a, <1>b, <1>c, <1>d DEF IInv, TypeOK
<1>3. Doubtful' \subseteq Doubtful
  <2>1. Clearing' \subseteq Clearing
    BY <1>c, <1>d DEF Clearing
  <2> QED
    BY <1>c, <1>d, <2>1 DEF Doubtful
<1>4. Known'
  BY <1>3 DEF IInv, Known, Showing, Covers, Live
<1>5. TxFollows' /\ TxFull'
  BY <1>g, <1>h DEF TxFollows, TxFull, Covers, Live
<1>6. ASSUME NEW q \in Procs PROVE JobOK(q)'
  <2>1. JobOK(q)
    BY DEF IInv
  <2>2. CASE q = p
    <3>1. \A s \in j.mine : markers[s] \in Showing => Covers(tx'.rows, markers[s])
      BY <1>h
    <3> QED
      BY <1>d, <1>e, <1>g, <2>1, <2>2, <3>1, SMTT(30) DEF JobOK, Covers, Live, Referenced
  <2>3. CASE q # p
    BY <1>b, <1>c, <1>e, <2>1, <2>3 DEF JobOK, Holding
  <2> QED
    BY <2>2, <2>3
<1> QED
  BY <1>1, <1>4, <1>5, <1>6 DEF IInv

-----------------------------------------------------------------------------
(* The steps of an update                                                  *)

LEMMA MarkKeeps ==
  ASSUME IInv, NEW p \in Procs, Mark(p)
  PROVE  IInv'
<1> PICK s \in Slots :
      /\ markers[s] = None /\ \A q \in Procs : s \notin job[q].pending
      /\ markers' = [markers EXCEPT ![s] = job[p].id]
      /\ Goto(p, "write", [job[p] EXCEPT !.mine = @ \union {s}])
  BY DEF Mark
<1> DEFINE j == [job[p] EXCEPT !.mine = @ \union {s}]
<1>u. pc[p] = "mark" /\ UNCHANGED <<records, blobs, db, tx, lock, used, lost, spent>>
  BY DEF Mark
<1>t. job[p] \in Job /\ job[p].mine \in SUBSET Slots /\ job[p].mine \union {s} \in SUBSET Slots
  BY JobFields DEF IInv, TypeOK
<1>j. /\ j \in Job /\ j.op = job[p].op /\ j.id = job[p].id /\ j.rec = job[p].rec
      /\ j.mine = job[p].mine \union {s} /\ j.pending = job[p].pending
      /\ j.missing = job[p].missing /\ j.after = job[p].after
  BY <1>t DEF Job
<1>k. Ready("write", j)
  BY <1>j, <1>u DEF IInv, JobOK, Ready
<1> HIDE DEF j
<1>a. /\ pc' = [pc EXCEPT ![p] = "write"] /\ pc \in [Procs -> Pcs]
      /\ job' = [job EXCEPT ![p] = j] /\ job \in [Procs -> Job]
  BY DEF IInv, TypeOK, Goto, j
<1>b. lock = p /\ \A q \in Procs : pc[q] \in Holding <=> q = p
  BY <1>u DEF IInv, TypeOK, Holding
<1>c. \A q \in Procs : q # p => pc'[q] = pc[q] /\ job'[q] = job[q]
  BY <1>a
<1>d. pc'[p] = "write" /\ job'[p] = j
  BY <1>a
<1>e. \A q \in Procs : q # p => job[q].mine = {}
  BY <1>b DEF IInv, JobOK, Holding
<1>m. /\ markers \in [Slots -> Ids \union {None, Torn}]
      /\ job[p].id \in Ids /\ job[p].id # None
      /\ markers'[s] = job[p].id
      /\ \A t \in Slots : t # s => markers'[t] = markers[t]
  BY <1>u DEF IInv, TypeOK, JobOK
<1>1. TypeOK'
  BY <1>a, <1>b, <1>c, <1>d, <1>j, <1>m, <1>u DEF IInv, TypeOK, Holding, Pcs, Waiting
<1>2. PixelsKept'
  BY <1>u DEF IInv, PixelsKept, Live
<1>3. Doubtful' \subseteq Doubtful \union {s}
  <2>1. Clearing' \subseteq Clearing
    BY <1>c, <1>d DEF Clearing
  <2>2. j.op # "evict" => j.mine = {s}
    BY <1>u, <1>j DEF IInv, JobOK
  <2> QED
    BY <1>c, <1>d, <1>b, <2>1, <2>2 DEF Doubtful, Holding
<1>4. Known'
  BY <1>3, <1>m, <1>u DEF IInv, Known, Showing, Covers, Live
<1>5. TxFollows' /\ TxFull'
  <2>1. Condemned' = Condemned
    BY <1>c, <1>d, <1>j, <1>u DEF Condemned
  <2> QED
    BY <1>c, <1>d, <1>j, <1>u, <2>1 DEF IInv, TxFollows, TxFull, Showing, Covers, Live
<1>6. ASSUME NEW q \in Procs PROVE JobOK(q)'
  <2>1. JobOK(q)
    BY DEF IInv
  <2>2. CASE q = p
    <3>1. \A t \in j.mine : markers'[t] # None /\ (j.op # "evict" => markers'[t] = j.id)
      BY <1>j, <1>m, <1>t, <1>u, <2>1, <2>2 DEF JobOK
    <3>2. \A r \in Procs : j.mine \intersect job'[r].pending = {}
      BY <1>c, <1>d, <1>j, <2>1, <2>2 DEF JobOK
    <3> QED
      BY <1>d, <1>j, <1>k, <1>m, <1>u, <2>1, <2>2, <3>1, <3>2 DEF JobOK, Live
  <2>3. CASE q # p
    BY <1>b, <1>c, <1>e, <2>1, <2>3 DEF JobOK, Holding
  <2> QED
    BY <2>2, <2>3
<1> QED
  BY <1>1, <1>2, <1>4, <1>5, <1>6 DEF IInv

\* After the sidecar is written, its marker says so until the index does.
LEMMA WriteKeeps ==
  ASSUME IInv, NEW p \in Procs, Write(p)
  PROVE  IInv'
<1> DEFINE j == job[p]
           upserted == [tx EXCEPT !.rows[j.id] = j.rec]
<1>u. /\ pc[p] = "write" /\ records' = [records EXCEPT ![j.id] = j.rec]
      /\ UNCHANGED <<blobs, db, markers, lock, used, lost, spent>>
  BY DEF Write
<1>t. /\ j \in Job /\ j.rec \in Record \union {None} /\ j.hash \in Hashes \union {NoImage}
      /\ j.mine \in SUBSET Slots /\ j.id \in Ids
      /\ tx \in Index /\ records \in [Ids -> Record \union {None}]
  BY <1>u, JobFields DEF IInv, TypeOK, JobOK
<1>i. /\ upserted \in Index /\ upserted.rows = [tx.rows EXCEPT ![j.id] = j.rec]
      /\ \A S \in SUBSET Hashes : /\ [upserted EXCEPT !.sized = S] \in Index
                                  /\ [upserted EXCEPT !.sized = S].rows = upserted.rows
      /\ upserted.sized \subseteq Hashes
  BY <1>t DEF Index
<1>w. PICK l \in {"unlink", "next", "commit"} :
        /\ Goto(p, l, j)
        /\ \/ l = "unlink" /\ tx' = tx /\ j.op \in {"delete", "evict"} /\ ~Live(j.rec)
           \/ l = "next" /\ tx' = upserted /\ j.op = "evict"
           \/ /\ l = "commit" /\ tx' \in Index /\ tx'.rows = upserted.rows
              /\ j.op # "evict"
  <2>1. CASE j.op = "delete" \/ (j.op = "evict" /\ j.rec.evicted)
    <3>1. tx' = tx /\ Goto(p, "unlink", j)
      BY <2>1, Zenon DEF Write
    <3>2. ~Live(j.rec)
      BY <1>u, <2>1 DEF IInv, JobOK, Live
    <3> QED
      BY <1>u, <2>1, <3>1, <3>2
  <2>2. CASE j.op = "evict" /\ ~j.rec.evicted
    BY <2>2 DEF Write
  <2>3. CASE j.op = "insert"
    <3>1. tx' = [upserted EXCEPT !.sized = @ \union ({j.hash} \ {NoImage})] /\ Goto(p, "commit", j)
      BY <2>3 DEF Write
    <3>2. upserted.sized \union ({j.hash} \ {NoImage}) \in SUBSET Hashes
      BY <1>i, <1>t
    <3> QED
      BY <2>3, <3>1, <3>2, <1>i
  <2>4. CASE j.op = "repair"
    <3>1. tx' = [upserted EXCEPT !.sized = @ \ {j.hash}] /\ Goto(p, "commit", j)
      BY <2>4 DEF Write
    <3> QED
      BY <2>4, <3>1, <1>i
  <2>5. CASE j.op \notin {"delete", "evict", "insert", "repair"}
    BY <2>5, <1>i DEF Write
  <2> QED
    BY <2>1, <2>2, <2>3, <2>4, <2>5, <1>t
<1>a. /\ pc' = [pc EXCEPT ![p] = l] /\ pc \in [Procs -> Pcs] /\ l \in Holding /\ l \in Pcs
      /\ job' = job /\ job \in [Procs -> Job]
  BY <1>w DEF IInv, TypeOK, Goto, Holding, Pcs
<1>b. lock = p /\ \A q \in Procs : pc[q] \in Holding <=> q = p
  BY <1>u DEF IInv, TypeOK, Holding
<1>c. pc'[p] = l /\ \A q \in Procs : q # p => pc'[q] = pc[q]
  BY <1>a
<1>e. \A q \in Procs : (q # p => job[q].mine = {}) /\ job[q].missing = {}
  BY <1>b, <1>u DEF IInv, JobOK, Holding
<1>f. Condemned = {} /\ Condemned' = {}
  BY <1>a, <1>e DEF Condemned
<1>o. JobOK(p)
  BY DEF IInv
<1>r. /\ records'[j.id] = j.rec /\ \A id \in Ids : id # j.id => records'[id] = records[id]
      /\ records' \in [Ids -> Record \union {None}]
  BY <1>u, <1>t
<1>x. /\ tx' \in Index
      /\ \A id \in Ids : id # j.id => tx'.rows[id] = tx.rows[id]
      /\ Live(j.rec) => tx'.rows[j.id] = j.rec
  <2>1. tx.rows \in [Ids -> Record \union {None}]
    BY <1>t DEF Index
  <2>2. CASE l = "unlink"
    BY <1>w, <1>t, <1>u, <1>o, <2>2 DEF JobOK, Live
  <2>3. CASE l # "unlink"
    BY <1>w, <1>i, <1>t, <2>1, <2>3, ZenonT(60)
  <2> QED
    BY <2>2, <2>3
<1> HIDE DEF j, upserted
<1>1. TypeOK'
  BY <1>a, <1>b, <1>c, <1>r, <1>u, <1>x DEF IInv, TypeOK
<1>2. PixelsKept'
  BY <1>r, <1>u, <1>o DEF IInv, PixelsKept, JobOK, Live, j
<1>3. Doubtful' \subseteq Doubtful /\ \A s \in j.mine : s \notin Doubtful'
  <2>1. Clearing' \subseteq Clearing
    BY <1>a, <1>c, <1>w DEF Clearing
  <2>2. \A s \in j.mine : s \notin Clearing
    BY <1>o DEF JobOK, Clearing, j
  <2>3. Doubtful' = Clearing'
    BY <1>a, <1>b, <1>c, <1>w DEF Doubtful, Holding
  <2> QED
    BY <2>1, <2>2, <2>3 DEF Doubtful
<1>4. Known'
  <2> SUFFICES ASSUME NEW id \in Showing'
               PROVE  Covers(db.rows, id)' \/ \E s \in Slots \ Doubtful' : markers'[s] = id
    BY DEF Known
  <2>1. CASE id = j.id
    <3>1. PICK s \in j.mine : markers[s] = j.id
      BY <1>o, <1>u DEF JobOK, j
    <3> QED
      BY <1>3, <1>t, <1>u, <2>1, <3>1
  <2>2. CASE id # j.id
    BY <1>3, <1>r, <1>u, <2>2 DEF IInv, Known, Showing, Covers, Live
  <2> QED
    BY <2>1, <2>2
<1>5. TxFollows' /\ TxFull'
  <2>1. \A id \in Showing' : id # j.id => id \in Showing
    BY <1>r DEF Showing, Live
  <2>2. \A id \in Showing' : id = j.id => Covers(tx.rows, id)'
    BY <1>r, <1>x DEF Showing, Covers, Live
  <2>3. \A id \in Showing' : id # j.id /\ Covers(tx.rows, id) => Covers(tx.rows, id)'
    BY <1>r, <1>x DEF Showing, Covers, Live
  <2>4. \A id \in Showing' : id # j.id /\ Covers(db.rows, id)' => Covers(db.rows, id)
    BY <1>r, <1>u DEF Showing, Covers, Live
  <2>5. TxFollows'
    BY <1>f, <2>1, <2>2, <2>3, <2>4 DEF IInv, TxFollows
  <2>6. TxFull'
    BY <1>a, <1>f, <1>u, <2>1, <2>2, <2>3 DEF IInv, TxFull
  <2> QED
    BY <2>5, <2>6
<1>6. ASSUME NEW q \in Procs PROVE JobOK(q)'
  <2>1. JobOK(q)
    BY DEF IInv
  <2>2. CASE q = p
    <3>1. l = "commit" => \A s \in j.mine : markers[s] = j.id
      BY <1>o, <1>u, <1>w DEF JobOK, j
    <3>2. l = "unlink" => ~Live(j.rec) /\ ~Live(records'[j.id])
      BY <1>o, <1>r, <1>u, <1>w DEF JobOK, Live, j
    <3>3. l = "commit" => \A s \in j.mine : markers'[s] \in Showing' => Covers(tx.rows, markers[s])'
      BY <1>r, <1>u, <1>x, <3>1 DEF Showing, Covers, Live
    <3>4. j.missing = {} /\ l \notin {"rewrite", "write", "mark", "collect", "update"}
      BY <1>e DEF j
    <3>5. Ready(l, j)
      BY <1>o, <1>u, <3>4 DEF JobOK, Ready, j
    <3> QED
      BY <1>a, <1>c, <1>o, <1>u, <1>w, <2>2, <3>2, <3>3, <3>4, <3>5 DEF JobOK, j
  <2>3. CASE q # p
    BY <1>a, <1>b, <1>c, <1>e, <1>u, <2>1, <2>3 DEF JobOK, Holding
  <2> QED
    BY <2>2, <2>3
<1> QED
  BY <1>1, <1>2, <1>4, <1>5, <1>6 DEF IInv

\* Committing may drop markers: those of the call itself, whose sidecars its
\* rows follow, and those it found, after which its rows know everything.
LEMMA CommitKeeps ==
  ASSUME IInv, NEW p \in Procs, Commit(p)
  PROVE  IInv'
<1> DEFINE found == job[p].pending \union job[p].mine
           j == [job[p] EXCEPT !.pending = found, !.mine = {}]
<1>u. /\ pc[p] = "commit" /\ db' = tx /\ tx' = tx /\ lock' = None
      /\ Goto(p, "clear", j) /\ UNCHANGED <<records, blobs, markers, used, lost, spent>>
  BY DEF Commit, KeepsFiles
<1>t. job[p] \in Job /\ found \in SUBSET Slots
  BY JobFields DEF IInv, TypeOK
<1>j. /\ j \in Job /\ j.op = job[p].op /\ j.mine = {} /\ j.pending = found
      /\ j.missing = job[p].missing
      /\ j.after = job[p].after /\ j.rec = job[p].rec /\ j.id = job[p].id
  <2> HIDE DEF found
  <2> QED
    BY <1>t DEF Job
<1> HIDE DEF j
<1>a. /\ pc' = [pc EXCEPT ![p] = "clear"] /\ pc \in [Procs -> Pcs]
      /\ job' = [job EXCEPT ![p] = j] /\ job \in [Procs -> Job]
  BY <1>u DEF IInv, TypeOK, Goto
<1>b. lock = p /\ \A q \in Procs : pc[q] \in Holding <=> q = p
  BY <1>u DEF IInv, TypeOK, Holding
<1>c. /\ pc'[p] = "clear" /\ job'[p] = j /\ p # None
      /\ \A q \in Procs : q # p => pc'[q] = pc[q] /\ job'[q] = job[q]
  BY <1>a
<1>e. \A q \in Procs : (q # p => job[q].mine = {}) /\ job[q].missing = {}
  BY <1>b, <1>u DEF IInv, JobOK, Holding
<1>f. Condemned = {}
  BY <1>e DEF Condemned
<1>1. TypeOK'
  BY <1>a, <1>b, <1>c, <1>j, <1>u DEF IInv, TypeOK, Holding, Pcs
<1>2. PixelsKept'
  BY <1>u DEF IInv, PixelsKept, Live
<1>3. Doubtful' \subseteq Doubtful \union found
  <2>1. Clearing' \subseteq Clearing \union found
    BY <1>c, <1>j DEF Clearing
  <2> QED
    BY <1>b, <1>c, <2>1 DEF Doubtful, Holding
<1>4. Known'
  <2> SUFFICES ASSUME NEW id \in Showing
               PROVE  Covers(tx.rows, id) \/ \E s \in Slots \ Doubtful' : markers[s] = id
    BY <1>u DEF Known, Showing, Covers, Live
  <2>1. CASE Covers(db.rows, id)
    BY <1>f, <2>1 DEF IInv, TxFollows
  <2>2. CASE ~Covers(db.rows, id)
    <3>1. PICK s \in Slots \ Doubtful : markers[s] = id
      BY <2>2 DEF IInv, Known
    <3>2. CASE s \in job[p].mine
      BY <1>u, <3>1, <3>2 DEF IInv, JobOK
    <3>3. CASE s \in job[p].pending
      BY <1>b, <1>f, <3>3 DEF IInv, TxFull
    <3>4. CASE s \notin found
      BY <1>3, <3>1, <3>4
    <3> QED
      BY <3>2, <3>3, <3>4
  <2> QED
    BY <2>1, <2>2
<1>5. TxFollows' /\ TxFull'
  BY <1>c, <1>u DEF TxFollows, TxFull, Covers, Live
<1>6. ASSUME NEW q \in Procs PROVE JobOK(q)'
  <2>1. JobOK(q)
    BY DEF IInv
  <2>2. CASE q = p
    <3>1. Ready("clear", j)
      BY <1>j, <1>u, <2>1, <2>2 DEF JobOK, Ready
    <3> QED
      BY <1>c, <1>e, <1>j, <2>2, <3>1 DEF JobOK
  <2>3. CASE q # p
    BY <1>b, <1>c, <1>e, <2>1, <2>3 DEF JobOK, Holding
  <2> QED
    BY <2>2, <2>3
<1> QED
  BY <1>1, <1>2, <1>4, <1>5, <1>6 DEF IInv

LEMMA ClearKeeps ==
  ASSUME IInv, NEW p \in Procs, Clear(p)
  PROVE  IInv'
<1> PICK s \in job[p].pending :
      /\ Goto(p, "clear", [job[p] EXCEPT !.pending = @ \ {s}])
      /\ \/ markers' = [markers EXCEPT ![s] = None] /\ UNCHANGED spent
         \/ Fault /\ UNCHANGED markers
  BY DEF Clear
<1> DEFINE j == [job[p] EXCEPT !.pending = @ \ {s}]
<1>u. pc[p] = "clear" /\ UNCHANGED <<records, blobs, db, tx, lock, used, lost>>
  BY DEF Clear
<1>j. /\ j \in Job /\ j.op = job[p].op /\ j.mine = job[p].mine
      /\ j.pending = job[p].pending \ {s} /\ j.missing = job[p].missing
      /\ j.after = job[p].after /\ j.rec = job[p].rec /\ j.id = job[p].id
      /\ s \in Slots
  BY JobFields DEF IInv, TypeOK, Job
<1> HIDE DEF j
<1>a. /\ pc' = pc /\ pc \in [Procs -> Pcs]
      /\ job' = [job EXCEPT ![p] = j] /\ job \in [Procs -> Job]
  BY <1>u DEF IInv, TypeOK, Goto, j
<1>b. p # lock /\ \A q \in Procs : pc[q] \in Holding <=> lock = q
  BY <1>u DEF IInv, TypeOK, Holding
<1>c. /\ job'[p] = j
      /\ \A q \in Procs : q # p => job'[q] = job[q]
  BY <1>a
<1>e. job[p].mine = {} /\ job[p].missing = {}
  BY <1>u DEF IInv, JobOK
<1>m. /\ markers' \in [Slots -> Ids \union {None, Torn}]
      /\ \A t \in Slots : t # s => markers'[t] = markers[t]
  BY <1>j DEF IInv, TypeOK
<1>s. spent' \in [crash : Nat, fault : Nat, blob : Nat, record : Nat]
  BY DEF Fault, IInv, TypeOK
<1>1. TypeOK'
  BY <1>a, <1>b, <1>c, <1>j, <1>m, <1>s, <1>u DEF IInv, TypeOK
<1>2. PixelsKept'
  BY <1>u DEF IInv, PixelsKept, Live
<1>3. Doubtful' \subseteq Doubtful /\ s \in Doubtful
  <2>1. Clearing' \subseteq Clearing /\ s \in Clearing
    BY <1>a, <1>c, <1>j, <1>u DEF Clearing
  <2> QED
    BY <1>a, <1>c, <1>e, <1>j, <2>1 DEF Doubtful
<1>4. Known'
  BY <1>3, <1>m, <1>u DEF IInv, Known, Showing, Covers, Live
<1>5. TxFollows' /\ TxFull'
  <2>1. Condemned' = Condemned
    BY <1>b, <1>c, <1>u DEF Condemned
  <2>2. \A q \in Procs : lock = q => job'[q] = job[q]
    BY <1>b, <1>c
  <2> QED
    BY <1>u, <2>1, <2>2 DEF IInv, TxFollows, TxFull, Showing, Covers, Live
<1>6. ASSUME NEW q \in Procs PROVE JobOK(q)'
  <2>1. JobOK(q)
    BY DEF IInv
  <2>2. CASE q = p
    <3>1. Ready("clear", j)
      BY <1>j, <1>u, <2>1, <2>2 DEF JobOK, Ready
    <3> QED
      BY <1>a, <1>c, <1>e, <1>j, <1>u, <2>2, <3>1 DEF JobOK
  <2>3. CASE q # p
    <3>1. s \notin job[q].mine
      BY <2>1 DEF JobOK
    <3>2. \A t \in job[q].mine : t \in Slots /\ markers'[t] = markers[t]
      BY <1>m, <3>1, JobFields DEF IInv, TypeOK
    <3>3. \A r \in Procs : job'[r].pending \subseteq job[r].pending
      BY <1>c, <1>j
    <3> QED
      BY <1>a, <1>c, <1>u, <2>1, <2>3, <3>2, <3>3 DEF JobOK, Showing, Covers, Live, Referenced
  <2> QED
    BY <2>2, <2>3
<1> QED
  BY <1>1, <1>2, <1>4, <1>5, <1>6 DEF IInv

LEMMA RewriteKeeps ==
  ASSUME IInv, NEW p \in Procs, Rewrite(p)
  PROVE  IInv'
<1> PICK id \in Ids :
      /\ Oldest(id, job[p].missing)
      /\ records' = [records EXCEPT ![id] = tx.rows[id]]
      /\ Goto(p, IF job[p].missing = {id} THEN "commit" ELSE "rewrite",
              [job[p] EXCEPT !.missing = @ \ {id}])
  BY DEF Rewrite
<1> DEFINE j == [job[p] EXCEPT !.missing = @ \ {id}]
           l == IF job[p].missing = {id} THEN "commit" ELSE "rewrite"
<1>u. pc[p] = "rewrite" /\ UNCHANGED <<blobs, db, tx, markers, lock, used, lost, spent>>
  BY DEF Rewrite
<1>j. /\ j \in Job /\ j.op = job[p].op /\ j.mine = job[p].mine
      /\ j.pending = job[p].pending /\ j.missing = job[p].missing \ {id}
      /\ j.after = job[p].after /\ j.rec = job[p].rec /\ j.id = job[p].id
  BY JobFields DEF IInv, TypeOK, Job
<1>l. l \in Holding /\ l \in Pcs /\ l \in {"commit", "rewrite"}
  BY DEF Holding, Pcs
<1>n. j.missing # {} => l = "rewrite"
  BY <1>j DEF Oldest
<1>a. /\ pc' = [pc EXCEPT ![p] = l] /\ pc \in [Procs -> Pcs]
      /\ job' = [job EXCEPT ![p] = j] /\ job \in [Procs -> Job]
      /\ records \in [Ids -> Record \union {None}]
      /\ tx.rows \in [Ids -> Record \union {None}]
  BY DEF IInv, TypeOK, Goto, Index
<1> HIDE DEF j, l
<1>b. lock = p /\ \A q \in Procs : pc[q] \in Holding <=> q = p
  BY <1>u DEF IInv, TypeOK, Holding
<1>c. /\ pc'[p] = l /\ job'[p] = j
      /\ \A q \in Procs : q # p => pc'[q] = pc[q] /\ job'[q] = job[q]
  BY <1>a
<1>e. \A q \in Procs : job[q].mine = {} /\ (q # p => job[q].missing = {})
  BY <1>b, <1>u DEF IInv, JobOK, Holding
<1>r. /\ ~Live(records'[id]) /\ \A other \in Ids : other # id => records'[other] = records[other]
      /\ records' \in [Ids -> Record \union {None}]
  BY <1>a, <1>u DEF IInv, JobOK, Oldest, Live
<1>w. Showing' \subseteq Showing \ {id}
  BY <1>r DEF Showing, Live
<1>v. \A other \in Showing' : /\ Covers(db.rows, other)' <=> Covers(db.rows, other)
                              /\ Covers(tx.rows, other)' <=> Covers(tx.rows, other)
  BY <1>r, <1>u, <1>w DEF Showing, Covers, Live
<1>1. TypeOK'
  BY <1>a, <1>b, <1>c, <1>j, <1>l, <1>r, <1>u DEF IInv, TypeOK
<1>2. PixelsKept'
  BY <1>r, <1>u DEF IInv, PixelsKept, Live
<1>3. Doubtful' \subseteq Doubtful
  <2>1. Clearing' \subseteq Clearing
    BY <1>c, <1>l DEF Clearing
  <2> QED
    BY <1>c, <1>l, <2>1 DEF Doubtful
<1>4. Known'
  BY <1>3, <1>u, <1>v, <1>w DEF IInv, Known
<1>5. TxFollows' /\ TxFull'
  <2>1. Condemned = job[p].missing /\ Condemned' = job[p].missing \ {id}
    BY <1>b, <1>c, <1>j, <1>u DEF Condemned
  <2>2. Showing' \ Condemned' \subseteq Showing \ Condemned
    BY <1>w, <2>1
  <2> QED
    BY <1>b, <1>c, <1>j, <1>u, <1>v, <2>2 DEF IInv, TxFollows, TxFull
<1>6. ASSUME NEW q \in Procs PROVE JobOK(q)'
  <2>1. JobOK(q)
    BY DEF IInv
  <2>2. CASE q = p
    <3>1. Ready(l, j)
      BY <1>j, <1>l, <1>u, <2>1, <2>2 DEF JobOK, Ready
    <3> QED
      BY <1>c, <1>e, <1>j, <1>l, <1>n, <1>u, <2>1, <2>2, <3>1 DEF JobOK
  <2>3. CASE q # p
    BY <1>b, <1>c, <1>e, <2>1, <2>3 DEF JobOK, Holding
  <2> QED
    BY <2>2, <2>3
<1> QED
  BY <1>1, <1>2, <1>4, <1>5, <1>6 DEF IInv

-----------------------------------------------------------------------------
(* Every action, by the lemma for its kind of step                         *)

\* the locals of a call that has found and done nothing yet
Fresh(j) == /\ j \in Job /\ j.mine = {} /\ j.pending = {} /\ j.missing = {}
            /\ j.after = "idle"

Spending == [crash : Nat, fault : Nat, blob : Nat, record : Nat]

LEMMA FreshWith ==
  ASSUME NEW j, Fresh(j)
  PROVE  /\ \A o \in {"none", "open", "insert", "update", "delete", "evict", "gc", "repair"} :
              Fresh([j EXCEPT !.op = o])
         /\ \A id \in Ids : Fresh([j EXCEPT !.id = id])
         /\ \A h \in Hashes \union {NoImage} : Fresh([j EXCEPT !.hash = h])
         /\ \A r \in Record : Fresh([j EXCEPT !.rec = r])
         /\ \A c \in Change : Fresh([j EXCEPT !.change = c]) /\ [j EXCEPT !.change = c].change = c
<1>1. ASSUME NEW o \in {"none", "open", "insert", "update", "delete", "evict", "gc", "repair"}
      PROVE  Fresh([j EXCEPT !.op = o])
  BY DEF Fresh, Job
<1>2. ASSUME NEW id \in Ids PROVE Fresh([j EXCEPT !.id = id])
  BY DEF Fresh, Job
<1>3. ASSUME NEW h \in Hashes \union {NoImage} PROVE Fresh([j EXCEPT !.hash = h])
  BY DEF Fresh, Job
<1>4. ASSUME NEW r \in Record PROVE Fresh([j EXCEPT !.rec = r])
  BY DEF Fresh, Job
<1>5. ASSUME NEW c \in Change
      PROVE  Fresh([j EXCEPT !.change = c]) /\ [j EXCEPT !.change = c].change = c
  BY DEF Fresh, Job
<1> QED
  BY <1>1, <1>2, <1>3, <1>4, <1>5

LEMMA FreshJobs ==
  /\ Fresh(NoJob)
  /\ \A o \in {"none", "open", "insert", "update", "delete", "evict", "gc", "repair"} :
       /\ Fresh([NoJob EXCEPT !.op = o])
       /\ \A id \in Ids : Fresh([NoJob EXCEPT !.op = o, !.id = id])
       /\ \A id \in Ids, h \in Hashes \union {NoImage} :
            Fresh([NoJob EXCEPT !.op = o, !.id = id, !.hash = h])
<1>1. Fresh(NoJob)
  BY NoJobTyped DEF Fresh, NoJob
<1> QED
  BY <1>1, FreshWith

\* such a call may go anywhere that asks nothing of its locals
LEMMA FreshReady ==
  ASSUME NEW j, Fresh(j), NEW l,
         l \notin {"insert", "update", "readBlob", "repair", "delete", "evict", "gc"}
  PROVE  Ready(l, j)
  BY DEF Fresh, Ready

LEMMA CallKeeps ==
  ASSUME IInv, NEW p \in Procs, Call(p)
  PROVE  IInv'
<1>1. /\ blobs \subseteq Hashes /\ lost \subseteq Hashes /\ used \subseteq Ids /\ spent \in Spending
      /\ records \in [Ids -> Record \union {None}]
  BY DEF IInv, TypeOK, Spending
<1>2. ASSUME NEW l \in {"count", "closed", "update", "delete", "evict", "gc", "readBlob", "insert"},
             NEW j, Fresh(j), Ready(l, j), pc[p] \in {"closed", "idle"},
             Goto(p, l, j), UNCHANGED <<records, db, tx, markers, lock, spent>>,
             used' \subseteq Ids, blobs' \subseteq Hashes, lost' \subseteq Hashes,
             blobs \union lost \subseteq blobs' \union lost'
      PROVE  IInv'
  BY <1>1, <1>2, LocalStep DEF Fresh, Spending, Holding, Pcs, Waiting
<1>3. CASE Open(p)
  BY <1>1, <1>2, <1>3, FreshJobs, FreshReady DEF Open, KeepsFiles
<1>4. CASE Close(p)
  BY <1>1, <1>2, <1>4, FreshJobs, FreshReady DEF Close, KeepsFiles
<1>5. CASE EvictCall(p)
  <2>1. Ready("evict", [NoJob EXCEPT !.op = "evict"])
    BY DEF Ready, NoJob
  <2> QED
    BY <1>1, <1>2, <1>5, <2>1, FreshJobs DEF EvictCall, KeepsFiles
<1>6. CASE CollectCall(p)
  <2>1. Ready("gc", [NoJob EXCEPT !.op = "gc"])
    BY DEF Ready, NoJob
  <2> QED
    BY <1>1, <1>2, <1>6, <2>1, FreshJobs DEF CollectCall, KeepsFiles
<1>7. ASSUME NEW id \in Ids, DeleteCall(p, id) PROVE IInv'
  <2>1. Ready("delete", [NoJob EXCEPT !.op = "delete", !.id = id])
    BY DEF Ready, NoJob
  <2> QED
    BY <1>1, <1>2, <1>7, <2>1, FreshJobs DEF DeleteCall, KeepsFiles
<1>8. ASSUME NEW id \in Ids, ReadRecord(p, id) PROVE IInv'
  <2>1. records[id].hash \in Hashes
    BY <1>1, <1>8 DEF ReadRecord, Live, Record
  <2>2. Fresh([NoJob EXCEPT !.op = "repair", !.id = id, !.hash = records[id].hash])
    BY <2>1, FreshJobs
  <2>3. Ready("readBlob", [NoJob EXCEPT !.op = "repair", !.id = id, !.hash = records[id].hash])
    BY DEF Ready, NoJob
  <2> QED
    BY <1>1, <1>2, <1>8, <2>2, <2>3 DEF ReadRecord, KeepsFiles
<1>9. ASSUME NEW id \in Ids, NEW h \in Hashes \union {NoImage}, NEW pinned \in BOOLEAN,
             NEW doc \in Docs, InsertCall(p, id, h, pinned, doc)
      PROVE  IInv'
  <2> DEFINE r == [hash |-> h, evicted |-> FALSE, pinned |-> pinned,
                   screen |-> FALSE, doc |-> doc]
             j == [NoJob EXCEPT !.op = "insert", !.id = id, !.hash = h, !.rec = r]
  <2>1. r \in Record
    BY DEF Record
  <2>2. Fresh(j)
    <3>1. Fresh([NoJob EXCEPT !.op = "insert", !.id = id, !.hash = h])
      BY FreshJobs
    <3> QED
      BY <2>1, <3>1, FreshWith
  <2>3. /\ Goto(p, "insert", j)
        /\ used' \subseteq Ids /\ blobs' \subseteq Hashes /\ lost' \subseteq Hashes
        /\ blobs \union lost \subseteq blobs' \union lost'
        /\ UNCHANGED <<records, db, tx, markers, lock, spent>> /\ pc[p] = "idle"
    BY <1>1, <1>9 DEF InsertCall, Goto
  <2>4. Ready("insert", j)
    BY DEF Ready, NoJob, Live
  <2> HIDE DEF j
  <2> QED
    BY <1>2, <2>2, <2>3, <2>4
<1>10. ASSUME NEW id \in Ids, NEW c \in Change, UpdateCall(p, id, c) PROVE IInv'
  <2> DEFINE j == [NoJob EXCEPT !.op = "update", !.id = id, !.change = c]
  <2>1. Fresh(j) /\ j.change = c
    <3>1. Fresh([NoJob EXCEPT !.op = "update", !.id = id])
      BY FreshJobs
    <3> QED
      BY <3>1, FreshWith
  <2>2. pc[p] = "idle" /\ Goto(p, "update", j) /\ UNCHANGED <<db, tx, lock>> /\ KeepsFiles
    BY <1>10 DEF UpdateCall
  <2>3. Ready("update", j)
    BY DEF Ready, NoJob
  <2> HIDE DEF j
  <2> QED
    BY <1>1, <1>2, <2>1, <2>2, <2>3 DEF KeepsFiles
<1> QED
  BY <1>3, <1>4, <1>5, <1>6, <1>7, <1>8, <1>9, <1>10 DEF Call

\* what disappears from outside takes no user of pixels from the index
LEMMA LossKeeps ==
  ASSUME IInv, \/ \E h \in Hashes : LoseBlob(h)
               \/ \E id \in Ids : LoseRecord(id)
  PROVE  IInv'
<1>1. ASSUME NEW h \in Hashes, LoseBlob(h) PROVE IInv'
  <2>1. /\ UNCHANGED <<records, db, tx, markers, lock, pc, job, used>>
        /\ blobs' \union lost' = blobs \union lost
        /\ blobs' \subseteq Hashes /\ lost' \subseteq Hashes /\ spent' \in Spending
    BY <1>1 DEF LoseBlob, IInv, TypeOK, Spending
  <2>2. TypeOK'
    BY <2>1 DEF IInv, TypeOK, Spending
  <2>3. PixelsKept' /\ Known' /\ TxFollows' /\ TxFull'
    BY <2>1 DEF IInv, PixelsKept, Known, TxFollows, TxFull, Showing, Covers, Condemned,
                Doubtful, Clearing, Live
  <2>4. \A q \in Procs : JobOK(q)'
    BY <2>1 DEF IInv, JobOK, Showing, Covers, Live, Referenced
  <2> QED
    BY <2>2, <2>3, <2>4 DEF IInv
<1>2. ASSUME NEW id \in Ids, LoseRecord(id) PROVE IInv'
  <2>1. /\ UNCHANGED <<blobs, db, tx, markers, lock, pc, job, used, lost>>
        /\ records' = [records EXCEPT ![id] = None]
        /\ records \in [Ids -> Record \union {None}] /\ spent' \in Spending
    BY <1>2 DEF LoseRecord, IInv, TypeOK, Spending
  <2>2. /\ ~Live(records'[id]) /\ \A other \in Ids : other # id => records'[other] = records[other]
        /\ \A other \in Ids : Live(records'[other]) => records'[other] = records[other]
    BY <2>1 DEF Live
  <2>3. TypeOK'
    BY <2>1 DEF IInv, TypeOK, Spending
  <2>4. PixelsKept'
    BY <2>1, <2>2 DEF IInv, PixelsKept
  <2>5. /\ Showing' \subseteq Showing
        /\ \A other \in Showing' : /\ Covers(db.rows, other)' <=> Covers(db.rows, other)
                                   /\ Covers(tx.rows, other)' <=> Covers(tx.rows, other)
    BY <2>1, <2>2 DEF Showing, Covers, Live
  <2>6. Condemned' = Condemned /\ Doubtful' = Doubtful
    BY <2>1 DEF Condemned, Doubtful, Clearing
  <2>7. Known' /\ TxFollows' /\ TxFull'
    BY <2>1, <2>5, <2>6 DEF IInv, Known, TxFollows, TxFull
  <2>8. ASSUME NEW q \in Procs PROVE JobOK(q)'
    <3>1. JobOK(q)
      BY DEF IInv
    <3>2. pc[q] = "commit" =>
            \A s \in job[q].mine : markers[s] \in Showing' => Covers(tx.rows, markers[s])'
      <4> SUFFICES ASSUME pc[q] = "commit", NEW s \in job[q].mine, markers[s] \in Showing'
                   PROVE  Covers(tx.rows, markers[s])'
        BY <2>1
      <4> QED
        BY <2>1, <2>5, <3>1 DEF JobOK
    <3>4. pc[q] = "unlink" => ~Live(records'[job[q].id])
      <4>1. CASE job[q].id = id
        BY <2>2, <4>1
      <4>2. CASE job[q].id # id
        BY <2>1, <3>1, <4>2 DEF JobOK
      <4> QED
        BY <4>1, <4>2
    <3> QED
      BY <2>1, <3>1, <3>2, <3>4 DEF JobOK, Live, Referenced
  <2> QED
    BY <2>3, <2>4, <2>7, <2>8 DEF IInv
<1> QED
  BY <1>1, <1>2

LEMMA FailsHoldingKeeps ==
  ASSUME IInv, NEW p \in Procs, lock = p, FailsHolding(p),
         UNCHANGED <<records, blobs, db, used, lost>>, spent' \in Spending,
         \/ UNCHANGED markers
         \/ \E s \in Slots : markers[s] = None /\ markers' = [markers EXCEPT ![s] = Torn]
  PROVE  IInv'
<1>1. job[p].op \in {"none", "open", "insert", "update", "delete", "evict", "gc", "repair"}
  BY JobFields DEF IInv, TypeOK
<1>2. PICK j \in Job, l \in {"count", "closed", "idle"} : Fresh(j) /\ Goto(p, l, j)
  <2>1. CASE job[p].mine # {}
    <3>1. Fresh([NoJob EXCEPT !.op = job[p].op]) /\ Goto(p, "count", [NoJob EXCEPT !.op = job[p].op])
      <4>1. Fresh([NoJob EXCEPT !.op = job[p].op])
        BY <1>1, FreshJobs
      <4>2. Goto(p, "count", [NoJob EXCEPT !.op = job[p].op])
        BY <2>1 DEF FailsHolding, Recover
      <4> QED
        BY <4>1, <4>2
    <3> QED
      BY <3>1 DEF Fresh
  <2>2. CASE job[p].mine = {}
    <3>1. Fresh(NoJob) /\ (Goto(p, "closed", NoJob) \/ Goto(p, "idle", NoJob))
      <4>1. Fails(p)
        BY <2>2 DEF FailsHolding
      <4> QED
        BY <4>1, FreshJobs DEF Fails
    <3> QED
      BY <3>1 DEF Fresh
  <2> QED
    BY <2>1, <2>2
<1> QED
  BY <1>2, FreshReady, DropTransaction DEF FailsHolding, Rollback, Fresh, Spending, Pcs, Holding, Waiting

LEMMA FailureKeeps ==
  ASSUME IInv, NEW p \in Procs, Failure(p)
  PROVE  IInv'
<1>1. /\ blobs \subseteq Hashes /\ lost \subseteq Hashes /\ used \subseteq Ids
      /\ spent \in Spending /\ job[p] \in Job
      /\ pc[p] \in Holding <=> lock = p
  BY DEF IInv, TypeOK, Spending
<1>2. Fault => spent' \in Spending
  BY <1>1 DEF Fault, Spending
<1>3. CASE MarkFails(p)
  BY <1>1, <1>2, <1>3, FailsHoldingKeeps DEF MarkFails, Holding
<1>4. CASE CommitFails(p)
  BY <1>1, <1>2, <1>4, FailsHoldingKeeps DEF CommitFails, Holding
<1>5. CASE UnlinkFails(p)
  BY <1>1, <1>2, <1>5, FailsHoldingKeeps DEF UnlinkFails, Holding
<1>6. CASE RewriteFails(p)
  BY <1>1, <1>2, <1>6, FailsHoldingKeeps DEF RewriteFails, Holding
<1>7. CASE CandidateFails(p)
  BY <1>1, <1>2, <1>7, FailsHoldingKeeps DEF CandidateFails, Holding
<1>8. CASE CollectFails(p)
  BY <1>1, <1>2, <1>8, FailsHoldingKeeps DEF CollectFails, Holding
<1>9. CASE WriteFails(p)
  <2>1. lock = p /\ Rollback /\ UNCHANGED <<records, blobs, db, markers, used, lost>> /\ pc[p] = "write"
    BY <1>1, <1>9 DEF WriteFails, Holding
  <2>2. CASE job[p].op = "evict"
    <3>1. Fresh([NoJob EXCEPT !.op = job[p].op]) /\ Goto(p, "count", [NoJob EXCEPT !.op = job[p].op])
      BY <1>9, <2>2, FreshJobs DEF WriteFails, Recover
    <3> DEFINE j == [NoJob EXCEPT !.op = job[p].op]
    <3> HIDE DEF j
    <3>2. Fresh(j) /\ Goto(p, "count", j)
      BY <3>1 DEF j
    <3> QED
      BY <1>2, <1>9, <2>1, <3>2, FreshReady, DropTransaction
      DEF WriteFails, Rollback, Fresh, Spending, Pcs, Holding, Waiting
  <2>3. CASE job[p].op # "evict"
    <3> DEFINE j == [job[p] EXCEPT !.pending = job[p].mine, !.mine = {}]
    <3>1. /\ j \in Job /\ j.mine = {} /\ j.pending = job[p].mine /\ j.missing = job[p].missing
          /\ j.after = job[p].after /\ j.op = job[p].op /\ j.rec = job[p].rec /\ j.id = job[p].id
      BY <1>1, JobFields DEF Job
    <3>2. Goto(p, "clear", j)
      BY <1>9, <2>3 DEF WriteFails
    <3>3. job[p].missing = {}
      BY <2>1 DEF IInv, JobOK
    <3>4. Ready("clear", j)
      BY <1>1, <2>1, <3>1 DEF IInv, JobOK, Ready
    <3> HIDE DEF j
    <3> QED
      BY <1>2, <1>9, <2>1, <2>3, <3>1, <3>2, <3>3, <3>4, DropTransaction
      DEF WriteFails, Rollback, Spending, Pcs, Holding, Waiting
  <2> QED
    BY <2>2, <2>3
<1>10. CASE Crash(p)
  <2>1. /\ Fresh(NoJob) /\ Goto(p, "closed", NoJob) /\ spent' \in Spending
        /\ UNCHANGED <<records, blobs, db, used, lost>>
        /\ \/ UNCHANGED markers
           \/ /\ pc[p] = "mark"
              /\ \E s \in Slots : markers[s] = None /\ markers' = [markers EXCEPT ![s] = Torn]
    <3>1. Fresh(NoJob)
      BY FreshJobs
    <3>2. spent' \in Spending
      BY <1>1, <1>10 DEF Crash, Spending
    <3> QED
      BY <1>10, <3>1, <3>2, Zenon DEF Crash
  <2>2. CASE lock = p
    <3>1. lock' = None /\ tx' = db
      BY <1>10, <2>2 DEF Crash, Rollback
    <3> DEFINE j == NoJob
    <3> HIDE DEF j
    <3>2. Fresh(j) /\ Goto(p, "closed", j)
      BY <2>1 DEF j
    <3> QED
      BY <2>1, <2>2, <3>1, <3>2, FreshReady, DropTransaction
      DEF Fresh, Spending, Pcs, Holding, Waiting
  <2>3. CASE lock # p
    <3>1. pc[p] \notin Holding /\ UNCHANGED <<lock, tx, markers>>
      BY <1>1, <1>10, <2>1, <2>3 DEF Crash, Holding
    <3> QED
      BY <1>1, <2>1, <3>1, FreshReady, LocalStep DEF Fresh, Spending, Pcs, Holding, Waiting
  <2> QED
    BY <2>2, <2>3
<1> QED
  BY <1>3, <1>4, <1>5, <1>6, <1>7, <1>8, <1>9, <1>10 DEF Failure

-----------------------------------------------------------------------------
(* What a transaction begins with                                          *)

LEMMA IndexWith ==
  ASSUME NEW n \in Index
  PROVE  /\ \A b \in BOOLEAN : /\ [n EXCEPT !.booted = b] \in Index
                               /\ [n EXCEPT !.booted = b].rows = n.rows
         /\ \A S \in SUBSET Hashes : /\ [n EXCEPT !.sized = S] \in Index
                                     /\ [n EXCEPT !.sized = S].rows = n.rows
         /\ \A r \in [Ids -> Record \union {None}] :
              [n EXCEPT !.rows = r] \in Index /\ [n EXCEPT !.rows = r].rows = r
         /\ n.rows \in [Ids -> Record \union {None}]
         /\ n.sized \subseteq Hashes /\ n.booted \in BOOLEAN
<1>1. n.rows \in [Ids -> Record \union {None}] /\ n.sized \subseteq Hashes /\ n.booted \in BOOLEAN
  BY DEF Index
<1>2. \A b \in BOOLEAN : [n EXCEPT !.booted = b] \in Index /\ [n EXCEPT !.booted = b].rows = n.rows
  BY DEF Index
<1>3. \A S \in SUBSET Hashes : [n EXCEPT !.sized = S] \in Index /\ [n EXCEPT !.sized = S].rows = n.rows
  BY DEF Index
<1>4. \A r \in [Ids -> Record \union {None}] :
        [n EXCEPT !.rows = r] \in Index /\ [n EXCEPT !.rows = r].rows = r
  BY DEF Index
<1> QED
  BY <1>1, <1>2, <1>3, <1>4

\* Refreshing the captures the markers name makes the rows know every user.
LEMMA RepairedKnows ==
  ASSUME IInv, Repairable
  PROVE  Repaired \in Index /\ \A id \in Showing : Covers(Repaired.rows, id)
<1> DEFINE rows == [id \in Ids |-> IF id \in Named THEN records[id] ELSE db.rows[id]]
           gone == {h \in Hashes : /\ \E id \in Named \intersect Ids :
                                        records[id].evicted /\ records[id].hash = h
                                   /\ ~Referenced(rows, h)}
           kept == {h \in blobs : \E id \in Named \intersect Ids :
                                    Live(records[id]) /\ records[id].hash = h}
           sized == (db.sized \ gone) \union kept
<1>1. /\ db \in Index /\ records \in [Ids -> Record \union {None}] /\ blobs \subseteq Hashes
  BY DEF IInv, TypeOK
<1>2. rows \in [Ids -> Record \union {None}] /\ sized \in SUBSET Hashes
  BY <1>1, IndexWith
<1>3. Repaired = [rows |-> rows, sized |-> sized, booted |-> db.booted]
  BY DEF Repaired
<1>4. Repaired \in Index /\ Repaired.rows = rows
  <2>1. db.booted \in BOOLEAN
    BY <1>1, IndexWith
  <2> HIDE DEF rows, sized
  <2> QED
    BY <1>2, <1>3, <2>1 DEF Index
<1>5. ASSUME NEW id \in Showing PROVE Covers(rows, id)
  <2>1. CASE id \in Named
    BY <2>1 DEF Covers, Showing
  <2>2. CASE id \notin Named
    <3>1. \A s \in Slots : markers[s] # id
      BY <2>2 DEF Named, Listed, Showing, IInv, TypeOK
    <3>2. Covers(db.rows, id)
      BY <3>1 DEF IInv, Known
    <3> QED
      BY <2>2, <3>2 DEF Covers, Showing
  <2> QED
    BY <2>1, <2>2
<1> QED
  BY <1>4, <1>5

LEMMA UnmarkedKnows ==
  ASSUME IInv, Listed = {}
  PROVE  \A id \in Showing : Covers(db.rows, id)
  BY DEF IInv, TypeOK, Known, Listed, Showing

LEMMA PinsFromKnows ==
  ASSUME IInv, NEW unread \in Unread,
         \A id \in Ids \ unread : records[id] # None => db.rows[id] # None
  PROVE  /\ PinsFrom(db.rows, unread) \in [Ids -> Record \union {None}]
         /\ \A id \in Showing : Covers(db.rows, id) => Covers(PinsFrom(db.rows, unread), id)
<1>1. /\ db.rows \in [Ids -> Record \union {None}] /\ records \in [Ids -> Record \union {None}]
  BY IndexWith DEF IInv, TypeOK
<1> DEFINE with(r, s) == [r EXCEPT !.pinned = s.pinned, !.screen = s.screen]
<1>2. ASSUME NEW r \in Record, NEW s \in Record
      PROVE  /\ with(r, s) \in Record /\ with(r, s).hash = r.hash
             /\ Live(r) => Live(with(r, s))
  BY DEF Record, Live
<1>p. \A id \in Ids : PinsFrom(db.rows, unread)[id] = IF records[id] = None \/ id \in unread THEN db.rows[id]
                                              ELSE with(db.rows[id], records[id])
  BY DEF PinsFrom
<1> HIDE DEF with
<1>3. ASSUME NEW id \in Ids
      PROVE  /\ PinsFrom(db.rows, unread)[id] \in Record \union {None}
             /\ Live(db.rows[id]) /\ records[id] # None =>
                  Live(PinsFrom(db.rows, unread)[id]) /\ PinsFrom(db.rows, unread)[id].hash = db.rows[id].hash
  <2>1. CASE records[id] = None \/ id \in unread
    BY <1>1, <1>p, <2>1
  <2>2. CASE records[id] # None /\ id \notin unread
    <3>1. db.rows[id] \in Record /\ records[id] \in Record
      BY <1>1, <2>2
    <3> QED
      BY <1>2, <1>p, <2>2, <3>1
  <2> QED
    BY <2>1, <2>2
<1> QED
  BY <1>3 DEF PinsFrom, Covers, Live, Showing, Unread

-----------------------------------------------------------------------------
(* The remaining steps of the calls                                        *)

Typed(p) == /\ blobs \subseteq Hashes /\ lost \subseteq Hashes /\ used \subseteq Ids
            /\ spent \in Spending /\ job[p] \in Job /\ db \in Index /\ tx \in Index
            /\ records \in [Ids -> Record \union {None}]
            /\ (lock = None => tx = db) /\ (pc[p] \in Holding <=> lock = p) /\ p # None

LEMMA TypedInside ==
  ASSUME IInv, NEW p \in Procs
  PROVE  Typed(p)
  BY DEF IInv, TypeOK, Typed, Spending

\* outside a transaction a call has no marker of its own and condemns nothing
LEMMA Outside ==
  ASSUME IInv, NEW p \in Procs, pc[p] \notin Holding
  PROVE  job[p].mine = {} /\ job[p].missing = {} /\ Ready(pc[p], job[p])
  BY DEF IInv, JobOK, Holding

LEMMA CountFinite ==
  ASSUME NEW S \in SUBSET Ids
  PROVE  Cardinality(S) \in Nat
  BY FS_Subset, FS_CardinalityType

LEMMA LocalReturn ==
  ASSUME IInv, NEW p \in Procs, pc[p] \notin Holding, Return(p),
         UNCHANGED <<records, blobs, db, tx, markers, lock, used, lost>>, spent' \in Spending
  PROVE  IInv'
<1> DEFINE j == NoJob
<1> HIDE DEF j
<1>1. Fresh(j) /\ Goto(p, "idle", j)
  BY FreshJobs DEF Return, j
<1> QED
  BY <1>1, TypedInside, FreshReady, LocalStep DEF Fresh, Typed, Spending, Holding, Pcs, Waiting

LEMMA LocalFails ==
  ASSUME IInv, NEW p \in Procs, pc[p] \notin Holding, Fails(p),
         UNCHANGED <<records, blobs, db, tx, markers, lock, used, lost>>, spent' \in Spending
  PROVE  IInv'
<1> DEFINE j == NoJob
<1> HIDE DEF j
<1>1. Fresh(j) /\ (Goto(p, "idle", j) \/ Goto(p, "closed", j))
  BY FreshJobs DEF Fails, j
<1> QED
  BY <1>1, TypedInside, FreshReady, LocalStep DEF Fresh, Typed, Spending, Holding, Pcs, Waiting

LEMMA GiveUpKeeps ==
  ASSUME IInv, NEW p \in Procs, GiveUp(p)
  PROVE  IInv'
<1>1. pc[p] \notin Holding /\ spent' \in Spending
  BY TypedInside DEF GiveUp, Waiting, Holding, Fault, Typed, Spending
<1> QED
  BY <1>1, LocalFails DEF GiveUp

\* reconciliation is asked for by the call that will start over after it
LEMMA ReconcileThenKeeps ==
  ASSUME IInv, NEW p \in Procs, NEW after \in {"idle", "delete", "evict", "gc"},
         (after = "idle" /\ pc[p] = "sync") \/ after = pc[p],
         pc[p] \notin Holding, ReconcileThen(p, after), UNCHANGED db, KeepsFiles
  PROVE  IInv'
<1> DEFINE j == [job[p] EXCEPT !.after = after]
<1>1. /\ j \in Job /\ j.mine = job[p].mine /\ j.missing = job[p].missing
      /\ j.pending = job[p].pending /\ j.after = after
      /\ j.op = job[p].op /\ j.rec = job[p].rec /\ j.id = job[p].id
  BY TypedInside DEF Typed, Job
<1>2. Ready("reconcile", j)
  BY <1>1, Outside DEF Ready
<1>3. Goto(p, "reconcile", j) /\ UNCHANGED <<records, blobs, db, tx, markers, lock, used, lost, spent>>
  BY DEF ReconcileThen, KeepsFiles
<1> HIDE DEF j
<1> QED
  BY <1>1, <1>2, <1>3, Outside, TypedInside, LocalStep
  DEF Typed, Spending, Holding, Pcs, Waiting

LEMMA CountKeeps ==
  ASSUME IInv, NEW p \in Procs, Count(p)
  PROVE  IInv'
<1> DEFINE n == Cardinality({id \in Ids : records[id] # None})
           j == [job[p] EXCEPT !.seen = n]
<1>1. n \in Nat
  BY CountFinite
<1>2. /\ j \in Job /\ j.mine = job[p].mine /\ j.missing = job[p].missing
      /\ j.pending = job[p].pending /\ j.after = job[p].after
      /\ j.op = job[p].op /\ j.rec = job[p].rec /\ j.id = job[p].id
  <2> HIDE DEF n
  <2> QED
    BY <1>1, TypedInside DEF Typed, Job
<1>3. /\ pc[p] = "count" /\ Goto(p, "sync", j)
      /\ UNCHANGED <<records, blobs, db, tx, markers, lock, used, lost, spent>>
  BY DEF Count, KeepsFiles
<1> HIDE DEF j
<1>4. Ready("sync", j)
  BY <1>2, <1>3, Outside DEF Ready, Holding
<1> QED
  BY <1>2, <1>3, <1>4, Outside, TypedInside, LocalStep
  DEF Typed, Spending, Holding, Pcs, Waiting

LEMMA ClearedKeeps ==
  ASSUME IInv, NEW p \in Procs, Cleared(p)
  PROVE  IInv'
<1>1. /\ pc[p] = "clear" /\ pc[p] \notin Holding
      /\ UNCHANGED <<records, blobs, db, tx, markers, lock, used, lost, spent>>
  BY DEF Cleared, KeepsFiles, Holding
<1>2. CASE job[p].after = "idle"
  BY <1>1, <1>2, TypedInside, LocalReturn DEF Cleared, Typed
<1>3. CASE job[p].after # "idle"
  <2> DEFINE l == job[p].after
             j == [job[p] EXCEPT !.after = "idle"]
  <2>1. /\ j \in Job /\ j.mine = job[p].mine /\ j.missing = job[p].missing
        /\ j.pending = job[p].pending /\ j.after = "idle"
        /\ j.op = job[p].op /\ j.rec = job[p].rec /\ j.id = job[p].id
    BY TypedInside DEF Typed, Job
  <2>2. l \in {"delete", "evict", "gc"}
    BY <1>3, TypedInside, JobFields DEF Typed
  <2>3. Ready(l, j)
    BY <1>1, <2>1, <2>2, Outside DEF Ready
  <2>4. Goto(p, l, j)
    BY <1>3 DEF Cleared
  <2> HIDE DEF j, l
  <2> QED
    BY <1>1, <2>1, <2>2, <2>3, <2>4, Outside, TypedInside, LocalStep
    DEF Typed, Spending, Holding, Pcs, Waiting
<1> QED
  BY <1>2, <1>3

LEMMA ReadBlobKeeps ==
  ASSUME IInv, NEW p \in Procs, ReadBlob(p)
  PROVE  IInv'
<1>1. /\ pc[p] = "readBlob" /\ pc[p] \notin Holding
      /\ UNCHANGED <<records, blobs, db, tx, markers, lock, used, lost, spent>>
  BY DEF ReadBlob, KeepsFiles, Holding
<1>2. CASE job[p].hash \in blobs
  BY <1>1, <1>2, TypedInside, LocalReturn DEF ReadBlob, Typed
<1>3. CASE job[p].hash \notin blobs
  <2>1. Goto(p, "repair", job[p])
    BY <1>3 DEF ReadBlob
  <2>2. Ready("repair", job[p])
    BY <1>1, Outside DEF Ready
  <2> QED
    BY <1>1, <2>1, <2>2, Outside, TypedInside, LocalStep
    DEF Typed, Spending, Holding, Pcs, Waiting
<1> QED
  BY <1>2, <1>3

LEMMA SyncKeeps ==
  ASSUME IInv, NEW p \in Procs, Sync(p)
  PROVE  IInv'
<1> DEFINE indexed == {id \in Ids : db.rows[id] # None}
           present == {id \in Ids : records[id] # None}
           j == [job[p] EXCEPT !.pending = Listed]
<1>1. /\ pc[p] = "sync" /\ pc[p] \notin Holding /\ lock = None
      /\ UNCHANGED <<records, blobs, db, markers, used, lost, spent>>
  BY DEF Sync, KeepsFiles, LockFree, Holding
<1>2. /\ j \in Job /\ j.mine = {} /\ j.missing = {}
      /\ j.pending = Listed /\ j.after = job[p].after
      /\ j.op = job[p].op /\ j.rec = job[p].rec /\ j.id = job[p].id
  BY <1>1, Outside, TypedInside DEF Typed, Job, Listed
<1>3. Ready("commit", j)
  BY <1>1, <1>2, Outside DEF Ready
<1>4. ASSUME NEW new \in Index, \A id \in Showing : Covers(new.rows, id),
             Acquire(p), tx' = [new EXCEPT !.booted = TRUE], Goto(p, "commit", j)
      PROVE  IInv'
  <2>1. tx' \in Index /\ tx'.rows = new.rows
    BY <1>4, IndexWith
  <2> HIDE DEF j
  <2> QED
    BY <1>1, <1>2, <1>3, <1>4, <2>1, TypedInside, BeginTransaction DEF Acquire, Typed
<1>5. CASE ReconcileThen(p, "idle")
  BY <1>1, <1>5, ReconcileThenKeeps DEF Sync
<1>6. CASE Return(p) /\ UNCHANGED <<lock, tx>>
  BY <1>1, <1>6, TypedInside, LocalReturn DEF Typed
<1>7. CASE /\ Repairable /\ Acquire(p) /\ tx' = [Repaired EXCEPT !.booted = TRUE]
           /\ Goto(p, "commit", j)
  BY <1>4, <1>7, RepairedKnows
<1>8. ASSUME NEW unread \in Unread,
             Listed = {}, present \ unread \subseteq indexed, Acquire(p),
             tx' = [[db EXCEPT !.rows = PinsFrom(db.rows, unread)] EXCEPT !.booted = TRUE],
             Goto(p, "commit", j)
      PROVE  IInv'
  <2>1. \A id \in Ids \ unread : records[id] # None => db.rows[id] # None
    BY <1>8
  <2>2. /\ PinsFrom(db.rows, unread) \in [Ids -> Record \union {None}]
        /\ \A id \in Showing : Covers(PinsFrom(db.rows, unread), id)
    BY <1>8, <2>1, UnmarkedKnows, PinsFromKnows
  <2> DEFINE new == [db EXCEPT !.rows = PinsFrom(db.rows, unread)]
  <2>3. new \in Index /\ new.rows = PinsFrom(db.rows, unread)
    BY <2>2, TypedInside, IndexWith DEF Typed
  <2>4. tx' = [new EXCEPT !.booted = TRUE]
    BY <1>8
  <2>5. Acquire(p) /\ Goto(p, "commit", j)
    BY <1>8
  <2> HIDE DEF new, j
  <2>6. new \in Index /\ \A id \in Showing : Covers(new.rows, id)
    BY <2>2, <2>3
  <2> QED
    BY <1>4, <2>4, <2>5, <2>6
<1> QED
  BY <1>5, <1>6, <1>7, <1>8 DEF Sync

LEMMA ReconcileKeeps ==
  ASSUME IInv, NEW p \in Procs, Reconcile(p)
  PROVE  IInv'
<1> PICK unread \in Unread :
      LET missing == {id \in Ids \ unread : /\ Live(records[id])
                                            /\ records[id].hash \notin blobs}
      IN /\ tx' = [rows   |-> [id \in Ids |->
                                IF id \in unread THEN None
                                ELSE IF id \in missing THEN Evicted(records[id])
                                ELSE records[id]],
                   sized  |-> blobs,
                   booted |-> TRUE]
         /\ Goto(p, IF missing = {} THEN "commit" ELSE "rewrite",
                 [job[p] EXCEPT !.pending = Listed, !.missing = missing])
  BY DEF Reconcile
<1> DEFINE missing == {id \in Ids \ unread : /\ Live(records[id])
                                             /\ records[id].hash \notin blobs}
           rows == [id \in Ids |-> IF id \in unread THEN None
                                   ELSE IF id \in missing THEN Evicted(records[id])
                                   ELSE records[id]]
           l == IF missing = {} THEN "commit" ELSE "rewrite"
           j == [job[p] EXCEPT !.pending = Listed, !.missing = missing]
<1>1. /\ pc[p] = "reconcile" /\ pc[p] \notin Holding /\ lock = None /\ lock' = p
      /\ UNCHANGED <<records, blobs, db, markers, used, lost, spent>>
      /\ tx' = [rows |-> rows, sized |-> blobs, booted |-> TRUE] /\ Goto(p, l, j)
  BY DEF Reconcile, KeepsFiles, Acquire, LockFree, Holding
<1>2. ASSUME NEW id \in Ids PROVE records[id] # None => /\ Evicted(records[id]) \in Record
                                                        /\ ~Live(Evicted(records[id]))
  BY TypedInside, ZenonT(60) DEF Typed, Evicted, Live, Record
<1>3. rows \in [Ids -> Record \union {None}]
  <2>1. \A id \in missing : records[id] # None
    BY DEF Live
  <2> QED
    BY <1>2, <2>1, TypedInside DEF Typed
<1>4. tx' \in Index /\ tx'.rows = rows
  <2> HIDE DEF rows
  <2> QED
    BY <1>1, <1>3, TypedInside DEF Typed, Index
<1>5. /\ j \in Job /\ j.mine = {} /\ j.missing = missing /\ missing \subseteq Ids
      /\ j.pending = Listed /\ j.after = job[p].after
      /\ j.op = job[p].op /\ j.rec = job[p].rec /\ j.id = job[p].id
  <2>1. missing \in SUBSET Ids /\ Listed \in SUBSET Slots
    BY DEF Listed
  <2>2. job[p] \in Job /\ job[p].mine = {}
    BY <1>1, Outside, TypedInside DEF Typed
  <2> HIDE DEF missing
  <2> QED
    BY <2>1, <2>2 DEF Job
<1>6. Ready(l, j)
  BY <1>1, <1>5, Outside DEF Ready
<1>7. \A id \in Showing \ missing : Covers(rows, id)
  BY DEF Showing, Covers, Unread
<1>8. \A id \in missing : ~Live(rows[id])
  BY <1>2 DEF Live
<1>9. l \in {"rewrite", "commit"} /\ (missing # {} => l = "rewrite")
  OBVIOUS
<1> HIDE DEF missing, rows, l, j
<1> QED
  BY <1>1, <1>4, <1>5, <1>6, <1>7, <1>8, <1>9, TypedInside, BeginTransaction, SMTT(30) DEF Typed

LEMMA InsertKeeps ==
  ASSUME IInv, NEW p \in Procs, Insert(p)
  PROVE  IInv'
<1> DEFINE j == job[p]
<1>1. /\ pc[p] = "insert" /\ pc[p] \notin Holding /\ lock = None /\ lock' = p
      /\ UNCHANGED <<records, db, tx, markers, used, spent>>
      /\ blobs' = blobs \union ({j.hash} \ {NoImage}) /\ lost' = lost \ {j.hash}
      /\ Goto(p, "mark", j)
  BY DEF Insert, Acquire, LockFree, Holding
<1>2. /\ j \in Job /\ j.mine = {} /\ j.missing = {} /\ j.pending = {} /\ j.op = "insert"
      /\ j.id \in Ids /\ j.hash \in Hashes \union {NoImage}
      /\ Live(j.rec) => j.rec.hash = j.hash
      /\ Ready("mark", j)
  BY <1>1, Outside, TypedInside, JobFields DEF Typed, Ready
<1>3. /\ blobs' \subseteq Hashes /\ lost' \subseteq Hashes
      /\ blobs \union lost \subseteq blobs' \union lost'
      /\ Live(j.rec) => j.rec.hash \in blobs'
  BY <1>1, <1>2, TypedInside DEF Typed, Live
<1> HIDE DEF j
<1> QED
  BY <1>1, <1>2, <1>3, TypedInside, BeginTransaction DEF Typed

LEMMA UpdateKeeps ==
  ASSUME IInv, NEW p \in Procs, Update(p)
  PROVE  IInv'
<1> DEFINE r == records[job[p].id]
           new == Mutated(r, job[p].change)
           j == [job[p] EXCEPT !.rec = new]
<1>1. /\ pc[p] = "update" /\ pc[p] \notin Holding /\ lock = None
      /\ UNCHANGED <<records, blobs, db, tx, markers, used, lost, spent>>
  BY DEF Update, KeepsFiles, LockFree, Holding
<1>2. /\ job[p].op = "update" /\ job[p].pending = {} /\ job[p].mine = {} /\ job[p].missing = {}
      /\ job[p].id \in Ids /\ job[p].change \in Change /\ Ready("update", job[p])
  BY <1>1, Outside DEF Ready
<1>3. CASE r = None
  BY <1>1, <1>3, TypedInside, LocalFails DEF Update, Typed, Acquire
<1>4. CASE r # None
  <2>1. Goto(p, "mark", j) /\ lock' = p
    BY <1>4 DEF Update, Acquire
  <2>2. r \in Record
    BY <1>2, <1>4, TypedInside DEF Typed
  <2>3. new \in Record /\ (Live(new) => Live(r) /\ new.hash = r.hash)
    BY <1>2, <2>2 DEF Mutated, Change, Record, Live
  <2>4. /\ j \in Job /\ j.mine = {} /\ j.missing = {} /\ j.pending = {} /\ j.op = "update"
        /\ j.id = job[p].id /\ j.rec = new /\ j.after = job[p].after
    <3> HIDE DEF new
    <3> QED
      BY <1>2, <2>3, TypedInside DEF Typed, Job
  <2>5. Ready("mark", j)
    BY <1>2, <2>4 DEF Ready
  <2>6. Live(new) /\ j.id \notin Unreadable => new.hash \in blobs \union lost
    BY <1>2, <2>3, <2>4 DEF IInv, PixelsKept
  <2> HIDE DEF new, j
  <2> QED
    BY <1>1, <1>2, <2>1, <2>4, <2>5, <2>6, TypedInside, BeginTransaction DEF Typed
<1> QED
  BY <1>3, <1>4

LEMMA DeleteKeeps ==
  ASSUME IInv, NEW p \in Procs, Delete(p)
  PROVE  IInv'
<1> DEFINE r == records[job[p].id]
<1>1. /\ pc[p] = "delete" /\ pc[p] \notin Holding /\ lock = None
      /\ UNCHANGED <<records, blobs, db, markers, used, lost, spent>>
  BY DEF Delete, KeepsFiles, LockFree, Holding
<1>2. /\ job[p] \in Job /\ job[p].op = "delete" /\ job[p].rec = None /\ job[p].id \in Ids
      /\ job[p].mine = {} /\ job[p].missing = {} /\ Ready("delete", job[p])
      /\ Listed \in SUBSET Slots
  BY <1>1, Outside, TypedInside DEF Ready, Typed, Listed
<1>3. CASE ReconcileThen(p, "delete")
  BY <1>1, <1>3, ReconcileThenKeeps DEF Delete
<1>4. CASE /\ Repairable /\ r = None /\ Acquire(p)
           /\ tx' = [Repaired EXCEPT !.rows[job[p].id] = None]
           /\ Goto(p, "commit", [job[p] EXCEPT !.pending = Listed])
  <2> DEFINE j == [job[p] EXCEPT !.pending = Listed]
             rows == [Repaired.rows EXCEPT ![job[p].id] = None]
  <2>1. /\ j \in Job /\ j.mine = {} /\ j.missing = {} /\ j.pending = Listed
        /\ j.op = "delete" /\ j.rec = None /\ j.id = job[p].id /\ j.after = job[p].after
    BY <1>2 DEF Job
  <2>2. Ready("commit", j)
    BY <1>2, <2>1 DEF Ready
  <2>3. rows \in [Ids -> Record \union {None}]
    BY <1>4, RepairedKnows, IndexWith
  <2>4. tx' \in Index /\ tx'.rows = rows
    <3>1. tx' = [Repaired EXCEPT !.rows = rows]
      BY <1>4
    <3>2. Repaired \in Index
      BY <1>4, RepairedKnows
    <3> HIDE DEF rows
    <3> QED
      BY <2>3, <3>1, <3>2 DEF Index
  <2>5. \A id \in Showing : Covers(rows, id)
    <3>1. job[p].id \notin Showing
      BY <1>4 DEF Showing, Live
    <3> QED
      BY <1>2, <1>4, <3>1, RepairedKnows, IndexWith DEF Covers, Showing
  <2>6. lock' = p /\ Goto(p, "commit", j)
    BY <1>4 DEF Acquire
  <2> HIDE DEF j, rows
  <2> QED
    BY <1>1, <2>1, <2>2, <2>4, <2>5, <2>6, TypedInside, BeginTransaction DEF Typed
<1>5. CASE /\ Repairable /\ r # None /\ Acquire(p) /\ tx' = Repaired
           /\ Goto(p, "mark", [job[p] EXCEPT !.pending = Listed, !.hash = r.hash])
  <2> DEFINE h == r.hash
             j == [job[p] EXCEPT !.pending = Listed, !.hash = h]
  <2>1. h \in Hashes \union {NoImage}
    BY <1>2, <1>5, TypedInside DEF Typed, Record
  <2>2. /\ j \in Job /\ j.mine = {} /\ j.missing = {} /\ j.pending = Listed
        /\ j.op = "delete" /\ j.rec = None /\ j.id = job[p].id /\ j.after = job[p].after
    <3> HIDE DEF h
    <3> QED
      BY <1>2, <2>1 DEF Job
  <2>3. Ready("mark", j)
    BY <1>2, <2>2 DEF Ready
  <2>4. lock' = p /\ Goto(p, "mark", j)
    BY <1>5 DEF Acquire
  <2>5. ~Live(j.rec)
    BY <2>2 DEF Live
  <2> HIDE DEF j
  <2> QED
    BY <1>1, <1>2, <1>5, <2>2, <2>3, <2>4, <2>5, TypedInside, RepairedKnows, BeginTransaction
    DEF Typed
<1> QED
  BY <1>3, <1>4, <1>5 DEF Delete

LEMMA EvictKeeps ==
  ASSUME IInv, NEW p \in Procs, Evict(p)
  PROVE  IInv'
<1>1. /\ pc[p] = "evict" /\ pc[p] \notin Holding /\ lock = None
      /\ UNCHANGED <<records, blobs, db, markers, used, lost, spent>>
  BY DEF Evict, KeepsFiles, LockFree, Holding
<1>2. /\ job[p] \in Job /\ job[p].op = "evict"
      /\ job[p].mine = {} /\ job[p].missing = {} /\ Ready("evict", job[p])
      /\ Listed \in SUBSET Slots
  BY <1>1, Outside, TypedInside DEF Ready, Typed, Listed
<1>3. CASE ReconcileThen(p, "evict")
  BY <1>1, <1>3, ReconcileThenKeeps DEF Evict
<1>4. CASE Return(p) /\ UNCHANGED <<lock, tx>>
  BY <1>1, <1>4, TypedInside, LocalReturn DEF Typed
<1>5. ASSUME NEW f \in SUBSET Ids, NEW o \in SUBSET Ids, NEW b \in BOOLEAN, Repairable,
             Acquire(p), tx' = [Repaired EXCEPT !.booted = b],
             Goto(p, "next", [job[p] EXCEPT !.pending = Listed, !.forced = f, !.over = o])
      PROVE  IInv'
  <2> DEFINE j == [job[p] EXCEPT !.pending = Listed, !.forced = f, !.over = o]
  <2>1. /\ j \in Job /\ j.mine = {} /\ j.missing = {} /\ j.pending = Listed
        /\ j.op = "evict" /\ j.rec = job[p].rec /\ j.id = job[p].id /\ j.after = job[p].after
    BY <1>2 DEF Job
  <2>2. Ready("next", j)
    BY <1>2, <2>1 DEF Ready
  <2>3. tx' \in Index /\ \A id \in Showing : Covers(tx'.rows, id)
    BY <1>5, RepairedKnows, IndexWith
  <2>4. lock' = p /\ Goto(p, "next", j)
    BY <1>5 DEF Acquire
  <2> HIDE DEF j
  <2> QED
    BY <1>1, <2>1, <2>2, <2>3, <2>4, TypedInside, BeginTransaction DEF Typed
<1>6. ASSUME ~ReconcileThen(p, "evict"), ~(Return(p) /\ UNCHANGED <<lock, tx>>)
      PROVE  \E f \in SUBSET Ids, o \in SUBSET Ids, b \in BOOLEAN :
               /\ Repairable /\ Acquire(p) /\ tx' = [Repaired EXCEPT !.booted = b]
               /\ Goto(p, "next", [job[p] EXCEPT !.pending = Listed, !.forced = f, !.over = o])
  <2> DEFINE b == Repaired.booted \/ Listed # {}
             new == [Repaired EXCEPT !.booted = @ \/ Listed # {}]
             over == IF Total(new) > Cap THEN Candidates(new.rows) ELSE {}
  <2>1. Repairable
    BY <1>6 DEF Evict
  <2>2. PICK cutoff \in Cutoffs :
          LET forced == {id \in Candidates(new.rows) : id < cutoff} IN
          /\ Acquire(p) /\ tx' = new
          /\ Goto(p, "next", [job[p] EXCEPT !.pending = Listed, !.forced = forced, !.over = over])
    BY <1>6 DEF Evict
  <2> DEFINE forced == {id \in Candidates(new.rows) : id < cutoff}
  <2>3. forced \in SUBSET Ids /\ over \in SUBSET Ids
    BY DEF Candidates
  <2>4. tx' = [Repaired EXCEPT !.booted = b] /\ b \in BOOLEAN
    BY <2>2
  <2>5. /\ Acquire(p)
        /\ Goto(p, "next", [job[p] EXCEPT !.pending = Listed, !.forced = forced, !.over = over])
    BY <2>2
  <2> HIDE DEF forced, over, b
  <2> QED
    BY <2>1, <2>3, <2>4, <2>5
<1> QED
  BY <1>3, <1>4, <1>5, <1>6

LEMMA CollectGarbageKeeps ==
  ASSUME IInv, NEW p \in Procs, CollectGarbage(p)
  PROVE  IInv'
<1> DEFINE sweep == {h \in blobs : ~Referenced(Repaired.rows, h)}
           j == [job[p] EXCEPT !.pending = Listed, !.sweep = sweep]
<1>1. /\ pc[p] = "gc" /\ pc[p] \notin Holding /\ lock = None
      /\ UNCHANGED <<records, blobs, db, markers, used, lost, spent>>
  BY DEF CollectGarbage, KeepsFiles, LockFree, Holding
<1>2. /\ job[p] \in Job /\ job[p].op = "gc"
      /\ job[p].mine = {} /\ job[p].missing = {} /\ Ready("gc", job[p])
      /\ Listed \in SUBSET Slots /\ sweep \in SUBSET Hashes
  BY <1>1, Outside, TypedInside DEF Ready, Typed, Listed
<1>3. CASE ReconcileThen(p, "gc")
  BY <1>1, <1>3, ReconcileThenKeeps DEF CollectGarbage
<1>4. CASE /\ Repairable /\ Acquire(p) /\ tx' = Repaired /\ Goto(p, "collect", j)
  <2>1. \A h \in sweep : ~Referenced(Repaired.rows, h)
    OBVIOUS
  <2> HIDE DEF sweep
  <2>2. /\ j \in Job /\ j.mine = {} /\ j.missing = {} /\ j.pending = Listed /\ j.sweep = sweep
        /\ j.op = "gc" /\ j.rec = job[p].rec /\ j.id = job[p].id /\ j.after = job[p].after
    BY <1>2 DEF Job
  <2>3. Ready("collect", j)
    BY <1>2, <2>2 DEF Ready
  <2>4. lock' = p /\ Goto(p, "collect", j)
    BY <1>4 DEF Acquire
  <2>5. \A h \in j.sweep : ~Referenced(tx'.rows, h)
    BY <1>4, <2>1, <2>2
  <2> HIDE DEF j
  <2> QED
    BY <1>1, <1>4, <2>2, <2>3, <2>4, <2>5, TypedInside, RepairedKnows, BeginTransaction
    DEF Typed
<1> QED
  BY <1>3, <1>4 DEF CollectGarbage

LEMMA RepairKeeps ==
  ASSUME IInv, NEW p \in Procs, Repair(p)
  PROVE  IInv'
<1> DEFINE r == records[job[p].id]
<1>1. /\ pc[p] = "repair" /\ pc[p] \notin Holding /\ lock = None
      /\ UNCHANGED <<records, blobs, db, markers, used, lost, spent>>
  BY DEF Repair, KeepsFiles, LockFree, Holding
<1>2. /\ job[p] \in Job /\ job[p].op = "repair" /\ job[p].id \in Ids /\ job[p].pending = {}
      /\ job[p].mine = {} /\ job[p].missing = {} /\ Ready("repair", job[p])
  BY <1>1, Outside, TypedInside DEF Ready, Typed
<1>3. CASE Return(p) /\ UNCHANGED <<lock, tx>>
  BY <1>1, <1>3, TypedInside, LocalReturn DEF Typed
<1>4. CASE /\ Live(r) /\ Acquire(p) /\ UNCHANGED tx
           /\ Goto(p, "mark", [job[p] EXCEPT !.rec = Evicted(r)])
  <2> DEFINE new == Evicted(r)
             j == [job[p] EXCEPT !.rec = new]
  <2>1. new \in Record /\ ~Live(new)
    <3>1. r \in Record
      BY <1>2, <1>4, TypedInside DEF Typed, Live
    <3> QED
      BY <3>1 DEF Live, Evicted, Record
  <2>2. /\ j \in Job /\ j.mine = {} /\ j.missing = {} /\ j.pending = {} /\ j.op = "repair"
        /\ j.id = job[p].id /\ j.rec = new /\ j.after = job[p].after
    <3> HIDE DEF new
    <3> QED
      BY <1>2, <2>1 DEF Job
  <2>3. Ready("mark", j)
    BY <1>2, <2>2 DEF Ready
  <2>4. lock' = p /\ Goto(p, "mark", j)
    BY <1>4 DEF Acquire
  <2> HIDE DEF new, j
  <2> QED
    BY <1>1, <1>2, <1>4, <2>1, <2>2, <2>3, <2>4, TypedInside, BeginTransaction DEF Typed
<1>5. CASE /\ Acquire(p) /\ tx' = [tx EXCEPT !.sized = @ \ {job[p].hash}]
           /\ Goto(p, "commit", job[p])
  <2>1. tx' \in Index /\ tx'.rows = db.rows
    BY <1>1, <1>5, TypedInside, IndexWith DEF Typed
  <2>2. Ready("commit", job[p])
    BY <1>2 DEF Ready
  <2> QED
    BY <1>1, <1>2, <1>5, <2>1, <2>2, TypedInside, BeginTransaction DEF Typed, Acquire
<1> QED
  BY <1>3, <1>4, <1>5 DEF Repair

-----------------------------------------------------------------------------
(* Inside a transaction                                                    *)

\* a transaction of these knows every user of pixels
LEMMA KnowsInside ==
  ASSUME IInv, NEW p \in Procs, lock = p, job[p].op \in {"delete", "evict", "gc"},
         pc[p] # "rewrite"
  PROVE  /\ \A id \in Showing : Covers(tx.rows, id)
         /\ job[p].missing = {}
<1>1. \A q \in Procs : lock = q => q = p
  OBVIOUS
<1>2. job[p].missing = {}
  BY DEF IInv, JobOK
<1>3. Condemned = {}
  BY <1>1, <1>2 DEF Condemned
<1> QED
  BY <1>2, <1>3 DEF IInv, TxFull

\* No sidecar shows pixels that the rows say nobody shows.
LEMMA UnlinkKeeps ==
  ASSUME IInv, NEW p \in Procs, Unlink(p)
  PROVE  IInv'
<1> DEFINE j == job[p]
           rows == [tx.rows EXCEPT ![j.id] = j.rec]
           gone == IF j.hash # NoImage /\ ~Referenced(rows, j.hash) THEN {j.hash} ELSE {}
           l == IF j.op = "delete" THEN "commit" ELSE "next"
<1>1. /\ pc[p] = "unlink" /\ pc[p] # "rewrite" /\ pc[p] \in Holding
      /\ UNCHANGED <<records, db, markers, lock, used, lost, spent>>
      /\ tx' = [tx EXCEPT !.rows = rows, !.sized = @ \ gone]
      /\ blobs' = blobs \ gone /\ Goto(p, l, j)
  BY DEF Unlink, Holding
<1>2. /\ lock = p /\ j \in Job /\ j.op \in {"delete", "evict"}
      /\ ~Live(j.rec) /\ ~Live(records[j.id])
      /\ j.rec \in Record \union {None}
  BY <1>1, TypedInside, JobFields DEF IInv, JobOK, Typed
<1>3. (\A id \in Showing : Covers(tx.rows, id)) /\ j.missing = {}
  BY <1>1, <1>2, KnowsInside
<1>4. rows \in [Ids -> Record \union {None}] /\ tx.sized \subseteq Hashes /\ tx.booted \in BOOLEAN
  BY <1>2, TypedInside, IndexWith DEF Typed
<1>5. tx' \in Index /\ tx'.rows = rows
  <2>1. tx' = [rows |-> rows, sized |-> tx.sized \ gone, booted |-> tx.booted]
    <3> HIDE DEF rows, gone
    <3> QED
      BY <1>1, TypedInside DEF Typed, Index
  <2>2. tx.sized \ gone \in SUBSET Hashes
    BY <1>4
  <2> HIDE DEF rows, gone
  <2> QED
    BY <1>4, <2>1, <2>2 DEF Index
<1>6. \A id \in Showing : Covers(rows, id) /\ records[id].hash \notin gone
  <2> TAKE id \in Showing
  <2>1. id \in Ids /\ id # j.id
    BY <1>2 DEF Showing
  <2>2. rows[id] = tx.rows[id]
    BY <2>1, TypedInside, IndexWith DEF Typed
  <2>3. Covers(rows, id)
    BY <1>3, <2>2 DEF Covers
  <2>4. Referenced(rows, records[id].hash)
    BY <2>1, <2>3 DEF Referenced, Covers
  <2> QED
    BY <2>3, <2>4
<1>7. PixelsKept'
  BY <1>1, <1>6 DEF IInv, PixelsKept, Showing, Live
<1>8. Ready(l, j)
  BY <1>1, <1>2 DEF IInv, JobOK, Ready
<1>9. blobs' \subseteq Hashes
  BY <1>1, TypedInside DEF Typed
<1>10. l \in {"next", "commit"} /\ (l = "next" => j.op = "evict")
  BY <1>2
<1> HIDE DEF rows, gone, l
<1>11. \A id \in Showing : Covers(tx.rows, id) => Covers(tx'.rows, id)
  BY <1>5, <1>6
<1> QED
  BY <1>1, <1>2, <1>3, <1>5, <1>7, <1>8, <1>9, <1>10, <1>11, HolderStep

LEMMA CollectKeeps ==
  ASSUME IInv, NEW p \in Procs, Collect(p)
  PROVE  IInv'
<1>1. /\ pc[p] = "collect" /\ pc[p] # "rewrite" /\ pc[p] \in Holding
      /\ UNCHANGED <<records, db, markers, lock, used, lost, spent>>
  BY DEF Collect, Holding
<1>2. /\ lock = p /\ job[p] \in Job /\ job[p].op = "gc" /\ job[p].mine = {}
      /\ \A h \in job[p].sweep : ~Referenced(tx.rows, h)
      /\ job[p].sweep \in SUBSET Hashes /\ Ready("collect", job[p]) /\ tx \in Index
      /\ blobs \subseteq Hashes
  BY <1>1, TypedInside, JobFields DEF IInv, JobOK, Typed
<1>3. (\A id \in Showing : Covers(tx.rows, id)) /\ job[p].missing = {}
  BY <1>1, <1>2, KnowsInside
<1>4. CASE Goto(p, "commit", job[p]) /\ UNCHANGED <<blobs, tx>>
  <2>1. PixelsKept' /\ Ready("commit", job[p])
    BY <1>1, <1>2, <1>4 DEF IInv, PixelsKept, Live, Ready
  <2> QED
    BY <1>1, <1>2, <1>3, <1>4, <2>1, HolderStep
<1>5. ASSUME NEW h \in job[p].sweep, blobs' = blobs \ {h}, tx' = [tx EXCEPT !.sized = @ \ {h}],
             Goto(p, "collect", [job[p] EXCEPT !.sweep = @ \ {h}])
      PROVE  IInv'
  <2> DEFINE j == [job[p] EXCEPT !.sweep = @ \ {h}]
  <2>1. /\ j \in Job /\ j.mine = job[p].mine /\ j.pending = job[p].pending
        /\ j.missing = job[p].missing /\ j.sweep = job[p].sweep \ {h}
        /\ j.op = job[p].op /\ j.rec = job[p].rec /\ j.id = job[p].id /\ j.after = job[p].after
    BY <1>2 DEF Job
  <2>2. Ready("collect", j)
    BY <1>2, <2>1 DEF Ready
  <2>3. tx' \in Index /\ tx'.rows = tx.rows
    BY <1>2, <1>5 DEF Index
  <2>4. \A id \in Showing : records[id].hash # h
    BY <1>2, <1>3, <1>5 DEF Referenced, Covers, Showing
  <2>5. PixelsKept'
    BY <1>1, <1>5, <2>4 DEF IInv, PixelsKept, Showing, Live
  <2>6. Goto(p, "collect", j)
    BY <1>5
  <2> HIDE DEF j
  <2> QED
    BY <1>1, <1>2, <1>3, <1>5, <2>1, <2>2, <2>3, <2>5, <2>6, HolderStep
<1> QED
  BY <1>4, <1>5 DEF Collect

LEMMA CandidateKeeps ==
  ASSUME IInv, NEW p \in Procs, Candidate(p)
  PROVE  IInv'
<1> DEFINE j == job[p]
<1>1. /\ pc[p] = "next" /\ pc[p] # "rewrite" /\ pc[p] \in Holding
      /\ UNCHANGED <<records, blobs, db, markers, used, lost, spent>>
  BY DEF Candidate, KeepsFiles, Holding
<1>2. /\ lock = p /\ j \in Job /\ j.op = "evict" /\ Ready("next", j) /\ tx \in Index
      /\ blobs \subseteq Hashes /\ spent \in Spending
      /\ records \in [Ids -> Record \union {None}]
  BY <1>1, TypedInside DEF IInv, JobOK, Typed
<1>3. (\A id \in Showing : Covers(tx.rows, id)) /\ j.missing = {}
  BY <1>1, <1>2, KnowsInside
<1>4. PixelsKept'
  BY <1>1 DEF IInv, PixelsKept, Live
<1>5. ASSUME NEW id \in Ids
      PROVE  /\ Popped(j, id) \in Job /\ Popped(j, id).op = "evict"
             /\ Popped(j, id).mine = j.mine /\ Popped(j, id).pending = j.pending
             /\ Popped(j, id).missing = j.missing /\ Popped(j, id).after = j.after
  BY <1>2 DEF Popped, Job
<1>6. CASE Goto(p, "commit", j) /\ UNCHANGED <<tx, lock>>
  <2>1. Ready("commit", j)
    BY <1>2 DEF Ready
  <2> QED
    BY <1>1, <1>2, <1>3, <1>4, <1>6, <2>1, HolderStep
<1>7. CASE FailsHolding(p)
  BY <1>1, <1>2, <1>7, FailsHoldingKeeps
<1>8. ASSUME NEW id \in Ids, tx' = [tx EXCEPT !.rows[id] = records[id]],
             Goto(p, "next", Popped(j, id)), UNCHANGED lock
      PROVE  IInv'
  <2> DEFINE rows == [tx.rows EXCEPT ![id] = records[id]]
             k == Popped(j, id)
  <2>1. rows \in [Ids -> Record \union {None}]
    BY <1>2, IndexWith
  <2>2. tx' = [tx EXCEPT !.rows = rows]
    BY <1>8
  <2>3. tx' \in Index /\ tx'.rows = rows
    <3> HIDE DEF rows
    <3> QED
      BY <1>2, <2>1, <2>2 DEF Index
  <2>4. \A other \in Showing : Covers(tx.rows, other) => Covers(rows, other)
    BY <1>2, IndexWith DEF Covers, Showing
  <2>5. Ready("next", k)
    BY <1>2, <1>5 DEF Ready
  <2> HIDE DEF rows, k
  <2>6. Goto(p, "next", k)
    BY <1>8 DEF k
  <2> QED
    BY <1>1, <1>2, <1>3, <1>4, <1>5, <1>8, <2>3, <2>4, <2>5, <2>6, HolderStep DEF k
<1>9. ASSUME NEW id \in Ids, Live(records[id]), NEW r \in Record,
             r.hash = records[id].hash \/ ~Live(r),
             Goto(p, "mark", [Popped(j, id) EXCEPT !.id = id, !.rec = r, !.hash = r.hash]),
             UNCHANGED <<tx, lock>>
      PROVE  IInv'
  <2> DEFINE h == r.hash
             k == [Popped(j, id) EXCEPT !.id = id, !.rec = r, !.hash = h]
  <2>1. h \in Hashes \union {NoImage}
    BY DEF Record
  <2>2. /\ k \in Job /\ k.op = "evict" /\ k.mine = j.mine /\ k.pending = j.pending
        /\ k.missing = j.missing /\ k.after = j.after /\ k.id = id /\ k.rec = r
    <3> DEFINE m == Popped(j, id)
    <3>1. m \in Job /\ k = [m EXCEPT !.id = id, !.rec = r, !.hash = h]
      BY <1>5
    <3> HIDE DEF h, m, k
    <3>2. /\ k \in Job /\ k.op = m.op /\ k.mine = m.mine /\ k.pending = m.pending
          /\ k.missing = m.missing /\ k.after = m.after /\ k.id = id /\ k.rec = r
      BY <2>1, <3>1 DEF Job
    <3> QED
      BY <1>5, <3>2 DEF m
  <2>3. Ready("mark", k)
    BY <1>2, <2>2 DEF Ready
  <2>4. Live(r) /\ id \notin Unreadable => r.hash \in blobs' \union lost
    BY <1>1, <1>9 DEF IInv, PixelsKept
  <2>5. Goto(p, "mark", k)
    BY <1>9
  <2> HIDE DEF k
  <2> QED
    BY <1>1, <1>2, <1>3, <1>4, <1>9, <2>2, <2>3, <2>4, <2>5, HolderStep
<1>10. ASSUME NEW id \in Ids, Live(records[id])
       PROVE  /\ Evicted(records[id]) \in Record /\ ~Live(Evicted(records[id]))
              /\ Evicted(records[id]).hash = records[id].hash
              /\ [records[id] EXCEPT !.pinned = TRUE] \in Record
              /\ [records[id] EXCEPT !.pinned = TRUE].hash = records[id].hash
  <2>1. records[id] \in Record
    BY <1>2, <1>10 DEF Live
  <2> QED
    BY <2>1 DEF Evicted, Live, Record
<1>11. ASSUME NEW id \in Ids, NEW r, Live(records[id]),
              r = Evicted(records[id]) \/ r = [records[id] EXCEPT !.pinned = TRUE],
              Goto(p, "mark", [Popped(j, id) EXCEPT !.id = id, !.rec = r, !.hash = r.hash]),
              UNCHANGED <<tx, lock>>
       PROVE  IInv'
  <2>1. r \in Record /\ (r.hash = records[id].hash \/ ~Live(r))
    BY <1>10, <1>11
  <2> QED
    BY <1>9, <1>11, <2>1
<1> QED
  BY <1>6, <1>7, <1>8, <1>11 DEF Candidate

-----------------------------------------------------------------------------
(* The theorems                                                            *)

LEMMA ProgressKeeps ==
  ASSUME IInv, NEW p \in Procs, Progress(p)
  PROVE  IInv'
  BY GiveUpKeeps, CountKeeps, SyncKeeps, ReconcileKeeps, RewriteKeeps, InsertKeeps, UpdateKeeps,
     DeleteKeeps, UnlinkKeeps, EvictKeeps, CandidateKeeps, CollectGarbageKeeps, CollectKeeps,
     ReadBlobKeeps, RepairKeeps, MarkKeeps, WriteKeeps, CommitKeeps, ClearKeeps, ClearedKeeps
  DEF Progress

LEMMA InitEstablishes ==
  ASSUME Init
  PROVE  IInv
<1>1. ASSUME NEW id \in Ids
      PROVE  /\ db.rows[id] \in Record \union {None}
             /\ Live(records[id]) => Covers(db.rows, id) /\ records[id].hash \in Hashes
  <2>1. CASE InitialRecords[id] = None
    BY <2>1 DEF Init, Live
  <2>2. CASE InitialRecords[id] # None
    <3>1. InitialRecords[id] \in Record
      BY <2>2
    <3> DEFINE with(r) == [r EXCEPT !.screen = FALSE]
    <3>2. \A r \in Record : /\ with(r) \in Record /\ with(r).hash = r.hash
                            /\ (Live(r) => Live(with(r)))
      BY DEF Record, Live
    <3>3. db.rows[id] = with(records[id]) /\ records[id] = InitialRecords[id]
      BY <2>2 DEF Init
    <3>4. Live(records[id]) => records[id].hash \in Hashes
      BY <3>1, <3>3 DEF Live, Record
    <3> HIDE DEF with
    <3> QED
      BY <3>1, <3>2, <3>3, <3>4 DEF Covers
  <2> QED
    BY <2>1, <2>2
<1>2. db \in Index /\ tx = db
  BY <1>1 DEF Init, Index
<1>3. Spending = [crash : Nat, fault : Nat, blob : Nat, record : Nat] /\ spent \in Spending
  BY DEF Init, Spending
<1>4. TypeOK
  BY <1>2, <1>3, NoJobTyped DEF Init, TypeOK, Pcs, Holding, Waiting
<1>5. PixelsKept
  BY <1>1 DEF Init, PixelsKept
<1>6. Known /\ TxFollows /\ TxFull
  BY <1>1, <1>2 DEF Init, Known, TxFollows, TxFull, Showing
<1>7. ASSUME NEW p \in Procs PROVE JobOK(p)
  <2>1. pc[p] = "closed" /\ job[p] = NoJob /\ \A q \in Procs : job[q] = NoJob
    BY DEF Init
  <2>2. Fresh(NoJob) /\ Ready("closed", NoJob)
    BY FreshJobs, FreshReady
  <2> QED
    BY <2>1, <2>2 DEF JobOK, Fresh
<1> QED
  BY <1>4, <1>5, <1>6, <1>7 DEF IInv

LEMMA NextKeeps ==
  ASSUME IInv, [Next]_vars
  PROVE  IInv'
<1>1. CASE UNCHANGED vars
  <2>1. TypeOK' /\ PixelsKept' /\ Known' /\ TxFollows' /\ TxFull'
    BY <1>1 DEF IInv, vars, TypeOK, PixelsKept, Known, TxFollows, TxFull, Showing, Covers,
                Condemned, Doubtful, Clearing, Live
  <2>2. ASSUME NEW p \in Procs PROVE JobOK(p)'
    BY <1>1 DEF IInv, vars, JobOK, Showing, Covers, Live, Referenced
  <2> QED
    BY <2>1, <2>2 DEF IInv
<1>2. CASE Next
  BY <1>2, CallKeeps, ProgressKeeps, FailureKeeps, LossKeeps DEF Next
<1> QED
  BY <1>1, <1>2

\* The inductive invariant: whatever the calls, crashes and failures, every
\* readable capture that shows its pixels is in the index as their user or in
\* a marker nobody is about to drop, and each transaction's rows follow.
THEOREM Inductive == Spec => []IInv
  BY InitEstablishes, NextKeeps, PTL DEF Spec

\* The lock, the transaction and the calls' locals keep to their types.
THEOREM TypeCorrect == Spec => []TypeOK
<1>1. IInv => TypeOK
  BY DEF IInv
<1> QED
  BY <1>1, Inductive, PTL

\* No call unlinks a blob that a readable sidecar still shows.
THEOREM NoPixelsLost == Spec => []PixelsKept
<1>1. IInv => PixelsKept
  BY DEF IInv
<1> QED
  BY <1>1, Inductive, PTL

\* The committed index, or a marker nobody is about to drop, knows every user
\* of pixels.
THEOREM IndexComplete == Spec => []IndexKnowsPixels
<1>1. IInv => IndexKnowsPixels
  BY DEF IInv, Known, Showing, Covers, Doubtful, IndexKnowsPixels
<1> QED
  BY <1>1, Inductive, PTL

-----------------------------------------------------------------------------
(* Edits of sidecars                                                       *)

\* what one call may make of a sidecar that is there
Edit(r, s) ==
  \/ \E on, shown \in BOOLEAN : s = [r EXCEPT !.pinned = on, !.screen = shown]
  \/ \E doc \in Docs : s = [r EXCEPT !.doc = doc]
  \/ s = Evicted(r)

\* captures whose first sidecar is still to be written
Inserting(p) == job[p].op = "insert" /\ pc[p] \in {"insert", "mark", "write"}

Arriving == {job[p].id : p \in {q \in Procs : Inserting(q)}}

\* their ids are handed out and nobody else has them
Arrivals ==
  /\ \A id \in Ids : records[id] # None => id \in used
  /\ \A id \in Arriving : records[id] = None /\ id \in used
  /\ \A p, q \in Procs : Inserting(p) /\ Inserting(q) /\ job[p].id = job[q].id => p = q

\* what a sidecar is about to be replaced by
Replaces(id, r) ==
  /\ id \in used \ Arriving
  /\ records[id] # None /\ r # None => Edit(records[id], r)

Edits ==
  \A p \in Procs :
    /\ pc[p] \in {"mark", "write"} /\ job[p].op # "insert" => Replaces(job[p].id, job[p].rec)
    /\ \A id \in job[p].missing : tx.rows[id] # None /\ Replaces(id, tx.rows[id])

-----------------------------------------------------------------------------
(* Steps of one process                                                    *)

Moves(p) ==
  /\ pc' = [pc EXCEPT ![p] = pc'[p]] /\ job' = [job EXCEPT ![p] = job'[p]]
  /\ tx' = tx \/ lock \in {None, p}

\* after the step p is not about to write a sidecar
Quiet(p) == pc'[p] \notin {"insert", "mark", "write", "rewrite"}

LEMMA GotoMoves ==
  ASSUME IInv, NEW p \in Procs, NEW l, NEW j, Goto(p, l, j), tx' = tx \/ lock \in {None, p}
  PROVE  Moves(p) /\ pc'[p] = l /\ job'[p] = j
  BY DEF IInv, TypeOK, Goto, Moves

LEMMA Held ==
  ASSUME IInv, NEW p \in Procs, pc[p] \in Holding
  PROVE  lock = p
  BY DEF IInv, TypeOK

\* a call moves its own process only
LEMMA CallMoves == ASSUME IInv, NEW p \in Procs, Call(p) PROVE Moves(p) /\ tx' = tx
<1>1. (\E l, j : Goto(p, l, j)) /\ tx' = tx
  BY DEF Call, Open, Close, EvictCall, CollectCall, DeleteCall, ReadRecord, InsertCall, UpdateCall
<1> QED
  BY <1>1, GotoMoves

LEMMA FailsHoldingMoves ==
  ASSUME IInv, NEW p \in Procs, FailsHolding(p), lock = p
  PROVE  Moves(p)
<1>1. \E l, j : Goto(p, l, j)
  BY DEF FailsHolding, Recover, Fails
<1> QED
  BY <1>1, GotoMoves

LEMMA FailureMoves == ASSUME IInv, NEW p \in Procs, Failure(p) PROVE Moves(p)
<1>1. CASE MarkFails(p) \/ CommitFails(p) \/ UnlinkFails(p) \/ RewriteFails(p)
           \/ CandidateFails(p) \/ CollectFails(p)
  BY <1>1, Held, FailsHoldingMoves
  DEF MarkFails, CommitFails, UnlinkFails, RewriteFails, CandidateFails, CollectFails, Holding
<1>2. CASE WriteFails(p)
  <2>1. (\E l, j : Goto(p, l, j)) /\ lock = p
    BY <1>2, Held DEF WriteFails, Recover, Holding
  <2> QED
    BY <2>1, GotoMoves
<1>3. CASE Crash(p)
  <2>1. Goto(p, "closed", NoJob) /\ (tx' = tx \/ lock = p)
    BY <1>3 DEF Crash
  <2> QED
    BY <2>1, GotoMoves
<1> QED
  BY <1>1, <1>2, <1>3 DEF Failure

LEMMA WaitingMoves ==
  ASSUME IInv, NEW p \in Procs,
         \/ GiveUp(p) \/ Count(p) \/ Sync(p) \/ Reconcile(p) \/ Insert(p) \/ Update(p) \/ Delete(p)
         \/ Evict(p) \/ CollectGarbage(p) \/ ReadBlob(p) \/ Repair(p) \/ Clear(p) \/ Cleared(p)
  PROVE  Moves(p) /\ (tx' = tx \/ lock = None)
<1>1. CASE GiveUp(p) BY <1>1, GotoMoves DEF GiveUp, Fails
<1>2. CASE Count(p) BY <1>2, GotoMoves DEF Count
<1>3. CASE Sync(p)
  <2>1. (\E l, j : Goto(p, l, j)) /\ lock = None
    BY <1>3 DEF Sync, ReconcileThen, Return, LockFree
  <2> QED BY <2>1, GotoMoves
<1>4. CASE Reconcile(p)
  <2>1. (\E l, j : Goto(p, l, j)) /\ lock = None
    BY <1>4 DEF Reconcile, Acquire, LockFree
  <2> QED BY <2>1, GotoMoves
<1>5. CASE Insert(p) BY <1>5, GotoMoves DEF Insert
<1>6. CASE Update(p)
  <2>1. (\E l, j : Goto(p, l, j)) /\ lock = None
    BY <1>6 DEF Update, Fails, LockFree
  <2> QED BY <2>1, GotoMoves
<1>7. CASE Delete(p)
  <2>1. (\E l, j : Goto(p, l, j)) /\ lock = None
    BY <1>7 DEF Delete, ReconcileThen, LockFree
  <2> QED BY <2>1, GotoMoves
<1>8. CASE Evict(p)
  <2>1. (\E l, j : Goto(p, l, j)) /\ lock = None
    BY <1>8 DEF Evict, ReconcileThen, Return, LockFree
  <2> QED BY <2>1, GotoMoves
<1>9. CASE CollectGarbage(p)
  <2>1. (\E l, j : Goto(p, l, j)) /\ lock = None
    BY <1>9 DEF CollectGarbage, ReconcileThen, LockFree
  <2> QED BY <2>1, GotoMoves
<1>10. CASE ReadBlob(p)
  <2>1. (\E l, j : Goto(p, l, j)) /\ tx' = tx
    BY <1>10 DEF ReadBlob, Return
  <2> QED BY <2>1, GotoMoves
<1>11. CASE Repair(p)
  <2>1. (\E l, j : Goto(p, l, j)) /\ lock = None
    BY <1>11 DEF Repair, Return, LockFree
  <2> QED BY <2>1, GotoMoves
<1>12. CASE Clear(p)
  <2>1. (\E l, j : Goto(p, l, j)) /\ tx' = tx
    BY <1>12 DEF Clear
  <2> QED BY <2>1, GotoMoves
<1>13. CASE Cleared(p)
  <2>1. (\E l, j : Goto(p, l, j)) /\ tx' = tx
    BY <1>13 DEF Cleared, Return
  <2> QED BY <2>1, GotoMoves
<1> QED
  BY <1>1, <1>2, <1>3, <1>4, <1>5, <1>6, <1>7, <1>8, <1>9, <1>10, <1>11, <1>12, <1>13

LEMMA HoldingMoves ==
  ASSUME IInv, NEW p \in Procs,
         \/ Rewrite(p) \/ Unlink(p) \/ Candidate(p) \/ Collect(p) \/ Mark(p) \/ Write(p) \/ Commit(p)
  PROVE  Moves(p) /\ lock = p
<1>1. lock = p
  BY Held, Zenon DEF Rewrite, Unlink, Candidate, Collect, Mark, Write, Commit, Holding
<1>2. \E l, j : Goto(p, l, j)
  <2>1. CASE Rewrite(p) BY <2>1 DEF Rewrite
  <2>2. CASE Unlink(p) BY <2>2 DEF Unlink
  <2>3. CASE Candidate(p) BY <2>3 DEF Candidate, FailsHolding, Recover, Fails
  <2>4. CASE Collect(p) BY <2>4 DEF Collect
  <2>5. CASE Mark(p) BY <2>5 DEF Mark
  <2>6. CASE Write(p) BY <2>6 DEF Write
  <2>7. CASE Commit(p) BY <2>7 DEF Commit
  <2> QED BY <2>1, <2>2, <2>3, <2>4, <2>5, <2>6, <2>7
<1> QED
  BY <1>1, <1>2, GotoMoves

-----------------------------------------------------------------------------
(* Sidecars are only edited                                                *)

\* locals of others are as they were, and nobody else is inside a transaction
\* p is in
LEMMA Others ==
  ASSUME IInv, NEW p \in Procs, Moves(p), NEW q \in Procs, q # p
  PROVE  /\ pc'[q] = pc[q] /\ job'[q] = job[q]
         /\ pc[q] \in {"mark", "write"} \/ job[q].missing # {} => lock = q /\ tx' = tx
<1>1. pc \in [Procs -> Pcs] /\ job \in [Procs -> Job]
  BY DEF IInv, TypeOK
<1>2. pc'[q] = pc[q] /\ job'[q] = job[q]
  BY <1>1 DEF Moves
<1>3. pc[q] \in {"mark", "write"} \/ job[q].missing # {} => lock = q
  BY Held DEF IInv, JobOK, Holding
<1>4. lock = q => tx' = tx
  BY DEF Moves
<1> QED
  BY <1>2, <1>3, <1>4

\* A step that writes no sidecar, takes no id, and brings along only what it
\* may write.
LEMMA StepEdits ==
  ASSUME IInv, Arrivals, Edits, NEW p \in Procs, Moves(p), UNCHANGED <<records, used>>,
         Inserting(p)' => Inserting(p) /\ job'[p].id = job[p].id,
         pc'[p] \in {"mark", "write"} /\ job'[p].op # "insert" =>
            Replaces(job'[p].id, job'[p].rec),
         \A id \in job'[p].missing : tx'.rows[id] # None /\ Replaces(id, tx'.rows[id])
  PROVE  Arrivals' /\ Edits'
<1>1. \A q \in Procs : Inserting(q)' => Inserting(q) /\ job'[q].id = job[q].id
  <2> SUFFICES ASSUME NEW q \in Procs, q # p
               PROVE  Inserting(q)' => Inserting(q) /\ job'[q].id = job[q].id
    OBVIOUS
  <2> QED
    BY Others DEF Inserting
<1>2. Arriving' \subseteq Arriving
  BY <1>1 DEF Arriving
<1>3. Arrivals'
  BY <1>1, <1>2 DEF Arrivals
<1>4. ASSUME NEW id, NEW r, Replaces(id, r)
      PROVE  /\ id \in used' \ Arriving'
             /\ records'[id] # None /\ r # None => Edit(records'[id], r)
  BY <1>2, <1>4 DEF Replaces
<1>5. ASSUME NEW q \in Procs
      PROVE  /\ pc'[q] \in {"mark", "write"} /\ job'[q].op # "insert" =>
                  Replaces(job'[q].id, job'[q].rec)
             /\ \A id \in job'[q].missing : tx'.rows[id] # None /\ Replaces(id, tx'.rows[id])
  BY Others DEF Edits
<1> QED
  BY <1>3, <1>4, <1>5 DEF Edits, Replaces

LEMMA QuietMissing ==
  ASSUME IInv', NEW p \in Procs, Quiet(p)
  PROVE  job'[p].missing = {}
  BY DEF IInv, JobOK, Quiet

LEMMA QuietEdits ==
  ASSUME IInv, IInv', Arrivals, Edits, NEW p \in Procs, Moves(p), UNCHANGED <<records, used>>,
         Quiet(p)
  PROVE  Arrivals' /\ Edits'
<1>1. job'[p].missing = {}
  BY QuietMissing
<1>2. ~Inserting(p)'
  BY DEF Inserting, Quiet
<1> QED
  BY <1>1, <1>2, StepEdits DEF Quiet

\* every call but an insert
PlainCall(p) ==
  \/ Open(p) \/ Close(p) \/ EvictCall(p) \/ CollectCall(p)
  \/ \E id \in Ids : DeleteCall(p, id) \/ ReadRecord(p, id)
  \/ \E id \in Ids, c \in Change : UpdateCall(p, id, c)

LEMMA PlainCallQuiet ==
  ASSUME IInv, NEW p \in Procs, PlainCall(p)
  PROVE  Moves(p) /\ Quiet(p) /\ UNCHANGED <<records, used>>
<1>1. UNCHANGED <<records, used>>
  BY
  DEF PlainCall, Open, Close, EvictCall, CollectCall, DeleteCall, ReadRecord, UpdateCall, KeepsFiles
<1>3. \E l \in {"count", "closed", "evict", "gc", "delete", "readBlob", "update"} : \E j :
         Goto(p, l, j)
  <2>1. CASE Open(p) \/ Close(p) \/ EvictCall(p) \/ CollectCall(p)
    BY <2>1 DEF Open, Close, EvictCall, CollectCall
  <2>2. ASSUME NEW id \in Ids, DeleteCall(p, id) \/ ReadRecord(p, id)
        PROVE  \E l \in {"delete", "readBlob"} : \E j : Goto(p, l, j)
    BY <2>2 DEF DeleteCall, ReadRecord
  <2>3. ASSUME NEW id \in Ids, NEW c \in Change, UpdateCall(p, id, c)
        PROVE  \E j : Goto(p, "update", j)
    BY <2>3 DEF UpdateCall
  <2> QED
    BY <2>1, <2>2, <2>3 DEF PlainCall
<1>2. pc'[p] \notin {"insert", "mark", "write", "rewrite"}
  BY <1>3 DEF Goto, IInv, TypeOK
<1> QED
  BY <1>1, <1>2, CallMoves DEF Call, PlainCall, Quiet

LEMMA CallEdits ==
  ASSUME IInv, IInv', Arrivals, Edits, NEW p \in Procs, Call(p)
  PROVE  Arrivals' /\ Edits'
<1>m. Moves(p) /\ tx' = tx
  BY CallMoves
<1>1. ASSUME NEW id \in Ids, NEW h \in Hashes \union {NoImage}, NEW pinned \in BOOLEAN,
             NEW doc \in Docs, InsertCall(p, id, h, pinned, doc)
      PROVE  Arrivals' /\ Edits'
  <2>1. /\ pc'[p] = "insert" /\ job'[p].op = "insert" /\ job'[p].id = id /\ job'[p].missing = {}
        /\ id \notin used /\ used' = used \union {id} /\ UNCHANGED records
    BY <1>1 DEF InsertCall, Goto, NoJob, IInv, TypeOK
  <2>2. \A q \in Procs : q # p => (Inserting(q)' <=> Inserting(q)) /\ job'[q].id = job[q].id
    BY <1>m, Others DEF Inserting
  <2>3. pc[p] = "idle"
    BY <1>1 DEF InsertCall
  <2>4. Inserting(p)' /\ ~Inserting(p)
    BY <2>1, <2>3 DEF Inserting
  <2>5. Arriving' = Arriving \union {id}
    BY <2>1, <2>2, <2>4 DEF Arriving
  <2>6. id \notin Arriving /\ records[id] = None
    BY <2>1 DEF Arrivals
  <2>7. Arrivals'
    <3>1. \A i \in Ids : records'[i] # None => i \in used'
      BY <2>1 DEF Arrivals
    <3>2. \A i \in Arriving' : records'[i] = None /\ i \in used'
      BY <2>1, <2>5, <2>6 DEF Arrivals
    <3>3. \A q \in Procs : q # p /\ Inserting(q)' => job'[q].id # id
      BY <2>2, <2>6 DEF Arriving
    <3>4. \A q, r \in Procs : q # p /\ r # p /\ Inserting(q)' /\ Inserting(r)'
                              /\ job'[q].id = job'[r].id => q = r
      BY <2>2 DEF Arrivals
    <3>5. \A q, r \in Procs : Inserting(q)' /\ Inserting(r)' /\ job'[q].id = job'[r].id => q = r
      BY <2>1, <3>3, <3>4
    <3> QED
      BY <3>1, <3>2, <3>5 DEF Arrivals
  <2>8. ASSUME NEW i, NEW r, Replaces(i, r)
        PROVE  /\ i \in used' \ Arriving'
               /\ records'[i] # None /\ r # None => Edit(records'[i], r)
    BY <2>1, <2>5, <2>8 DEF Replaces
  <2>9. ASSUME NEW q \in Procs
        PROVE  /\ pc'[q] \in {"mark", "write"} /\ job'[q].op # "insert" =>
                    Replaces(job'[q].id, job'[q].rec)
               /\ \A i \in job'[q].missing : tx'.rows[i] # None /\ Replaces(i, tx'.rows[i])
    BY <1>m, <2>1, Others DEF Edits
  <2> QED
    BY <2>7, <2>8, <2>9 DEF Edits, Replaces
<1>2. CASE PlainCall(p)
  BY <1>2, PlainCallQuiet, QuietEdits
<1> QED
  BY <1>1, <1>2 DEF Call, PlainCall

LEMMA FailureQuiet ==
  ASSUME IInv, NEW p \in Procs, Failure(p)
  PROVE  Moves(p) /\ Quiet(p) /\ UNCHANGED <<records, used>>
<1>1. UNCHANGED <<records, used>>
  BY DEF Failure, MarkFails, WriteFails, CommitFails, UnlinkFails, RewriteFails, CandidateFails,
         CollectFails, Crash
<1>2. \E l, j : Goto(p, l, j) /\ l \notin {"insert", "mark", "write", "rewrite"}
  BY DEF Failure, MarkFails, WriteFails, CommitFails, UnlinkFails, RewriteFails, CandidateFails,
         CollectFails, Crash, FailsHolding, Recover, Fails
<1>3. pc'[p] \notin {"insert", "mark", "write", "rewrite"}
  BY <1>2 DEF Goto, IInv, TypeOK
<1> QED
  BY <1>1, <1>3, FailureMoves DEF Quiet

\* Steps of a call that bring nothing to write.
LEMMA PlainQuiet ==
  ASSUME IInv, NEW p \in Procs,
         \/ GiveUp(p) \/ Count(p) \/ Sync(p) \/ Unlink(p) \/ Evict(p) \/ CollectGarbage(p)
         \/ Collect(p) \/ ReadBlob(p) \/ Commit(p) \/ Clear(p) \/ Cleared(p)
  PROVE  Moves(p) /\ Quiet(p) /\ UNCHANGED <<records, used>>
<1>1. UNCHANGED <<records, used>>
  BY DEF GiveUp, Count, Sync, Unlink, Evict, CollectGarbage, Collect, ReadBlob, Commit, Clear,
         Cleared, KeepsFiles
<1>2. \E l, j : Goto(p, l, j) /\ l \notin {"insert", "mark", "write", "rewrite"}
  <2>1. CASE GiveUp(p) BY <2>1 DEF GiveUp, Fails
  <2>2. CASE Count(p) BY <2>2 DEF Count
  <2>3. CASE Sync(p)
    <3>1. \/ \E j : Goto(p, "reconcile", j)
          \/ \E j : Goto(p, "idle", j)
          \/ \E j : Goto(p, "commit", j)
      BY <2>3 DEF Sync, ReconcileThen, Return
    <3> QED
      BY <3>1
  <2>4. CASE Unlink(p) BY <2>4 DEF Unlink
  <2>5. CASE Evict(p)
    <3>1. \/ \E j : Goto(p, "reconcile", j)
          \/ \E j : Goto(p, "idle", j)
          \/ \E j : Goto(p, "next", j)
      BY <2>5 DEF Evict, ReconcileThen, Return
    <3> QED
      BY <3>1
  <2>6. CASE CollectGarbage(p) BY <2>6 DEF CollectGarbage, ReconcileThen
  <2>7. CASE Collect(p)
    <3>1. \/ \E j : Goto(p, "commit", j)
          \/ \E j : Goto(p, "collect", j)
      BY <2>7 DEF Collect
    <3> QED
      BY <3>1
  <2>8. CASE ReadBlob(p) BY <2>8 DEF ReadBlob, Return
  <2>9. CASE Commit(p) BY <2>9 DEF Commit
  <2>10. CASE Clear(p) BY <2>10 DEF Clear
  <2>11. CASE Cleared(p)
    <3>1. job[p].after \in {"idle", "delete", "evict", "gc"}
      BY JobFields DEF IInv, TypeOK
    <3> QED
      BY <2>11, <3>1 DEF Cleared, Return
  <2> QED
    BY <2>1, <2>2, <2>3, <2>4, <2>5, <2>6, <2>7, <2>8, <2>9, <2>10, <2>11
<1>3. pc'[p] \notin {"insert", "mark", "write", "rewrite"}
  BY <1>2 DEF Goto, IInv, TypeOK
<1>4. Moves(p)
  BY WaitingMoves, HoldingMoves
<1> QED
  BY <1>1, <1>3, <1>4 DEF Quiet

\* A step after which p is about to write what the step looked at.
LEMMA BringsEdits ==
  ASSUME IInv, IInv', Arrivals, Edits, NEW p \in Procs, NEW j, Goto(p, "mark", j), Moves(p),
         UNCHANGED <<records, used>>,
         \/ j.op = "insert" /\ Inserting(p) /\ j.id = job[p].id
         \/ j.op # "insert" /\ Replaces(j.id, j.rec)
  PROVE  Arrivals' /\ Edits'
<1>1. pc'[p] = "mark" /\ job'[p] = j
  BY DEF Goto, IInv, TypeOK
<1>2. job'[p].missing = {}
  BY <1>1 DEF IInv, JobOK
<1> QED
  BY <1>1, <1>2, StepEdits DEF Inserting

\* A sidecar that is there belongs to nobody's unfinished insert.
LEMMA PresentReplaces ==
  ASSUME Arrivals, NEW id \in Ids, records[id] # None, NEW r, r # None => Edit(records[id], r)
  PROVE  Replaces(id, r)
  BY DEF Arrivals, Replaces

LEMMA MutatedEdits ==
  ASSUME NEW r \in Record, NEW c \in Change
  PROVE  Edit(r, Mutated(r, c))
<1>1. CASE c.field = "pinned"
  <2>1. r.pinned \in BOOLEAN /\ r.screen \in BOOLEAN /\ c.on \in BOOLEAN
    BY <1>1 DEF Record, Change
  <2>2. Mutated(r, c) = [r EXCEPT !.pinned = c.on, !.screen = r.screen /\ c.on]
    BY <1>1 DEF Mutated, Record
  <2> QED
    BY <2>1, <2>2 DEF Edit
<1>2. CASE c.field = "screen"
  BY <1>2 DEF Edit, Mutated, Record, Change
<1>3. CASE c.field = "doc"
  BY <1>3 DEF Edit, Mutated, Record, Change
<1> QED
  BY <1>1, <1>2, <1>3 DEF Change

LEMMA UpdateEdits ==
  ASSUME IInv, IInv', Arrivals, Edits, NEW p \in Procs, Update(p)
  PROVE  Arrivals' /\ Edits'
<1>1. UNCHANGED <<records, used>>
  BY DEF Update, KeepsFiles
<1>2. CASE \E l \in {"closed", "idle"} : \E j : Goto(p, l, j)
  <2>1. pc'[p] \notin {"insert", "mark", "write", "rewrite"}
    BY <1>2 DEF Goto, IInv, TypeOK
  <2> QED
    BY <1>1, <2>1, WaitingMoves, QuietEdits DEF Quiet
<1>3. CASE /\ records[job[p].id] # None
           /\ Goto(p, "mark", [job[p] EXCEPT !.rec = Mutated(records[job[p].id], job[p].change)])
  <2>1. /\ job[p].op = "update" /\ job[p].id \in Ids /\ job[p].change \in Change
        /\ job[p] \in Job /\ records[job[p].id] \in Record
    BY <1>3 DEF Update, IInv, TypeOK, JobOK, Ready
  <2>2. Replaces(job[p].id, Mutated(records[job[p].id], job[p].change))
    BY <1>3, <2>1, MutatedEdits, PresentReplaces
  <2> DEFINE j == [job[p] EXCEPT !.rec = Mutated(records[job[p].id], job[p].change)]
  <2>3. /\ j.op = "update" /\ j.id = job[p].id
        /\ j.rec = Mutated(records[job[p].id], job[p].change)
    BY <2>1 DEF Job
  <2>4. Goto(p, "mark", j)
    BY <1>3
  <2> HIDE DEF j
  <2> QED
    BY <1>1, <2>2, <2>3, <2>4, WaitingMoves, BringsEdits
<1> QED
  BY <1>2, <1>3 DEF Update, Fails

LEMMA InsertEdits ==
  ASSUME IInv, IInv', Arrivals, Edits, NEW p \in Procs, Insert(p)
  PROVE  Arrivals' /\ Edits'
<1>1. UNCHANGED <<records, used>> /\ Goto(p, "mark", job[p]) /\ pc[p] = "insert"
  BY DEF Insert
<1>2. job[p].op = "insert"
  BY <1>1 DEF IInv, JobOK, Ready
<1> QED
  BY <1>1, <1>2, WaitingMoves, BringsEdits DEF Inserting

LEMMA DeleteEdits ==
  ASSUME IInv, IInv', Arrivals, Edits, NEW p \in Procs, Delete(p)
  PROVE  Arrivals' /\ Edits'
<1>1. UNCHANGED <<records, used>> /\ Moves(p)
  BY WaitingMoves DEF Delete, KeepsFiles
<1>2. CASE \E l \in {"reconcile", "commit"} : \E j : Goto(p, l, j)
  <2>1. pc'[p] \notin {"insert", "mark", "write", "rewrite"}
    BY <1>2 DEF Goto, IInv, TypeOK
  <2> QED
    BY <1>1, <2>1, QuietEdits DEF Quiet
<1>3. CASE /\ records[job[p].id] # None
           /\ Goto(p, "mark", [job[p] EXCEPT !.pending = Listed,
                                             !.hash = records[job[p].id].hash])
  <2>1. /\ job[p].op = "delete" /\ job[p].id \in Ids /\ job[p].rec = None /\ job[p] \in Job
    BY DEF Delete, IInv, TypeOK, JobOK, Ready
  <2>2. Replaces(job[p].id, None)
    BY <1>3, <2>1, PresentReplaces
  <2> DEFINE j == [job[p] EXCEPT !.pending = Listed, !.hash = records[job[p].id].hash]
  <2>3. j.op = "delete" /\ j.id = job[p].id /\ j.rec = None
    BY <2>1 DEF Job
  <2>4. Goto(p, "mark", j)
    BY <1>3
  <2> HIDE DEF j
  <2> QED
    BY <1>1, <2>2, <2>3, <2>4, BringsEdits
<1>4. \/ \E l \in {"reconcile", "commit"} : \E j : Goto(p, l, j)
      \/ /\ records[job[p].id] # None
         /\ Goto(p, "mark", [job[p] EXCEPT !.pending = Listed,
                                           !.hash = records[job[p].id].hash])
  <2>1. CASE ReconcileThen(p, "delete")
    BY <2>1 DEF ReconcileThen
  <2>2. CASE ~ReconcileThen(p, "delete")
    BY <2>2 DEF Delete
  <2> QED
    BY <2>1, <2>2
<1> QED
  BY <1>2, <1>3, <1>4

LEMMA RepairEdits ==
  ASSUME IInv, IInv', Arrivals, Edits, NEW p \in Procs, Repair(p)
  PROVE  Arrivals' /\ Edits'
<1>1. UNCHANGED <<records, used>> /\ Moves(p)
  BY WaitingMoves DEF Repair, KeepsFiles
<1>2. CASE \E l \in {"idle", "commit"} : \E j : Goto(p, l, j)
  <2>1. pc'[p] \notin {"insert", "mark", "write", "rewrite"}
    BY <1>2 DEF Goto, IInv, TypeOK
  <2> QED
    BY <1>1, <2>1, QuietEdits DEF Quiet
<1>3. CASE /\ Live(records[job[p].id])
           /\ Goto(p, "mark", [job[p] EXCEPT !.rec = Evicted(records[job[p].id])])
  <2>1. /\ job[p].op = "repair" /\ job[p].id \in Ids /\ job[p] \in Job
        /\ records[job[p].id] # None
    BY <1>3 DEF Repair, IInv, TypeOK, JobOK, Ready, Live
  <2>2. Replaces(job[p].id, Evicted(records[job[p].id]))
    BY <2>1, PresentReplaces DEF Edit
  <2> DEFINE j == [job[p] EXCEPT !.rec = Evicted(records[job[p].id])]
  <2>3. j.op = "repair" /\ j.id = job[p].id /\ j.rec = Evicted(records[job[p].id])
    BY <2>1 DEF Job
  <2>4. Goto(p, "mark", j)
    BY <1>3
  <2> HIDE DEF j
  <2> QED
    BY <1>1, <2>2, <2>3, <2>4, BringsEdits
<1> QED
  BY <1>2, <1>3 DEF Repair, Return

LEMMA CandidateEdits ==
  ASSUME IInv, IInv', Arrivals, Edits, NEW p \in Procs, Candidate(p)
  PROVE  Arrivals' /\ Edits'
<1>1. UNCHANGED <<records, used>> /\ Moves(p)
  BY HoldingMoves, ZenonT(30) DEF Candidate, KeepsFiles
<1>2. job[p] \in Job /\ job[p].op = "evict" /\ records \in [Ids -> Record \union {None}]
  BY Zenon DEF Candidate, IInv, TypeOK, JobOK
<1>3. CASE \E l \in {"next", "commit", "count", "closed", "idle"} : \E j : Goto(p, l, j)
  <2>1. pc'[p] \notin {"insert", "mark", "write", "rewrite"}
    BY <1>3 DEF Goto, IInv, TypeOK
  <2> QED
    BY <1>1, <2>1, QuietEdits DEF Quiet
<1>4. ASSUME NEW id \in Ids, Live(records[id]), NEW r, Edit(records[id], r),
             Goto(p, "mark", [Popped(job[p], id) EXCEPT
                        !.id = id, !.rec = r, !.hash = r.hash])
      PROVE  Arrivals' /\ Edits'
  <2> DEFINE j == [Popped(job[p], id) EXCEPT !.id = id, !.rec = r, !.hash = r.hash]
  <2>1. j.op = "evict" /\ j.id = id /\ j.rec = r
    BY <1>2 DEF Popped, Job
  <2>2. Replaces(id, r)
    BY <1>4, PresentReplaces DEF Live
  <2>3. Goto(p, "mark", j)
    BY <1>4
  <2> HIDE DEF j
  <2> QED
    BY <1>1, <2>1, <2>2, <2>3, BringsEdits
<1>5. ASSUME NEW id \in Ids, Live(records[id])
      PROVE  /\ Edit(records[id], [records[id] EXCEPT !.pinned = TRUE])
             /\ Edit(records[id], Evicted(records[id]))
  <2>1. records[id] \in Record
    BY <1>2, <1>5 DEF Live
  <2>2. /\ records[id].screen \in BOOLEAN
        /\ [records[id] EXCEPT !.pinned = TRUE] =
             [records[id] EXCEPT !.pinned = TRUE, !.screen = records[id].screen]
    BY <2>1, ZenonT(30) DEF Record
  <2> QED
    BY <2>2 DEF Edit
<1>6. \/ \E l \in {"next", "commit", "count", "closed", "idle"} : \E j : Goto(p, l, j)
      \/ \E id \in Ids : /\ Live(records[id])
           /\ \E r \in {[records[id] EXCEPT !.pinned = TRUE], Evicted(records[id])} :
                Goto(p, "mark", [Popped(job[p], id) EXCEPT
                        !.id = id, !.rec = r, !.hash = r.hash])
  <2>1. CASE FailsHolding(p)
    BY <2>1 DEF FailsHolding, Recover, Fails
  <2>2. CASE Goto(p, "commit", job[p])
    BY <2>2
  <2>3. CASE ~FailsHolding(p) /\ ~Goto(p, "commit", job[p])
    <3>1. PICK id \in Ids :
            \/ Goto(p, "next", Popped(job[p], id))
            \/ /\ Live(records[id])
               /\ \E r \in {[records[id] EXCEPT !.pinned = TRUE], Evicted(records[id])} :
                    Goto(p, "mark", [Popped(job[p], id) EXCEPT
                            !.id = id, !.rec = r, !.hash = r.hash])
      BY <2>3, Zenon DEF Candidate
    <3> QED
      BY <3>1
  <2> QED
    BY <2>1, <2>2, <2>3, Zenon
<1> QED
  BY <1>3, <1>4, <1>5, <1>6

LEMMA MarkEdits ==
  ASSUME IInv, IInv', Arrivals, Edits, NEW p \in Procs, Mark(p)
  PROVE  Arrivals' /\ Edits'
<1>1. UNCHANGED <<records, used, tx>> /\ Moves(p) /\ pc[p] = "mark"
  BY HoldingMoves DEF Mark
<1>2. PICK s \in Slots : Goto(p, "write", [job[p] EXCEPT !.mine = @ \union {s}])
  BY DEF Mark
<1>3. /\ pc'[p] = "write" /\ job'[p].op = job[p].op /\ job'[p].id = job[p].id
      /\ job'[p].rec = job[p].rec
  BY <1>2 DEF Goto, IInv, TypeOK, Job
<1>4. job'[p].missing = {}
  BY <1>3 DEF IInv, JobOK
<1>5. Inserting(p)' => Inserting(p)
  BY <1>1, <1>3 DEF Inserting
<1>6. job'[p].op # "insert" => Replaces(job'[p].id, job'[p].rec)
  BY <1>1, <1>3 DEF Edits
<1> QED
  BY <1>1, <1>3, <1>4, <1>5, <1>6, StepEdits

LEMMA ReconcileEdits ==
  ASSUME IInv, IInv', Arrivals, Edits, NEW p \in Procs, Reconcile(p)
  PROVE  Arrivals' /\ Edits'
<1>1. UNCHANGED <<records, used>> /\ Moves(p) /\ records \in [Ids -> Record \union {None}]
  BY WaitingMoves DEF Reconcile, KeepsFiles, IInv, TypeOK
<1>2. PICK unread \in Unread :
        \E missing \in SUBSET (Ids \ unread) :
          /\ \A id \in missing : Live(records[id])
          /\ tx' = [rows   |-> [id \in Ids |-> IF id \in unread THEN None
                                ELSE IF id \in missing THEN Evicted(records[id])
                                ELSE records[id]],
                    sized  |-> blobs,
                    booted |-> TRUE]
          /\ Goto(p, IF missing = {} THEN "commit" ELSE "rewrite",
                  [job[p] EXCEPT !.pending = Listed, !.missing = missing])
  BY DEF Reconcile
<1>3. PICK missing \in SUBSET (Ids \ unread) :
          /\ \A id \in missing : Live(records[id])
          /\ tx' = [rows   |-> [id \in Ids |-> IF id \in unread THEN None
                                ELSE IF id \in missing THEN Evicted(records[id])
                                ELSE records[id]],
                    sized  |-> blobs,
                    booted |-> TRUE]
          /\ Goto(p, IF missing = {} THEN "commit" ELSE "rewrite",
                  [job[p] EXCEPT !.pending = Listed, !.missing = missing])
  BY <1>2
<1>4. pc'[p] \in {"commit", "rewrite"} /\ job'[p].missing = missing
  BY <1>3 DEF Goto, IInv, TypeOK, Job
<1>5. ASSUME NEW id \in missing
      PROVE  tx'.rows[id] # None /\ Replaces(id, tx'.rows[id])
  <2>1. id \in Ids /\ records[id] \in Record /\ records[id] # None
    BY <1>1, <1>3 DEF Live
  <2>2. Evicted(records[id]) \in Record /\ tx'.rows[id] = Evicted(records[id])
    BY <1>3, <2>1 DEF Evicted, Record
  <2> QED
    BY <2>1, <2>2, PresentReplaces DEF Edit
<1>6. ~Inserting(p)'
  BY <1>4 DEF Inserting
<1> QED
  BY <1>1, <1>4, <1>5, <1>6, StepEdits

LEMMA RewriteEdits ==
  ASSUME IInv, IInv', Arrivals, Edits, NEW p \in Procs, Rewrite(p)
  PROVE  /\ Arrivals' /\ Edits'
         /\ \A id \in Ids : records[id] # None /\ records'[id] # None =>
              records'[id] = records[id] \/ Edit(records[id], records'[id])
<1>1. /\ pc[p] = "rewrite" /\ lock = p /\ UNCHANGED <<tx, used>> /\ Moves(p)
      /\ records \in [Ids -> Record \union {None}] /\ job[p] \in Job
  BY HoldingMoves DEF Rewrite, IInv, TypeOK
<1>2. PICK id \in Ids : /\ id \in job[p].missing
                        /\ records' = [records EXCEPT ![id] = tx.rows[id]]
                        /\ Goto(p, IF job[p].missing = {id} THEN "commit" ELSE "rewrite",
                                [job[p] EXCEPT !.missing = @ \ {id}])
  BY DEF Rewrite, Oldest
<1>3. /\ pc'[p] \in {"commit", "rewrite"} /\ job'[p].missing = job[p].missing \ {id}
  BY <1>1, <1>2 DEF Goto, IInv, TypeOK, Job
<1>4. tx.rows[id] # None /\ Replaces(id, tx.rows[id])
  BY <1>2 DEF Edits
<1>5. \A i \in Ids : i # id => records'[i] = records[i]
  BY <1>1, <1>2
<1>6. \A q \in Procs : q # p => (Inserting(q)' <=> Inserting(q)) /\ job'[q].id = job[q].id
  BY <1>1, Others DEF Inserting
<1>7. ~Inserting(p) /\ ~Inserting(p)'
  BY <1>1, <1>3 DEF Inserting
<1>8. Arriving' = Arriving
  BY <1>6, <1>7 DEF Arriving
<1>9. Arrivals'
  <2>1. \A i \in Ids : records'[i] # None => i \in used'
    BY <1>1, <1>4, <1>5 DEF Arrivals, Replaces
  <2>2. \A i \in Arriving' : records'[i] = None /\ i \in used'
    <3>1. id \notin Arriving
      BY <1>4 DEF Replaces
    <3> QED
      BY <1>1, <1>2, <1>8, <3>1 DEF Arrivals
  <2>3. \A q, r \in Procs : Inserting(q)' /\ Inserting(r)' /\ job'[q].id = job'[r].id => q = r
    BY <1>6, <1>7 DEF Arrivals
  <2> QED
    BY <2>1, <2>2, <2>3 DEF Arrivals
<1>10. ASSUME NEW i, NEW r, Replaces(i, r), i # id
       PROVE  /\ i \in used' \ Arriving'
              /\ records'[i] # None /\ r # None => Edit(records'[i], r)
  BY <1>1, <1>2, <1>8, <1>10 DEF Replaces
<1>11. ASSUME NEW q \in Procs
       PROVE  /\ pc'[q] \notin {"mark", "write"}
              /\ \A i \in job'[q].missing :
                   i # id /\ tx'.rows[i] # None /\ Replaces(i, tx'.rows[i])
  <2>1. CASE q = p
    BY <1>1, <1>3, <2>1 DEF Edits
  <2>2. CASE q # p
    <3>1. lock # q
      BY <1>1, <2>2
    <3> QED
      BY <1>1, <2>2, <3>1, Others
  <2> QED
    BY <2>1, <2>2
<1>12. Edits'
  BY <1>10, <1>11 DEF Edits, Replaces
<1> QED
  BY <1>2, <1>4, <1>5, <1>9, <1>12 DEF Replaces

LEMMA WriteEdits ==
  ASSUME IInv, IInv', Arrivals, Edits, NEW p \in Procs, Write(p)
  PROVE  /\ Arrivals' /\ Edits'
         /\ \A id \in Ids : records[id] # None /\ records'[id] # None =>
              records'[id] = records[id] \/ Edit(records[id], records'[id])
<1>1. /\ pc[p] = "write" /\ lock = p /\ UNCHANGED used /\ Moves(p)
      /\ records \in [Ids -> Record \union {None}] /\ job[p].id \in Ids
      /\ records' = [records EXCEPT ![job[p].id] = job[p].rec]
  BY HoldingMoves DEF Write, IInv, TypeOK, JobOK
<1> PICK id \in Ids : id = job[p].id
  BY <1>1
<1>2. pc'[p] \in {"unlink", "next", "commit"}
  <2>1. \E l \in {"unlink", "next", "commit"} : \E j : Goto(p, l, j)
    BY DEF Write
  <2> QED
    BY <2>1 DEF Goto, IInv, TypeOK
<1>3. job'[p].missing = {}
  BY <1>2 DEF IInv, JobOK
<1>4. \A i \in Ids : records'[i] = IF i = id THEN job[p].rec ELSE records[i]
  BY <1>1
<1>5. \A q \in Procs : q # p => (Inserting(q)' <=> Inserting(q)) /\ job'[q].id = job[q].id
  BY <1>1, Others DEF Inserting
<1>6. ~Inserting(p)'
  BY <1>2 DEF Inserting
<1>7. Arriving' \subseteq Arriving /\ id \notin Arriving' /\ id \in used
  <2>1. CASE job[p].op = "insert"
    <3>1. Inserting(p)
      BY <1>1, <2>1 DEF Inserting
    <3> QED
      BY <1>5, <1>6, <3>1 DEF Arriving, Arrivals
  <2>2. CASE job[p].op # "insert"
    BY <1>1, <1>5, <1>6, <2>2 DEF Arriving, Edits, Replaces
  <2> QED
    BY <2>1, <2>2
<1>8. Arrivals'
  <2>1. \A i \in Ids : records'[i] # None => i \in used'
    BY <1>1, <1>4, <1>7 DEF Arrivals
  <2>2. \A i \in Arriving' : records'[i] = None /\ i \in used'
    BY <1>1, <1>7 DEF Arrivals
  <2>3. \A q, r \in Procs : Inserting(q)' /\ Inserting(r)' /\ job'[q].id = job'[r].id => q = r
    BY <1>5, <1>6 DEF Arrivals
  <2> QED
    BY <2>1, <2>2, <2>3 DEF Arrivals
<1>9. ASSUME NEW q \in Procs
      PROVE  pc'[q] \notin {"mark", "write"} /\ job'[q].missing = {}
  <2>1. CASE q = p
    BY <1>2, <1>3, <2>1
  <2>2. CASE q # p
    <3>1. lock # q
      BY <1>1, <2>2
    <3> QED
      BY <1>1, <2>2, <3>1, Others
  <2> QED
    BY <2>1, <2>2
<1>10. Edits'
  BY <1>9 DEF Edits
<1>11. records[id] # None /\ records'[id] # None => Edit(records[id], records'[id])
  <2>1. CASE job[p].op = "insert"
    <3>1. Inserting(p)
      BY <1>1, <2>1 DEF Inserting
    <3> QED
      BY <3>1 DEF Arriving, Arrivals
  <2>2. CASE job[p].op # "insert"
    BY <1>1, <1>4, <2>2 DEF Edits, Replaces
  <2> QED
    BY <2>1, <2>2
<1> QED
  BY <1>4, <1>8, <1>10, <1>11

LEMMA LossEdits ==
  ASSUME IInv, Arrivals, Edits,
         \/ \E h \in Hashes : LoseBlob(h)
         \/ \E id \in Ids : LoseRecord(id)
  PROVE  /\ Arrivals' /\ Edits'
         /\ \A id \in Ids : records[id] # None /\ records'[id] # None => records'[id] = records[id]
<1>1. /\ UNCHANGED <<tx, pc, job, used>>
      /\ \A id \in Ids : records'[id] = records[id] \/ records'[id] = None
  BY DEF LoseBlob, LoseRecord, IInv, TypeOK
<1>2. \A q \in Procs : Inserting(q)' <=> Inserting(q)
  BY <1>1 DEF Inserting
<1>3. Arriving' = Arriving
  BY <1>1, <1>2 DEF Arriving
<1>4. \A id \in Arriving : id \in Ids
  BY DEF Inserting, Arriving, IInv, JobOK, Ready
<1>5. Arrivals'
  <2>1. \A id \in Ids : records'[id] # None => id \in used'
    BY <1>1 DEF Arrivals
  <2>2. \A id \in Arriving' : records'[id] = None /\ id \in used'
    BY <1>1, <1>3, <1>4 DEF Arrivals
  <2>3. \A q, r \in Procs : Inserting(q)' /\ Inserting(r)' /\ job'[q].id = job'[r].id => q = r
    BY <1>1, <1>2 DEF Arrivals
  <2> QED
    BY <2>1, <2>2, <2>3 DEF Arrivals
<1>6. ASSUME NEW id \in Ids, NEW r, Replaces(id, r)
      PROVE  /\ id \in used' \ Arriving'
             /\ records'[id] # None /\ r # None => Edit(records'[id], r)
  BY <1>1, <1>3, <1>6 DEF Replaces
<1>7. ASSUME NEW q \in Procs
      PROVE  /\ pc[q] \in {"mark", "write"} => job[q].id \in Ids
             /\ job[q].missing \subseteq Ids
  BY JobFields DEF IInv, JobOK, TypeOK
<1>8. Edits'
  BY <1>1, <1>6, <1>7 DEF Edits, Replaces
<1> QED
  BY <1>1, <1>5, <1>8

\* what a step may make of a sidecar that is there
Merges == \A id \in Ids : records[id] # None /\ records'[id] # None => Edit(records[id], records'[id])

LEMMA SameMerges ==
  ASSUME IInv,
         \A id \in Ids : records[id] # None /\ records'[id] # None =>
           records'[id] = records[id] \/ Edit(records[id], records'[id])
  PROVE  Merges
<1>1. ASSUME NEW r \in Record PROVE Edit(r, r)
  <2>1. /\ r.pinned \in BOOLEAN /\ r.screen \in BOOLEAN
        /\ r = [r EXCEPT !.pinned = r.pinned, !.screen = r.screen]
    BY DEF Record
  <2> QED
    BY <2>1 DEF Edit
<1>2. \A id \in Ids : records[id] # None => records[id] \in Record
  BY DEF IInv, TypeOK
<1> QED
  BY <1>1, <1>2 DEF Merges

LEMMA StepMerges ==
  ASSUME IInv, IInv', Arrivals, Edits, [Next]_vars
  PROVE  Arrivals' /\ Edits' /\ Merges
<1>1. CASE UNCHANGED vars
  <2>1. Arrivals' /\ Edits'
    BY <1>1 DEF vars, Arrivals, Arriving, Inserting, Edits, Replaces
  <2> QED
    BY <1>1, <2>1, SameMerges DEF vars
<1>2. ASSUME NEW p \in Procs, Call(p) \/ Failure(p)
      PROVE  Arrivals' /\ Edits' /\ Merges
  <2>1. UNCHANGED records
    BY <1>2 DEF Call, Open, Close, EvictCall, CollectCall, DeleteCall, ReadRecord, InsertCall,
       UpdateCall, KeepsFiles, Failure, MarkFails, WriteFails, CommitFails, UnlinkFails,
       RewriteFails, CandidateFails, CollectFails, Crash
  <2> QED
    BY <1>2, <2>1, CallEdits, FailureQuiet, QuietEdits, SameMerges
<1>3. ASSUME NEW p \in Procs,
             \/ GiveUp(p) \/ Count(p) \/ Sync(p) \/ Unlink(p) \/ Evict(p) \/ CollectGarbage(p)
             \/ Collect(p) \/ ReadBlob(p) \/ Commit(p) \/ Clear(p) \/ Cleared(p)
             \/ Reconcile(p) \/ Insert(p) \/ Update(p) \/ Delete(p) \/ Candidate(p) \/ Repair(p)
             \/ Mark(p)
      PROVE  Arrivals' /\ Edits' /\ Merges
  <2>1. UNCHANGED records
    BY <1>3, Zenon
    DEF GiveUp, Count, Sync, Unlink, Evict, CollectGarbage, Collect, ReadBlob, Commit,
         Clear, Cleared, Reconcile, Insert, Update, Delete, Candidate, Repair, Mark, KeepsFiles
  <2>2. Arrivals' /\ Edits'
    BY <1>3, PlainQuiet, QuietEdits, ReconcileEdits, InsertEdits, UpdateEdits, DeleteEdits,
       CandidateEdits, RepairEdits, MarkEdits
  <2> QED
    BY <2>1, <2>2, SameMerges
<1>4. ASSUME NEW p \in Procs, Write(p) \/ Rewrite(p)
      PROVE  Arrivals' /\ Edits' /\ Merges
  BY <1>4, WriteEdits, RewriteEdits, SameMerges
<1>5. CASE \/ \E h \in Hashes : LoseBlob(h)
           \/ \E id \in Ids : LoseRecord(id)
  BY <1>5, LossEdits, SameMerges
<1> QED
  BY <1>1, <1>2, <1>3, <1>4, <1>5 DEF Next, Progress

LEMMA InitEdits == Init => Arrivals /\ Edits
<1> SUFFICES ASSUME Init PROVE Arrivals /\ Edits
  OBVIOUS
<1>1. \A p \in Procs : pc[p] = "closed" /\ job[p] = NoJob
  BY DEF Init
<1>2. Arriving = {}
  BY <1>1 DEF Arriving, Inserting
<1> QED
  BY <1>1, <1>2 DEF Init, Arrivals, Edits, Inserting, NoJob

\* Two processes' updates of one sidecar never overwrite each other: whatever
\* write replaces a sidecar changes its pins, or its document, or gives up its
\* pixels, and leaves what other calls made of it alone.
THEOREM UpdatesMerge == Spec => EditsMerge
<1>1. IInv /\ IInv' /\ Arrivals /\ Edits /\ [Next]_vars =>
        \A id \in Ids : records[id] # None /\ records'[id] # None =>
          \/ \E on, shown \in BOOLEAN :
               records'[id] = [records[id] EXCEPT !.pinned = on, !.screen = shown]
          \/ \E doc \in Docs : records'[id] = [records[id] EXCEPT !.doc = doc]
          \/ records'[id] = Evicted(records[id])
  BY StepMerges DEF Merges, Edit
<1>2. IInv /\ IInv' /\ Arrivals /\ Edits /\ [Next]_vars => Arrivals' /\ Edits'
  BY StepMerges
<1> QED
  BY <1>1, <1>2, InitEdits, Inductive, PTL DEF Spec, EditsMerge

-----------------------------------------------------------------------------
(* Pinned captures keep their pixels                                       *)

\* a capture that shows its pixels and is pinned, in history or on the screen
Showy(r) == Live(r) /\ (r.pinned \/ r.screen)

Spares(p) == job[p].rec # None /\ Showy(records[job[p].id]) => Live(job[p].rec)

\* as long as no pixels vanished, what is about to be written over a pinned
\* capture shows pixels, and reconciliation condemns nothing
PinSafe ==
  spent.blob = 0 =>
    /\ lost = {}
    /\ \A p \in Procs : job[p].missing = {}
    /\ \A p \in Procs : pc[p] \in {"mark", "write"} => Spares(p)

\* the steps of a process make no pixels vanish
LEMMA NothingVanishes ==
  ASSUME IInv, NEW p \in Procs, Call(p) \/ Progress(p) \/ Failure(p)
  PROVE  lost' \subseteq lost /\ spent'.blob = spent.blob /\ spent'.record = spent.record
<1>1. spent \in [crash : Nat, fault : Nat, blob : Nat, record : Nat]
  BY DEF IInv, TypeOK
<1>2. CASE Call(p)
  BY <1>2, ZenonT(30)
  DEF Call, Open, Close, EvictCall, CollectCall, DeleteCall, ReadRecord, InsertCall,
     UpdateCall, KeepsFiles
<1>3. CASE Progress(p)
  <2>1. lost' \subseteq lost /\ (spent' = spent \/ spent' = [spent EXCEPT !.fault = @ + 1])
    BY <1>3, Zenon
    DEF Progress, GiveUp, Count, Sync, Reconcile, Rewrite, Insert, Update, Delete, Unlink,
       Evict, Candidate, CollectGarbage, Collect, ReadBlob, Repair, Mark, Write, Commit, Clear,
       Cleared, KeepsFiles, Fault
  <2> QED
    BY <1>1, <2>1
<1>4. CASE Failure(p)
  <2>1. /\ lost' = lost
        /\ \/ spent' = [spent EXCEPT !.fault = @ + 1]
           \/ spent' = [spent EXCEPT !.crash = @ + 1]
    BY <1>4 DEF Failure, MarkFails, WriteFails, CommitFails, UnlinkFails, RewriteFails,
       CandidateFails, CollectFails, Crash, Fault
  <2> QED
    BY <1>1, <2>1
<1> QED
  BY <1>2, <1>3, <1>4

\* A step that writes no sidecar and brings along only what spares pins.
LEMMA StepPins ==
  ASSUME IInv, IInv', PinSafe, NEW p \in Procs, Moves(p), UNCHANGED records,
         lost' \subseteq lost, spent'.blob = spent.blob,
         spent.blob = 0 => job'[p].missing = {},
         spent.blob = 0 /\ pc'[p] \in {"mark", "write"} => Spares(p)'
  PROVE  PinSafe'
<1>1. ASSUME NEW q \in Procs, spent.blob = 0
      PROVE  /\ job'[q].missing = {}
             /\ pc'[q] \in {"mark", "write"} => Spares(q)'
  <2>1. CASE q = p
    BY <1>1, <2>1
  <2>2. CASE q # p
    BY <1>1, <2>2, Others DEF PinSafe, Spares
  <2> QED
    BY <2>1, <2>2
<1> QED
  BY <1>1 DEF PinSafe

LEMMA QuietPins ==
  ASSUME IInv, IInv', PinSafe, NEW p \in Procs, Moves(p), UNCHANGED records, Quiet(p),
         lost' \subseteq lost, spent'.blob = spent.blob
  PROVE  PinSafe'
  BY QuietMissing, StepPins DEF Quiet

\* A step after which p is about to write j.rec.
LEMMA BringsPins ==
  ASSUME IInv, IInv', PinSafe, NEW p \in Procs, Moves(p), UNCHANGED records,
         lost' \subseteq lost, spent'.blob = spent.blob,
         NEW j, Goto(p, "mark", j),
         spent.blob = 0 /\ j.rec # None /\ Showy(records[j.id]) => Live(j.rec)
  PROVE  PinSafe'
<1>1. pc'[p] = "mark" /\ job'[p] = j
  BY DEF Goto, IInv, TypeOK
<1>2. job'[p].missing = {}
  BY <1>1 DEF IInv, JobOK
<1>3. spent.blob = 0 => Spares(p)'
  BY <1>1 DEF Spares, Showy, Live
<1> QED
  BY <1>2, <1>3, StepPins

LEMMA MutatedLive ==
  ASSUME NEW r \in Record, NEW c \in Change, Live(r)
  PROVE  Live(Mutated(r, c))
<1>1. CASE c.field = "pinned"
  <2>1. c.on \in BOOLEAN
    BY <1>1 DEF Change
  <2>2. Mutated(r, c) = [r EXCEPT !.pinned = c.on, !.screen = r.screen /\ c.on]
    BY <1>1 DEF Mutated, Record
  <2>3. /\ [r EXCEPT !.pinned = c.on] \in Record
        /\ [r EXCEPT !.pinned = c.on].hash = r.hash /\ [r EXCEPT !.pinned = c.on].evicted = r.evicted
    BY <2>1 DEF Record
  <2>4. \A w \in Record : \A b \in BOOLEAN :
          /\ [w EXCEPT !.screen = b] \in Record
          /\ [w EXCEPT !.screen = b].hash = w.hash /\ [w EXCEPT !.screen = b].evicted = w.evicted
    BY DEF Record
  <2>5. Mutated(r, c) = [[r EXCEPT !.pinned = c.on] EXCEPT !.screen = r.screen /\ c.on]
    BY <2>2 DEF Record
  <2>6. (r.screen /\ c.on) \in BOOLEAN
    BY <2>1 DEF Record
  <2>7. Mutated(r, c) \in Record /\ Mutated(r, c).hash = r.hash /\ Mutated(r, c).evicted = r.evicted
    BY <2>3, <2>4, <2>5, <2>6
  <2> QED
    BY <2>7 DEF Live
<1>2. CASE c.field = "screen"
  <2>1. c.on \in BOOLEAN
    BY <1>2 DEF Change
  <2>2. Mutated(r, c) = [r EXCEPT !.pinned = c.on, !.screen = c.on]
    BY <1>2 DEF Mutated
  <2>3. Mutated(r, c) \in Record /\ Mutated(r, c).hash = r.hash /\ Mutated(r, c).evicted = r.evicted
    BY <2>1, <2>2 DEF Record
  <2> QED
    BY <2>3 DEF Live
<1>3. CASE c.field = "doc"
  <2>1. c.doc \in Docs
    BY <1>3 DEF Change
  <2>2. Mutated(r, c) = [r EXCEPT !.doc = c.doc]
    BY <1>3 DEF Mutated
  <2>3. Mutated(r, c) \in Record /\ Mutated(r, c).hash = r.hash /\ Mutated(r, c).evicted = r.evicted
    BY <2>1, <2>2 DEF Record
  <2> QED
    BY <2>3 DEF Live
<1> QED
  BY <1>1, <1>2, <1>3 DEF Change

LEMMA InsertPins ==
  ASSUME IInv, IInv', Arrivals, PinSafe, NEW p \in Procs,
         Insert(p) \/ \E id \in Ids, h \in Hashes \union {NoImage}, pinned \in BOOLEAN, doc \in Docs :
                         InsertCall(p, id, h, pinned, doc)
  PROVE  PinSafe'
<1>1. /\ UNCHANGED records /\ Moves(p) /\ lost' \subseteq lost /\ spent'.blob = spent.blob
  BY NothingVanishes, WaitingMoves, CallMoves DEF Insert, InsertCall, Call, Progress
<1>2. CASE Insert(p)
  <2>1. Goto(p, "mark", job[p]) /\ Inserting(p)
    BY <1>2 DEF Insert, Inserting, IInv, JobOK, Ready
  <2>2. records[job[p].id] = None
    BY <2>1 DEF Arrivals, Arriving
  <2> QED
    BY <1>1, <2>1, <2>2, BringsPins DEF Showy, Live
<1>3. CASE \E id \in Ids, h \in Hashes \union {NoImage}, pinned \in BOOLEAN, doc \in Docs :
              InsertCall(p, id, h, pinned, doc)
  <2>1. pc'[p] = "insert"
    BY <1>3 DEF InsertCall, Goto, IInv, TypeOK
  <2>2. job'[p].missing = {}
    BY <2>1 DEF IInv, JobOK
  <2> QED
    BY <1>1, <2>1, <2>2, StepPins
<1> QED
  BY <1>2, <1>3

LEMMA UpdatePins ==
  ASSUME IInv, IInv', PinSafe, NEW p \in Procs, Update(p)
  PROVE  PinSafe'
<1>1. /\ UNCHANGED records /\ Moves(p) /\ lost' \subseteq lost /\ spent'.blob = spent.blob
  BY NothingVanishes, WaitingMoves DEF Update, KeepsFiles, Progress
<1>2. CASE \E l \in {"closed", "idle"} : \E j : Goto(p, l, j)
  <2>1. Quiet(p)
    BY <1>2 DEF Goto, IInv, TypeOK, Quiet
  <2> QED
    BY <1>1, <2>1, QuietPins
<1>3. CASE /\ records[job[p].id] # None
           /\ Goto(p, "mark", [job[p] EXCEPT !.rec = Mutated(records[job[p].id], job[p].change)])
  <2>1. /\ job[p].id \in Ids /\ job[p].change \in Change
        /\ job[p] \in Job /\ records[job[p].id] \in Record
    BY <1>3 DEF Update, IInv, TypeOK, JobOK, Ready
  <2>2. Live(records[job[p].id]) => Live(Mutated(records[job[p].id], job[p].change))
    BY <2>1, MutatedLive
  <2> DEFINE j == [job[p] EXCEPT !.rec = Mutated(records[job[p].id], job[p].change)]
  <2>3. j.id = job[p].id /\ j.rec = Mutated(records[job[p].id], job[p].change)
    BY <2>1 DEF Job
  <2>4. Goto(p, "mark", j)
    BY <1>3
  <2> HIDE DEF j
  <2> QED
    BY <1>1, <2>2, <2>3, <2>4, BringsPins DEF Showy
<1> QED
  BY <1>2, <1>3 DEF Update, Fails

LEMMA DeletePins ==
  ASSUME IInv, IInv', PinSafe, NEW p \in Procs, Delete(p)
  PROVE  PinSafe'
<1>1. /\ UNCHANGED records /\ Moves(p) /\ lost' \subseteq lost /\ spent'.blob = spent.blob
  BY NothingVanishes, WaitingMoves DEF Delete, KeepsFiles, Progress
<1>2. job[p].rec = None /\ job[p] \in Job
  BY DEF Delete, IInv, TypeOK, JobOK, Ready
<1>3. \/ \E l \in {"reconcile", "commit"} : \E j : Goto(p, l, j)
      \/ Goto(p, "mark", [job[p] EXCEPT !.pending = Listed, !.hash = records[job[p].id].hash])
  <2>1. CASE ReconcileThen(p, "delete")
    BY <2>1 DEF ReconcileThen
  <2>2. CASE ~ReconcileThen(p, "delete")
    BY <2>2 DEF Delete
  <2> QED
    BY <2>1, <2>2
<1>4. CASE \E l \in {"reconcile", "commit"} : \E j : Goto(p, l, j)
  <2>1. Quiet(p)
    BY <1>4 DEF Goto, IInv, TypeOK, Quiet
  <2> QED
    BY <1>1, <2>1, QuietPins
<1>5. CASE Goto(p, "mark", [job[p] EXCEPT !.pending = Listed, !.hash = records[job[p].id].hash])
  <2>1. [job[p] EXCEPT !.pending = Listed, !.hash = records[job[p].id].hash].rec = None
    BY <1>2 DEF Job
  <2> QED
    BY <1>1, <1>5, <2>1, BringsPins
<1> QED
  BY <1>3, <1>4, <1>5

LEMMA CandidatePins ==
  ASSUME IInv, IInv', PinSafe, NEW p \in Procs, Candidate(p)
  PROVE  PinSafe'
<1>1. /\ UNCHANGED records /\ Moves(p) /\ lost' \subseteq lost /\ spent'.blob = spent.blob
  BY NothingVanishes, HoldingMoves, Zenon DEF Candidate, KeepsFiles, Progress
<1>2. job[p] \in Job /\ records \in [Ids -> Record \union {None}]
  BY DEF IInv, TypeOK
<1>3. CASE \E l \in {"next", "commit", "count", "closed", "idle"} : \E j : Goto(p, l, j)
  <2>1. Quiet(p)
    BY <1>3 DEF Goto, IInv, TypeOK, Quiet
  <2> QED
    BY <1>1, <2>1, QuietPins
<1>4. ASSUME NEW id \in Ids, NEW r, Showy(records[id]) => Live(r),
             Goto(p, "mark", [Popped(job[p], id) EXCEPT
                        !.id = id, !.rec = r, !.hash = r.hash])
      PROVE  PinSafe'
  <2> DEFINE j == [Popped(job[p], id) EXCEPT !.id = id, !.rec = r, !.hash = r.hash]
  <2>1. j.id = id /\ j.rec = r
    BY <1>2 DEF Popped, Job
  <2>2. Goto(p, "mark", j)
    BY <1>4
  <2> HIDE DEF j
  <2> QED
    BY <1>1, <1>4, <2>1, <2>2, BringsPins
<1>5. ASSUME NEW id \in Ids, Live(records[id])
      PROVE  Live([records[id] EXCEPT !.pinned = TRUE])
  <2>1. records[id] \in Record
    BY <1>2, <1>5 DEF Live
  <2> QED
    BY <1>5, <2>1 DEF Live, Record
<1>6. \/ \E l \in {"next", "commit", "count", "closed", "idle"} : \E j : Goto(p, l, j)
      \/ \E id \in Ids : /\ Live(records[id])
           /\ Goto(p, "mark", [Popped(job[p], id) EXCEPT
                        !.id = id, !.rec = [records[id] EXCEPT !.pinned = TRUE],
                        !.hash = [records[id] EXCEPT !.pinned = TRUE].hash])
      \/ \E id \in Ids : /\ ~Showy(records[id])
           /\ Goto(p, "mark", [Popped(job[p], id) EXCEPT
                        !.id = id, !.rec = Evicted(records[id]),
                        !.hash = Evicted(records[id]).hash])
  <2>1. CASE FailsHolding(p)
    BY <2>1 DEF FailsHolding, Recover, Fails
  <2>2. CASE Goto(p, "commit", job[p])
    BY <2>2
  <2>3. CASE ~FailsHolding(p) /\ ~Goto(p, "commit", job[p])
    <3>1. PICK id \in Ids :
            \/ Goto(p, "next", Popped(job[p], id))
            \/ /\ Live(records[id])
               /\ Goto(p, "mark", [Popped(job[p], id) EXCEPT
                        !.id = id, !.rec = [records[id] EXCEPT !.pinned = TRUE],
                        !.hash = [records[id] EXCEPT !.pinned = TRUE].hash])
            \/ /\ ~Showy(records[id])
               /\ Goto(p, "mark", [Popped(job[p], id) EXCEPT
                        !.id = id, !.rec = Evicted(records[id]),
                        !.hash = Evicted(records[id]).hash])
      BY <2>3, Zenon DEF Candidate, Showy
    <3> QED
      BY <3>1
  <2> QED
    BY <2>1, <2>2, <2>3
<1> QED
  BY <1>3, <1>4, <1>5, <1>6 DEF Showy

LEMMA RepairPins ==
  ASSUME Unreadable = {}, IInv, IInv', PinSafe, NEW p \in Procs, Repair(p)
  PROVE  PinSafe'
<1>1. /\ UNCHANGED records /\ Moves(p) /\ lost' \subseteq lost /\ spent'.blob = spent.blob
  BY NothingVanishes, WaitingMoves DEF Repair, KeepsFiles, Progress
<1>2. CASE \E l \in {"idle", "commit"} : \E j : Goto(p, l, j)
  <2>1. Quiet(p)
    BY <1>2 DEF Goto, IInv, TypeOK, Quiet
  <2> QED
    BY <1>1, <2>1, QuietPins
<1>3. CASE /\ Live(records[job[p].id]) /\ records[job[p].id].hash \notin blobs
           /\ Goto(p, "mark", [job[p] EXCEPT !.rec = Evicted(records[job[p].id])])
  <2>1. job[p].id \in Ids
    BY DEF Repair, IInv, JobOK, Ready
  <2>2. spent.blob # 0
    BY <1>3, <2>1 DEF IInv, PixelsKept, PinSafe
  <2> QED
    BY <1>1, <1>3, <2>2, BringsPins
<1> QED
  BY <1>2, <1>3 DEF Repair, Return

LEMMA ReconcilePins ==
  ASSUME Unreadable = {}, IInv, IInv', PinSafe, NEW p \in Procs, Reconcile(p)
  PROVE  PinSafe'
<1>1. /\ UNCHANGED records /\ Moves(p) /\ lost' \subseteq lost /\ spent'.blob = spent.blob
  BY NothingVanishes, WaitingMoves DEF Reconcile, KeepsFiles, Progress
<1>2. PICK unread \in Unread :
        \E missing \in SUBSET (Ids \ unread) :
          /\ \A id \in missing : Live(records[id]) /\ records[id].hash \notin blobs
          /\ Goto(p, IF missing = {} THEN "commit" ELSE "rewrite",
                  [job[p] EXCEPT !.pending = Listed, !.missing = missing])
  BY DEF Reconcile
<1>3. PICK missing \in SUBSET (Ids \ unread) :
          /\ \A id \in missing : Live(records[id]) /\ records[id].hash \notin blobs
          /\ Goto(p, IF missing = {} THEN "commit" ELSE "rewrite",
                  [job[p] EXCEPT !.pending = Listed, !.missing = missing])
  BY <1>2
<1>4. pc'[p] \in {"commit", "rewrite"} /\ job'[p].missing = missing
  BY <1>3 DEF Goto, IInv, TypeOK, Job
<1>5. spent.blob = 0 => missing = {}
  BY <1>3 DEF IInv, PixelsKept, PinSafe
<1> QED
  BY <1>1, <1>4, <1>5, StepPins

LEMMA MarkPins ==
  ASSUME IInv, IInv', PinSafe, NEW p \in Procs, Mark(p)
  PROVE  PinSafe'
<1>1. /\ UNCHANGED records /\ Moves(p) /\ lost' \subseteq lost /\ spent'.blob = spent.blob
      /\ pc[p] = "mark"
  BY NothingVanishes, HoldingMoves DEF Mark, Progress
<1>2. PICK s \in Slots : Goto(p, "write", [job[p] EXCEPT !.mine = @ \union {s}])
  BY DEF Mark
<1>3. pc'[p] = "write" /\ job'[p].id = job[p].id /\ job'[p].rec = job[p].rec
  BY <1>2 DEF Goto, IInv, TypeOK, Job
<1>4. job'[p].missing = {}
  BY <1>3 DEF IInv, JobOK
<1>5. spent.blob = 0 => Spares(p)'
  BY <1>1, <1>3 DEF PinSafe, Spares
<1> QED
  BY <1>1, <1>4, <1>5, StepPins

\* what a step may make of a pinned capture
Spared == \A id \in Ids : Showy(records[id]) /\ records'[id] # None /\ spent.blob = 0 =>
            Live(records'[id])

LEMMA WritePins ==
  ASSUME IInv, IInv', PinSafe, NEW p \in Procs, Write(p)
  PROVE  PinSafe' /\ Spared
<1>1. /\ pc[p] = "write" /\ lock = p /\ Moves(p) /\ lost' = lost /\ spent' = spent
      /\ records \in [Ids -> Record \union {None}] /\ job[p].id \in Ids
      /\ records' = [records EXCEPT ![job[p].id] = job[p].rec]
  BY HoldingMoves DEF Write, IInv, TypeOK, JobOK
<1>2. Quiet(p)
  <2>1. \E l \in {"unlink", "next", "commit"} : \E j : Goto(p, l, j)
    BY DEF Write
  <2> QED
    BY <2>1 DEF Goto, IInv, TypeOK, Quiet
<1>3. ASSUME NEW q \in Procs
      PROVE  pc'[q] \notin {"mark", "write"} /\ job'[q].missing = {}
  <2>1. CASE q = p
    BY <1>2, <2>1, QuietMissing DEF Quiet
  <2>2. CASE q # p
    <3>1. lock # q
      BY <1>1, <2>2
    <3> QED
      BY <1>1, <2>2, <3>1, Others
  <2> QED
    BY <2>1, <2>2
<1>4. spent.blob = 0 => Spares(p)
  BY <1>1 DEF PinSafe
<1>5. Spared
  BY <1>1, <1>4 DEF Spared, Spares, Showy
<1> QED
  BY <1>1, <1>3, <1>5 DEF PinSafe

LEMMA RewritePins ==
  ASSUME IInv, IInv', PinSafe, NEW p \in Procs, Rewrite(p)
  PROVE  PinSafe' /\ Spared
<1>1. spent.blob # 0 /\ spent' = spent
  BY DEF Rewrite, Oldest, PinSafe
<1> QED
  BY <1>1 DEF PinSafe, Spared

LEMMA LossPins ==
  ASSUME IInv, PinSafe,
         \/ \E h \in Hashes : LoseBlob(h)
         \/ \E id \in Ids : LoseRecord(id)
  PROVE  PinSafe' /\ Spared
<1>1. spent \in [crash : Nat, fault : Nat, blob : Nat, record : Nat]
  BY DEF IInv, TypeOK
<1>2. CASE \E h \in Hashes : LoseBlob(h)
  <2>1. spent'.blob # 0 /\ UNCHANGED records
    BY <1>1, <1>2 DEF LoseBlob
  <2> QED
    BY <2>1 DEF PinSafe, Spared, Showy
<1>3. CASE \E id \in Ids : LoseRecord(id)
  <2>1. /\ UNCHANGED <<pc, job, lost>> /\ spent'.blob = spent.blob
        /\ \A id \in Ids : records'[id] = records[id] \/ records'[id] = None
    BY <1>1, <1>3 DEF LoseRecord, IInv, TypeOK
  <2>2. \A q \in Procs : pc[q] \in {"mark", "write"} => job[q].id \in Ids
    BY DEF IInv, JobOK
  <2> QED
    BY <2>1, <2>2 DEF PinSafe, Spared, Spares, Showy, Live
<1> QED
  BY <1>2, <1>3

LEMMA StepSpares ==
  ASSUME Unreadable = {}, IInv, IInv', Arrivals, PinSafe, [Next]_vars
  PROVE  PinSafe' /\ Spared
<1>0. ASSUME UNCHANGED records PROVE Spared
  BY <1>0 DEF Spared, Showy
<1>1. CASE UNCHANGED vars
  BY <1>0, <1>1 DEF vars, PinSafe, Spares, Showy, Live
<1>2. ASSUME NEW p \in Procs, Call(p) \/ Failure(p)
      PROVE  PinSafe' /\ Spared
  <2>1. UNCHANGED records
    BY <1>2, Zenon
    DEF Call, Open, Close, EvictCall, CollectCall, DeleteCall, ReadRecord, InsertCall,
       UpdateCall, KeepsFiles, Failure, MarkFails, WriteFails, CommitFails, UnlinkFails,
       RewriteFails, CandidateFails, CollectFails, Crash
  <2>2. CASE PlainCall(p) \/ Failure(p)
    <3>1. Moves(p) /\ Quiet(p)
      BY <2>2, PlainCallQuiet, FailureQuiet
    <3>2. lost' \subseteq lost /\ spent'.blob = spent.blob
      BY <1>2, NothingVanishes
    <3> QED
      BY <1>0, <2>1, <3>1, <3>2, QuietPins
  <2>3. CASE Call(p) /\ ~PlainCall(p)
    BY <1>0, <2>1, <2>3, InsertPins DEF Call, PlainCall
  <2> QED
    BY <1>2, <2>2, <2>3
<1>3. ASSUME NEW p \in Procs,
             \/ GiveUp(p) \/ Count(p) \/ Sync(p) \/ Unlink(p) \/ Evict(p) \/ CollectGarbage(p)
             \/ Collect(p) \/ ReadBlob(p) \/ Commit(p) \/ Clear(p) \/ Cleared(p)
      PROVE  PinSafe' /\ Spared
  <2>1. Progress(p)
    BY <1>3 DEF Progress
  <2> QED
    BY <1>0, <1>3, <2>1, PlainQuiet, NothingVanishes, QuietPins
<1>4. ASSUME NEW p \in Procs,
             \/ Reconcile(p) \/ Insert(p) \/ Update(p) \/ Delete(p) \/ Candidate(p) \/ Repair(p)
             \/ Mark(p)
      PROVE  PinSafe' /\ Spared
  <2>1. UNCHANGED records
    BY <1>4 DEF Reconcile, Insert, Update, Delete, Candidate, Repair, Mark, KeepsFiles
  <2> QED
    BY <1>0, <1>4, <2>1, ReconcilePins, InsertPins, UpdatePins, DeletePins, CandidatePins,
       RepairPins, MarkPins
<1>5. ASSUME NEW p \in Procs, Write(p) \/ Rewrite(p)
      PROVE  PinSafe' /\ Spared
  BY <1>5, WritePins, RewritePins
<1>6. CASE \/ \E h \in Hashes : LoseBlob(h)
           \/ \E id \in Ids : LoseRecord(id)
  BY <1>6, LossPins
<1> QED
  BY <1>1, <1>2, <1>3, <1>4, <1>5, <1>6 DEF Next, Progress

\* A pinned capture keeps its pixels: if every sidecar can be read, retention,
\* reconciliation and repairs give up the pixels of no capture that is pinned
\* by then, unless a blob was removed from outside.
THEOREM PinsSpare ==
  ASSUME Unreadable = {}
  PROVE  Spec => PinnedKept
<1>1. Init => PinSafe
  <2> SUFFICES ASSUME Init PROVE PinSafe
    OBVIOUS
  <2>1. lost = {} /\ \A p \in Procs : pc[p] = "closed" /\ job[p].missing = {}
    BY DEF Init, NoJob
  <2> QED
    BY <2>1 DEF PinSafe
<1>2. IInv /\ IInv' /\ Arrivals /\ PinSafe /\ [Next]_vars => PinSafe'
  BY StepSpares
<1>3. IInv /\ IInv' /\ Arrivals /\ PinSafe /\ [Next]_vars =>
        \A id \in Ids : /\ Live(records[id]) /\ records'[id] # None
                        /\ records[id].pinned \/ records[id].screen
                        /\ spent.blob = 0
                        => Live(records'[id])
  BY StepSpares DEF Spared, Showy
<1>4. IInv /\ IInv' /\ Arrivals /\ Edits /\ [Next]_vars => Arrivals' /\ Edits'
  BY StepMerges
<1> QED
  BY <1>1, <1>2, <1>3, <1>4, InitEdits, Inductive, PTL DEF Spec, PinnedKept

-----------------------------------------------------------------------------
(* Sidecars reach the index                                                *)

\* until something is removed from outside
Steady == spent.blob = 0 /\ spent.record = 0

\* the open that bootstraps the index
Opening(p) ==
  \/ pc[p] = "closed"
  \/ job[p].op = "open" /\ pc[p] \in {"count", "sync", "reconcile", "commit"}

\* the index as it was made from older sidecars: the pins on the screen are new
Unbooted == ~db.booted =>
  /\ Listed = {}
  /\ \A id \in Ids :
       db.rows[id] = IF records[id] = None THEN None ELSE [records[id] EXCEPT !.screen = FALSE]
  /\ \A p \in Procs : Opening(p)

Current(rows, id) == rows[id] = records[id]

IndexKnown == db.booted =>
  \A id \in Ids : Current(db.rows, id) \/ \E s \in Slots \ Doubtful : markers[s] = id

\* transactions that began with every row brought up to date
Full(p) == job[p].op \in {"delete", "evict", "gc"} \/ job[p].pending # {} \/ ~db.booted

\* the row that follows its sidecar once the pixels are dealt with
Late(p, id) == pc[p] = "unlink" /\ id = job[p].id

TxCurrent(p) ==
  /\ tx.booted
  /\ \A id \in Ids : ~Late(p, id) /\ (Full(p) \/ Current(db.rows, id)) => Current(tx.rows, id)
  /\ pc[p] = "unlink" => records[job[p].id] = job[p].rec
  /\ pc[p] = "commit" =>
       \A s \in job[p].mine : markers[s] \in Ids => Current(tx.rows, markers[s])

IndexSafe == Unbooted /\ IndexKnown /\ \A p \in Procs : lock = p => TxCurrent(p)

-----------------------------------------------------------------------------
(* Markers that say something stay, and are not about to go                *)

KeepsMarkers ==
  \A s \in Slots \ Doubtful : markers[s] # None => markers'[s] = markers[s] /\ s \notin Doubtful'

\* p is not about to remove markers or to write a sidecar
Calm(p) == pc'[p] \notin {"write", "clear"}

LEMMA DoubtfulStep ==
  ASSUME IInv, NEW p \in Procs, Moves(p), NEW s \in Doubtful', s \notin Doubtful
  PROVE  \/ pc'[p] = "clear" /\ s \in job'[p].pending
         \/ pc'[p] = "write" /\ job'[p].op # "evict" /\ s \in job'[p].mine
<1>1. CASE s \in Clearing'
  <2>1. PICK q \in Procs : pc'[q] = "clear" /\ s \in job'[q].pending
    BY <1>1 DEF Clearing
  <2>2. CASE q # p
    BY <2>1, <2>2, Others DEF Clearing, Doubtful
  <2> QED
    BY <2>1, <2>2
<1>2. CASE s \notin Clearing'
  <2>1. PICK q \in Procs : pc'[q] = "write" /\ job'[q].op # "evict" /\ s \in job'[q].mine
    BY <1>2 DEF Doubtful
  <2>2. CASE q # p
    BY <2>1, <2>2, Others DEF Doubtful
  <2> QED
    BY <2>1, <2>2
<1> QED
  BY <1>1, <1>2

LEMMA CalmMarkers ==
  ASSUME IInv, NEW p \in Procs, Moves(p), Calm(p),
         \/ UNCHANGED markers
         \/ \E s \in Slots : markers[s] = None /\ markers' = [markers EXCEPT ![s] = Torn]
  PROVE  KeepsMarkers
<1>1. markers \in [Slots -> Ids \union {None, Torn}]
  BY DEF IInv, TypeOK
<1> QED
  BY <1>1, DoubtfulStep DEF Calm, KeepsMarkers

LEMMA CalmCall == ASSUME IInv, NEW p \in Procs, Call(p) PROVE KeepsMarkers
<1>1. UNCHANGED markers
  BY DEF Call, Open, Close, EvictCall, CollectCall, DeleteCall, ReadRecord, InsertCall, UpdateCall,
     KeepsFiles
<1>2. CASE PlainCall(p)
  <2>1. \E l \in {"count", "closed", "evict", "gc", "delete", "readBlob", "update"} : \E j :
          Goto(p, l, j)
    <3>1. CASE Open(p) \/ Close(p) \/ EvictCall(p) \/ CollectCall(p)
      BY <3>1 DEF Open, Close, EvictCall, CollectCall
    <3>2. ASSUME NEW id \in Ids, DeleteCall(p, id) \/ ReadRecord(p, id)
          PROVE  \E l \in {"delete", "readBlob"} : \E j : Goto(p, l, j)
      BY <3>2 DEF DeleteCall, ReadRecord
    <3>3. ASSUME NEW id \in Ids, NEW c \in Change, UpdateCall(p, id, c)
          PROVE  \E j : Goto(p, "update", j)
      BY <3>3 DEF UpdateCall
    <3> QED
      BY <1>2, <3>1, <3>2, <3>3 DEF PlainCall
  <2>2. Calm(p)
    BY <2>1 DEF Goto, Calm, IInv, TypeOK
  <2> QED
    BY <1>1, <2>2, CallMoves, CalmMarkers
<1>3. CASE ~PlainCall(p)
  <2>1. \E j : Goto(p, "insert", j)
    BY <1>3 DEF Call, PlainCall, InsertCall
  <2>2. Calm(p)
    BY <2>1 DEF Goto, Calm, IInv, TypeOK
  <2> QED
    BY <1>1, <2>2, CallMoves, CalmMarkers
<1> QED
  BY <1>2, <1>3

LEMMA CalmFailure == ASSUME IInv, NEW p \in Procs, Failure(p) PROVE KeepsMarkers
<1>1. CASE WriteFails(p) /\ job[p].op # "evict"
  <2>1. /\ UNCHANGED markers /\ pc[p] = "write" /\ job[p] \in Job
        /\ Goto(p, "clear", [job[p] EXCEPT !.pending = job[p].mine, !.mine = {}])
    BY <1>1 DEF WriteFails, IInv, TypeOK
  <2>2. pc'[p] = "clear" /\ job'[p].pending = job[p].mine
    BY <2>1 DEF Goto, IInv, TypeOK, Job
  <2>3. job[p].mine \subseteq Doubtful
    BY <1>1, <2>1 DEF Doubtful
  <2> QED
    BY <2>1, <2>2, <2>3, FailureMoves, DoubtfulStep DEF KeepsMarkers
<1>2. CASE ~(WriteFails(p) /\ job[p].op # "evict")
  <2>1. \/ UNCHANGED markers
        \/ \E s \in Slots : markers[s] = None /\ markers' = [markers EXCEPT ![s] = Torn]
    BY DEF Failure, MarkFails, WriteFails, CommitFails, UnlinkFails, RewriteFails,
       CandidateFails, CollectFails, Crash
  <2>2. \E l \in {"count", "closed", "idle"} : \E j : Goto(p, l, j)
    BY <1>2 DEF Failure, MarkFails, WriteFails, CommitFails, UnlinkFails, RewriteFails,
       CandidateFails, CollectFails, Crash, FailsHolding, Recover, Fails
  <2>3. Calm(p)
    BY <2>2 DEF Goto, Calm, IInv, TypeOK
  <2> QED
    BY <2>1, <2>3, FailureMoves, CalmMarkers
<1> QED
  BY <1>1, <1>2

LEMMA CalmProgress ==
  ASSUME IInv, NEW p \in Procs,
         \/ GiveUp(p) \/ Count(p) \/ Sync(p) \/ Reconcile(p) \/ Insert(p) \/ Update(p)
         \/ Delete(p) \/ Unlink(p) \/ Evict(p) \/ Candidate(p) \/ CollectGarbage(p)
         \/ Collect(p) \/ ReadBlob(p) \/ Repair(p) \/ Rewrite(p) \/ Write(p) \/ Cleared(p)
  PROVE  KeepsMarkers
<1>1. UNCHANGED markers /\ Moves(p)
  BY WaitingMoves, HoldingMoves
 , Zenon DEF GiveUp, Count, Sync, Reconcile, Insert, Update, Delete, Unlink, Evict, Candidate,
      CollectGarbage, Collect, ReadBlob, Repair, Rewrite, Write, Cleared, KeepsFiles
<1>2. \E l \in Pcs \ {"write", "clear"} : \E j : Goto(p, l, j)
  <2> DEFINE to(l) == \E j : Goto(p, l, j)
  <2>1. CASE \/ GiveUp(p) \/ Count(p) \/ Insert(p) \/ Unlink(p) \/ Collect(p) \/ ReadBlob(p)
             \/ Rewrite(p) \/ Write(p)
    <3>1. \/ to("closed") \/ to("idle") \/ to("sync") \/ to("mark") \/ to("next") \/ to("commit")
          \/ to("collect") \/ to("repair") \/ to("rewrite") \/ to("unlink")
      <4>1. CASE GiveUp(p) BY <4>1 DEF GiveUp, Fails
      <4>2. CASE Count(p) BY <4>2 DEF Count
      <4>3. CASE Insert(p) BY <4>3 DEF Insert
      <4>4. CASE Unlink(p) BY <4>4 DEF Unlink
      <4>5. CASE Collect(p) BY <4>5 DEF Collect
      <4>6. CASE ReadBlob(p) BY <4>6 DEF ReadBlob, Return
      <4>7. CASE Rewrite(p) BY <4>7 DEF Rewrite
      <4>8. CASE Write(p) BY <4>8 DEF Write
      <4> QED
        BY <2>1, <4>1, <4>2, <4>3, <4>4, <4>5, <4>6, <4>7, <4>8
    <3> QED
      BY <3>1 DEF Pcs, Waiting, Holding
  <2>2. CASE \/ Sync(p) \/ Reconcile(p) \/ Update(p) \/ Delete(p) \/ Evict(p) \/ Candidate(p)
             \/ CollectGarbage(p) \/ Repair(p) \/ Cleared(p)
    <3>1. \/ to("closed") \/ to("idle") \/ to("reconcile") \/ to("commit") \/ to("rewrite")
          \/ to("mark") \/ to("next") \/ to("count") \/ to("collect") \/ to("delete")
          \/ to("evict") \/ to("gc")
      <4>1. CASE Sync(p) BY <4>1 DEF Sync, ReconcileThen, Return
      <4>2. CASE Reconcile(p) BY <4>2 DEF Reconcile
      <4>3. CASE Update(p) BY <4>3 DEF Update, Fails
      <4>4. CASE Delete(p) BY <4>4 DEF Delete, ReconcileThen
      <4>5. CASE Evict(p) BY <4>5 DEF Evict, ReconcileThen, Return
      <4>6. CASE Candidate(p) BY <4>6 DEF Candidate, FailsHolding, Recover, Fails
      <4>7. CASE CollectGarbage(p) BY <4>7 DEF CollectGarbage, ReconcileThen
      <4>8. CASE Repair(p) BY <4>8 DEF Repair, Return
      <4>9. CASE Cleared(p)
        <5>1. job[p].after \in {"idle", "delete", "evict", "gc"}
          BY JobFields DEF IInv, TypeOK
        <5> QED
          BY <4>9, <5>1 DEF Cleared, Return
      <4> QED
        BY <2>2, <4>1, <4>2, <4>3, <4>4, <4>5, <4>6, <4>7, <4>8, <4>9
    <3> QED
      BY <3>1 DEF Pcs, Waiting, Holding
  <2> QED
    BY <2>1, <2>2
<1>3. Calm(p)
  BY <1>2 DEF Goto, Calm, IInv, TypeOK
<1> QED
  BY <1>1, <1>3, CalmMarkers

LEMMA MarkMarkers == ASSUME IInv, NEW p \in Procs, Mark(p) PROVE KeepsMarkers
<1>1. pc[p] = "mark" /\ Moves(p) /\ job[p] \in Job /\ markers \in [Slots -> Ids \union {None, Torn}]
  BY HoldingMoves DEF Mark, IInv, TypeOK
<1>2. PICK s \in Slots : /\ markers[s] = None /\ markers' = [markers EXCEPT ![s] = job[p].id]
                         /\ Goto(p, "write", [job[p] EXCEPT !.mine = @ \union {s}])
  BY DEF Mark
<1>3. pc'[p] = "write" /\ job'[p].mine = job[p].mine \union {s} /\ job'[p].op = job[p].op
  BY <1>1, <1>2 DEF Goto, IInv, TypeOK, Job
<1>4. job[p].op # "evict" => job[p].mine = {}
  BY <1>1 DEF IInv, JobOK
<1> QED
  BY <1>1, <1>2, <1>3, <1>4, DoubtfulStep DEF KeepsMarkers

LEMMA ClearMarkers == ASSUME IInv, NEW p \in Procs, Clear(p) PROVE KeepsMarkers
<1>1. pc[p] = "clear" /\ Moves(p) /\ job[p] \in Job /\ markers \in [Slots -> Ids \union {None, Torn}]
  BY WaitingMoves DEF Clear, IInv, TypeOK
<1>2. PICK s \in job[p].pending :
         /\ Goto(p, "clear", [job[p] EXCEPT !.pending = @ \ {s}])
         /\ markers' = [markers EXCEPT ![s] = None] \/ UNCHANGED markers
  BY DEF Clear
<1>3. pc'[p] = "clear" /\ job'[p].pending \subseteq job[p].pending
  BY <1>1, <1>2 DEF Goto, IInv, TypeOK, Job
<1>4. job[p].pending \subseteq Doubtful
  BY <1>1 DEF Doubtful, Clearing
<1> QED
  BY <1>1, <1>2, <1>3, <1>4, DoubtfulStep DEF KeepsMarkers

-----------------------------------------------------------------------------
(* Before the bootstrap commits, only opens run                            *)

LEMMA OpeningStep ==
  ASSUME Unreadable = {}, IInv, PinSafe, Steady, IndexSafe, ~db.booted, NEW p \in Procs,
         Call(p) \/ Failure(p) \/ (Progress(p) /\ ~Commit(p))
  PROVE  UNCHANGED <<markers, records, db>> /\ Opening(p)'
<1>1. /\ Opening(p) /\ Listed = {} /\ job[p] \in Job /\ lost = {}
      /\ pc[p] \in {"closed", "count", "sync", "reconcile", "commit"}
  BY DEF IndexSafe, Unbooted, Opening, IInv, TypeOK, PinSafe, Steady
<1>2. ASSUME NEW l, NEW j, Goto(p, l, j)
      PROVE  pc'[p] = l /\ job'[p] = j
  BY <1>2 DEF Goto, IInv, TypeOK
<1>3. CASE Call(p)
  <2>1. Open(p)
    BY <1>1, <1>3, Zenon DEF Call, Open, Close, EvictCall, CollectCall, DeleteCall, ReadRecord,
       InsertCall, UpdateCall
  <2>2. pc'[p] = "count" /\ job'[p] = [NoJob EXCEPT !.op = "open"]
    BY <1>2, <2>1 DEF Open
  <2> QED
    BY <2>1, <2>2 DEF Open, NoJob, Opening, KeepsFiles
<1>4. CASE Failure(p)
  <2>1. CommitFails(p) \/ (Crash(p) /\ pc[p] # "mark")
    BY <1>1, <1>4 DEF Failure, MarkFails, WriteFails, UnlinkFails, RewriteFails, CandidateFails,
       CollectFails, Crash
  <2>2. CASE CommitFails(p)
    <3>1. job[p].op = "open" /\ UNCHANGED <<markers, records, db>>
      BY <1>1, <2>2 DEF CommitFails, Opening
    <3>2. \/ pc'[p] = "count" /\ job'[p] = [NoJob EXCEPT !.op = "open"]
          \/ pc'[p] = "closed"
      BY <1>2, <2>2, <3>1 DEF CommitFails, FailsHolding, Recover, Fails
    <3> QED
      BY <3>1, <3>2 DEF Opening, NoJob
  <2>3. CASE Crash(p) /\ pc[p] # "mark"
    <3>1. pc'[p] = "closed" /\ UNCHANGED <<markers, records, db>>
      BY <1>2, <2>3 DEF Crash
    <3> QED
      BY <3>1 DEF Opening
  <2> QED
    BY <2>1, <2>2, <2>3
<1>5. CASE Progress(p) /\ ~Commit(p)
  <2>1. GiveUp(p) \/ Count(p) \/ Sync(p) \/ Reconcile(p)
    BY <1>1, <1>5, Zenon
    DEF Progress, GiveUp, Count, Sync, Reconcile, Rewrite, Insert, Update, Delete,
       Unlink, Evict, Candidate, CollectGarbage, Collect, ReadBlob, Repair, Mark, Write, Clear,
       Cleared
  <2>0. job[p].op = "open"
    BY <1>1, <2>1 DEF Opening, GiveUp, Count, Sync, Reconcile, Waiting
  <2>2. UNCHANGED <<markers, records, db>>
    BY <2>1 DEF GiveUp, Count, Sync, Reconcile, KeepsFiles
  <2>3. CASE GiveUp(p)
    <3>1. pc'[p] = "closed"
      BY <1>2, <2>0, <2>3 DEF GiveUp, Fails
    <3> QED
      BY <2>2, <3>1 DEF Opening
  <2>4. CASE Count(p)
    <3>1. pc'[p] = "sync" /\ job'[p].op = "open"
      BY <1>1, <1>2, <2>0, <2>4 DEF Count, Job
    <3> QED
      BY <2>2, <3>1 DEF Opening
  <2>5. CASE Sync(p)
    <3>1. \/ Goto(p, "reconcile", [job[p] EXCEPT !.after = "idle"])
          \/ Goto(p, "commit", [job[p] EXCEPT !.pending = Listed])
      BY <1>1, <2>5 DEF Sync, ReconcileThen
    <3>2. pc'[p] \in {"reconcile", "commit"} /\ job'[p].op = "open"
      BY <1>1, <1>2, <2>0, <3>1 DEF Job
    <3> QED
      BY <2>2, <3>2 DEF Opening
  <2>6. CASE Reconcile(p)
    <3>1. PICK missing :
            /\ \A id \in missing : id \in Ids /\ Live(records[id]) /\ records[id].hash \notin blobs
            /\ Goto(p, IF missing = {} THEN "commit" ELSE "rewrite",
                    [job[p] EXCEPT !.pending = Listed, !.missing = missing])
      BY <2>6 DEF Reconcile
    <3>2. missing = {}
      BY <1>1, <3>1 DEF IInv, PixelsKept
    <3>3. pc'[p] = "commit" /\ job'[p].op = "open"
      <4>1. Goto(p, "commit", [job[p] EXCEPT !.pending = Listed, !.missing = missing])
        BY <3>1, <3>2
      <4>2. [job[p] EXCEPT !.pending = Listed, !.missing = missing].op = "open"
        BY <1>1, <2>0 DEF Job
      <4> QED
        BY <1>2, <4>1, <4>2
    <3> QED
      BY <2>2, <3>3 DEF Opening
  <2> QED
    BY <2>1, <2>3, <2>4, <2>5, <2>6
<1> QED
  BY <1>3, <1>4, <1>5

\* A step of p that writes neither sidecar nor index keeps what is known, if
\* its transaction knows every change.
LEMMA StepIndex ==
  ASSUME Unreadable = {}, IInv, IInv', PinSafe, Steady, IndexSafe, NEW p \in Procs, Moves(p),
         Call(p) \/ Failure(p) \/ (Progress(p) /\ ~Commit(p)),
         UNCHANGED <<records, db>>, KeepsMarkers,
         lock' = p => TxCurrent(p)'
  PROVE  IndexSafe'
<1>1. markers \in [Slots -> Ids \union {None, Torn}]
  BY DEF IInv, TypeOK
<1>2. IndexKnown'
  BY <1>1 DEF IndexSafe, IndexKnown, KeepsMarkers, Current
<1>3. ASSUME NEW q \in Procs, lock' = q, q # p PROVE TxCurrent(q)'
  <2>1. /\ pc'[q] = pc[q] /\ job'[q] = job[q]
    BY <1>3, Others
  <2>2. pc[q] \in Holding /\ lock = q
    BY <1>3, <2>1 DEF IInv, TypeOK
  <2>3. tx' = tx
    BY <1>3, <2>2 DEF Moves
  <2>4. TxCurrent(q)
    BY <2>2 DEF IndexSafe
  <2>5. ASSUME pc[q] = "commit", NEW s \in job[q].mine
        PROVE  markers'[s] = markers[s]
    <3>1. s \in Slots /\ markers[s] # None
      BY <2>5, JobFields DEF IInv, JobOK, TypeOK
    <3>2. s \notin Clearing
      BY <2>5 DEF IInv, JobOK, Clearing
    <3>3. \A r \in Procs : pc[r] # "write"
      BY <2>2, <2>5, Held DEF Holding
    <3> QED
      BY <3>1, <3>2, <3>3 DEF Doubtful, KeepsMarkers
  <2>6. Full(q)' <=> Full(q)
    BY <2>1 DEF Full
  <2> QED
    BY <2>1, <2>3, <2>4, <2>5, <2>6 DEF TxCurrent, Late, Current
<1>4. Unbooted'
  <2> SUFFICES ASSUME ~db.booted
               PROVE  Listed' = {} /\ \A q \in Procs : Opening(q)'
    BY DEF IndexSafe, Unbooted
  <2>1. UNCHANGED markers /\ Opening(p)'
    BY OpeningStep
  <2>2. Listed' = {}
    BY <2>1 DEF IndexSafe, Unbooted, Listed
  <2>3. \A q \in Procs : q # p => Opening(q)'
    BY Others DEF IndexSafe, Unbooted, Opening
  <2> QED
    BY <2>1, <2>2, <2>3
<1> QED
  BY <1>2, <1>3, <1>4 DEF IndexSafe

\* Steps that leave p outside a transaction.
LEMMA OutsideSteps ==
  ASSUME IInv, NEW p \in Procs,
         Call(p) \/ Failure(p) \/ GiveUp(p) \/ Count(p) \/ ReadBlob(p) \/ Clear(p) \/ Cleared(p)
  PROVE  Moves(p) /\ UNCHANGED <<records, db>> /\ KeepsMarkers /\ pc'[p] \notin Holding
<1>1. KeepsMarkers
  BY CalmCall, CalmFailure, CalmProgress, ClearMarkers
<1>2. Moves(p) /\ UNCHANGED <<records, db>>
  <2>1. CASE Call(p)
    BY <2>1, CallMoves, ZenonT(30)
    DEF Call, Open, Close, EvictCall, CollectCall, DeleteCall, ReadRecord,
       InsertCall, UpdateCall, KeepsFiles
  <2>2. CASE Failure(p)
    BY <2>2, FailureMoves DEF Failure, MarkFails, WriteFails, CommitFails, UnlinkFails,
       RewriteFails, CandidateFails, CollectFails, Crash
  <2>3. CASE GiveUp(p) \/ Count(p) \/ ReadBlob(p) \/ Clear(p) \/ Cleared(p)
    BY <2>3, WaitingMoves DEF GiveUp, Count, ReadBlob, Clear, Cleared, KeepsFiles
  <2> QED
    BY <2>1, <2>2, <2>3
<1>3. pc'[p] \notin Holding
  <2>0. ASSUME NEW l \in Pcs \ Holding, NEW j, Goto(p, l, j) PROVE pc'[p] \notin Holding
    BY <2>0 DEF Goto, IInv, TypeOK
  <2> DEFINE to(l) == \E j : Goto(p, l, j)
  <2>1. \/ to("count") \/ to("closed") \/ to("evict") \/ to("gc") \/ to("delete")
        \/ to("readBlob") \/ to("update") \/ to("insert") \/ to("idle") \/ to("clear")
        \/ to("sync") \/ to("repair")
    <3>1. CASE Call(p)
      <4>1. CASE Open(p) \/ Close(p) \/ EvictCall(p) \/ CollectCall(p)
        BY <4>1 DEF Open, Close, EvictCall, CollectCall
      <4>2. CASE \E id \in Ids : DeleteCall(p, id) \/ ReadRecord(p, id)
        BY <4>2 DEF DeleteCall, ReadRecord
      <4>3. CASE \E id \in Ids, c \in Change : UpdateCall(p, id, c)
        BY <4>3 DEF UpdateCall
      <4>4. CASE \E id \in Ids, h \in Hashes \union {NoImage}, pinned \in BOOLEAN, doc \in Docs :
                   InsertCall(p, id, h, pinned, doc)
        BY <4>4 DEF InsertCall
      <4> QED
        BY <3>1, <4>1, <4>2, <4>3, <4>4 DEF Call
    <3>2. CASE Failure(p)
      <4>1. CASE WriteFails(p) \/ Crash(p)
        BY <4>1 DEF WriteFails, Crash, Recover
      <4>2. CASE ~WriteFails(p) /\ ~Crash(p)
        <5>1. FailsHolding(p)
          BY <3>2, <4>2 DEF Failure, MarkFails, CommitFails, UnlinkFails, RewriteFails,
             CandidateFails, CollectFails
        <5> QED
          BY <5>1 DEF FailsHolding, Recover, Fails
      <4> QED
        BY <4>1, <4>2
    <3>3. CASE GiveUp(p) BY <3>3 DEF GiveUp, Fails
    <3>4. CASE Count(p) BY <3>4 DEF Count
    <3>5. CASE ReadBlob(p) BY <3>5 DEF ReadBlob, Return
    <3>6. CASE Clear(p) BY <3>6 DEF Clear
    <3>7. CASE Cleared(p)
      <4>1. job[p].after \in {"idle", "delete", "evict", "gc"}
        BY JobFields DEF IInv, TypeOK
      <4> QED
        BY <3>7, <4>1 DEF Cleared, Return
    <3> QED
      BY <3>1, <3>2, <3>3, <3>4, <3>5, <3>6, <3>7
  <2> QED
    BY <2>0, <2>1 DEF Pcs, Waiting, Holding
<1> QED
  BY <1>1, <1>2, <1>3

LEMMA OutsideIndex ==
  ASSUME Unreadable = {}, IInv, IInv', PinSafe, Steady, IndexSafe, NEW p \in Procs,
         Call(p) \/ Failure(p) \/ GiveUp(p) \/ Count(p) \/ ReadBlob(p) \/ Clear(p) \/ Cleared(p)
  PROVE  IndexSafe'
<1>1. Moves(p) /\ UNCHANGED <<records, db>> /\ KeepsMarkers /\ pc'[p] \notin Holding
  BY OutsideSteps
<1>2. lock' # p
  BY <1>1 DEF IInv, TypeOK
<1>3. ~Commit(p) \/ Call(p) \/ Failure(p)
  BY DEF Commit, GiveUp, Count, ReadBlob, Clear, Cleared, Waiting
<1>4. Call(p) \/ Failure(p) \/ (Progress(p) /\ ~Commit(p))
  BY <1>3 DEF Progress
<1> QED
  BY <1>1, <1>2, <1>4, StepIndex

-----------------------------------------------------------------------------
(* Transactions begin with rows that follow the sidecars                   *)

\* refreshing what the markers name brings every row up to date
LEMMA RepairedCurrent ==
  ASSUME IInv, IndexSafe, db.booted
  PROVE  Repaired.booted /\ \A id \in Ids : Current(Repaired.rows, id)
<1>1. ASSUME NEW id \in Ids, id \notin Named PROVE Current(db.rows, id)
  <2>1. \A s \in Slots : markers[s] # id
    BY <1>1 DEF Named, Listed
  <2> QED
    BY <2>1 DEF IndexSafe, IndexKnown
<1> QED
  BY <1>1 DEF Repaired, Current

LEMMA AllCurrent ==
  ASSUME IInv', NEW p \in Procs, UNCHANGED records, tx'.booted,
         \A id \in Ids : Current(tx'.rows, id), pc'[p] # "unlink"
  PROVE  TxCurrent(p)'
<1>1. \A id \in Ids : tx'.rows[id] = records'[id]
  BY DEF Current
<1> QED
  BY <1>1 DEF TxCurrent, Current, Late

\* a transaction that has not written yet
LEMMA StartCurrent ==
  ASSUME NEW p \in Procs, UNCHANGED <<records, db>>, db.booted,
         tx'.rows = db.rows /\ tx'.booted = db.booted, pc'[p] \in {"mark", "commit"},
         job'[p].op \notin {"delete", "evict", "gc"}, job'[p].pending = {},
         pc'[p] = "commit" => job'[p].mine = {}
  PROVE  TxCurrent(p)'
  BY DEF TxCurrent, Full, Late, Current

\* calls other than an open find the index bootstrapped
LEMMA Booted ==
  ASSUME IndexSafe, NEW p \in Procs,
         pc[p] \notin {"closed", "count", "sync", "reconcile", "commit"} \/ job[p].op # "open",
         pc[p] # "closed"
  PROVE  db.booted
  BY DEF IndexSafe, Unbooted, Opening

LEMMA SyncIndex ==
  ASSUME Unreadable = {}, IInv, IInv', PinSafe, Steady, IndexSafe, NEW p \in Procs, Sync(p)
  PROVE  IndexSafe'
<1>1. /\ Moves(p) /\ KeepsMarkers /\ Progress(p) /\ ~Commit(p) /\ UNCHANGED <<records, db>>
  BY WaitingMoves, CalmProgress DEF Sync, Commit, Progress, KeepsFiles
<1>2. ASSUME NEW l, NEW j, Goto(p, l, j)
      PROVE  pc'[p] = l /\ job'[p] = j
  BY <1>2 DEF Goto, IInv, TypeOK
<1>3. CASE pc'[p] \notin Holding
  <2>1. lock' # p
    BY <1>3 DEF IInv, TypeOK
  <2> QED
    BY <1>1, <2>1, StepIndex
<1>4. CASE pc'[p] \in Holding
  <2>1. /\ pc'[p] = "commit"
        /\ \/ db.booted /\ tx' = [Repaired EXCEPT !.booted = TRUE]
           \/ /\ Listed = {} /\ ~db.booted
              /\ \E unread \in Unread :
                   tx' = [[db EXCEPT !.rows = PinsFrom(db.rows, unread)] EXCEPT !.booted = TRUE]
    <3>1. ~(pc'[p] = "reconcile") /\ ~(pc'[p] = "idle")
      BY <1>4 DEF Holding
    <3>2. ~ReconcileThen(p, "idle") /\ ~Return(p)
      BY <1>2, <3>1 DEF ReconcileThen, Return
    <3>3. \/ db.booted /\ tx' = [Repaired EXCEPT !.booted = TRUE]
          \/ /\ Listed = {} /\ ~db.booted
             /\ \E unread \in Unread :
                  tx' = [[db EXCEPT !.rows = PinsFrom(db.rows, unread)] EXCEPT !.booted = TRUE]
      BY <3>2 DEF Sync
    <3>4. \E j : Goto(p, "commit", j)
      BY <3>2 DEF Sync
    <3> QED
      BY <1>2, <3>3, <3>4
  <2>2. tx'.booted /\ \A id \in Ids : Current(tx'.rows, id)
    <3>1. CASE db.booted /\ tx' = [Repaired EXCEPT !.booted = TRUE]
      <4>1. tx'.booted /\ tx'.rows = Repaired.rows
        BY <3>1 DEF Repaired
      <4> QED
        BY <3>1, <4>1, RepairedCurrent DEF Current
    <3>2. CASE /\ ~db.booted
               /\ \E unread \in Unread :
                   tx' = [[db EXCEPT !.rows = PinsFrom(db.rows, unread)] EXCEPT !.booted = TRUE]
      <4>1. PICK unread \in Unread :
                   tx' = [[db EXCEPT !.rows = PinsFrom(db.rows, unread)] EXCEPT !.booted = TRUE]
        BY <3>2
      <4>2. unread = {}
        BY <4>1 DEF Unread
      <4>3. db \in Index /\ records \in [Ids -> Record \union {None}]
        BY DEF IInv, TypeOK
      <4>4. tx'.booted /\ tx'.rows = PinsFrom(db.rows, {})
        BY <4>1, <4>2, <4>3 DEF Index
      <4>5. ASSUME NEW id \in Ids PROVE PinsFrom(db.rows, {})[id] = records[id]
        <5>1. CASE records[id] = None
          BY <3>2, <5>1 DEF IndexSafe, Unbooted, PinsFrom
        <5>2. CASE records[id] # None
          <6>1. records[id] \in Record
            BY <4>3, <5>2
          <6>2. \A w \in Record :
                  [[w EXCEPT !.screen = FALSE] EXCEPT !.pinned = w.pinned, !.screen = w.screen] = w
            BY DEF Record
          <6>3. db.rows[id] = [records[id] EXCEPT !.screen = FALSE]
            BY <3>2, <5>2 DEF IndexSafe, Unbooted
          <6>4. PinsFrom(db.rows, {})[id] = [db.rows[id] EXCEPT !.pinned = records[id].pinned,
                                                                !.screen = records[id].screen]
            BY <5>2 DEF PinsFrom
          <6> QED
            BY <6>1, <6>2, <6>3, <6>4
        <5> QED
          BY <5>1, <5>2
      <4> QED
        BY <4>4, <4>5 DEF Current
    <3> QED
      BY <2>1, <3>1, <3>2
  <2>3. TxCurrent(p)'
    BY <1>1, <2>1, <2>2, AllCurrent
  <2> QED
    BY <1>1, <2>3, StepIndex
<1> QED
  BY <1>3, <1>4

LEMMA ReconcileIndex ==
  ASSUME Unreadable = {}, IInv, IInv', PinSafe, Steady, IndexSafe, NEW p \in Procs, Reconcile(p)
  PROVE  IndexSafe'
<1>1. /\ Moves(p) /\ KeepsMarkers /\ Progress(p) /\ ~Commit(p) /\ UNCHANGED <<records, db>>
  BY WaitingMoves, CalmProgress DEF Reconcile, Commit, Progress, KeepsFiles
<1>2. PICK unread \in Unread :
        \E missing \in SUBSET (Ids \ unread) :
          /\ \A id \in missing : Live(records[id]) /\ records[id].hash \notin blobs
          /\ tx' = [rows   |-> [id \in Ids |-> IF id \in unread THEN None
                                ELSE IF id \in missing THEN Evicted(records[id])
                                ELSE records[id]],
                    sized  |-> blobs,
                    booted |-> TRUE]
          /\ Goto(p, IF missing = {} THEN "commit" ELSE "rewrite",
                  [job[p] EXCEPT !.pending = Listed, !.missing = missing])
  BY DEF Reconcile
<1>3. PICK missing \in SUBSET (Ids \ unread) :
          /\ \A id \in missing : Live(records[id]) /\ records[id].hash \notin blobs
          /\ tx' = [rows   |-> [id \in Ids |-> IF id \in unread THEN None
                                ELSE IF id \in missing THEN Evicted(records[id])
                                ELSE records[id]],
                    sized  |-> blobs,
                    booted |-> TRUE]
          /\ Goto(p, IF missing = {} THEN "commit" ELSE "rewrite",
                  [job[p] EXCEPT !.pending = Listed, !.missing = missing])
  BY <1>2
<1>4. unread = {} /\ missing = {}
  BY <1>2, <1>3 DEF Unread, IInv, PixelsKept, PinSafe, Steady
<1>5. tx'.booted /\ \A id \in Ids : Current(tx'.rows, id)
  BY <1>3, <1>4 DEF Current
<1>6. pc'[p] = "commit"
  BY <1>3, <1>4 DEF Goto, IInv, TypeOK
<1>7. TxCurrent(p)'
  BY <1>1, <1>5, <1>6, AllCurrent
<1> QED
  BY <1>1, <1>7, StepIndex

LEMMA InsertIndex ==
  ASSUME Unreadable = {}, IInv, IInv', PinSafe, Steady, IndexSafe, NEW p \in Procs, Insert(p)
  PROVE  IndexSafe'
<1>1. /\ Moves(p) /\ KeepsMarkers /\ Progress(p) /\ ~Commit(p) /\ UNCHANGED <<records, db>>
  BY WaitingMoves, CalmProgress DEF Insert, Commit, Progress
<1>2. /\ pc[p] = "insert" /\ tx' = db /\ pc'[p] = "mark" /\ job'[p] = job[p]
  BY DEF Insert, Acquire, LockFree, Goto, IInv, TypeOK
<1>3. job[p].op = "insert" /\ job[p].pending = {} /\ db.booted
  BY <1>2, Booted DEF IInv, JobOK, Ready
<1>4. TxCurrent(p)'
  BY <1>1, <1>2, <1>3, StartCurrent
<1> QED
  BY <1>1, <1>4, StepIndex

LEMMA UpdateIndex ==
  ASSUME Unreadable = {}, IInv, IInv', PinSafe, Steady, IndexSafe, NEW p \in Procs, Update(p)
  PROVE  IndexSafe'
<1>1. /\ Moves(p) /\ KeepsMarkers /\ Progress(p) /\ ~Commit(p) /\ UNCHANGED <<records, db>>
  BY WaitingMoves, CalmProgress DEF Update, Commit, Progress, KeepsFiles
<1>2. pc[p] = "update" /\ tx' = db /\ job[p] \in Job
  BY DEF Update, LockFree, IInv, TypeOK
<1>3. job[p].op = "update" /\ job[p].pending = {} /\ db.booted
  BY <1>2, Booted DEF IInv, JobOK, Ready
<1>4. ASSUME NEW l, NEW j, Goto(p, l, j)
      PROVE  pc'[p] = l /\ job'[p] = j
  BY <1>4 DEF Goto, IInv, TypeOK
<1>5. CASE pc'[p] \notin Holding
  <2>1. lock' # p
    BY <1>5 DEF IInv, TypeOK
  <2> QED
    BY <1>1, <2>1, StepIndex
<1>6. CASE pc'[p] \in Holding
  <2>1. ~Fails(p)
    BY <1>4, <1>6 DEF Fails, Holding
  <2>2. \E r : Goto(p, "mark", [job[p] EXCEPT !.rec = r])
    BY <2>1 DEF Update
  <2>3. pc'[p] = "mark" /\ job'[p].op = "update" /\ job'[p].pending = {}
    BY <1>2, <1>3, <1>4, <2>2 DEF Job
  <2>4. TxCurrent(p)'
    BY <1>1, <1>2, <1>3, <2>3, StartCurrent
  <2> QED
    BY <1>1, <2>4, StepIndex
<1> QED
  BY <1>5, <1>6

LEMMA RepairIndex ==
  ASSUME Unreadable = {}, IInv, IInv', PinSafe, Steady, IndexSafe, NEW p \in Procs, Repair(p)
  PROVE  IndexSafe'
<1>1. /\ Moves(p) /\ KeepsMarkers /\ Progress(p) /\ ~Commit(p) /\ UNCHANGED <<records, db>>
  BY WaitingMoves, CalmProgress DEF Repair, Commit, Progress, KeepsFiles
<1>2. pc[p] = "repair" /\ tx = db /\ job[p] \in Job /\ tx \in Index
  BY DEF Repair, LockFree, IInv, TypeOK
<1>3. job[p].op = "repair" /\ job[p].pending = {} /\ job[p].mine = {} /\ db.booted
  BY <1>2, Booted, Outside DEF Ready, Holding
<1>4. ASSUME NEW l, NEW j, Goto(p, l, j)
      PROVE  pc'[p] = l /\ job'[p] = j
  BY <1>4 DEF Goto, IInv, TypeOK
<1>5. CASE pc'[p] \notin Holding
  <2>1. lock' # p
    BY <1>5 DEF IInv, TypeOK
  <2> QED
    BY <1>1, <2>1, StepIndex
<1>6. CASE pc'[p] \in Holding
  <2>1. ~Return(p)
    BY <1>4, <1>6 DEF Return, Holding
  <2>2. \/ (\E r : Goto(p, "mark", [job[p] EXCEPT !.rec = r])) /\ tx' = tx
        \/ Goto(p, "commit", job[p]) /\ tx' = [tx EXCEPT !.sized = @ \ {job[p].hash}]
    BY <2>1 DEF Repair
  <2>3. tx'.rows = db.rows /\ tx'.booted = db.booted
    BY <1>2, <2>2 DEF Index
  <2>4. /\ pc'[p] \in {"mark", "commit"} /\ job'[p].op = "repair" /\ job'[p].pending = {}
        /\ job'[p].mine = {}
    <3>1. ASSUME NEW q, Goto(p, "mark", [job[p] EXCEPT !.rec = q])
          PROVE  /\ pc'[p] = "mark" /\ job'[p].op = "repair" /\ job'[p].pending = {}
                 /\ job'[p].mine = {}
      BY <1>2, <1>3, <1>4, <3>1 DEF Job
    <3>2. CASE Goto(p, "commit", job[p])
      BY <1>3, <1>4, <3>2
    <3> QED
      BY <2>2, <3>1, <3>2
  <2>5. TxCurrent(p)'
    BY <1>1, <1>3, <2>3, <2>4, StartCurrent
  <2> QED
    BY <1>1, <2>5, StepIndex
<1> QED
  BY <1>5, <1>6

LEMMA DeleteIndex ==
  ASSUME Unreadable = {}, IInv, IInv', PinSafe, Steady, IndexSafe, NEW p \in Procs, Delete(p)
  PROVE  IndexSafe'
<1>1. /\ Moves(p) /\ KeepsMarkers /\ Progress(p) /\ ~Commit(p) /\ UNCHANGED <<records, db>>
  BY WaitingMoves, CalmProgress, Zenon DEF Delete, Commit, Progress, KeepsFiles
<1>2. db.booted /\ pc[p] = "delete"
  BY Booted DEF Delete
<1>3. ASSUME NEW l, NEW j, Goto(p, l, j)
      PROVE  pc'[p] = l
  BY <1>3 DEF Goto, IInv, TypeOK
<1>4. CASE ReconcileThen(p, "delete")
  <2>1. lock' # p
    BY <1>3, <1>4 DEF ReconcileThen, IInv, TypeOK, Holding
  <2> QED
    BY <1>1, <2>1, StepIndex
<1>5. CASE ~ReconcileThen(p, "delete")
  <2>1. /\ \E l \in {"mark", "commit"} : \E j : Goto(p, l, j)
        /\ \/ tx' = Repaired
           \/ /\ tx' = [Repaired EXCEPT !.rows[job[p].id] = None]
              /\ records[job[p].id] = None
        /\ Repairable
    BY <1>5 DEF Delete
  <2>2. pc'[p] # "unlink"
    BY <1>3, <2>1
  <2>3. Repaired \in Index /\ Repaired.booted /\ \A id \in Ids : Current(Repaired.rows, id)
    BY <1>2, <2>1, RepairedCurrent, RepairedKnows
  <2>4. tx'.booted /\ \A id \in Ids : Current(tx'.rows, id)
    <3>1. CASE tx' = Repaired
      BY <2>3, <3>1
    <3>2. CASE /\ tx' = [Repaired EXCEPT !.rows[job[p].id] = None]
               /\ records[job[p].id] = None
      <4>1. /\ tx'.booted = Repaired.booted
            /\ tx'.rows = [Repaired.rows EXCEPT ![job[p].id] = None]
            /\ Repaired.rows \in [Ids -> Record \union {None}]
        BY <2>3, <3>2 DEF Index
      <4> QED
        BY <2>3, <3>2, <4>1 DEF Current
    <3> QED
      BY <2>1, <3>1, <3>2
  <2>5. TxCurrent(p)'
    BY <1>1, <2>2, <2>4, AllCurrent
  <2> QED
    BY <1>1, <2>5, StepIndex
<1> QED
  BY <1>4, <1>5

LEMMA CollectGarbageIndex ==
  ASSUME Unreadable = {}, IInv, IInv', PinSafe, Steady, IndexSafe, NEW p \in Procs,
         CollectGarbage(p)
  PROVE  IndexSafe'
<1>1. /\ Moves(p) /\ KeepsMarkers /\ Progress(p) /\ ~Commit(p) /\ UNCHANGED <<records, db>>
  BY WaitingMoves, CalmProgress DEF CollectGarbage, Commit, Progress, KeepsFiles
<1>2. db.booted /\ pc[p] = "gc"
  BY Booted DEF CollectGarbage
<1>3. ASSUME NEW l, NEW j, Goto(p, l, j)
      PROVE  pc'[p] = l
  BY <1>3 DEF Goto, IInv, TypeOK
<1>4. CASE ReconcileThen(p, "gc")
  <2>1. lock' # p
    BY <1>3, <1>4 DEF ReconcileThen, IInv, TypeOK, Holding
  <2> QED
    BY <1>1, <2>1, StepIndex
<1>5. CASE ~ReconcileThen(p, "gc")
  <2>1. (\E j : Goto(p, "collect", j)) /\ tx' = Repaired
    BY <1>5 DEF CollectGarbage
  <2>2. pc'[p] # "unlink"
    BY <1>3, <2>1
  <2>3. TxCurrent(p)'
    BY <1>1, <1>2, <2>1, <2>2, RepairedCurrent, AllCurrent
  <2> QED
    BY <1>1, <2>3, StepIndex
<1> QED
  BY <1>4, <1>5

LEMMA EvictIndex ==
  ASSUME Unreadable = {}, IInv, IInv', PinSafe, Steady, IndexSafe, NEW p \in Procs, Evict(p)
  PROVE  IndexSafe'
<1>1. /\ Moves(p) /\ KeepsMarkers /\ Progress(p) /\ ~Commit(p) /\ UNCHANGED <<records, db>>
  BY WaitingMoves, CalmProgress DEF Evict, Commit, Progress, KeepsFiles
<1>2. db.booted /\ pc[p] = "evict"
  BY Booted DEF Evict
<1>3. ASSUME NEW l, NEW j, Goto(p, l, j)
      PROVE  pc'[p] = l
  BY <1>3 DEF Goto, IInv, TypeOK
<1>4. CASE ReconcileThen(p, "evict") \/ Return(p)
  <2>1. lock' # p
    BY <1>3, <1>4 DEF ReconcileThen, Return, IInv, TypeOK, Holding
  <2> QED
    BY <1>1, <2>1, StepIndex
<1>5. CASE ~(ReconcileThen(p, "evict") \/ Return(p))
  <2>1. (\E j : Goto(p, "next", j)) /\ tx' = [Repaired EXCEPT !.booted = @ \/ Listed # {}]
    BY <1>5 DEF Evict
  <2>2. pc'[p] # "unlink"
    BY <1>3, <2>1
  <2>3. Repaired.booted /\ \A id \in Ids : Current(Repaired.rows, id)
    BY <1>2, RepairedCurrent
  <2>4. tx'.rows = Repaired.rows /\ tx'.booted
    BY <2>1, <2>3 DEF Repaired
  <2>5. TxCurrent(p)'
    BY <1>1, <2>2, <2>3, <2>4, AllCurrent
  <2> QED
    BY <1>1, <2>5, StepIndex
<1> QED
  BY <1>4, <1>5

-----------------------------------------------------------------------------
(* Transactions go on                                                      *)

LEMMA HolderCurrent ==
  ASSUME IInv', NEW p \in Procs, TxCurrent(p), UNCHANGED <<records, db>>,
         job'[p].op = job[p].op, job'[p].pending = job[p].pending,
         tx'.booted = tx.booted,
         \A id \in Ids : tx'.rows[id] = tx.rows[id] \/ tx'.rows[id] = records[id],
         pc[p] = "unlink" => tx'.rows[job[p].id] = records[job[p].id],
         pc'[p] # "unlink", pc'[p] = "commit" => job[p].op \in {"delete", "evict", "gc"}
  PROVE  TxCurrent(p)'
<1>1. Full(p)' <=> Full(p)
  BY DEF Full
<1>2. ASSUME NEW id \in Ids, Full(p) \/ db.rows[id] = records[id]
      PROVE  tx'.rows[id] = records'[id]
  BY <1>2 DEF TxCurrent, Late, Current
<1>3. pc'[p] = "commit" => Full(p)
  BY DEF Full
<1> QED
  BY <1>1, <1>2, <1>3 DEF TxCurrent, Current

LEMMA UnlinkIndex ==
  ASSUME Unreadable = {}, IInv, IInv', PinSafe, Steady, IndexSafe, NEW p \in Procs, Unlink(p)
  PROVE  IndexSafe'
<1>1. /\ Moves(p) /\ KeepsMarkers /\ Progress(p) /\ ~Commit(p) /\ UNCHANGED <<records, db>>
      /\ lock = p
  BY HoldingMoves, CalmProgress DEF Unlink, Commit, Progress
<1>2. TxCurrent(p) /\ pc[p] = "unlink" /\ tx \in Index
  BY <1>1 DEF IndexSafe, Unlink, IInv, TypeOK
<1>3. records[job[p].id] = job[p].rec /\ job[p].op \in {"delete", "evict"}
  BY <1>2 DEF TxCurrent, IInv, JobOK
<1>4. /\ job'[p] = job[p] /\ pc'[p] \in {"commit", "next"}
      /\ pc'[p] = "commit" => job[p].op = "delete"
  BY DEF Unlink, Goto, IInv, TypeOK
<1>5. PICK S : tx' = [tx EXCEPT !.rows = [tx.rows EXCEPT ![job[p].id] = job[p].rec], !.sized = S]
  BY DEF Unlink
<1>6. /\ tx'.rows = [tx.rows EXCEPT ![job[p].id] = job[p].rec]
      /\ tx'.booted = tx.booted /\ tx.rows \in [Ids -> Record \union {None}]
  BY <1>2, <1>5 DEF Index
<1>7. \A id \in Ids : tx'.rows[id] = tx.rows[id] \/ tx'.rows[id] = records[id]
  BY <1>3, <1>6
<1>8. tx'.rows[job[p].id] = records[job[p].id] \/ job[p].id \notin Ids
  BY <1>3, <1>6
<1>9. TxCurrent(p)'
  <2>1. \A id \in Ids : Full(p) \/ db.rows[id] = records[id] => tx'.rows[id] = records'[id]
    BY <1>1, <1>2, <1>7, <1>8 DEF TxCurrent, Late, Current
  <2>2. Full(p) /\ (Full(p)' <=> Full(p))
    BY <1>1, <1>3, <1>4 DEF Full
  <2> QED
    BY <1>1, <1>2, <1>4, <1>6, <2>1, <2>2 DEF TxCurrent, Current
<1> QED
  BY <1>1, <1>9, StepIndex

LEMMA CollectIndex ==
  ASSUME Unreadable = {}, IInv, IInv', PinSafe, Steady, IndexSafe, NEW p \in Procs, Collect(p)
  PROVE  IndexSafe'
<1>1. /\ Moves(p) /\ KeepsMarkers /\ Progress(p) /\ ~Commit(p) /\ UNCHANGED <<records, db>>
      /\ lock = p
  BY HoldingMoves, CalmProgress DEF Collect, Commit, Progress
<1>2. /\ TxCurrent(p) /\ pc[p] = "collect" /\ tx \in Index /\ job[p] \in Job
      /\ job[p].op = "gc"
  BY <1>1 DEF IndexSafe, Collect, IInv, TypeOK, JobOK
<1>3. /\ pc'[p] \in {"commit", "collect"} /\ job'[p].op = job[p].op
      /\ job'[p].pending = job[p].pending
  BY <1>2 DEF Collect, Goto, Job, IInv, TypeOK
<1>4. tx'.rows = tx.rows /\ tx'.booted = tx.booted
  BY <1>2 DEF Collect, Index
<1>5. TxCurrent(p)'
  BY <1>1, <1>2, <1>3, <1>4, HolderCurrent
<1> QED
  BY <1>1, <1>5, StepIndex

LEMMA MarkIndex ==
  ASSUME Unreadable = {}, IInv, IInv', PinSafe, Steady, IndexSafe, NEW p \in Procs, Mark(p)
  PROVE  IndexSafe'
<1>1. /\ Moves(p) /\ KeepsMarkers /\ Progress(p) /\ ~Commit(p) /\ UNCHANGED <<records, db, tx>>
      /\ lock = p /\ pc[p] = "mark"
  BY HoldingMoves, MarkMarkers DEF Mark, Commit, Progress
<1>2. TxCurrent(p) /\ job[p] \in Job
  BY <1>1 DEF IndexSafe, IInv, TypeOK
<1>3. PICK s \in Slots : Goto(p, "write", [job[p] EXCEPT !.mine = @ \union {s}])
  BY DEF Mark
<1>4. pc'[p] = "write" /\ job'[p].op = job[p].op /\ job'[p].pending = job[p].pending
  BY <1>2, <1>3 DEF Goto, Job, IInv, TypeOK
<1>5. TxCurrent(p)'
  BY <1>1, <1>2, <1>4, HolderCurrent
<1> QED
  BY <1>1, <1>5, StepIndex

LEMMA CandidateIndex ==
  ASSUME Unreadable = {}, IInv, IInv', PinSafe, Steady, IndexSafe, NEW p \in Procs, Candidate(p)
  PROVE  IndexSafe'
<1>1. /\ Moves(p) /\ KeepsMarkers /\ Progress(p) /\ ~Commit(p) /\ UNCHANGED <<records, db>>
      /\ lock = p /\ pc[p] = "next"
  BY HoldingMoves, CalmProgress, Zenon DEF Candidate, Commit, Progress, KeepsFiles
<1>2. TxCurrent(p) /\ job[p] \in Job /\ job[p].op = "evict" /\ tx \in Index
  BY <1>1 DEF IndexSafe, IInv, TypeOK, JobOK
<1>3. ASSUME NEW l, NEW j, Goto(p, l, j)
      PROVE  pc'[p] = l /\ job'[p] = j
  BY <1>3 DEF Goto, IInv, TypeOK
<1>4. CASE FailsHolding(p)
  <2>1. lock' # p
    BY <1>1, <1>4 DEF FailsHolding, Rollback
  <2> QED
    BY <1>1, <2>1, StepIndex
<1>5. CASE ~FailsHolding(p)
  <2>1. \/ Goto(p, "commit", job[p]) /\ tx' = tx
        \/ \E id \in Ids :
             \/ Goto(p, "next", Popped(job[p], id)) /\ tx' = [tx EXCEPT !.rows[id] = records[id]]
             \/ /\ tx' = tx
                /\ \E r : Goto(p, "mark", [Popped(job[p], id) EXCEPT
                                    !.id = id, !.rec = r, !.hash = r.hash])
    BY <1>5, Zenon DEF Candidate
  <2>2. /\ pc'[p] \in {"commit", "next", "mark"} /\ job'[p].op = job[p].op
        /\ job'[p].pending = job[p].pending
    <3>1. CASE Goto(p, "commit", job[p])
      BY <1>3, <3>1
    <3>0. ASSUME NEW id \in Ids
          PROVE  /\ Popped(job[p], id) \in Job /\ Popped(job[p], id).op = job[p].op
                 /\ Popped(job[p], id).pending = job[p].pending
      BY <1>2 DEF Popped, Job
    <3>2. ASSUME NEW id \in Ids, Goto(p, "next", Popped(job[p], id))
          PROVE  /\ pc'[p] = "next" /\ job'[p].op = job[p].op
                 /\ job'[p].pending = job[p].pending
      BY <1>3, <3>0, <3>2
    <3>3. ASSUME NEW id \in Ids, NEW r, Goto(p, "mark", [Popped(job[p], id) EXCEPT
                                            !.id = id, !.rec = r, !.hash = r.hash])
          PROVE  /\ pc'[p] = "mark" /\ job'[p].op = job[p].op
                 /\ job'[p].pending = job[p].pending
      <4> DEFINE k == Popped(job[p], id)
      <4>1. k \in Job /\ k.op = job[p].op /\ k.pending = job[p].pending
        BY <3>0
      <4> HIDE DEF k
      <4>2. LET j == [k EXCEPT !.id = id, !.rec = r, !.hash = r.hash]
            IN  j.op = k.op /\ j.pending = k.pending
        BY <4>1 DEF Job
      <4>3. Goto(p, "mark", [k EXCEPT !.id = id, !.rec = r, !.hash = r.hash])
        BY <3>3 DEF k
      <4> QED
        BY <1>3, <4>1, <4>2, <4>3
    <3> QED
      BY <2>1, <3>1, <3>2, <3>3
  <2>3. /\ tx'.booted = tx.booted
        /\ \A i \in Ids : tx'.rows[i] = tx.rows[i] \/ tx'.rows[i] = records[i]
    <3>1. ASSUME NEW id \in Ids, tx' = [tx EXCEPT !.rows[id] = records[id]]
          PROVE  /\ tx'.booted = tx.booted
                 /\ \A i \in Ids : tx'.rows[i] = tx.rows[i] \/ tx'.rows[i] = records[i]
      <4>1. /\ tx'.booted = tx.booted /\ tx'.rows = [tx.rows EXCEPT ![id] = records[id]]
            /\ tx.rows \in [Ids -> Record \union {None}]
        BY <1>2, <3>1 DEF Index
      <4> QED
        BY <4>1
    <3> QED
      BY <2>1, <3>1
  <2>4. TxCurrent(p)'
    BY <1>1, <1>2, <2>2, <2>3, HolderCurrent
  <2> QED
    BY <1>1, <2>4, StepIndex
<1> QED
  BY <1>4, <1>5

LEMMA WriteIndex ==
  ASSUME Unreadable = {}, IInv, IInv', PinSafe, Steady, IndexSafe, NEW p \in Procs, Write(p)
  PROVE  IndexSafe'
<1>1. /\ Moves(p) /\ KeepsMarkers /\ UNCHANGED <<db, markers, lock>> /\ lock = p
      /\ pc[p] = "write" /\ job[p].id \in Ids
      /\ records' = [records EXCEPT ![job[p].id] = job[p].rec]
  BY HoldingMoves, CalmProgress DEF Write, IInv, JobOK
<1>2. /\ TxCurrent(p) /\ tx \in Index /\ records \in [Ids -> Record \union {None}]
      /\ db.booted /\ markers \in [Slots -> Ids \union {None, Torn}] /\ job[p] \in Job
  BY <1>1, Booted DEF IndexSafe, IInv, TypeOK
<1> PICK id \in Ids : id = job[p].id
  BY <1>1
<1>3. \A i \in Ids : records'[i] = IF i = id THEN job[p].rec ELSE records[i]
  BY <1>1, <1>2
<1>4. /\ job'[p] = job[p] /\ pc'[p] \in {"unlink", "next", "commit"}
      /\ pc'[p] = "next" => job[p].op = "evict"
      /\ pc'[p] = "commit" => job[p].op # "evict"
      /\ \/ pc'[p] = "unlink" /\ tx' = tx
         \/ /\ pc'[p] # "unlink"
            /\ tx'.booted = tx.booted /\ tx'.rows = [tx.rows EXCEPT ![id] = job[p].rec]
  <2>0. ASSUME NEW l, Goto(p, l, job[p]) PROVE pc'[p] = l /\ job'[p] = job[p]
    BY <2>0 DEF Goto, IInv, TypeOK
  <2> DEFINE rowed == \/ tx' = [tx EXCEPT !.rows[id] = job[p].rec]
                      \/ \E S : tx' = [[tx EXCEPT !.rows[id] = job[p].rec] EXCEPT !.sized = S]
  <2>1. \/ tx' = tx /\ Goto(p, "unlink", job[p])
        \/ job[p].op = "evict" /\ Goto(p, "next", job[p]) /\ rowed
        \/ job[p].op # "evict" /\ Goto(p, "commit", job[p]) /\ rowed
    BY <1>1 DEF Write
  <2>2. rowed => tx'.booted = tx.booted /\ tx'.rows = [tx.rows EXCEPT ![id] = job[p].rec]
    BY <1>2 DEF Index
  <2> HIDE DEF rowed
  <2>3. CASE tx' = tx /\ Goto(p, "unlink", job[p])
    BY <2>0, <2>3
  <2>4. CASE job[p].op = "evict" /\ Goto(p, "next", job[p]) /\ rowed
    BY <2>0, <2>2, <2>4
  <2>5. CASE job[p].op # "evict" /\ Goto(p, "commit", job[p]) /\ rowed
    BY <2>0, <2>2, <2>5
  <2> QED
    BY <2>1, <2>3, <2>4, <2>5
<1>5. ASSUME NEW i \in Ids
      PROVE  Current(db.rows, i)' \/ \E s \in Slots \ Doubtful' : markers'[s] = i
  <2>1. CASE i = id
    <3>1. PICK s \in job[p].mine : markers[s] = id
      BY <1>1 DEF IInv, JobOK
    <3>2. s \in Slots
      BY <1>2, JobFields
    <3>3. s \notin Clearing'
      BY <1>4 DEF Clearing, IInv, JobOK
    <3>4. \A q \in Procs : pc'[q] # "write"
      <4>1. \A q \in Procs : lock' = q <=> pc'[q] \in Holding
        BY DEF IInv, TypeOK
      <4> QED
        BY <1>1, <1>4, <4>1 DEF Holding
    <3> QED
      BY <1>1, <2>1, <3>1, <3>2, <3>3, <3>4 DEF Doubtful
  <2>2. CASE i # id
    BY <1>1, <1>2, <1>3, <2>2 DEF IndexSafe, IndexKnown, KeepsMarkers, Current
  <2> QED
    BY <2>1, <2>2
<1>6. TxCurrent(p)'
  <2>1. ASSUME NEW i \in Ids, ~(pc'[p] = "unlink" /\ i = id), Full(p) \/ db.rows[i] = records'[i]
        PROVE  tx'.rows[i] = records'[i]
    <3>1. CASE i = id
      BY <1>2, <1>3, <1>4, <2>1, <3>1 DEF Index
    <3>2. CASE i # id
      <4>1. tx.rows[i] = records[i]
        BY <1>1, <1>2, <1>3, <2>1, <3>2 DEF TxCurrent, Late, Current
      <4> QED
        BY <1>2, <1>3, <1>4, <3>2, <4>1 DEF Index
    <3> QED
      BY <3>1, <3>2
  <2>2. Full(p)' <=> Full(p)
    BY <1>1, <1>4 DEF Full
  <2>3. tx'.booted
    BY <1>2, <1>4 DEF TxCurrent
  <2>4. ASSUME pc'[p] = "commit", NEW s \in job[p].mine
        PROVE  markers'[s] = id /\ tx'.rows[id] = records'[id]
    <3>1. markers[s] = id
      BY <1>1, <1>4, <2>4 DEF IInv, JobOK
    <3> QED
      BY <1>1, <1>2, <1>3, <1>4, <2>4, <3>1 DEF Index
  <2>5. pc'[p] = "unlink" => records'[job'[p].id] = job'[p].rec
    BY <1>3, <1>4
  <2> QED
    BY <1>1, <1>4, <2>1, <2>2, <2>3, <2>4, <2>5 DEF TxCurrent, Late, Current
<1>7. Unbooted' /\ IndexKnown'
  BY <1>1, <1>2, <1>5 DEF Unbooted, IndexKnown
<1> QED
  BY <1>1, <1>6, <1>7 DEF IndexSafe

LEMMA CommitIndex ==
  ASSUME Unreadable = {}, IInv, IInv', PinSafe, Steady, IndexSafe, NEW p \in Procs, Commit(p)
  PROVE  IndexSafe'
<1>1. /\ Moves(p) /\ lock = p /\ pc[p] = "commit" /\ db' = tx /\ lock' = None
      /\ UNCHANGED <<records, markers>> /\ job[p] \in Job
      /\ Goto(p, "clear", [job[p] EXCEPT !.pending = @ \union job[p].mine, !.mine = {}])
  BY HoldingMoves DEF Commit, KeepsFiles, IInv, TypeOK
<1>2. TxCurrent(p)
  BY <1>1 DEF IndexSafe
<1>3. pc'[p] = "clear" /\ job'[p].pending = job[p].pending \union job[p].mine
  BY <1>1 DEF Goto, Job, IInv, TypeOK
<1>4. ASSUME NEW id \in Ids
      PROVE  Current(tx.rows, id) \/ \E s \in Slots \ Doubtful' : markers[s] = id
  <2>1. CASE Full(p) \/ Current(db.rows, id)
    BY <1>1, <1>2, <2>1 DEF TxCurrent, Late
  <2>2. CASE ~Full(p) /\ ~Current(db.rows, id)
    <3>1. job[p].pending = {} /\ db.booted
      BY <2>2 DEF Full
    <3>2. PICK s \in Slots \ Doubtful : markers[s] = id
      BY <2>2, <3>1 DEF IndexSafe, IndexKnown
    <3>3. CASE s \in job[p].mine
      BY <1>1, <1>2, <3>2, <3>3 DEF TxCurrent
    <3>4. CASE s \notin job[p].mine
      BY <1>1, <1>3, <3>1, <3>2, <3>4, DoubtfulStep
    <3> QED
      BY <3>3, <3>4
  <2> QED
    BY <2>1, <2>2
<1>5. IndexKnown'
  BY <1>1, <1>4 DEF IndexKnown, Current
<1>6. Unbooted'
  BY <1>1, <1>2 DEF Unbooted, TxCurrent
<1>7. \A q \in Procs : lock' # q
  BY <1>1
<1> QED
  BY <1>5, <1>6, <1>7 DEF IndexSafe

\* what is known to the index as long as nothing was removed from outside
IndexInv == Steady => IndexSafe

LEMMA StepKnows ==
  ASSUME Unreadable = {}, IInv, IInv', PinSafe, IndexInv, [Next]_vars
  PROVE  IndexInv'
<1>1. CASE UNCHANGED vars
  <2>1. Steady' <=> Steady
    BY <1>1 DEF vars, Steady
  <2>2. IndexSafe => IndexSafe'
    BY <1>1 DEF vars, IndexSafe, Unbooted, IndexKnown, TxCurrent, Opening, Listed, Current, Full,
                Late, Doubtful, Clearing
  <2> QED
    BY <2>1, <2>2 DEF IndexInv
<1>2. CASE \/ \E h \in Hashes : LoseBlob(h)
           \/ \E id \in Ids : LoseRecord(id)
  <2>1. ~Steady'
    <3>1. spent \in [crash : Nat, fault : Nat, blob : Nat, record : Nat]
      BY DEF IInv, TypeOK
    <3> QED
      BY <1>2, <3>1 DEF LoseBlob, LoseRecord, Steady
  <2> QED
    BY <2>1 DEF IndexInv
<1>3. ASSUME NEW p \in Procs, Call(p) \/ Progress(p) \/ Failure(p)
      PROVE  IndexInv'
  <2> SUFFICES ASSUME Steady' PROVE IndexSafe'
    BY DEF IndexInv
  <2>1. Steady /\ IndexSafe
    BY <1>3, NothingVanishes DEF Steady, IndexInv
  <2>2. CASE \/ Call(p) \/ Failure(p) \/ GiveUp(p) \/ Count(p) \/ ReadBlob(p) \/ Clear(p)
             \/ Cleared(p)
    BY <2>1, <2>2, OutsideIndex
  <2>3. CASE \/ Sync(p) \/ Reconcile(p) \/ Insert(p) \/ Update(p) \/ Delete(p) \/ Evict(p)
             \/ CollectGarbage(p) \/ Repair(p)
    BY <2>1, <2>3, SyncIndex, ReconcileIndex, InsertIndex, UpdateIndex, DeleteIndex, EvictIndex,
       CollectGarbageIndex, RepairIndex
  <2>4. CASE Unlink(p) \/ Candidate(p) \/ Collect(p) \/ Mark(p) \/ Write(p) \/ Commit(p)
    BY <2>1, <2>4, UnlinkIndex, CandidateIndex, CollectIndex, MarkIndex, WriteIndex, CommitIndex
  <2>5. CASE Rewrite(p)
    BY <2>1, <2>5 DEF Rewrite, Oldest, PinSafe, Steady
  <2> QED
    BY <1>3, <2>2, <2>3, <2>4, <2>5 DEF Progress
<1> QED
  BY <1>1, <1>2, <1>3 DEF Next

LEMMA InitKnows == Init => PinSafe /\ IndexInv
<1> SUFFICES ASSUME Init PROVE PinSafe /\ IndexSafe
  BY DEF IndexInv
<1>1. lost = {} /\ \A p \in Procs : pc[p] = "closed" /\ job[p].missing = {}
  BY DEF Init, NoJob
<1>2. PinSafe
  BY <1>1 DEF PinSafe
<1>3. Unbooted
  BY DEF Init, Unbooted, Opening, Listed
<1>4. IndexKnown /\ \A p \in Procs : lock # p
  BY DEF Init, IndexKnown
<1> QED
  BY <1>2, <1>3, <1>4 DEF IndexSafe

\* Markers identify exactly the sidecars that need refreshing: if every
\* sidecar can be read, then between transactions of a bootstrapped index each
\* row agrees with its sidecar or a marker names the capture, until something
\* is removed from outside.
THEOREM SidecarsIndexed ==
  ASSUME Unreadable = {}
  PROVE  Spec => [](Steady => SidecarsReachIndex)
<1>1. Steady /\ IndexInv => SidecarsReachIndex
  BY DEF IndexInv, IndexSafe, IndexKnown, SidecarsReachIndex, Current, Named, Listed
<1>2. IInv /\ IInv' /\ PinSafe /\ IndexInv /\ [Next]_vars => IndexInv'
  BY StepKnows
<1>3. IInv /\ IInv' /\ Arrivals /\ Edits /\ [Next]_vars => Arrivals' /\ Edits'
  BY StepMerges
<1>4. IInv /\ IInv' /\ Arrivals /\ PinSafe /\ [Next]_vars => PinSafe'
  BY StepSpares
<1>5. IInv /\ PinSafe /\ IndexInv => (Steady => SidecarsReachIndex)
  BY <1>1
<1> QED
  BY <1>2, <1>3, <1>4, <1>5, InitEdits, InitKnows, Inductive, PTL DEF Spec

-----------------------------------------------------------------------------
(* The bytes the index counts are on disk                                  *)

\* a call keeps its name until it ends
SameOp(p) == job'[p].op \in {job[p].op, "none"}

LEMMA GotoSameOp ==
  ASSUME IInv, NEW p \in Procs, NEW l, NEW a, NEW b, NEW c
  PROVE  /\ Goto(p, l, NoJob) => SameOp(p)
         /\ Goto(p, l, [NoJob EXCEPT !.op = job[p].op]) => SameOp(p)
         /\ Goto(p, l, job[p]) => SameOp(p)
         /\ Goto(p, l, [job[p] EXCEPT !.rec = a]) => SameOp(p)
         /\ Goto(p, l, [job[p] EXCEPT !.mine = a]) => SameOp(p)
         /\ Goto(p, l, [job[p] EXCEPT !.seen = a]) => SameOp(p)
         /\ Goto(p, l, [job[p] EXCEPT !.after = a]) => SameOp(p)
         /\ Goto(p, l, [job[p] EXCEPT !.sweep = a]) => SameOp(p)
         /\ Goto(p, l, [job[p] EXCEPT !.pending = a]) => SameOp(p)
         /\ Goto(p, l, [job[p] EXCEPT !.missing = a]) => SameOp(p)
         /\ Goto(p, l, [job[p] EXCEPT !.pending = a, !.hash = b]) => SameOp(p)
         /\ Goto(p, l, [job[p] EXCEPT !.pending = a, !.mine = b]) => SameOp(p)
         /\ Goto(p, l, [job[p] EXCEPT !.pending = a, !.sweep = b]) => SameOp(p)
         /\ Goto(p, l, [job[p] EXCEPT !.pending = a, !.missing = b]) => SameOp(p)
         /\ Goto(p, l, [job[p] EXCEPT !.pending = a, !.forced = b, !.over = c]) => SameOp(p)
<1>1. job[p] \in Job
  BY DEF IInv, TypeOK
<1>2. \A j : Goto(p, l, j) => job'[p] = j
  BY DEF Goto, IInv, TypeOK
<1>3. NoJob.op = "none" /\ [NoJob EXCEPT !.op = job[p].op].op = job[p].op
  BY DEF NoJob
<1>4. /\ [job[p] EXCEPT !.rec = a].op = job[p].op
      /\ [job[p] EXCEPT !.mine = a].op = job[p].op
      /\ [job[p] EXCEPT !.seen = a].op = job[p].op
      /\ [job[p] EXCEPT !.after = a].op = job[p].op
      /\ [job[p] EXCEPT !.sweep = a].op = job[p].op
      /\ [job[p] EXCEPT !.pending = a].op = job[p].op
      /\ [job[p] EXCEPT !.missing = a].op = job[p].op
  BY <1>1 DEF Job
<1>5. /\ [job[p] EXCEPT !.pending = a, !.hash = b].op = job[p].op
      /\ [job[p] EXCEPT !.pending = a, !.mine = b].op = job[p].op
      /\ [job[p] EXCEPT !.pending = a, !.sweep = b].op = job[p].op
      /\ [job[p] EXCEPT !.pending = a, !.missing = b].op = job[p].op
      /\ [job[p] EXCEPT !.pending = a, !.forced = b, !.over = c].op = job[p].op
  BY <1>1 DEF Job
<1> HIDE DEF Goto, NoJob
<1>6. ASSUME NEW j, Goto(p, l, j), j.op \in {job[p].op, "none"} PROVE SameOp(p)
  BY <1>2, <1>6 DEF SameOp
<1> QED
  BY <1>3, <1>4, <1>5, <1>6

LEMMA FailureSameOp == ASSUME IInv, NEW p \in Procs, Failure(p) PROVE SameOp(p)
<1>1. CASE WriteFails(p) \/ Crash(p)
  <2>1. \/ Goto(p, "closed", NoJob)
        \/ Recover(p)
        \/ Goto(p, "clear", [job[p] EXCEPT !.pending = job[p].mine, !.mine = {}])
    BY <1>1 DEF WriteFails, Crash
  <2> QED
    BY <2>1, GotoSameOp, Zenon DEF Recover
<1>2. CASE ~WriteFails(p) /\ ~Crash(p)
  <2>1. FailsHolding(p)
    BY <1>2 DEF Failure, MarkFails, CommitFails, UnlinkFails, RewriteFails, CandidateFails,
       CollectFails
  <2> QED
    BY <2>1, GotoSameOp, Zenon DEF FailsHolding, Recover, Fails
<1> QED
  BY <1>1, <1>2

LEMMA CandidateSameOp == ASSUME IInv, NEW p \in Procs, Candidate(p) PROVE SameOp(p)
<1>1. CASE FailsHolding(p)
  BY <1>1, GotoSameOp, ZenonT(30) DEF FailsHolding, Recover, Fails
<1>2. CASE ~FailsHolding(p)
  <2>0. job[p] \in Job
    BY DEF IInv, TypeOK
  <2>1. \/ Goto(p, "commit", job[p])
        \/ \E id \in Ids : Goto(p, "next", Popped(job[p], id))
        \/ \E id \in Ids : \E r : Goto(p, "mark", [Popped(job[p], id) EXCEPT
                                                !.id = id, !.rec = r, !.hash = r.hash])
    BY <1>2, ZenonT(30) DEF Candidate
  <2>2. ASSUME NEW id \in Ids
        PROVE  Popped(job[p], id) \in Job /\ Popped(job[p], id).op = job[p].op
    BY <2>0 DEF Popped, Job
  <2>3. ASSUME NEW l, NEW j, Goto(p, l, j) PROVE job'[p] = j
    BY <2>3 DEF Goto, IInv, TypeOK
  <2>4. ASSUME NEW id \in Ids, NEW r, Goto(p, "mark", [Popped(job[p], id) EXCEPT
                                            !.id = id, !.rec = r, !.hash = r.hash])
        PROVE  SameOp(p)
    <3> DEFINE k == Popped(job[p], id)
    <3>1. k \in Job /\ k.op = job[p].op
      BY <2>2
    <3>2. job'[p] = [k EXCEPT !.id = id, !.rec = r, !.hash = r.hash]
      BY <2>3, <2>4
    <3> HIDE DEF k
    <3>3. [k EXCEPT !.id = id, !.rec = r, !.hash = r.hash].op = k.op
      BY <3>1 DEF Job
    <3> QED
      BY <3>1, <3>2, <3>3 DEF SameOp
  <2>5. ASSUME NEW id \in Ids, Goto(p, "next", Popped(job[p], id)) PROVE SameOp(p)
    BY <2>2, <2>3, <2>5 DEF SameOp
  <2> QED
    BY <2>1, <2>4, <2>5, GotoSameOp, Zenon
<1> QED
  BY <1>1, <1>2

LEMMA ProgressSameOp == ASSUME IInv, NEW p \in Procs, Progress(p) PROVE SameOp(p)
<1>1. CASE GiveUp(p) BY <1>1, GotoSameOp, ZenonT(30) DEF GiveUp, Fails
<1>2. CASE Count(p) BY <1>2, GotoSameOp, ZenonT(30) DEF Count
<1>3. CASE Sync(p)
  <2>1. \/ Goto(p, "reconcile", [job[p] EXCEPT !.after = "idle"])
        \/ Goto(p, "idle", NoJob)
        \/ Goto(p, "commit", [job[p] EXCEPT !.pending = Listed])
    BY <1>3 DEF Sync, ReconcileThen, Return
  <2> QED
    BY <2>1, GotoSameOp, Zenon
<1>4. CASE Reconcile(p)
  <2>1. \E l, m : Goto(p, l, [job[p] EXCEPT !.pending = Listed, !.missing = m])
    BY <1>4 DEF Reconcile
  <2> QED
    BY <2>1, GotoSameOp, Zenon
<1>5. CASE Rewrite(p)
  <2>1. \E l, m : Goto(p, l, [job[p] EXCEPT !.missing = m])
    BY <1>5, ZenonT(30) DEF Rewrite
  <2> QED
    BY <2>1, GotoSameOp, Zenon
<1>6. CASE Insert(p) BY <1>6, GotoSameOp, Zenon DEF Insert
<1>7. CASE Update(p)
  <2>1. Fails(p) \/ \E r : Goto(p, "mark", [job[p] EXCEPT !.rec = r])
    BY <1>7, Zenon DEF Update
  <2> QED
    BY <2>1, GotoSameOp, Zenon DEF Fails
<1>8. CASE Delete(p) BY <1>8, GotoSameOp, ZenonT(30) DEF Delete, ReconcileThen
<1>9. CASE Unlink(p) BY <1>9, GotoSameOp, ZenonT(30) DEF Unlink
<1>10. CASE Evict(p)
  <2>1. \/ Goto(p, "reconcile", [job[p] EXCEPT !.after = "evict"])
        \/ Goto(p, "idle", NoJob)
        \/ \E f, o : Goto(p, "next", [job[p] EXCEPT !.pending = Listed, !.forced = f, !.over = o])
    BY <1>10 DEF Evict, ReconcileThen, Return
  <2> QED
    BY <2>1, GotoSameOp, Zenon
<1>11. CASE Candidate(p) BY <1>11, CandidateSameOp
<1>12. CASE CollectGarbage(p)
  <2>1. \/ Goto(p, "reconcile", [job[p] EXCEPT !.after = "gc"])
        \/ \E s : Goto(p, "collect", [job[p] EXCEPT !.pending = Listed, !.sweep = s])
    BY <1>12 DEF CollectGarbage, ReconcileThen
  <2> QED
    BY <2>1, GotoSameOp, Zenon
<1>13. CASE Collect(p)
  <2>1. Goto(p, "commit", job[p]) \/ \E s : Goto(p, "collect", [job[p] EXCEPT !.sweep = s])
    BY <1>13, ZenonT(30) DEF Collect
  <2> QED
    BY <2>1, GotoSameOp, Zenon
<1>14. CASE ReadBlob(p) BY <1>14, GotoSameOp, Zenon DEF ReadBlob, Return
<1>15. CASE Repair(p)
  <2>1. \/ Goto(p, "idle", NoJob) \/ Goto(p, "commit", job[p])
        \/ \E r : Goto(p, "mark", [job[p] EXCEPT !.rec = r])
    BY <1>15, Zenon DEF Repair, Return
  <2> QED
    BY <2>1, GotoSameOp, Zenon
<1>16. CASE Mark(p)
  <2>1. \E m : Goto(p, "write", [job[p] EXCEPT !.mine = m])
    BY <1>16, ZenonT(30) DEF Mark
  <2> QED
    BY <2>1, GotoSameOp, Zenon
<1>17. CASE Write(p) BY <1>17, GotoSameOp, Zenon DEF Write
<1>18. CASE Commit(p)
  <2>1. \E s : Goto(p, "clear", [job[p] EXCEPT !.pending = s, !.mine = {}])
    BY <1>18 DEF Commit
  <2> QED
    BY <2>1, GotoSameOp, Zenon
<1>19. CASE Clear(p)
  <2>1. \E s : Goto(p, "clear", [job[p] EXCEPT !.pending = s])
    BY <1>19, Zenon DEF Clear
  <2> QED
    BY <2>1, GotoSameOp, Zenon
<1>20. CASE Cleared(p)
  <2>1. Goto(p, "idle", NoJob) \/ \E l : Goto(p, l, [job[p] EXCEPT !.after = "idle"])
    BY <1>20 DEF Cleared, Return
  <2> QED
    BY <2>1, GotoSameOp, Zenon
<1> QED
  BY <1>1, <1>2, <1>3, <1>4, <1>5, <1>6, <1>7, <1>8, <1>9, <1>10, <1>11, <1>12, <1>13, <1>14,
     <1>15, <1>16, <1>17, <1>18, <1>19, <1>20 DEF Progress

\* Without garbage collections, no call is one.
LEMMA NoCollecting ==
  ASSUME IInv, "gc" \notin Calls, NEW p \in Procs, job[p].op # "gc",
         Call(p) \/ Failure(p) \/ Progress(p)
  PROVE  job'[p].op # "gc"
<1>1. CASE Failure(p) \/ Progress(p)
  BY <1>1, FailureSameOp, ProgressSameOp DEF SameOp
<1>2. CASE Call(p)
  <2>1. ASSUME NEW l, NEW j, Goto(p, l, j) PROVE job'[p] = j
    BY <2>1 DEF Goto, IInv, TypeOK
  <2>2. CASE Open(p) \/ Close(p) \/ EvictCall(p) \/ CollectCall(p)
    BY <2>1, <2>2 DEF Open, Close, EvictCall, CollectCall, NoJob
  <2>3. CASE \E id \in Ids : DeleteCall(p, id) \/ ReadRecord(p, id)
    BY <2>1, <2>3 DEF DeleteCall, ReadRecord, NoJob
  <2>4. CASE \E id \in Ids, c \in Change : UpdateCall(p, id, c)
    BY <2>1, <2>4 DEF UpdateCall, NoJob
  <2>5. CASE \E id \in Ids, h \in Hashes \union {NoImage}, pinned \in BOOLEAN, doc \in Docs :
               InsertCall(p, id, h, pinned, doc)
    BY <2>5 DEF InsertCall, Goto, NoJob, IInv, TypeOK
  <2> QED
    BY <1>2, <2>2, <2>3, <2>4, <2>5 DEF Call
<1> QED
  BY <1>1, <1>2

\* h is not to be counted for the sake of r any more
Faded(r, h) == r = None \/ (r.evicted /\ r.hash = h)

\* a marker that will take h off the index when what it names is refreshed
Gone(s, h) == markers[s] \in used \ Arriving /\ Faded(records[markers[s]], h)

DbSized == \A h \in db.sized : h \in blobs \/ \E s \in Slots \ Doubtful : Gone(s, h)

\* what a transaction counts, the markers aside that it is to remove
TxSized(p) ==
  \A h \in tx.sized :
    \/ h \in blobs
    \/ /\ ~Full(p)
       /\ \E s \in Slots \ Doubtful : s \notin job[p].mine \union job[p].pending /\ Gone(s, h)

\* what a call that is about to write or to unlink knows
Brings(p) ==
  LET j == job[p] IN
  /\ j.op # "gc"
  /\ pc[p] \in {"mark", "write"} =>
       IF j.op = "insert" THEN j.hash \in blobs \union {NoImage} ELSE records[j.id] # None
  /\ pc[p] \in {"mark", "write", "unlink"} /\ j.op = "evict" => j.rec # None /\ j.rec.hash = j.hash
  /\ pc[p] = "unlink" =>
       /\ \E s \in j.mine : markers[s] = j.id
       /\ j.id \in used \ Arriving
       /\ IF j.op = "delete" THEN j.rec = None ELSE j.rec.evicted

SizedSafe ==
  /\ DbSized
  /\ \A p \in Procs : Brings(p) /\ (lock = p => TxSized(p))

\* captures that are there, or were, stay so
Settled == used \ Arriving \subseteq used' \ Arriving'

LEMMA SettledStep ==
  ASSUME IInv, Arrivals, NEW p \in Procs, Call(p) \/ Failure(p) \/ Progress(p)
  PROVE  Settled
<1>1. ASSUME Moves(p), used' = used, Inserting(p)' => Inserting(p) /\ job'[p].id = job[p].id
      PROVE  Settled
  <2>1. Arriving' \subseteq Arriving
    BY <1>1, Others DEF Arriving, Inserting
  <2> QED
    BY <1>1, <2>1 DEF Settled
<1>2. ASSUME Moves(p), used' = used, Quiet(p) PROVE Settled
  BY <1>1, <1>2 DEF Quiet, Inserting
<1>3. ASSUME NEW l, NEW j, Goto(p, l, j)
      PROVE  pc'[p] = l /\ job'[p] = j
  BY <1>3 DEF Goto, IInv, TypeOK
<1>4. CASE PlainCall(p) \/ Failure(p)
  BY <1>2, <1>4, PlainCallQuiet, FailureQuiet
<1>5. CASE Call(p) /\ ~PlainCall(p)
  <2>1. PICK id \in Ids, h \in Hashes \union {NoImage}, pinned \in BOOLEAN, doc \in Docs :
           InsertCall(p, id, h, pinned, doc)
    BY <1>5 DEF Call, PlainCall
  <2>2. /\ id \notin used /\ used' = used \union {id} /\ job'[p].id = id
    BY <2>1 DEF InsertCall, Goto, NoJob, IInv, TypeOK
  <2>3. Arriving' \subseteq Arriving \union {id}
    BY <1>5, <2>2, CallMoves, Others DEF Arriving, Inserting
  <2> QED
    BY <2>2, <2>3 DEF Settled
<1>6. CASE \/ GiveUp(p) \/ Count(p) \/ Sync(p) \/ Unlink(p) \/ Evict(p) \/ CollectGarbage(p)
           \/ Collect(p) \/ ReadBlob(p) \/ Commit(p) \/ Clear(p) \/ Cleared(p)
  BY <1>2, <1>6, PlainQuiet
<1>7. CASE Insert(p)
  <2>1. pc[p] = "insert" /\ job'[p] = job[p] /\ used' = used
    BY <1>3, <1>7 DEF Insert
  <2> QED
    BY <1>1, <1>7, <2>1, WaitingMoves DEF Inserting
<1>8. CASE Mark(p)
  <2>1. PICK s \in Slots : Goto(p, "write", [job[p] EXCEPT !.mine = @ \union {s}])
    BY <1>8 DEF Mark
  <2>2. pc[p] = "mark" /\ job[p] \in Job /\ used' = used
    BY <1>8 DEF Mark, IInv, TypeOK
  <2>3. job'[p].op = job[p].op /\ job'[p].id = job[p].id
    BY <1>3, <2>1, <2>2 DEF Job
  <2> QED
    BY <1>1, <1>8, <2>2, <2>3, HoldingMoves DEF Inserting
<1>9. CASE Write(p) \/ Rewrite(p) \/ Reconcile(p)
  <2> DEFINE to(l) == \E j : Goto(p, l, j)
  <2>1. to("unlink") \/ to("next") \/ to("commit") \/ to("rewrite")
    <3>1. CASE Write(p) BY <3>1 DEF Write
    <3>2. CASE Rewrite(p) BY <3>2 DEF Rewrite
    <3>3. CASE Reconcile(p) BY <3>3 DEF Reconcile
    <3> QED
      BY <1>9, <3>1, <3>2, <3>3
  <2>2. ~Inserting(p)'
    BY <1>3, <2>1 DEF Inserting
  <2>3. used' = used
    BY <1>9 DEF Write, Rewrite, Reconcile, KeepsFiles
  <2> QED
    BY <1>1, <1>9, <2>2, <2>3, HoldingMoves, WaitingMoves
<1>10. CASE Update(p) \/ Delete(p) \/ Candidate(p) \/ Repair(p)
  <2>1. job[p].op # "insert" /\ used' = used
    BY <1>10, Zenon DEF Update, Delete, Candidate, Repair, KeepsFiles, IInv, TypeOK, JobOK, Ready
  <2>2. job'[p].op # "insert"
    BY <1>10, <2>1, ProgressSameOp DEF Progress, SameOp
  <2> QED
    BY <1>1, <1>10, <2>1, <2>2, HoldingMoves, WaitingMoves DEF Inserting
<1> QED
  BY <1>4, <1>5, <1>6, <1>7, <1>8, <1>9, <1>10 DEF Progress

LEMMA GoneStays ==
  ASSUME IInv, Settled, KeepsMarkers, NEW s \in Slots \ Doubtful, NEW h, Gone(s, h),
         Faded(records[markers[s]], h) => Faded(records'[markers[s]], h)
  PROVE  Gone(s, h)' /\ s \notin Doubtful' /\ markers'[s] = markers[s]
<1>1. markers[s] # None
  BY DEF Gone, IInv, TypeOK
<1>2. s \notin Doubtful' /\ markers'[s] = markers[s]
  BY <1>1 DEF KeepsMarkers
<1> QED
  BY <1>2 DEF Gone, Settled, Faded

\* A step of p that writes neither sidecar nor index, and takes no pixels.
LEMMA StepSized ==
  ASSUME IInv, IInv', Arrivals, "gc" \notin Calls, SizedSafe, NEW p \in Procs, Moves(p),
         Call(p) \/ Failure(p) \/ Progress(p),
         UNCHANGED <<records, db>>, blobs \subseteq blobs', KeepsMarkers,
         pc'[p] \in {"mark", "write", "unlink"} => Brings(p)',
         lock' = p => TxSized(p)'
  PROVE  SizedSafe'
<1>1. Settled
  BY SettledStep
<1>2. ASSUME NEW s \in Slots \ Doubtful, NEW h, Gone(s, h)
      PROVE  Gone(s, h)' /\ s \notin Doubtful'
  BY <1>1, <1>2, GoneStays
<1>3. DbSized'
  BY <1>2 DEF SizedSafe, DbSized
<1>4. Brings(p)'
  BY NoCollecting DEF SizedSafe, Brings
<1>5. ASSUME NEW q \in Procs, q # p
      PROVE  Brings(q)' /\ (lock' = q => TxSized(q)')
  <2>1. /\ pc'[q] = pc[q] /\ job'[q] = job[q] /\ Brings(q)
    BY <1>5, Others DEF SizedSafe
  <2>2. ASSUME pc[q] = "unlink", NEW s \in job[q].mine
        PROVE  markers'[s] = markers[s]
    <3>1. s \in Slots /\ markers[s] # None
      BY <2>2, JobFields DEF IInv, JobOK, TypeOK
    <3>2. s \notin Clearing
      BY <2>2 DEF IInv, JobOK, Clearing
    <3>3. \A r \in Procs : pc[r] # "write"
      BY <2>2, Held DEF Holding
    <3> QED
      BY <3>1, <3>2, <3>3 DEF Doubtful, KeepsMarkers
  <2>3. Brings(q)'
    BY <1>1, <2>1, <2>2 DEF Brings, Settled
  <2>4. ASSUME lock' = q PROVE TxSized(q)'
    <3>1. pc[q] \in Holding /\ lock = q
      BY <2>1, <2>4 DEF IInv, TypeOK
    <3>2. tx' = tx /\ TxSized(q)
      BY <1>5, <3>1 DEF Moves, SizedSafe
    <3>3. Full(q)' <=> Full(q)
      BY <2>1 DEF Full
    <3> QED
      BY <1>2, <2>1, <3>2, <3>3 DEF TxSized
  <2> QED
    BY <2>3, <2>4
<1> QED
  BY <1>3, <1>4, <1>5 DEF SizedSafe

LEMMA OutsideSized ==
  ASSUME IInv, IInv', Arrivals, "gc" \notin Calls, SizedSafe, NEW p \in Procs,
         Call(p) \/ Failure(p) \/ GiveUp(p) \/ Count(p) \/ ReadBlob(p) \/ Clear(p) \/ Cleared(p)
  PROVE  SizedSafe'
<1>1. Moves(p) /\ UNCHANGED <<records, db>> /\ KeepsMarkers /\ pc'[p] \notin Holding
  BY OutsideSteps
<1>2. lock' # p
  BY <1>1 DEF IInv, TypeOK
<1>3. blobs \subseteq blobs'
  <2>1. CASE Call(p)
    BY <2>1, Zenon
    DEF Call, Open, Close, EvictCall, CollectCall, DeleteCall, ReadRecord, InsertCall,
       UpdateCall, KeepsFiles
  <2>2. CASE Failure(p)
    BY <2>2 DEF Failure, MarkFails, WriteFails, CommitFails, UnlinkFails, RewriteFails,
       CandidateFails, CollectFails, Crash
  <2>3. CASE GiveUp(p) \/ Count(p) \/ ReadBlob(p) \/ Clear(p) \/ Cleared(p)
    BY <2>3 DEF GiveUp, Count, ReadBlob, Clear, Cleared, KeepsFiles
  <2> QED
    BY <2>1, <2>2, <2>3
<1>4. Call(p) \/ Failure(p) \/ Progress(p)
  BY DEF Progress
<1> QED
  BY <1>1, <1>2, <1>3, <1>4, StepSized DEF Holding

-----------------------------------------------------------------------------
(* Transactions begin with bytes that are on disk                          *)

\* refreshing what the markers name leaves no bytes counted in vain
LEMMA RepairedSized ==
  ASSUME Unreadable = {}, IInv, PinSafe, Steady, IndexSafe, DbSized, db.booted, Repairable
  PROVE  Repaired.sized \subseteq blobs
<1>1. /\ db \in Index /\ records \in [Ids -> Record \union {None}] /\ lost = {} /\ used \subseteq Ids
  BY DEF IInv, TypeOK, PinSafe, Steady
<1> DEFINE rows == [id \in Ids |-> IF id \in Named THEN records[id] ELSE db.rows[id]]
           gone == {h \in Hashes : /\ \E id \in Named \intersect Ids :
                                        records[id].evicted /\ records[id].hash = h
                                   /\ ~Referenced(rows, h)}
           kept == {h \in blobs : \E id \in Named \intersect Ids :
                                     Live(records[id]) /\ records[id].hash = h}
<1>2. Repaired.sized = (db.sized \ gone) \union kept /\ Repaired.rows = rows
  BY DEF Repaired
<1>3. \A id \in Ids : rows[id] = records[id]
  BY <1>2, RepairedCurrent DEF Current
<1>4. ASSUME NEW h \in db.sized, h \notin blobs PROVE h \in gone
  <2>1. PICK s \in Slots : Gone(s, h)
    BY <1>4 DEF DbSized
  <2>2. markers[s] \in Ids /\ markers[s] \in Named
    BY <1>1, <2>1 DEF Gone, Named, Listed
  <2>3. records[markers[s]] # None
    BY <2>2 DEF Repairable
  <2>4. records[markers[s]].evicted /\ records[markers[s]].hash = h
    BY <2>1, <2>3 DEF Gone, Faded
  <2>5. ~Referenced(rows, h)
    <3> SUFFICES ASSUME NEW id \in Ids, Live(rows[id]), rows[id].hash = h PROVE FALSE
      BY DEF Referenced
    <3>1. Live(records[id]) /\ records[id].hash = h
      BY <1>3
    <3> QED
      BY <1>1, <1>4, <3>1 DEF IInv, PixelsKept
  <2>6. h \in Hashes
    BY <1>1 DEF Index
  <2> QED
    BY <2>2, <2>4, <2>5, <2>6
<1> HIDE DEF rows, gone
<1> QED
  BY <1>2, <1>4

LEMMA AllSized ==
  ASSUME NEW p \in Procs, tx'.sized \subseteq blobs'
  PROVE  TxSized(p)'
  BY DEF TxSized

\* a transaction that has not written yet
LEMMA StartSized ==
  ASSUME IInv, Arrivals, DbSized, NEW p \in Procs, Call(p) \/ Failure(p) \/ Progress(p),
         UNCHANGED <<records, db>>, blobs \subseteq blobs', KeepsMarkers, db.booted,
         tx'.sized \subseteq db.sized,
         job'[p].op \notin {"delete", "evict", "gc"}, job'[p].pending = {}, job'[p].mine = {}
  PROVE  TxSized(p)'
<1>1. ~Full(p)'
  BY DEF Full
<1>2. ASSUME NEW s \in Slots \ Doubtful, NEW h, Gone(s, h)
      PROVE  Gone(s, h)' /\ s \notin Doubtful'
  BY <1>2, SettledStep, GoneStays
<1> QED
  BY <1>1, <1>2 DEF TxSized, DbSized

LEMMA InsertSized ==
  ASSUME IInv, IInv', Arrivals, "gc" \notin Calls, IndexSafe, SizedSafe, NEW p \in Procs, Insert(p)
  PROVE  SizedSafe'
<1>1. /\ Moves(p) /\ KeepsMarkers /\ Progress(p) /\ UNCHANGED <<records, db>>
      /\ blobs \subseteq blobs' /\ job[p].hash \in blobs' \union {NoImage}
  BY WaitingMoves, CalmProgress DEF Insert, Progress
<1>2. /\ pc[p] = "insert" /\ tx' = db /\ pc'[p] = "mark" /\ job'[p] = job[p]
  BY DEF Insert, Acquire, LockFree, Goto, IInv, TypeOK
<1>3. /\ job[p].op = "insert" /\ job[p].pending = {} /\ job[p].mine = {} /\ db.booted
  BY <1>2, Booted DEF IInv, JobOK, Ready
<1>4. TxSized(p)'
  BY <1>1, <1>2, <1>3, StartSized DEF SizedSafe
<1>5. Brings(p)'
  BY <1>1, <1>2, <1>3 DEF Brings
<1> QED
  BY <1>1, <1>4, <1>5, StepSized

LEMMA UpdateSized ==
  ASSUME IInv, IInv', Arrivals, "gc" \notin Calls, IndexSafe, SizedSafe, NEW p \in Procs, Update(p)
  PROVE  SizedSafe'
<1>1. /\ Moves(p) /\ KeepsMarkers /\ Progress(p) /\ UNCHANGED <<records, db, blobs>>
  BY WaitingMoves, CalmProgress DEF Update, Progress, KeepsFiles
<1>2. pc[p] = "update" /\ tx' = db /\ job[p] \in Job
  BY DEF Update, LockFree, IInv, TypeOK
<1>3. /\ job[p].op = "update" /\ job[p].pending = {} /\ job[p].mine = {} /\ db.booted
  BY <1>2, Booted DEF IInv, JobOK, Ready
<1>4. ASSUME NEW l, NEW j, Goto(p, l, j)
      PROVE  pc'[p] = l /\ job'[p] = j
  BY <1>4 DEF Goto, IInv, TypeOK
<1>5. CASE pc'[p] \notin Holding
  <2>1. lock' # p
    BY <1>5 DEF IInv, TypeOK
  <2> QED
    BY <1>1, <1>5, <2>1, StepSized DEF Holding
<1>6. CASE pc'[p] \in Holding
  <2>1. ~Fails(p)
    BY <1>4, <1>6 DEF Fails, Holding
  <2>2. records[job[p].id] # None /\ \E r : Goto(p, "mark", [job[p] EXCEPT !.rec = r])
    BY <2>1 DEF Update
  <2>3. /\ pc'[p] = "mark" /\ job'[p].op = "update" /\ job'[p].pending = {} /\ job'[p].mine = {}
        /\ job'[p].id = job[p].id
    BY <1>2, <1>3, <1>4, <2>2 DEF Job
  <2>4. TxSized(p)'
    BY <1>1, <1>2, <1>3, <2>3, StartSized DEF SizedSafe
  <2>5. Brings(p)'
    BY <1>1, <2>2, <2>3 DEF Brings
  <2> QED
    BY <1>1, <2>4, <2>5, StepSized
<1> QED
  BY <1>5, <1>6

LEMMA RepairSized ==
  ASSUME IInv, IInv', Arrivals, "gc" \notin Calls, IndexSafe, SizedSafe, NEW p \in Procs, Repair(p)
  PROVE  SizedSafe'
<1>1. /\ Moves(p) /\ KeepsMarkers /\ Progress(p) /\ UNCHANGED <<records, db, blobs>>
  BY WaitingMoves, CalmProgress DEF Repair, Progress, KeepsFiles
<1>2. pc[p] = "repair" /\ tx = db /\ job[p] \in Job /\ tx \in Index
  BY DEF Repair, LockFree, IInv, TypeOK
<1>3. job[p].op = "repair" /\ job[p].pending = {} /\ job[p].mine = {} /\ db.booted
  BY <1>2, Booted, Outside DEF Ready, Holding
<1>4. ASSUME NEW l, NEW j, Goto(p, l, j)
      PROVE  pc'[p] = l /\ job'[p] = j
  BY <1>4 DEF Goto, IInv, TypeOK
<1>5. CASE pc'[p] \notin Holding
  <2>1. lock' # p
    BY <1>5 DEF IInv, TypeOK
  <2> QED
    BY <1>1, <1>5, <2>1, StepSized DEF Holding
<1>6. CASE pc'[p] \in Holding
  <2>1. ~Return(p)
    BY <1>4, <1>6 DEF Return, Holding
  <2>2. \/ /\ \E r : Goto(p, "mark", [job[p] EXCEPT !.rec = r])
           /\ tx' = tx /\ records[job[p].id] # None
        \/ Goto(p, "commit", job[p]) /\ tx' = [tx EXCEPT !.sized = @ \ {job[p].hash}]
    BY <2>1 DEF Repair, Live
  <2>3. tx'.sized \subseteq db.sized
    BY <1>2, <2>2 DEF Index
  <2>4. /\ job'[p].op = "repair" /\ job'[p].pending = {} /\ job'[p].mine = {}
        /\ job'[p].id = job[p].id
        /\ \/ pc'[p] = "mark" /\ records[job[p].id] # None
           \/ pc'[p] = "commit"
    <3>1. ASSUME NEW q, Goto(p, "mark", [job[p] EXCEPT !.rec = q])
          PROVE  /\ job'[p].op = "repair" /\ job'[p].pending = {} /\ job'[p].mine = {}
                 /\ job'[p].id = job[p].id /\ pc'[p] = "mark"
      BY <1>2, <1>3, <1>4, <3>1 DEF Job
    <3>2. CASE Goto(p, "commit", job[p])
      BY <1>3, <1>4, <3>2
    <3> QED
      BY <2>2, <3>1, <3>2
  <2>5. TxSized(p)'
    BY <1>1, <1>3, <2>3, <2>4, StartSized DEF SizedSafe
  <2>6. pc'[p] \in {"mark", "write", "unlink"} => Brings(p)'
    BY <1>1, <2>4 DEF Brings
  <2> QED
    BY <1>1, <2>5, <2>6, StepSized
<1> QED
  BY <1>5, <1>6

LEMMA SyncSized ==
  ASSUME Unreadable = {}, IInv, IInv', Arrivals, "gc" \notin Calls, PinSafe, Steady, IndexSafe,
         SizedSafe, NEW p \in Procs, Sync(p)
  PROVE  SizedSafe'
<1>1. /\ Moves(p) /\ KeepsMarkers /\ Progress(p) /\ UNCHANGED <<records, db, blobs>>
  BY WaitingMoves, CalmProgress DEF Sync, Progress, KeepsFiles
<1>2. \E l \in {"reconcile", "idle", "commit"} : \E j : Goto(p, l, j)
  BY DEF Sync, ReconcileThen, Return
<1>3. pc'[p] \in {"reconcile", "idle", "commit"}
  BY <1>2 DEF Goto, IInv, TypeOK
<1>4. CASE pc'[p] # "commit"
  <2>1. lock' # p
    BY <1>3, <1>4 DEF IInv, TypeOK, Holding
  <2> QED
    BY <1>1, <1>3, <2>1, StepSized
<1>5. CASE pc'[p] = "commit"
  <2>1. ~Return(p) /\ ~ReconcileThen(p, "idle")
    BY <1>5 DEF Return, ReconcileThen, Goto, IInv, TypeOK
  <2>2. \/ db.booted /\ Repairable /\ tx' = [Repaired EXCEPT !.booted = TRUE]
        \/ /\ ~db.booted /\ Listed = {}
           /\ \E rows : tx' = [[db EXCEPT !.rows = rows] EXCEPT !.booted = TRUE]
    BY <2>1 DEF Sync
  <2>3. CASE db.booted /\ Repairable /\ tx' = [Repaired EXCEPT !.booted = TRUE]
    <3>1. Repaired.sized \subseteq blobs
      BY <2>3, RepairedSized DEF SizedSafe
    <3>2. tx'.sized = Repaired.sized
      BY <2>3 DEF Repaired
    <3>3. TxSized(p)'
      BY <1>1, <3>1, <3>2, AllSized
    <3> QED
      BY <1>1, <1>5, <3>3, StepSized
  <2>4. CASE /\ ~db.booted /\ Listed = {}
             /\ \E rows : tx' = [[db EXCEPT !.rows = rows] EXCEPT !.booted = TRUE]
    <3>1. db \in Index /\ used \subseteq Ids
      BY DEF IInv, TypeOK
    <3>2. tx'.sized = db.sized
      BY <2>4, <3>1 DEF Index
    <3>3. db.sized \subseteq blobs
      BY <2>4, <3>1 DEF SizedSafe, DbSized, Gone, Listed
    <3>4. TxSized(p)'
      BY <1>1, <3>2, <3>3, AllSized
    <3> QED
      BY <1>1, <1>5, <3>4, StepSized
  <2> QED
    BY <2>2, <2>3, <2>4
<1> QED
  BY <1>4, <1>5

LEMMA ReconcileSized ==
  ASSUME IInv, IInv', Arrivals, "gc" \notin Calls, SizedSafe, NEW p \in Procs, Reconcile(p)
  PROVE  SizedSafe'
<1>1. /\ Moves(p) /\ KeepsMarkers /\ Progress(p) /\ UNCHANGED <<records, db, blobs>>
  BY WaitingMoves, CalmProgress DEF Reconcile, Progress, KeepsFiles
<1>2. /\ \E l \in {"commit", "rewrite"} : \E j : Goto(p, l, j)
      /\ \E rows : tx' = [rows |-> rows, sized |-> blobs, booted |-> TRUE]
  BY DEF Reconcile
<1>3. pc'[p] \in {"commit", "rewrite"}
  BY <1>2 DEF Goto, IInv, TypeOK
<1>4. TxSized(p)'
  BY <1>1, <1>2, AllSized
<1> QED
  BY <1>1, <1>3, <1>4, StepSized

LEMMA DeleteSized ==
  ASSUME Unreadable = {}, IInv, IInv', Arrivals, "gc" \notin Calls, PinSafe, Steady, IndexSafe,
         SizedSafe, NEW p \in Procs, Delete(p)
  PROVE  SizedSafe'
<1>1. /\ Moves(p) /\ KeepsMarkers /\ Progress(p) /\ UNCHANGED <<records, db, blobs>>
  BY WaitingMoves, CalmProgress, Zenon DEF Delete, Progress, KeepsFiles
<1>2. /\ db.booted /\ pc[p] = "delete" /\ job[p] \in Job /\ job[p].op = "delete"
  BY Booted DEF Delete, IInv, TypeOK, JobOK, Ready
<1>3. ASSUME NEW l, NEW j, Goto(p, l, j)
      PROVE  pc'[p] = l /\ job'[p] = j
  BY <1>3 DEF Goto, IInv, TypeOK
<1>4. CASE ReconcileThen(p, "delete")
  <2>1. pc'[p] = "reconcile"
    BY <1>3, <1>4 DEF ReconcileThen
  <2>2. lock' # p
    BY <2>1 DEF IInv, TypeOK, Holding
  <2> QED
    BY <1>1, <2>1, <2>2, StepSized
<1>5. CASE ~ReconcileThen(p, "delete")
  <2>1. /\ Repairable
        /\ \/ /\ tx' = [Repaired EXCEPT !.rows[job[p].id] = None]
              /\ Goto(p, "commit", [job[p] EXCEPT !.pending = Listed])
           \/ /\ tx' = Repaired /\ records[job[p].id] # None
              /\ \E h : Goto(p, "mark", [job[p] EXCEPT !.pending = Listed, !.hash = h])
    BY <1>5 DEF Delete
  <2>2. tx'.sized \subseteq blobs'
    <3>1. tx'.sized = Repaired.sized
      BY <2>1 DEF Repaired
    <3> QED
      BY <1>1, <1>2, <2>1, <3>1, RepairedSized DEF SizedSafe
  <2>3. \/ pc'[p] = "commit"
        \/ /\ pc'[p] = "mark" /\ job'[p].op = "delete" /\ job'[p].id = job[p].id
           /\ records[job[p].id] # None
    <3>1. CASE Goto(p, "commit", [job[p] EXCEPT !.pending = Listed])
      BY <1>3, <3>1
    <3>2. ASSUME NEW a, NEW h, Goto(p, "mark", [job[p] EXCEPT !.pending = a, !.hash = h])
          PROVE  pc'[p] = "mark" /\ job'[p].op = "delete" /\ job'[p].id = job[p].id
      <4>1. pc'[p] = "mark" /\ job'[p] = [job[p] EXCEPT !.pending = a, !.hash = h]
        BY <1>3, <3>2
      <4>2. job'[p].op = job[p].op /\ job'[p].id = job[p].id
        BY <1>2, <4>1 DEF Job
      <4> QED
        BY <1>2, <4>1, <4>2
    <3> QED
      BY <2>1, <3>1, <3>2
  <2>4. pc'[p] \in {"mark", "write", "unlink"} => Brings(p)'
    BY <1>1, <2>3 DEF Brings
  <2> QED
    BY <1>1, <2>2, <2>4, AllSized, StepSized
<1> QED
  BY <1>4, <1>5

LEMMA EvictSized ==
  ASSUME Unreadable = {}, IInv, IInv', Arrivals, "gc" \notin Calls, PinSafe, Steady, IndexSafe,
         SizedSafe, NEW p \in Procs, Evict(p)
  PROVE  SizedSafe'
<1>1. /\ Moves(p) /\ KeepsMarkers /\ Progress(p) /\ UNCHANGED <<records, db, blobs>>
  BY WaitingMoves, CalmProgress DEF Evict, Progress, KeepsFiles
<1>2. db.booted /\ pc[p] = "evict"
  BY Booted DEF Evict
<1>3. ASSUME NEW l, NEW j, Goto(p, l, j)
      PROVE  pc'[p] = l
  BY <1>3 DEF Goto, IInv, TypeOK
<1>4. CASE ReconcileThen(p, "evict") \/ Return(p)
  <2>1. pc'[p] \in {"reconcile", "idle"}
    BY <1>3, <1>4 DEF ReconcileThen, Return
  <2>2. lock' # p
    BY <2>1 DEF IInv, TypeOK, Holding
  <2> QED
    BY <1>1, <2>1, <2>2, StepSized
<1>5. CASE ~(ReconcileThen(p, "evict") \/ Return(p))
  <2>1. /\ \E j : Goto(p, "next", j)
        /\ tx' = [Repaired EXCEPT !.booted = @ \/ Listed # {}] /\ Repairable
    BY <1>5 DEF Evict
  <2>2. pc'[p] = "next"
    BY <1>3, <2>1
  <2>3. tx'.sized = Repaired.sized
    BY <2>1 DEF Repaired
  <2>4. tx'.sized \subseteq blobs'
    BY <1>1, <1>2, <2>1, <2>3, RepairedSized DEF SizedSafe
  <2> QED
    BY <1>1, <2>2, <2>4, AllSized, StepSized
<1> QED
  BY <1>4, <1>5

-----------------------------------------------------------------------------
(* Transactions go on                                                      *)

\* a transaction that counts nothing new, and makes a marker at most
LEMMA HolderSized ==
  ASSUME IInv, Arrivals, NEW p \in Procs, Call(p) \/ Failure(p) \/ Progress(p),
         UNCHANGED <<records, db>>, blobs \subseteq blobs', KeepsMarkers,
         TxSized(p), tx'.sized \subseteq tx.sized,
         job'[p].op = job[p].op, job'[p].pending = job[p].pending,
         \A s \in job'[p].mine : s \in job[p].mine \/ markers[s] = None
  PROVE  TxSized(p)'
<1>1. Full(p)' <=> Full(p)
  BY DEF Full
<1>2. ASSUME NEW s \in Slots \ Doubtful, NEW h, Gone(s, h)
      PROVE  Gone(s, h)' /\ s \notin Doubtful'
  BY <1>2, SettledStep, GoneStays
<1>3. ASSUME NEW s \in Slots, NEW h, Gone(s, h) PROVE markers[s] # None
  BY <1>3 DEF Gone, IInv, TypeOK
<1> QED
  BY <1>1, <1>2, <1>3 DEF TxSized

LEMMA MarkSized ==
  ASSUME IInv, IInv', Arrivals, "gc" \notin Calls, SizedSafe, NEW p \in Procs, Mark(p)
  PROVE  SizedSafe'
<1>1. /\ Moves(p) /\ KeepsMarkers /\ Progress(p) /\ UNCHANGED <<records, db, tx, blobs>>
      /\ lock = p /\ pc[p] = "mark"
  BY HoldingMoves, MarkMarkers DEF Mark, Progress
<1>2. TxSized(p) /\ Brings(p) /\ job[p] \in Job
  BY <1>1 DEF SizedSafe, IInv, TypeOK
<1>3. PICK s \in Slots : markers[s] = None /\ Goto(p, "write", [job[p] EXCEPT !.mine = @ \union {s}])
  BY DEF Mark
<1>4. pc'[p] = "write" /\ job'[p] = [job[p] EXCEPT !.mine = @ \union {s}]
  BY <1>3 DEF Goto, IInv, TypeOK
<1>5. /\ job'[p].op = job[p].op /\ job'[p].pending = job[p].pending
      /\ job'[p].mine = job[p].mine \union {s} /\ job'[p].id = job[p].id
      /\ job'[p].rec = job[p].rec /\ job'[p].hash = job[p].hash
  BY <1>2, <1>4 DEF Job
<1>6. TxSized(p)'
  BY <1>1, <1>2, <1>3, <1>5, HolderSized
<1>7. Brings(p)'
  BY <1>1, <1>2, <1>4, <1>5 DEF Brings
<1> QED
  BY <1>1, <1>6, <1>7, StepSized

LEMMA CandidateSized ==
  ASSUME IInv, IInv', Arrivals, "gc" \notin Calls, SizedSafe, NEW p \in Procs, Candidate(p)
  PROVE  SizedSafe'
<1>1. /\ Moves(p) /\ KeepsMarkers /\ Progress(p) /\ UNCHANGED <<records, db, blobs>>
      /\ lock = p /\ pc[p] = "next"
  BY HoldingMoves, CalmProgress, Zenon DEF Candidate, Progress, KeepsFiles
<1>2. TxSized(p) /\ job[p] \in Job /\ job[p].op = "evict" /\ tx \in Index
      /\ records \in [Ids -> Record \union {None}]
  BY <1>1 DEF SizedSafe, IInv, TypeOK, JobOK
<1>3. ASSUME NEW l, NEW j, Goto(p, l, j)
      PROVE  pc'[p] = l /\ job'[p] = j
  BY <1>3 DEF Goto, IInv, TypeOK
<1>4. CASE FailsHolding(p)
  <2>1. lock' # p
    BY <1>1, <1>4 DEF FailsHolding, Rollback
  <2>2. pc'[p] \notin Holding
    BY <2>1 DEF IInv, TypeOK
  <2> QED
    BY <1>1, <2>1, <2>2, StepSized DEF Holding
<1>5. CASE ~FailsHolding(p)
  <2>1. \/ Goto(p, "commit", job[p]) /\ tx' = tx
        \/ \E id \in Ids :
             \/ Goto(p, "next", Popped(job[p], id)) /\ tx' = [tx EXCEPT !.rows[id] = records[id]]
             \/ /\ tx' = tx /\ records[id] # None
                /\ \E r \in {[records[id] EXCEPT !.pinned = TRUE], Evicted(records[id])} :
                     Goto(p, "mark", [Popped(job[p], id) EXCEPT
                                        !.id = id, !.rec = r, !.hash = r.hash])
    BY <1>5, ZenonT(30) DEF Candidate, Live
  <2>2. /\ job'[p].op = job[p].op /\ job'[p].pending = job[p].pending
        /\ job'[p].mine = job[p].mine
        /\ \/ pc'[p] \in {"commit", "next"}
           \/ /\ pc'[p] = "mark" /\ records[job'[p].id] # None
              /\ job'[p].rec # None /\ job'[p].rec.hash = job'[p].hash
    <3>1. CASE Goto(p, "commit", job[p])
      BY <1>3, <3>1
    <3>0. ASSUME NEW id \in Ids
          PROVE  /\ Popped(job[p], id) \in Job /\ Popped(job[p], id).op = job[p].op
                 /\ Popped(job[p], id).pending = job[p].pending
                 /\ Popped(job[p], id).mine = job[p].mine
      BY <1>2 DEF Popped, Job
    <3>2. ASSUME NEW id \in Ids, Goto(p, "next", Popped(job[p], id))
          PROVE  /\ pc'[p] = "next" /\ job'[p].op = job[p].op
                 /\ job'[p].pending = job[p].pending /\ job'[p].mine = job[p].mine
      BY <1>3, <3>0, <3>2
    <3>3. ASSUME NEW id \in Ids, NEW r, r # None, records[id] # None,
                 Goto(p, "mark", [Popped(job[p], id) EXCEPT !.id = id, !.rec = r, !.hash = r.hash])
          PROVE  /\ pc'[p] = "mark" /\ job'[p].op = job[p].op
                 /\ job'[p].pending = job[p].pending /\ job'[p].mine = job[p].mine
                 /\ records[job'[p].id] # None
                 /\ job'[p].rec # None /\ job'[p].rec.hash = job'[p].hash
      <4> DEFINE k == Popped(job[p], id)
      <4>1. /\ k \in Job /\ k.op = job[p].op /\ k.pending = job[p].pending
            /\ k.mine = job[p].mine
        BY <3>0
      <4> HIDE DEF k
      <4>2. LET j == [k EXCEPT !.id = id, !.rec = r, !.hash = r.hash]
            IN  /\ j.op = k.op /\ j.pending = k.pending /\ j.mine = k.mine
                /\ j.id = id /\ j.rec = r /\ j.hash = r.hash
        BY <4>1 DEF Job
      <4>3. Goto(p, "mark", [k EXCEPT !.id = id, !.rec = r, !.hash = r.hash])
        BY <3>3 DEF k
      <4> QED
        BY <1>3, <3>3, <4>1, <4>2, <4>3
    <3>4. ASSUME NEW id \in Ids, records[id] # None
          PROVE  [records[id] EXCEPT !.pinned = TRUE] # None /\ Evicted(records[id]) # None
      <4>1. [records[id] EXCEPT !.pinned = TRUE] \in Record /\ Evicted(records[id]) \in Record
        BY <1>2, <3>4 DEF Record, Evicted
      <4> QED
        BY <4>1
    <3> QED
      BY <2>1, <3>1, <3>2, <3>3, <3>4, ZenonT(30)
  <2>3. tx'.sized = tx.sized
    BY <1>2, <2>1 DEF Index
  <2>4. TxSized(p)'
    BY <1>1, <1>2, <2>2, <2>3, HolderSized
  <2>5. pc'[p] \in {"mark", "write", "unlink"} => Brings(p)'
    BY <1>1, <1>2, <2>2 DEF Brings
  <2> QED
    BY <1>1, <2>4, <2>5, StepSized
<1> QED
  BY <1>4, <1>5

\* what another process knows is untouched while p is inside a transaction
LEMMA BystanderSized ==
  ASSUME IInv, SizedSafe, NEW p \in Procs, Moves(p), lock = p, NEW q \in Procs, q # p,
         lock' \in {p, None}
  PROVE  Brings(q)' /\ (lock' = q => TxSized(q)')
<1>1. pc'[q] = pc[q] /\ job'[q] = job[q] /\ lock' # q
  BY Others DEF IInv, TypeOK
<1>2. pc[q] \notin Holding
  BY Held
<1>3. job[q].op # "gc"
  BY DEF SizedSafe, Brings
<1> QED
  BY <1>1, <1>2, <1>3 DEF Brings, Holding

LEMMA UnlinkSized ==
  ASSUME Unreadable = {}, IInv, IInv', Arrivals, Steady, IndexSafe, SizedSafe,
         NEW p \in Procs, Unlink(p)
  PROVE  SizedSafe'
<1>1. /\ Moves(p) /\ KeepsMarkers /\ Progress(p) /\ UNCHANGED <<records, db, markers, lock, used>>
      /\ lock = p /\ pc[p] = "unlink" /\ lock' = p
  BY HoldingMoves, CalmProgress DEF Unlink, Progress
<1>2. /\ TxCurrent(p) /\ TxSized(p) /\ Brings(p) /\ job[p] \in Job /\ tx \in Index /\ used \subseteq Ids
  BY <1>1 DEF IndexSafe, SizedSafe, IInv, TypeOK
<1>3. /\ records[job[p].id] = job[p].rec /\ job[p].op \in {"delete", "evict"}
      /\ job[p].id \in used \ Arriving
  BY <1>1, <1>2 DEF TxCurrent, Brings, IInv, JobOK
<1>4. /\ pc'[p] \in {"commit", "next"} /\ job'[p] = job[p]
  BY DEF Unlink, Goto, IInv, TypeOK
<1> DEFINE gone == IF job[p].hash # NoImage
                      /\ ~Referenced([tx.rows EXCEPT ![job[p].id] = job[p].rec], job[p].hash)
                   THEN {job[p].hash} ELSE {}
<1>5. /\ blobs' = blobs \ gone
      /\ tx' = [tx EXCEPT !.rows = [tx.rows EXCEPT ![job[p].id] = job[p].rec], !.sized = @ \ gone]
  BY DEF Unlink
<1>6. gone \subseteq {job[p].hash}
  OBVIOUS
<1> HIDE DEF gone
<1>7. tx'.sized = tx.sized \ gone
  BY <1>2, <1>5 DEF Index
<1>8. TxSized(p)'
  <2>1. tx.sized \subseteq blobs
    BY <1>2, <1>3 DEF TxSized, Full
  <2> QED
    BY <1>5, <1>7, <2>1, AllSized
<1>9. Settled
  BY <1>1, SettledStep
<1>10. PICK s \in job[p].mine : markers[s] = job[p].id
  BY <1>1, <1>2 DEF Brings
<1>11. s \in Slots \ Doubtful'
  <2>1. s \in Slots
    BY <1>2, JobFields
  <2>2. s \notin Clearing'
    BY <1>4 DEF Clearing, IInv, JobOK
  <2>3. \A q \in Procs : pc'[q] # "write"
    BY <1>1, <1>4 DEF IInv, TypeOK, Holding
  <2> QED
    BY <2>1, <2>2, <2>3 DEF Doubtful
<1>12. ASSUME NEW h \in gone PROVE Gone(s, h)'
  <2>1. Faded(records[job[p].id], h)
    BY <1>1, <1>2, <1>3, <1>6 DEF Brings, Faded
  <2> QED
    BY <1>1, <1>3, <1>9, <1>10, <2>1 DEF Gone, Settled, Faded
<1>13. DbSized'
  <2> SUFFICES ASSUME NEW h \in db.sized
               PROVE  h \in blobs' \/ \E t \in Slots \ Doubtful' : Gone(t, h)'
    BY <1>1 DEF DbSized
  <2>1. CASE h \in gone
    BY <1>11, <1>12, <2>1
  <2>2. CASE h \notin blobs
    <3>1. PICK t \in Slots \ Doubtful : Gone(t, h)
      BY <2>2 DEF SizedSafe, DbSized
    <3> QED
      BY <1>1, <1>9, <3>1, GoneStays
  <2> QED
    BY <1>5, <2>1, <2>2
<1>14. Brings(p)'
  BY <1>2, <1>4 DEF Brings
<1> QED
  BY <1>1, <1>8, <1>13, <1>14, BystanderSized DEF SizedSafe

\* what has been given up stays so
LEMMA EditFades ==
  ASSUME NEW r \in Record, NEW e, Edit(r, e), NEW h, Faded(r, h)
  PROVE  Faded(e, h)
<1>1. r.evicted /\ r.hash = h
  BY DEF Faded
<1>2. e.evicted /\ e.hash = h
  BY <1>1 DEF Edit, Evicted, Record
<1> QED
  BY <1>2 DEF Faded

LEMMA WriteSized ==
  ASSUME IInv, IInv', Arrivals, Edits, SizedSafe, NEW p \in Procs, Write(p)
  PROVE  SizedSafe'
<1>1. /\ Moves(p) /\ KeepsMarkers /\ Progress(p) /\ UNCHANGED <<db, blobs, markers, lock, used>>
      /\ lock = p /\ lock' = p /\ pc[p] = "write" /\ job[p].id \in Ids
      /\ records' = [records EXCEPT ![job[p].id] = job[p].rec]
  BY HoldingMoves, CalmProgress DEF Write, Progress, IInv, JobOK
<1>2. /\ TxSized(p) /\ Brings(p) /\ job[p] \in Job /\ tx \in Index /\ used \subseteq Ids
      /\ records \in [Ids -> Record \union {None}]
  BY <1>1 DEF SizedSafe, IInv, TypeOK
<1>3. Settled
  BY <1>1, SettledStep
<1>4. ASSUME NEW i \in used \ Arriving, NEW h, Faded(records[i], h)
      PROVE  Faded(records'[i], h)
  <2>1. CASE i # job[p].id
    BY <1>1, <1>2, <1>4, <2>1
  <2>2. CASE i = job[p].id
    <3>1. job[p].op # "insert"
      BY <1>1, <1>4, <2>2 DEF Arriving, Inserting
    <3>2. records[i] # None /\ records[i] \in Record
      BY <1>1, <1>2, <2>2, <3>1 DEF Brings
    <3>3. job[p].rec # None => Edit(records[i], job[p].rec)
      BY <1>1, <2>2, <3>1, <3>2 DEF Edits, Replaces
    <3>4. records'[i] = job[p].rec
      BY <1>1, <1>2, <2>2
    <3>5. CASE job[p].rec = None
      BY <3>4, <3>5 DEF Faded
    <3>6. CASE job[p].rec # None
      BY <1>4, <3>2, <3>3, <3>4, <3>6, EditFades
    <3> QED
      BY <3>5, <3>6
  <2> QED
    BY <2>1, <2>2
<1>5. ASSUME NEW s \in Slots \ Doubtful, NEW h, Gone(s, h)
      PROVE  Gone(s, h)' /\ s \notin Doubtful'
  <2>1. Faded(records[markers[s]], h) => Faded(records'[markers[s]], h)
    BY <1>4, <1>5 DEF Gone
  <2> QED
    BY <1>1, <1>3, <1>5, <2>1, GoneStays
<1>6. DbSized'
  BY <1>1, <1>5 DEF SizedSafe, DbSized
<1>7. /\ job'[p] = job[p] /\ pc'[p] \in {"unlink", "next", "commit"}
      /\ pc'[p] = "unlink" => job[p].op = "delete" \/ (job[p].op = "evict" /\ job[p].rec.evicted)
      /\ \A h \in tx'.sized : h \in tx.sized \/ (job[p].op = "insert" /\ h = job[p].hash /\ h # NoImage)
  <2>0. ASSUME NEW l, Goto(p, l, job[p]) PROVE pc'[p] = l /\ job'[p] = job[p]
    BY <2>0 DEF Goto, IInv, TypeOK
  <2> DEFINE upserted == [tx EXCEPT !.rows[job[p].id] = job[p].rec]
  <2>1. \/ /\ job[p].op = "delete" \/ (job[p].op = "evict" /\ job[p].rec.evicted)
           /\ tx' = tx /\ Goto(p, "unlink", job[p])
        \/ tx' = upserted /\ Goto(p, "next", job[p])
        \/ tx' = upserted /\ Goto(p, "commit", job[p])
        \/ /\ job[p].op = "insert" /\ Goto(p, "commit", job[p])
           /\ tx' = [upserted EXCEPT !.sized = @ \union ({job[p].hash} \ {NoImage})]
        \/ Goto(p, "commit", job[p]) /\ tx' = [upserted EXCEPT !.sized = @ \ {job[p].hash}]
    BY <1>1 DEF Write
  <2>2. upserted \in [rows : {upserted.rows}, sized : {tx.sized}, booted : BOOLEAN]
    BY <1>2 DEF Index
  <2> HIDE DEF upserted
  <2>3. /\ tx' = upserted => tx'.sized = tx.sized
        /\ tx' = [upserted EXCEPT !.sized = @ \union ({job[p].hash} \ {NoImage})] =>
             tx'.sized = tx.sized \union ({job[p].hash} \ {NoImage})
        /\ tx' = [upserted EXCEPT !.sized = @ \ {job[p].hash}] =>
             tx'.sized = tx.sized \ {job[p].hash}
    BY <2>2
  <2> QED
    BY <2>0, <2>1, <2>3
<1>8. TxSized(p)'
  <2>1. Full(p)' <=> Full(p)
    BY <1>1, <1>7 DEF Full
  <2>2. job[p].op = "insert" /\ job[p].hash # NoImage => job[p].hash \in blobs
    BY <1>1, <1>2 DEF Brings
  <2> QED
    BY <1>1, <1>2, <1>5, <1>7, <2>1, <2>2 DEF TxSized
<1>9. Brings(p)'
  <2>1. pc'[p] = "unlink" =>
          /\ \E s \in job[p].mine : markers[s] = job[p].id
          /\ job[p].id \in used \ Arriving
          /\ IF job[p].op = "delete" THEN job[p].rec = None ELSE job[p].rec.evicted
    BY <1>1, <1>7 DEF IInv, JobOK, Edits, Replaces
  <2> QED
    BY <1>1, <1>2, <1>3, <1>7, <2>1 DEF Brings, Settled
<1> QED
  BY <1>1, <1>6, <1>8, <1>9, BystanderSized DEF SizedSafe

LEMMA CommitSized ==
  ASSUME IInv, IInv', Arrivals, "gc" \notin Calls, SizedSafe, NEW p \in Procs, Commit(p)
  PROVE  SizedSafe'
<1>1. /\ Moves(p) /\ lock = p /\ pc[p] = "commit" /\ db' = tx /\ lock' = None /\ Progress(p)
      /\ UNCHANGED <<records, markers, blobs>> /\ job[p] \in Job
      /\ Goto(p, "clear", [job[p] EXCEPT !.pending = @ \union job[p].mine, !.mine = {}])
  BY HoldingMoves DEF Commit, KeepsFiles, IInv, TypeOK, Progress
<1>2. TxSized(p)
  BY <1>1 DEF SizedSafe
<1>3. pc'[p] = "clear" /\ job'[p].pending = job[p].pending \union job[p].mine
  BY <1>1 DEF Goto, Job, IInv, TypeOK
<1>4. Settled
  BY <1>1, SettledStep
<1>5. ASSUME NEW s \in Slots \ Doubtful, s \notin job[p].mine \union job[p].pending,
             NEW h, Gone(s, h)
      PROVE  Gone(s, h)' /\ s \notin Doubtful'
  BY <1>1, <1>3, <1>4, <1>5, DoubtfulStep DEF Gone, Settled, Faded
<1>6. DbSized'
  BY <1>1, <1>2, <1>5 DEF DbSized, TxSized
<1>7. Brings(p)'
  BY <1>1, <1>3, NoCollecting DEF SizedSafe, Brings
<1> QED
  BY <1>1, <1>6, <1>7, BystanderSized DEF SizedSafe

-----------------------------------------------------------------------------
\* the blobs the index counts, as long as nothing was removed from outside
SizedInv == Steady => SizedSafe

LEMMA StepCounts ==
  ASSUME Unreadable = {}, "gc" \notin Calls, IInv, IInv', Arrivals, Edits, PinSafe, IndexInv,
         SizedInv, [Next]_vars
  PROVE  SizedInv'
<1>1. CASE UNCHANGED vars
  <2>1. Steady' <=> Steady
    BY <1>1 DEF vars, Steady
  <2>2. SizedSafe => SizedSafe'
    BY <1>1 DEF vars, SizedSafe, DbSized, TxSized, Brings, Gone, Faded, Full, Doubtful, Clearing,
                Arriving, Inserting
  <2> QED
    BY <2>1, <2>2 DEF SizedInv
<1>2. CASE \/ \E h \in Hashes : LoseBlob(h)
           \/ \E id \in Ids : LoseRecord(id)
  <2>1. ~Steady'
    <3>1. spent \in [crash : Nat, fault : Nat, blob : Nat, record : Nat]
      BY DEF IInv, TypeOK
    <3> QED
      BY <1>2, <3>1 DEF LoseBlob, LoseRecord, Steady
  <2> QED
    BY <2>1 DEF SizedInv
<1>3. ASSUME NEW p \in Procs, Call(p) \/ Progress(p) \/ Failure(p)
      PROVE  SizedInv'
  <2> SUFFICES ASSUME Steady' PROVE SizedSafe'
    BY DEF SizedInv
  <2>1. Steady /\ SizedSafe /\ IndexSafe
    BY <1>3, NothingVanishes DEF Steady, SizedInv, IndexInv
  <2>2. CASE \/ Call(p) \/ Failure(p) \/ GiveUp(p) \/ Count(p) \/ ReadBlob(p) \/ Clear(p)
             \/ Cleared(p)
    BY <2>1, <2>2, OutsideSized
  <2>3. CASE \/ Sync(p) \/ Reconcile(p) \/ Insert(p) \/ Update(p) \/ Delete(p) \/ Evict(p)
             \/ Repair(p)
    BY <2>1, <2>3, SyncSized, ReconcileSized, InsertSized, UpdateSized, DeleteSized, EvictSized,
       RepairSized
  <2>4. CASE Unlink(p) \/ Candidate(p) \/ Mark(p) \/ Write(p) \/ Commit(p)
    BY <2>1, <2>4, UnlinkSized, CandidateSized, MarkSized, WriteSized, CommitSized
  <2>5. ~Rewrite(p)
    BY <2>1 DEF Rewrite, Oldest, PinSafe, Steady
  <2>6. ~CollectGarbage(p) /\ ~Collect(p)
    BY <2>1 DEF CollectGarbage, Collect, SizedSafe, Brings, IInv, JobOK, Ready
  <2> QED
    BY <1>3, <2>2, <2>3, <2>4, <2>5, <2>6 DEF Progress
<1> QED
  BY <1>1, <1>2, <1>3 DEF Next

LEMMA InitCounts == Init => SizedInv
<1> SUFFICES ASSUME Init PROVE SizedSafe
  BY DEF SizedInv
<1>1. db.sized = blobs /\ \A p \in Procs : pc[p] = "closed" /\ job[p] = NoJob /\ lock # p
  BY DEF Init
<1> QED
  BY <1>1 DEF SizedSafe, DbSized, Brings, NoJob

\* What the index counts is on disk: if every sidecar can be read and no
\* garbage is collected, then between transactions, with no marker left to
\* repair, every blob that stored_image_bytes adds up has its file, whatever
\* crashed or failed on the way, until something is removed from outside.
THEOREM BytesCounted ==
  ASSUME Unreadable = {}, "gc" \notin Calls
  PROVE  Spec => [](Steady => BytesOnDisk)
<1>1. IInv /\ Steady /\ SizedInv => BytesOnDisk
  <2> SUFFICES ASSUME IInv, SizedSafe, Listed = {} PROVE db.sized \subseteq blobs
    BY DEF SizedInv, BytesOnDisk
  <2>1. \A s \in Slots : markers[s] = None
    BY DEF Listed
  <2> QED
    BY <2>1 DEF SizedSafe, DbSized, Gone, IInv, TypeOK
<1>2. IInv /\ IInv' /\ PinSafe /\ IndexInv /\ [Next]_vars => IndexInv'
  BY StepKnows
<1>3. IInv /\ IInv' /\ Arrivals /\ Edits /\ [Next]_vars => Arrivals' /\ Edits'
  BY StepMerges
<1>4. IInv /\ IInv' /\ Arrivals /\ PinSafe /\ [Next]_vars => PinSafe'
  BY StepSpares
<1>5. /\ IInv /\ IInv' /\ Arrivals /\ Edits /\ PinSafe /\ IndexInv /\ SizedInv /\ [Next]_vars
      => SizedInv'
  BY StepCounts
<1>6. IInv /\ SizedInv => (Steady => BytesOnDisk)
  BY <1>1
<1> QED
  BY <1>2, <1>3, <1>4, <1>5, <1>6, InitEdits, InitKnows, InitCounts, Inductive, PTL DEF Spec
=============================================================================

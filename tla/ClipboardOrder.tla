---------------------------- MODULE ClipboardOrder ----------------------------
(***************************************************************************)
(* Turns at the clipboard (apps/scrozz/src/gui/pipeline.rs): whoever will  *)
(* write it reserves a turn when the user asks for it, and runs its turn   *)
(* when it has something to write, much later and on any thread.  Tickets  *)
(* count from one here; zero stands for None.                              *)
(***************************************************************************)
EXTENDS Naturals, Sequences

VARIABLES
  latest,   \* the newest ticket, until it has run or retired
  running,  \* the ticket whose holder is writing
  content,  \* the ticket written last, as the system's clipboard shows it
  fate      \* of every ticket issued: "held" until its holder runs or drops it

clipboard == <<latest, running, content, fate>>

ClipboardInit == latest = 0 /\ running = 0 /\ content = 0 /\ fate = <<>>

Issued == Len(fate)

Held(n) == n \in DOMAIN fate /\ fate[n] = "held"

Reserve ==
  /\ fate' = Append(fate, "held") /\ latest' = Issued + 1
  /\ UNCHANGED <<running, content>>

\* Mutant: a newer holder does not wait for the one that is writing.
RunAtOnce(n) ==
  /\ Held(n) /\ latest = n
  /\ running' = n /\ fate' = [fate EXCEPT ![n] = "writing"]
  /\ UNCHANGED <<latest, content>>

\* ClipboardTurn::run waits here while its ticket is the newest and another is
\* being written
Run(n) ==
  /\ Held(n) /\ latest = n /\ running = 0
  /\ running' = n /\ fate' = [fate EXCEPT ![n] = "writing"]
  /\ UNCHANGED <<latest, content>>

\* ... and gives up once its ticket is not
Superseded(n) ==
  /\ Held(n) /\ latest # n
  /\ fate' = [fate EXCEPT ![n] = "refused"]
  /\ UNCHANGED <<latest, running, content>>

\* Mutant: the writer is forgotten about only if nothing newer was issued.
EndedIfNewest(n) ==
  IF running = n /\ latest = n THEN running' = 0 /\ latest' = 0
  ELSE UNCHANGED <<running, latest>>

\* RunningClipboardTurn::drop
Ended(n) ==
  /\ running' = IF running = n THEN 0 ELSE running
  /\ latest' = IF running = n /\ latest = n THEN 0 ELSE latest

\* the write succeeds or fails
Finish(n) ==
  /\ n \in DOMAIN fate /\ fate[n] = "writing"
  /\ \/ content' = n /\ fate' = [fate EXCEPT ![n] = "written"]
     \/ content' = content /\ fate' = [fate EXCEPT ![n] = "dropped"]
  /\ Ended(n)

\* Mutant: whoever lets go of a turn clears the newest, which may be another's.
RetireNewest(turns) ==
  /\ \A n \in turns : Held(n)
  /\ fate' = [n \in DOMAIN fate |-> IF n \in turns THEN "dropped" ELSE fate[n]]
  /\ latest' = 0
  /\ UNCHANGED <<running, content>>

\* ClipboardTurn::drop: whoever held these turns lets go of them unused
Retire(turns) ==
  /\ \A n \in turns : Held(n)
  /\ fate' = [n \in DOMAIN fate |-> IF n \in turns THEN "dropped" ELSE fate[n]]
  /\ latest' = IF latest \in turns THEN 0 ELSE latest
  /\ UNCHANGED <<running, content>>

ClipboardNext ==
  \/ Reserve
  \/ \E n \in DOMAIN fate : Run(n) \/ Superseded(n) \/ Finish(n)
  \/ \E turns \in SUBSET DOMAIN fate : Retire(turns)

ClipboardSpec == ClipboardInit /\ [][ClipboardNext]_clipboard

-----------------------------------------------------------------------------
(* Properties                                                              *)

Fates == {"held", "writing", "written", "refused", "dropped"}

\* The clipboard holds the newest of what was ever written to it.
NewestShows ==
  /\ content # 0 => content \in DOMAIN fate /\ fate[content] = "written"
  /\ \A n \in DOMAIN fate : fate[n] = "written" => n <= content

Register == INSTANCE ClipboardRegister WITH
  fate <- [n \in DOMAIN fate |-> IF fate[n] \in {"held", "writing"} THEN "open" ELSE fate[n]]

\* Turns implement the register: nothing older is written over something newer,
\* and a writer is turned away only when a newer request was made.
TurnsKeepOrder == Register!Spec
=============================================================================

-------------------------- MODULE RecordingContract --------------------------
(***************************************************************************)
(* What the rest of the program may rely on of recordings: one at a time,  *)
(* each ends once and is kept at most once, and whoever asks for one to be *)
(* stopped hears how that one ended, never how another did.                *)
(***************************************************************************)
EXTENDS Integers, Sequences

CONSTANTS Stops  \* requests to stop

VARIABLES
  run,    \* number of the latest recording
  stage,  \* of that recording: "over", "setup" or "capturing"
  saves,  \* recordings kept, in the order they ended
  told    \* for each stop: the recording it is about and its answer

vars == <<run, stage, saves, told>>

Init ==
  /\ run = 0 /\ stage = "over" /\ saves = <<>>
  /\ told = [c \in Stops |-> [run |-> 0, answer |-> "new"]]

Begin ==
  /\ stage = "over"
  /\ run' = run + 1 /\ stage' = "setup" /\ saves' = saves

Capture ==
  /\ stage = "setup" /\ stage' = "capturing"
  /\ UNCHANGED <<run, saves>>

\* given up, or failed to start
Abandon ==
  /\ stage = "setup" /\ stage' = "over"
  /\ UNCHANGED <<run, saves>>

End ==
  /\ stage = "capturing" /\ stage' = "over"
  /\ saves' \in {saves, Append(saves, run)}
  /\ run' = run

Kept(r) == \E i \in DOMAIN saves : saves[i] = r

\* what may become of a stop in one step
Heard(c, answer) ==
  /\ told'[c] = [told[c] EXCEPT !.answer = answer]
  /\ told[c].answer = "waiting"
  /\ answer = "finished" => Kept(told[c].run)'
  /\ answer = "failed" => stage' = "over"

Asked(c) ==
  /\ told[c].answer = "new"
  /\ \/ told'[c] = [run |-> run, answer |-> "refused"]
     \/ told'[c] = [run |-> run, answer |-> "waiting"] /\ stage # "over"
     \* the stop itself ends a recording that has not begun to capture
     \/ told'[c] = [run |-> run, answer |-> "failed"] /\ stage = "setup" /\ stage' = "over"

Answers ==
  /\ DOMAIN told' = Stops
  /\ \A c \in Stops :
       \/ told'[c] = told[c]
       \/ Asked(c)
       \/ \E answer \in {"finished", "failed", "dropped"} : Heard(c, answer)

Next ==
  /\ Begin \/ Capture \/ Abandon \/ End \/ UNCHANGED <<run, stage, saves>>
  /\ Answers

Spec == Init /\ [][Next]_vars
=============================================================================

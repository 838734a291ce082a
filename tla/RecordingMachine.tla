--------------------------- MODULE RecordingMachine ---------------------------
(***************************************************************************)
(* The recording state machine of crates/scrozz-record (machine.rs), one   *)
(* operator per method, from the machine before the call to the machine    *)
(* after it.  Of its events the host reads the terminal ones; all others,  *)
(* phase changes among them, are "progress".  Clock drift, warnings, and   *)
(* the request are left out, and so are pause and resume, which the        *)
(* application never calls.                                                *)
(***************************************************************************)
EXTENDS Naturals, Sequences, SequencesExt

CONSTANT MaxPending  \* MAX_PENDING_EVENTS

ASSUME PendingAssumption == MaxPending \in Nat \ {0}

Phases == {"idle", "selecting", "countdown", "recording", "finalising",
           "finished", "failed"}

\* how a native session may end: partial output is kept, an error leaves none
Results == {"complete", "partial", "error"}

Terminal(run, result) == [kind |-> "terminal", run |-> run, result |-> result]

Progress == [kind |-> "progress"]

Event == {Progress} \union [kind : {"terminal"}, run : Nat, result : Results]

NewMachine == [phase |-> "idle", live |-> FALSE, run |-> 0, events |-> <<>>]

IsTerminal(e) == e.kind = "terminal"

\* Mutant: the queue has no limit.
PushAlways(q, e) == Append(q, e)

\* Mutant: a full queue takes nothing more.
PushIfRoom(q, e) == IF Len(q) < MaxPending THEN Append(q, e) ELSE q

\* A full queue gives up its oldest progress first, then its oldest ending.
PushEvent(q, e) ==
  LET progress == {i \in DOMAIN q : ~IsTerminal(q[i])}
      oldest == CHOOSE i \in progress : \A j \in progress : i <= j
  IN IF Len(q) < MaxPending THEN Append(q, e)
     ELSE IF progress # {} THEN Append(RemoveAt(q, oldest), e)
     ELSE IF IsTerminal(e) THEN Append(Tail(q), e)
     ELSE q

Push(m, e) == [m EXCEPT !.events = PushEvent(@, e)]

SetPhase(m, phase) ==
  IF m.phase = phase THEN m ELSE Push([m EXCEPT !.phase = phase], Progress)

EnterFailed(m, result) ==
  Push(SetPhase([m EXCEPT !.live = FALSE], "failed"), Terminal(m.run, result))

FinishOutput(m, result) ==
  IF result = "complete"
    THEN Push(SetPhase(m, "finished"), Terminal(m.run, result))
    ELSE EnterFailed(m, result)

\* clear_run drops the session with everything else of the run before
BeginSelection(m, run) ==
  SetPhase([m EXCEPT !.live = FALSE, !.run = run], "selecting")

CancelSelection(m) == SetPhase(m, "idle")

CancelCountdown(m) == SetPhase(m, "idle")

StartRequest(m, starts) ==
  IF starts THEN SetPhase([m EXCEPT !.live = TRUE], "recording")
            ELSE EnterFailed(m, "error")

\* begin_with_destination and begin_request_with_settings; what is invalid is
\* refused before anything happens
Begin(m, run, how) ==
  LET cleared == [m EXCEPT !.live = FALSE, !.run = run] IN
  CASE how = "invalid" -> cleared
    [] how = "countdown" -> SetPhase(cleared, "countdown")
    [] OTHER -> StartRequest(cleared, how = "starts")

\* One event of the session, taken by tick: an ending drops the session.
PollSession(m, signal) ==
  CASE signal = "none" -> m
    [] signal = "progress" -> Push(m, Progress)
    [] OTHER -> FinishOutput(SetPhase([m EXCEPT !.live = FALSE], "finalising"), signal)

\* The host takes the session with it.
BeginFinalising(m) == SetPhase([m EXCEPT !.live = FALSE], "finalising")

CompleteFinalising(m, result) == FinishOutput(m, result)

Reset(m) ==
  IF m.phase \in {"finished", "failed"}
    THEN SetPhase([m EXCEPT !.live = FALSE], "idle") ELSE m

Drained(m) == [m EXCEPT !.events = <<>>]

IsActive(m) == m.phase \in {"selecting", "countdown", "recording", "finalising"}
=============================================================================

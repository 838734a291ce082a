------------------------------- MODULE Recording -------------------------------
(***************************************************************************)
(* Recording in the application (apps/scrozz: gui/recording.rs, gui/app.rs)*)
(* around the machine of crates/scrozz-record.  The main thread handles    *)
(* what the user and other processes ask, and once per tick services the   *)
(* threads that work for it: the selector, the native session, and the     *)
(* finaliser that stops a session and waits for its file.                  *)
(***************************************************************************)
EXTENDS RecordingMachine, FiniteSets

CONSTANTS
  None,
  MaxStops,  \* forwarded record --stop requests
  MaxRuns    \* recordings begun

Stops == 1..MaxStops  \* in the order they arrive

\* what is started once a target is picked
Starts == {"settings", "request"}

Selections == [start : Starts, answer : {None, "target", "error"}, cancelled : BOOLEAN]

ArmedStarts == [start : Starts, ready : BOOLEAN]

Outcomes == {"finished", "failed"}

ASSUME RecordingAssumption ==
  /\ MaxStops \in Nat /\ MaxRuns \in Nat
  /\ None \notin Nat \union Results \union Outcomes \union {"target"}
  /\ None \notin Selections \union ArmedStarts

VARIABLES
  machine,  \* RecordingState::machine
  app,      \* the rest of RecordingState, and what became of stops and files
  session,  \* the native session, as its own thread shares it
  at        \* step of the tick the main thread is at; "down" once it has quit

vars == <<machine, app, session, at>>

\* row and media of an export, which has a history row of its own
ExportId == 0

NoMessage == [result |-> "error", handoff |-> FALSE]

NoCard == [media |-> None, row |-> None]

NoSession == [over |-> FALSE, result |-> None]

Init ==
  /\ machine = NewMachine
  /\ app = [selection |-> None,    \* selector round trip in progress
            armed |-> None,        \* pending_start
            finalisation |-> "none", \* state of the finaliser's channel
            message |-> NoMessage,
            completion |-> None,   \* last outcome, for whoever waits
            replies |-> {},        \* stops waiting for one
            editor |-> "none",
            handoff |-> None,      \* media waiting to become a card
            row |-> None,          \* recorded_history_id
            overlay |-> FALSE,     \* whether ended recordings become cards
            run |-> 0,
            told |-> [c \in Stops |-> [run |-> 0, answer |-> "new"]],
            saves |-> <<>>,        \* recordings retained
            card |-> NoCard]       \* the latest card
  /\ session = NoSession
  /\ at = "idle"

-----------------------------------------------------------------------------
(* Answering, and what is kept of an ended recording                       *)

ReplyWaiters(a) ==
  IF a.completion = None THEN a
  ELSE [a EXCEPT !.replies = {},
                 !.told = [c \in Stops |->
                             IF c \in a.replies THEN [a.told[c] EXCEPT !.answer = a.completion]
                                                ELSE a.told[c]]]

Fail(a) == ReplyWaiters([a EXCEPT !.completion = "failed"])

\* Mutant: the card is made from a borrowed handoff, which stays.
PresentBorrowed(a) ==
  IF a.handoff = None THEN a
  ELSE [a EXCEPT !.row = None,
                 !.card = [media |-> a.handoff, row |-> a.row]]

\* present_recorded_media
Present(a) ==
  IF a.handoff = None THEN a
  ELSE [a EXCEPT !.handoff = None, !.row = None,
                 !.card = [media |-> a.handoff, row |-> a.row]]

\* What may happen while an ended recording is kept: its editor opens or does
\* not, its history row and its report are accepted or refused.
Luck == [opens : BOOLEAN, files : BOOLEAN, reports : BOOLEAN]

\* retain_recording_completion
Retain(a, run, luck) ==
  LET kept == [a EXCEPT !.editor = IF luck.opens THEN "open" ELSE "none",
                        !.row = IF luck.files THEN run ELSE None,
                        !.saves = Append(@, run),
                        !.completion = IF luck.reports THEN "finished" ELSE "failed"]
  IN IF a.overlay THEN Present(kept)
                         ELSE [kept EXCEPT !.handoff = None, !.row = None]

Endings(m) == {i \in DOMAIN m.events : IsTerminal(m.events[i])}

\* drain_recording_events; Coupled shows that at most one ending is queued
Drain(a, m, luck) ==
  ReplyWaiters(
    IF Endings(m) = {} THEN a
    ELSE LET e == m.events[CHOOSE i \in Endings(m) : TRUE] IN
         IF e.result \in {"complete", "partial"} THEN Retain(a, e.run, luck)
         ELSE [a EXCEPT !.completion = "failed"])

\* A handler that ends by draining the events
Drains(a, m) ==
  \E luck \in (IF Endings(m) = {} THEN {[opens |-> TRUE, files |-> TRUE, reports |-> TRUE]}
               ELSE Luck) :
    app' = Drain(a, m, luck) /\ machine' = Drained(m)

-----------------------------------------------------------------------------
(* Stopping: begin_recording_finalisation                                  *)

Parked(a, cs) == [a EXCEPT !.replies = @ \union cs,
                           !.told = [c \in Stops |-> IF c \in cs
                                       THEN [run |-> a.run, answer |-> "waiting"] ELSE a.told[c]]]

Refused(a, cs) ==
  [a EXCEPT !.told = [c \in Stops |-> IF c \in cs
                        THEN [run |-> a.run, answer |-> "refused"] ELSE a.told[c]]]

\* cs holds the stop to answer, or nobody.  The selector cannot be retracted,
\* so its answer is discarded when it comes; a machine that is neither
\* recording nor paused refuses.
BeginFinalisation(cs) ==
  \/ /\ app.selection # None
     /\ app' = Parked([app EXCEPT !.selection.cancelled = TRUE], cs)
     /\ UNCHANGED machine
  \/ /\ app.selection = None /\ app.armed # None
     /\ app' = Fail(Parked([app EXCEPT !.armed = None], cs))
     /\ UNCHANGED machine
  \/ /\ app.selection = None /\ app.armed = None
     /\ machine.phase # "recording"
     /\ app' = Refused(app, cs)
     /\ UNCHANGED machine
  \/ /\ app.selection = None /\ app.armed = None
     /\ machine.phase = "recording"
     /\ Drains(Parked([app EXCEPT !.finalisation = "running"], cs), BeginFinalising(machine))

IsBusy == \/ app.selection # None \/ app.armed # None \/ app.finalisation # "none"
          \/ IsActive(machine)

ForwardStop(c) ==
  /\ at = "idle"
  /\ app.told[c].answer = "new" /\ \A d \in Stops : d < c => app.told[d].answer # "new"
  /\ \/ ~IsBusy /\ app' = Refused(app, {c}) /\ UNCHANGED machine
     \/ IsBusy /\ BeginFinalisation({c})
  /\ UNCHANGED <<session, at>>

-----------------------------------------------------------------------------
(* Starting: begin_recording, start_forwarded_recording                    *)

\* Mutant: the outcome of the run before is still there.
PreparedKeepingOutcome(a) == [a EXCEPT !.editor = "none", !.run = @ + 1]

\* what both do once nothing refuses
Prepared(a) == [a EXCEPT !.editor = "none", !.completion = None, !.run = @ + 1]

MayBegin ==
  /\ app.editor # "exporting"
  /\ machine.phase \in {"idle", "finished", "failed"} /\ app.armed = None
  /\ app.run < MaxRuns

\* begin_recording_selection, on the user's behalf or for record --interactive
Select(start) ==
  /\ MayBegin
  /\ app' = [Prepared(app) EXCEPT !.selection =
               [start |-> start, answer |-> None, cancelled |-> FALSE]]
  /\ machine' = BeginSelection(Reset(machine), app.run + 1)

\* a forwarded record with its target, armed at once
Arm ==
  /\ MayBegin
  /\ app' = [Prepared(app) EXCEPT !.armed = [start |-> "request", ready |-> FALSE]]
  /\ machine' = Reset(machine)

\* the selector's thread or the request's preparation failed
BeginFails ==
  /\ MayBegin
  /\ app' = [app EXCEPT !.editor = "none", !.completion = None]
  /\ machine' = Reset(machine)

ForwardStart ==
  /\ at = "idle" /\ ~IsBusy
  /\ Select("request") \/ Arm \/ BeginFails
  /\ UNCHANGED <<session, at>>

\* toggle_recording: the tray item, the hotkey
Toggle ==
  /\ at = "idle"
  /\ \/ app.armed # None /\ BeginFinalisation({})
     \/ app.armed = None /\ (Select("settings") \/ BeginFails)
     \/ /\ app.armed = None /\ machine.phase = "selecting"
        /\ app' = [app EXCEPT !.selection.cancelled = TRUE] /\ UNCHANGED machine
     \/ /\ app.armed = None /\ machine.phase = "countdown"
        /\ Drains(app, CancelCountdown(machine))
     \/ /\ app.armed = None /\ machine.phase = "recording"
        /\ BeginFinalisation({})
  /\ UNCHANGED <<session, at>>

-----------------------------------------------------------------------------
(* The video editor                                                        *)

\* from a card or a history row, at any time
OpenEditor ==
  /\ at = "idle" /\ app.editor = "none" /\ app.saves # <<>>
  /\ app' = [app EXCEPT !.editor = "open"]
  /\ UNCHANGED <<machine, session, at>>

Export ==
  /\ at = "idle" /\ app.editor = "open" 
  /\ app' = [app EXCEPT !.editor = "exporting"]
  /\ UNCHANGED <<machine, session, at>>

CloseEditor ==
  /\ at = "idle" /\ app.editor = "open"
  /\ app' = [app EXCEPT !.editor = "none"]
  /\ machine' = Reset(machine)
  /\ UNCHANGED <<session, at>>

\* finish_video_export; the row and the handoff fail independently
Exported(a, filed, handed) ==
  [a EXCEPT !.editor = "open",
            !.row = IF filed THEN ExportId ELSE None,
            !.handoff = IF handed THEN ExportId ELSE @]

-----------------------------------------------------------------------------
(* A tick: advance_recording                                               *)

Answered(a) == IF a.selection = None THEN FALSE ELSE a.selection.answer # None
Ready(a) == IF a.armed = None THEN FALSE ELSE a.armed.ready

\* Its steps in order, those with nothing to do passed over
StepAfter(step, a) ==
  IF step = "finish" /\ a.editor = "exporting" THEN "export"
  ELSE IF step \in {"finish", "export"} /\ Answered(a) THEN "select"
  ELSE IF Ready(a) THEN "start"
  ELSE "clock"

\* finish_pending_recording
TickFinish ==
  /\ at = "idle"
  /\ LET ticked == IF app.armed = None THEN app ELSE [app EXCEPT !.armed.ready = TRUE]
         settled == [ticked EXCEPT !.finalisation = "none", !.message = NoMessage]
     IN \/ /\ app.finalisation \in {"none", "running"}
           /\ app' = ticked /\ UNCHANGED machine
        \/ /\ app.finalisation = "lost"
           /\ Drains(settled, CompleteFinalising(machine, "error"))
        \/ /\ app.finalisation = "sent"
           /\ Drains([settled EXCEPT !.handoff = IF app.message.handoff THEN machine.run ELSE @],
                     CompleteFinalising(machine, app.message.result))
  /\ at' = StepAfter("finish", app')
  /\ UNCHANGED session

\* advance_export; an export may also fail or be cancelled
TickExport ==
  /\ at = "export"
  /\ \/ app' = app
     \/ app' = [app EXCEPT !.editor = "open"]
     \/ \E filed, handed \in BOOLEAN : app' = Present(Exported(app, filed, handed))
  /\ at' = StepAfter("export", app')
  /\ UNCHANGED <<machine, session>>

\* Mutant: a cancelled selection leaves the machine selecting.
FinishSelectionEarly(sel) ==
  LET left == [app EXCEPT !.selection = None] IN
  IF sel.cancelled \/ sel.answer = "error"
    THEN app' = Fail(left) /\ UNCHANGED machine
    ELSE /\ app' = [left EXCEPT !.armed = [start |-> sel.start, ready |-> FALSE]]
         /\ machine' = CancelSelection(machine)

\* finish_recording_selection, once the selector has answered
FinishSelection(sel) ==
  LET left == [app EXCEPT !.selection = None] IN
  /\ machine' = CancelSelection(machine)
  /\ app' = IF sel.cancelled \/ sel.answer = "error" THEN Fail(left)
            ELSE [left EXCEPT !.armed = [start |-> sel.start, ready |-> FALSE]]

TickSelect ==
  /\ at = "select" /\ at' = "clock"
  /\ FinishSelection(app.selection)
  /\ UNCHANGED session

\* start_pending_recording, a tick after it was armed
TickStart ==
  /\ at = "start" /\ at' = "clock"
  /\ LET taken == [app EXCEPT !.armed = None] IN
     \/ /\ app.editor # "none"
        /\ app' = Fail(taken) /\ UNCHANGED <<machine, session>>
     \/ /\ app.editor = "none"
        /\ \E overlay \in BOOLEAN,
              how \in {"invalid", "fails", "starts"}
                      \union (IF app.armed.start = "settings" THEN {"countdown"} ELSE {}) :
             LET ready == [taken EXCEPT !.overlay = overlay] IN
             Drains(IF how \in {"invalid", "fails"} THEN Fail(ready) ELSE ready,
                    Begin(machine, app.run, how))
        /\ session' = NoSession

\* The session's next signal.  It sends progress before its result, and a result
\* behind some of that looks like one that comes later.
Signals == IF session.result = None THEN {"none", "progress"} ELSE {session.result}

\* RecordingMachine::tick
TickClock ==
  /\ at = "clock" /\ at' = "settle"
  /\ \/ machine.phase # "recording" /\ UNCHANGED machine
     \/ /\ machine.phase = "countdown"
        /\ \E starts \in BOOLEAN : machine' = StartRequest(machine, starts)
     \/ /\ machine.phase = "recording"
        /\ \E signal \in Signals : machine' = PollSession(machine, signal)
  /\ session' = IF machine'.live THEN session ELSE NoSession
  /\ UNCHANGED app

RequiresFinalisation == machine.phase = "recording" /\ machine.live /\ session.over

\* Mutant: a session that only says it has stopped is left alone.
TickSettleByEvents ==
  /\ at = "settle" /\ at' = "idle"
  /\ Drains(app, machine)
  /\ UNCHANGED session

TickSettle ==
  /\ at = "settle" /\ at' = "idle"
  /\ IF RequiresFinalisation /\ app.finalisation = "none"
       THEN BeginFinalisation({})
       ELSE Drains(app, machine)
  /\ UNCHANGED session

-----------------------------------------------------------------------------
(* The other threads                                                       *)

\* the user answers the selector or dismisses it
Selector ==
  /\ at # "down" /\ app.selection # None
  /\ app.selection.answer = None
  /\ \E answer \in {"target", "error"} : app' = [app EXCEPT !.selection.answer = answer]
  /\ UNCHANGED <<machine, session, at>>

\* The session, while the machine polls it; what it does once the finaliser has
\* it is the finaliser's to find out.  Its worker ends by itself or because it
\* was told to, ...
SessionStops ==
  /\ machine.live /\ ~session.over /\ session.result = None
  /\ session' = [session EXCEPT !.over = TRUE]
  /\ UNCHANGED <<machine, app, at>>

\* ... and reports its result after that, where the platform does at all
SessionEnds ==
  /\ machine.live /\ session.over /\ session.result = None
  /\ \E result \in Results : session' = [session EXCEPT !.result = result]
  /\ UNCHANGED <<machine, app, at>>

\* the worker panics: its channel closes and the state it shared stays
SessionDies ==
  /\ machine.live /\ ~session.over /\ session.result = None
  /\ session' = [session EXCEPT !.result = "error"]
  /\ UNCHANGED <<machine, app, at>>

Stopped == IF session.result = None THEN Results ELSE {session.result}

\* spawn_finalisation: stop returns what the session has reported, or will;
\* a panic of stop is its error, one of the poster's decoder loses the thread.
Finaliser ==
  /\ app.finalisation = "running" /\ at # "down"
  /\ \E result \in Stopped :
     \E handoff \in (IF result = "complete" /\ app.overlay THEN BOOLEAN ELSE {FALSE}) :
       app' = [app EXCEPT !.finalisation = "sent",
                          !.message = [result |-> result, handoff |-> handoff]]
  /\ session' = NoSession
  /\ UNCHANGED <<machine, at>>

FinaliserLost ==
  /\ app.finalisation = "running" /\ app.overlay /\ at # "down"
  /\ "complete" \in Stopped
  /\ app' = [app EXCEPT !.finalisation = "lost"]
  /\ session' = NoSession
  /\ UNCHANGED <<machine, at>>

-----------------------------------------------------------------------------
(* Quitting: settle_recording_before_shutdown; then the server is dropped  *)

\* The export is cancelled and waited for; it may have finished all the same.
AfterExport ==
  IF app.editor # "exporting" THEN {app}
  ELSE {app} \union {Exported(app, filed, handed) : filed, handed \in BOOLEAN}

\* the server is dropped next, and whoever still waits with it
Dropped(a) ==
  [a EXCEPT !.replies = {}, !.editor = "none",
            !.told = [c \in Stops |-> IF c \in a.replies
                        THEN [a.told[c] EXCEPT !.answer = "dropped"] ELSE a.told[c]]]

\* The finaliser gets twenty seconds; a recording still running is stopped here.
QuitFinalises(a, m) ==
  \E result \in IF app.finalisation = "sent" THEN {app.message.result} ELSE Results,
     luck \in Luck :
    LET ended == CompleteFinalising(m, result) IN
    /\ machine' = Drained(ended)
    /\ app' = Dropped(Drain(a, ended, luck))

Quit ==
  /\ at = "idle" /\ at' = "down"
  /\ \E a \in AfterExport :
       \/ /\ app.finalisation # "none"
          /\ QuitFinalises([a EXCEPT !.finalisation = "none", !.message = NoMessage,
                               !.handoff = IF app.message.handoff THEN machine.run ELSE @],
                           machine)
       \/ /\ app.finalisation = "none" /\ machine.phase = "recording"
          /\ QuitFinalises(a, BeginFinalising(machine))
       \/ /\ app.finalisation = "none" /\ machine.phase # "recording"
          /\ app' = Dropped(a) /\ UNCHANGED machine
  /\ session' = NoSession

Ended == at = "down" /\ UNCHANGED vars

-----------------------------------------------------------------------------
Tick == TickFinish \/ TickExport \/ TickSelect \/ TickStart \/ TickClock \/ TickSettle

Next ==
  \/ \E c \in Stops : ForwardStop(c)
  \/ ForwardStart \/ Toggle
  \/ OpenEditor \/ Export \/ CloseEditor
  \/ Tick
  \/ Selector \/ SessionStops \/ SessionEnds \/ SessionDies
  \/ Finaliser \/ FinaliserLost
  \/ Quit \/ Ended

Spec == Init /\ [][Next]_vars

\* The main thread keeps ticking and a session that is told to stop does; the
\* user need not answer the selector, and a session need not end by itself.
Fairness == WF_vars(Tick) /\ WF_vars(Finaliser)

FairSpec == Spec /\ Fairness

-----------------------------------------------------------------------------
(* Properties                                                              *)

Answers == {"new", "waiting", "refused", "finished", "failed", "dropped"}

\* Every variable keeps to its type, and the machine's queue to its limit.
TypeOK ==
  /\ machine \in [phase : Phases, live : BOOLEAN, run : 0..MaxRuns, events : Seq(Event)]
  /\ \A i \in DOMAIN machine.events :
       IsTerminal(machine.events[i]) => machine.events[i].run \in 0..MaxRuns
  /\ Len(machine.events) <= MaxPending
  /\ app \in
       [selection : Selections \union {None}, armed : ArmedStarts \union {None},
        finalisation : {"none", "running", "sent", "lost"},
        message : [result : Results, handoff : BOOLEAN],
        completion : Outcomes \union {None}, replies : SUBSET Stops,
        editor : {"none", "open", "exporting"}, overlay : BOOLEAN,
        handoff : 0..MaxRuns \union {None}, row : 0..MaxRuns \union {None},
        run : 0..MaxRuns, told : [Stops -> [run : 0..MaxRuns, answer : Answers]],
        saves : Seq(0..MaxRuns),
        card : [media : 0..MaxRuns \union {None}, row : 0..MaxRuns \union {None}]]
  /\ session \in [over : BOOLEAN, result : Results \union {None}]
  /\ at \in {"idle", "export", "select", "start", "clock", "settle", "down"}

\* The machine and what the application keeps beside it never part: a selector
\* runs while the machine selects, a finaliser while it finalises, a session
\* while it records, and what waits for a start or a stop can still be served.
Coupled ==
  /\ app.selection # None <=> machine.phase = "selecting"
  /\ app.armed # None => machine.phase = "idle"
  /\ app.finalisation # "none" <=> machine.phase = "finalising"
  /\ machine.live <=> machine.phase = "recording"
  /\ app.replies = {c \in Stops : app.told[c].answer = "waiting"}
  /\ app.replies # {} => app.selection # None \/ app.finalisation # "none"
  /\ \A i, j \in Endings(machine) : i = j
  /\ Endings(machine) # {} => at = "settle" /\ ~machine.live /\ app.finalisation = "none"
  /\ at # "down" => app.handoff = None

\* A card shows the media of the recording whose history row it carries, though
\* the row comes from the main thread and the media from the finaliser or an
\* export, and either may be missing.
CardsPair == at # "down" => app.card.row \in {None, app.card.media}

Contract == INSTANCE RecordingContract WITH
  run <- app.run,
  stage <- IF app.selection # None \/ app.armed # None \/ machine.phase = "countdown"
             THEN "setup"
           ELSE IF machine.live \/ app.finalisation # "none" \/ Endings(machine) # {}
             THEN "capturing"
           ELSE "over",
  saves <- app.saves,
  told <- app.told

\* The detailed recording is one the contract allows: one at a time, kept at
\* most once, and every stop told about the recording it was meant for.
KeepsContract == Contract!Spec

\* "--stop is parked until the recording actually finalises": everybody who is
\* parked is answered, or let go by a quit, once no selector is on the screen.
StopsAnswered ==
  /\ app.selection = None /\ \E c \in Stops : app.told[c].answer = "waiting"
  ~> \A c \in Stops : app.told[c].answer # "waiting"

\* A session that has ended, with a result, with its state only or with its
\* channel, does not stay "a failed capture active forever".
EndedSessionSettles ==
  machine.live /\ (session.over \/ session.result # None)
    ~> machine.phase \in {"finished", "failed", "idle"} \/ at = "down"
=============================================================================

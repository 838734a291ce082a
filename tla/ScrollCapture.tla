---------------------------- MODULE ScrollCapture ----------------------------
(***************************************************************************)
(* Scrolling captures over a PipeWire stream: the session that asks for    *)
(* frames and stitches them (crates/scrozz-stitch/src/session.rs), the     *)
(* requests to keep or discard what it has, which come at any moment from  *)
(* the HUD or from Ctrl+C, and the boundary behind which they are refused. *)
(***************************************************************************)
EXTENDS FrameStream

CONSTANTS
  Workloads,         \* who captures, and how much of everything may happen
  MaxFrames,         \* ScrollSessionConfig.max_frames
  StallLimit,        \* StitchConfig.stall_limit
  ManualStallLimit   \* ScrollSessionConfig.manual_stall_limit

Workload == [by : {"hud", "terminal"}, captures : Nat, requests : Nat,
             buffers : Nat, notices : Nat]

\* why a session ends, and with what
Reasons == {"kept", "limit", "end", "overlap", "interrupted"}

Errors == {"cancelled", "refused", "unprepared", "nothing moved", "unscrolled", "no overlap",
           "unstitched", "assembly"}

ASSUME ScrollAssumption ==
  /\ Workloads \subseteq Workload /\ None \notin Reasons \union Errors
  /\ MaxFrames \in Nat \ {0} /\ StallLimit \in Nat \ {0} /\ ManualStallLimit \in Nat \ {0}

VARIABLES
  user,     \* who captures, and the captures and requests still to come
  main,     \* the HUD, or the terminal: what the coordinator knows of a capture
  request,  \* AtomicCancellation: 0, 1 to keep, 2 to abort, 3 sealed
  token,    \* CaptureCancellation: whether the acquisition is cancelled
  session   \* ScrollSession and the acquisition job around it

ui == <<user, main, request>>
vars == <<stream, ui, token, session>>

Keep == 1
Abort == 2
Sealed == 3

NoSession ==
  [at |-> "none", frames |-> 0, stalls |-> 0, frame |-> None, latest |-> None, advanced |-> FALSE,
   automatic |-> FALSE, reason |-> None, error |-> None,
   asked |-> 0]  \* the strongest request that was accepted for this capture

NoCapture == [at |-> "off", cancelling |-> FALSE]

Running == [NoCapture EXCEPT !.at = "running"]

Init ==
  /\ \E w \in Workloads :
       /\ source = NewSource(w.buffers, w.notices)
       /\ user = [by |-> w.by, captures |-> w.captures, requests |-> w.requests]
       /\ main = IF w.by = "hud" THEN NoCapture ELSE Running
       /\ session = IF w.by = "hud" THEN NoSession ELSE [NoSession EXCEPT !.at = "queued"]
  /\ shared = NoShared /\ call = NoCall
  /\ request = 0 /\ token = FALSE

-----------------------------------------------------------------------------
(* Requests                                                                *)

Stronger(a, b) == IF a > b THEN a ELSE b

\* AtomicCancellation::cancel
Cancel(action) ==
  /\ request' = Stronger(request, action)
  /\ session' = IF request = Sealed THEN session ELSE [session EXCEPT !.asked = Stronger(@, action)]

Told ==
  /\ main.at = "running" /\ ~main.cancelling
  /\ user.requests > 0 /\ user' = [user EXCEPT !.requests = @ - 1]
  /\ UNCHANGED <<stream, token>>

\* keep_scrolling_capture: by the HUD, or by the shortcut at first
KeepsCapture == user.by = "hud" /\ Told /\ Cancel(Keep) /\ UNCHANGED main

\* abort_scrolling_capture: by the HUD, or by the shortcut after that.  The
\* token is cancelled right after the request was accepted.
AbortsCapture ==
  /\ user.by = "hud" /\ Told /\ Cancel(Abort)
  /\ main' = IF request = Sealed THEN main ELSE [main EXCEPT !.cancelling = TRUE]

\* advance_terminal_cancellation; the token is cancelled in any case
Interrupts ==
  /\ user.by = "terminal" /\ Told
  /\ IF request < Abort THEN Cancel(request + 1) ELSE UNCHANGED <<request, session>>
  /\ main' = [main EXCEPT !.cancelling = TRUE]

CancelsToken ==
  /\ main.cancelling
  /\ token' = TRUE /\ main' = [main EXCEPT !.cancelling = FALSE]
  /\ UNCHANGED <<stream, user, request, session>>

-----------------------------------------------------------------------------
(* The coordinator                                                         *)

Coordinator == user.by = "hud" /\ UNCHANGED <<stream, user>>

\* begin_scrolling_capture, when none is running
Begins ==
  /\ Coordinator
  /\ \/ main.at = "off" /\ user.captures > 0 /\ main' = [main EXCEPT !.at = "choosing"]
     \/ main.at = "choosing" /\ main' = NoCapture
  /\ UNCHANGED <<request, token, session>>

\* start_scrolling_capture; the target may be gone by now
Starts ==
  /\ Coordinator
  /\ main.at = "choosing"
  /\ main' \in {NoCapture, [main EXCEPT !.at = "starting"]}
  /\ UNCHANGED <<request, token, session>>

\* keep and abort mean the same before the capture is posted
CancelsStart ==
  /\ Coordinator
  /\ main.at = "starting" /\ main' = NoCapture
  /\ UNCHANGED <<request, token, session>>

\* Mutant: what was asked of the capture before stays in force.
PostsWithoutReset ==
  /\ user.by = "hud" /\ user.captures > 0 /\ user' = [user EXCEPT !.captures = @ - 1]
  /\ main.at = "starting" /\ session.at = "none"
  /\ main' = Running /\ token' = FALSE
  /\ session' = [NoSession EXCEPT !.at = "queued"]
  /\ UNCHANGED <<stream, request>>

\* post_scrolling: the gate is held until the session before has returned
Posts ==
  /\ user.by = "hud" /\ user.captures > 0 /\ user' = [user EXCEPT !.captures = @ - 1]
  /\ main.at = "starting"
  /\ request' = 0
  /\ \/ /\ session.at = "none"
        /\ main' = Running /\ token' = FALSE
        /\ session' = [NoSession EXCEPT !.at = "queued"]
     \/ session.at # "none" /\ main' = NoCapture /\ UNCHANGED <<token, session>>
  /\ UNCHANGED stream

\* Outcome::Ready or Outcome::Failed, which was sent before the gate opened
TakesOutcome ==
  /\ Coordinator
  /\ main.at = "running" /\ ~main.cancelling
  /\ session.at \in {"returning", "none"}
  /\ main' = NoCapture
  /\ UNCHANGED <<request, token, session>>

\* shut_down: asks to keep, and looks at no outcome after that
Quits ==
  /\ Coordinator
  /\ main.at # "down" /\ ~main.cancelling
  /\ main' = [NoCapture EXCEPT !.at = "down"]
  /\ IF main.at \in {"starting", "running"} THEN Cancel(Keep) ELSE UNCHANGED <<request, session>>
  /\ UNCHANGED token

-----------------------------------------------------------------------------
(* The session                                                             *)

Worker == UNCHANGED <<ui, token>>

Goes(to) == session' = to /\ UNCHANGED stream

\* Err: nothing is published, and the stream is dropped
Fails(error) == session' = [session EXCEPT !.at = "returning", !.error = error] /\ Disconnect

Finishes(reason) == Goes([session EXCEPT !.at = "finishing", !.reason = reason])

\* cancellation_reason
Obeys ==
  \/ request = Abort /\ Fails("cancelled")
  \/ request = Keep /\ session.advanced /\ Finishes("kept")
  \/ request = Keep /\ ~session.advanced /\ Fails("nothing moved")

Unasked == request \notin {Keep, Abort}

\* finishes with what there is, if anything was stitched
Salvages(reason, error) == IF session.advanced THEN Finishes(reason) ELSE Fails(error)

\* the picker of the portal is answered, fails, or is dismissed
Opens ==
  /\ session.at = "queued" /\ ~token /\ Worker
  /\ Fails("refused") \/ Goes([session EXCEPT !.at = "first"])

\* a cancelled token closes the picker
Closes ==
  /\ session.at = "queued" /\ token /\ Worker
  /\ Fails("cancelled") \/ Fails("refused")

AsksFirst == session.at = "first" /\ CaptureFrame(token) /\ UNCHANGED session /\ Worker

\* what CaptureFrameSource makes of a call that has returned
Error == IF call.error = None /\ token THEN "cancelled" ELSE call.error

Takes(to) == session' = to /\ call' = NoCall /\ UNCHANGED <<source, shared>>

TakesFirst ==
  /\ session.at = "first" /\ call.at = "returned" /\ Worker
  /\ \/ Error # None /\ Fails(Error)
     \/ Error = None /\ Takes([session EXCEPT !.at = "began", !.frames = 1, !.latest = call.page])

\* The driver is prepared; one that cannot scroll leaves it to the user.  That
\* of a Wayland session never can: automatic ones belong to other platforms.
Prepares ==
  /\ session.at = "began" /\ Worker
  /\ \/ Obeys
     \/ /\ Unasked
        /\ \/ \E automatic \in BOOLEAN :
                Goes([session EXCEPT !.at = "loop", !.automatic = automatic])
           \/ Fails("unprepared")

AtLimit == session.frames >= MaxFrames

Scrolls ==
  /\ session.at = "loop" /\ Worker
  /\ \/ Obeys
     \/ Unasked /\ AtLimit /\ Salvages("limit", "nothing moved")
     \/ Unasked /\ ~AtLimit /\ Goes([session EXCEPT !.at = "settling"])
     \/ /\ Unasked /\ ~AtLimit /\ session.automatic
        /\ Goes([session EXCEPT !.at = "unscrolled"])

\* the gesture failed, for good or so that the user may scroll instead
ScrollFails ==
  /\ session.at = "unscrolled" /\ Worker
  /\ \/ Obeys
     \/ Unasked /\ Salvages("interrupted", "unscrolled")
     \/ Unasked /\ Goes([session EXCEPT !.at = "loop", !.automatic = FALSE])

AsksNext ==
  /\ session.at = "settling" /\ Worker
  /\ \/ Obeys
     \/ Unasked /\ session' = [session EXCEPT !.at = "asking"] /\ CaptureFrame(token)

TakesFrame ==
  /\ session.at = "asking" /\ call.at = "returned" /\ Worker
  /\ Takes(IF Error # None THEN [session EXCEPT !.at = "faltered", !.error = Error]
           ELSE [session EXCEPT !.at = "captured", !.frames = @ + 1, !.frame = call.page])

\* Mutant: the frames before the failure are lost with it.
FaltersForGood == session.at = "faltered" /\ Worker /\ Fails(session.error)

\* the next frame could not be captured, or not be stitched
Falters ==
  /\ session.at = "faltered" /\ Worker
  /\ \/ session.advanced /\ Obeys
     \/ session.advanced /\ Unasked /\ Finishes("interrupted")
     \/ ~session.advanced /\ Fails(session.error)

\* push_frame of what has not moved since the latest accepted frame
Stationary ==
  LET stalls == session.stalls + 1
      patient == ~session.automatic /\ (~session.advanced \/ stalls < ManualStallLimit)
  IN IF stalls < StallLimit \/ patient
       THEN Goes([session EXCEPT !.at = "loop", !.stalls = stalls])
     ELSE Salvages("end", "nothing moved")

\* push_frame of what has
Moved ==
  \/ Goes([session EXCEPT !.at = "loop", !.latest = session.frame, !.stalls = 0, !.advanced = TRUE])
  \/ Salvages("overlap", "no overlap")
  \/ Goes([session EXCEPT !.at = "faltered", !.error = "unstitched"])

Stitches ==
  /\ session.at = "captured" /\ Worker
  /\ \/ Obeys
     \/ Unasked /\ Stationary
     \/ Unasked /\ session.frame # session.latest /\ Moved

Reason == IF request = Keep THEN "kept" ELSE session.reason

\* finish_checked, up to the assembled image ...
Assembles ==
  /\ session.at = "finishing" /\ Worker
  /\ \/ request = Abort /\ Fails("cancelled")
     \/ request # Abort /\ Fails("assembly")
     \/ request # Abort /\ Goes([session EXCEPT !.at = "assembled", !.reason = Reason])

\* ... and the last look at the request; the stream is dropped here too
Checks ==
  /\ session.at = "assembled" /\ Worker
  /\ \/ request = Abort /\ Fails("cancelled")
     \/ /\ request # Abort /\ Disconnect
        /\ session' = [session EXCEPT !.at = "sealing", !.reason = Reason]

\* Mutant: the image is published whatever was asked since the last look.
SealsAnyway ==
  /\ session.at = "sealing" /\ request' = Sealed
  /\ Goes([session EXCEPT !.at = "publishing", !.error = None])
  /\ UNCHANGED <<user, main, token>>

\* seal_output, seal_terminal_output
Seals ==
  /\ session.at = "sealing"
  /\ \/ request = Abort /\ Fails("cancelled") /\ UNCHANGED request
     \/ /\ request # Abort /\ request' = Sealed
        /\ Goes([session EXCEPT !.at = "publishing", !.error = None])
  /\ UNCHANGED <<user, main, token>>

Publishes ==
  /\ session.at = "publishing" /\ Worker /\ Goes([session EXCEPT !.at = "returning"])

\* the lease of the gate is dropped, or the process ends
Returns ==
  /\ session.at = "returning" /\ Goes([session EXCEPT !.at = "none"])
  /\ main' = IF user.by = "terminal" THEN [main EXCEPT !.at = "down"] ELSE main
  /\ UNCHANGED <<user, request, token>>

WaitingCall ==
  /\ TimesOut(token) \/ Wakes(token)
  /\ UNCHANGED session /\ Worker

SessionStep ==
  \/ WaitingCall \/ TakesFirst \/ TakesFrame
  \/ Closes \/ AsksFirst \/ Prepares \/ Scrolls \/ ScrollFails \/ AsksNext \/ Falters \/ Stitches
  \/ Assembles \/ Checks \/ Seals \/ Publishes \/ Returns

\* what the producer does at other moments might as well wait for these
Environment ==
  /\ session.at \in {"first", "settling", "asking"}
  /\ Producer /\ UNCHANGED <<ui, token, session>>

User == KeepsCapture \/ AbortsCapture \/ Interrupts \/ Begins \/ Starts \/ Quits

Next ==
  \/ User \/ CancelsToken \/ CancelsStart \/ Posts \/ TakesOutcome
  \/ Opens \/ SessionStep \/ Environment

Spec == Init /\ [][Next]_vars

\* Nobody has to answer the picker, or to ask for anything; the worker and the
\* event loop keep running.
FairSpec ==
  /\ Spec
  /\ WF_vars(SessionStep)
  /\ WF_vars(CancelsToken) /\ WF_vars(TakesOutcome)

-----------------------------------------------------------------------------
(* Properties                                                              *)

TypeOK ==
  /\ StreamTypeOK
  /\ request \in 0..3 /\ session.asked \in 0..2 /\ session.reason \in Reasons \union {None}
  /\ session.frames \in 0..MaxFrames

Output == session.at \in {"publishing", "returning"} /\ session.error = None

(* A capture ends the way its user asked for.  One whose discarding was    *)
(* accepted is not published, one is reported as discarded or kept only if *)
(* that was asked of it, and a frame that the request itself cancelled is  *)
(* not reported as an interruption.                                        *)
EndsAsAsked ==
  /\ Output => session.asked # Abort
  /\ session.at = "returning" /\ session.error = "cancelled" =>
       session.asked >= IF user.by = "hud" THEN Abort ELSE Keep
  /\ session.reason = "kept" /\ session.at # "none" => session.asked >= Keep
  /\ session.at = "finishing" /\ session.reason = "interrupted" => session.error # "cancelled"

(* "The valid prefix will be returned instead of discarded": once the      *)
(* viewport has moved, nothing but a request to discard it, or an image    *)
(* that cannot be assembled, costs the user what was stitched.             *)
PrefixKept ==
  session.at = "returning" /\ session.advanced /\ session.error # None =>
    session.asked = Abort \/ session.error = "assembly"

(* The request in force is the one made of this capture, never of the one  *)
(* before, and it is refused only once this capture is being published.    *)
OwnRequest ==
  main.at = "running" =>
    IF request = Sealed THEN session.at \in {"publishing", "returning", "none"} /\ session.error = None
    ELSE request = session.asked

(* Every capture ends once the picker is answered, or its token cancelled, *)
(* whatever the stream, the driver and the user do or leave undone: the    *)
(* deadline of a frame, the limit of frames and the patience with a still  *)
(* page bound it.                                                          *)
CaptureEnds ==
  main.at = "running" /\ (session.at # "queued" \/ token) ~> main.at # "running"
=============================================================================

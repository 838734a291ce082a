----------------------------- MODULE FrameStream -----------------------------
(***************************************************************************)
(* A PipeWire stream kept open across frame requests                       *)
(* (crates/scrozz-capture/src/linux/wayland/pipewire).  Callbacks leave    *)
(* events, and the newest complete frame, for whoever calls capture_frame. *)
(* They run under the loop's lock, which a call lets go of only to wait.   *)
(***************************************************************************)
EXTENDS Naturals, FiniteSets, SequencesExt

CONSTANTS
  None,
  Formats,   \* what the producer may offer that this client can read
  MaxPages   \* how often what it shows changes

\* how a call fails without a failure of its lifecycle
CallErrors == {"cancelled", "wait", "unsequenced", "no pixels", "format changed"}

ASSUME StreamAssumption == None \notin Formats \union CallErrors /\ MaxPages \in Nat

VARIABLES
  source,  \* the producer, what is left of its budgets and what was taken of it
  shared,  \* Shared: what callbacks write and calls read
  call     \* the call of capture_frame: its Lifecycle and its result

stream == <<source, shared, call>>

Terminal == {"gone", "error"}  \* StreamState::is_terminal

States == {"streaming", "paused"} \union Terminal

NoShared ==
  [events |-> <<>>, negotiated |-> None,
   next |-> 0, delivered |-> 0,             \* FrameTimeline
   state |-> None, streamed |-> FALSE, frame |-> None]

NewLifecycle == [phase |-> "connecting", format |-> None, sequence |-> None]

NoCall == [at |-> "idle", life |-> NewLifecycle, page |-> None, error |-> None]

\* a producer that sends so many buffers, and so many other notices
NewSource(buffers, notices) ==
  [page |-> 0, sent |-> None, sends |-> 0, taken |-> 0, ended |-> FALSE,
   buffers |-> buffers, notices |-> notices]

\* Session::drop; a stream connected after that has been sent nothing
Disconnect ==
  /\ source' = [source EXCEPT !.sent = None, !.sends = 0, !.taken = 0, !.ended = FALSE]
  /\ shared' = NoShared /\ call' = NoCall

-----------------------------------------------------------------------------
(* Events                                                                  *)

Media == {"ready", "nodamage", "empty", "bad"}

Queued(events, kinds) == {i \in DOMAIN events : events[i].kind \in kinds}

\* the events at these places, in their order
Selected(events, these) ==
  LET upto[n \in 0..Len(events)] ==
        IF n = 0 THEN <<>>
        ELSE IF n \in these THEN Append(upto[n - 1], events[n]) ELSE upto[n - 1]
  IN upto[Len(events)]

Without(events, kinds) == Selected(events, DOMAIN events \ Queued(events, kinds))

Priority(e) ==
  CASE e.kind = "bad" -> 4 [] e.kind \in {"ready", "nodamage"} -> 3 [] OTHER -> 1

\* prefer_process_event
PreferMedia(current, next) ==
  IF Priority(next) # Priority(current)
    THEN IF Priority(next) > Priority(current) THEN next ELSE current
  ELSE IF Priority(next) = 3 /\ next.sequence > current.sequence THEN next ELSE current

\* Mutant: the latest state is the one that counts.
LatestState(current, next) == next

\* prefer_state_event
PreferState(current, next) == IF current.state \in Terminal THEN current ELSE next

\* one event of these kinds is queued at most, where the first of them came
Coalesced(events, kinds, e) ==
  IF Queued(events, kinds) = {} THEN Append(events, e)
  ELSE LET i == CHOOSE i \in Queued(events, kinds) : TRUE
       IN [events EXCEPT ![i] = IF e.kind = "state" THEN PreferState(@, e) ELSE PreferMedia(@, e)]

\* Mutant: the frame stays when what followed it could not be read.
OnlyEvents(s) == [s EXCEPT !.events = Without(@, {"ready", "nodamage"})]

\* Shared::invalidate_frame
Invalidated(s) == [s EXCEPT !.frame = None, !.events = Without(@, {"ready", "nodamage"})]

PushedState(s, state) ==
  [s EXCEPT !.state = IF @ \in Terminal THEN @ ELSE state,
            !.streamed = @ \/ state = "streaming",
            !.events = Coalesced(@, {"state"}, [kind |-> "state", state |-> state])]

PushedMedia(s, e) ==
  LET t == IF e.kind = "bad" THEN Invalidated(s) ELSE s
  IN [t EXCEPT !.events = Coalesced(@, Media, e)]

PushedAgreed(s, format) ==
  [s EXCEPT !.events = Append(Without(@, {"agreed"}), [kind |-> "agreed", format |-> format])]

PushedRejected(s) ==
  LET t == Invalidated([s EXCEPT !.negotiated = None])
  IN IF Queued(t.events, {"rejected"}) # {} THEN t
     ELSE [t EXCEPT !.events = Append(@, [kind |-> "rejected"])]

-----------------------------------------------------------------------------
(* Callbacks                                                               *)

Unlocked == call.at \in {"idle", "waiting"}

Notice ==
  /\ Unlocked
  /\ source.notices > 0 /\ source' = [source EXCEPT !.notices = @ - 1]
  /\ UNCHANGED call

\* on_state_changed; a source that has ended may still be said to pause
StateChanges(state) ==
  /\ Unlocked
  /\ source.notices > 0
  /\ source' = [source EXCEPT !.notices = @ - 1, !.ended = @ \/ state \in Terminal]
  /\ shared' = PushedState(shared, state)
  /\ UNCHANGED call

\* on_param_changed, without a format ...
FormatClears ==
  Notice /\ shared' = Invalidated([shared EXCEPT !.negotiated = None])

\* ... with one this client cannot read ...
FormatRejects == Notice /\ shared' = PushedRejected(shared)

\* ... or with one it can, if the buffers it asks for are granted
FormatAgrees(format) ==
  /\ Notice
  /\ LET known == IF shared.negotiated \notin {None, format} THEN Invalidated(shared) ELSE shared
         agreed == PushedAgreed([known EXCEPT !.negotiated = format], format)
     IN shared' \in {agreed, PushedRejected([agreed EXCEPT !.negotiated = None])}

\* read_buffer: what becomes of the shared state, and the event it makes
Read(s, format, buffer) ==
  CASE format = None -> [shared |-> s, event |-> [kind |-> "empty"]]
    [] format # None /\ buffer = "unreadable" -> [shared |-> s, event |-> [kind |-> "bad"]]
    [] format # None /\ buffer = "pixels" ->
         [shared |-> [s EXCEPT !.next = @ + 1,
                               !.frame = [sequence |-> s.next + 1, format |-> format,
                                          page |-> source.page]],
          event |-> [kind |-> "ready", sequence |-> s.next + 1]]
    [] format # None /\ buffer = "unchanged" ->
         IF s.frame # None /\ s.frame.format = format
           THEN [shared |-> [s EXCEPT !.next = @ + 1],
                 event |-> [kind |-> "nodamage", sequence |-> s.next + 1]]
           ELSE [shared |-> s, event |-> [kind |-> "empty"]]

\* A buffer without bytes says that nothing changed since the last one.
Sendable(before, buffer) == buffer = "unchanged" => before = source.page

Buffers == {"pixels", "unchanged", "unreadable"}

\* on_process drains every buffer that has piled up; two here at most
Process(buffers) ==
  /\ Unlocked
  /\ Len(buffers) <= source.buffers
  /\ Sendable(source.sent, buffers[1])
  /\ source' = [source EXCEPT !.buffers = @ - Len(buffers), !.sends = @ + Len(buffers),
                              !.sent = source.page]
  /\ LET first == Read(shared, shared.negotiated, buffers[1])
     IN IF Len(buffers) = 1 THEN shared' = PushedMedia(first.shared, first.event)
        ELSE LET second == Read(first.shared, shared.negotiated, buffers[2])
             IN shared' = PushedMedia(second.shared, PreferMedia(first.event, second.event))
  /\ UNCHANGED call

Piles == {<<b>> : b \in Buffers} \union (Buffers \X Buffers)

\* what is shown scrolls or repaints
Moves ==
  /\ source.page < MaxPages
  /\ source' = [source EXCEPT !.page = @ + 1] /\ UNCHANGED <<shared, call>>

Producer ==
  \/ \E state \in States : StateChanges(state)
  \/ FormatClears \/ FormatRejects
  \/ \E format \in Formats : FormatAgrees(format)
  \/ \E buffers \in Piles : Process(buffers)
  \/ Moves

-----------------------------------------------------------------------------
(* capture_frame                                                           *)

Failed(phase) == phase \in {"gone", "stream", "format", "buffer", "timeout"}

Settled(life) == life.phase = "captured" \/ Failed(life.phase)

Lifecycles ==
  [phase : {"connecting", "streaming", "captured", "gone", "stream", "format", "buffer", "timeout"},
   format : Formats \union {None}, sequence : Nat \union {None}]

\* what Lifecycle::observe is told, and what may be queued besides
Events ==
  [kind : {"state"}, state : States] \union [kind : {"agreed"}, format : Formats] \union
  [kind : {"rejected", "bad"}] \union [kind : {"ready"}, sequence : Nat]

Queueable == Events \union [kind : {"empty"}] \union [kind : {"nodamage"}, sequence : Nat]

\* Lifecycle::observe
Observe(e) == [life \in Lifecycles |->
  CASE Settled(life) -> life
    [] ~Settled(life) /\ e.kind = "state" ->
         [life EXCEPT !.phase = CASE e.state = "streaming" -> "streaming"
                                  [] e.state = "error" -> "stream"
                                  [] e.state = "gone" -> "gone"
                                  [] e.state = "paused" -> @]
    [] ~Settled(life) /\ e.kind = "agreed" -> [life EXCEPT !.format = e.format, !.phase = "streaming"]
    [] ~Settled(life) /\ e.kind = "rejected" -> [life EXCEPT !.phase = "format"]
    [] ~Settled(life) /\ e.kind = "bad" -> [life EXCEPT !.phase = "buffer"]
    [] ~Settled(life) /\ e.kind = "ready" ->
         IF life.format = None THEN [life EXCEPT !.phase = "format"]
         ELSE [life EXCEPT !.sequence = e.sequence, !.phase = "captured"]]

\* FrameTimeline::is_fresh
Fresh(s, sequence) == sequence > s.delivered

\* what a queued event is worth to this call
Kept(s, e) ==
  CASE e.kind = "ready" -> Fresh(s, e.sequence)
    [] e.kind = "nodamage" -> /\ Fresh(s, e.sequence)
                              /\ s.frame # None /\ s.frame.format = s.negotiated
    [] e.kind = "empty" -> FALSE
    [] OTHER -> TRUE

IsTerminal(e) == e.kind = "state" /\ e.state \in Terminal

\* a state that ends the stream is observed before anything else
TerminalFirst(events) ==
  IF \A i \in DOMAIN events : ~IsTerminal(events[i]) THEN events
  ELSE LET i == CHOOSE i \in DOMAIN events : IsTerminal(events[i])
       IN [events EXCEPT ![1] = events[i], ![i] = events[1]]

\* normalize_events
Normalized(s) ==
  LET ready == [i \in DOMAIN s.events |->
        IF s.events[i].kind = "nodamage" THEN [s.events[i] EXCEPT !.kind = "ready"] ELSE s.events[i]]
  IN TerminalFirst(Selected(ready, {i \in DOMAIN s.events : Kept(s, s.events[i])}))

ObserveAll(life, events) ==
  LET upto[n \in 0..Len(events)] ==
        IF n = 0 THEN life ELSE Observe(events[n])[upto[n - 1]]
  IN upto[Len(events)]

\* a frame nobody took counts, whether its event is still queued or not
Pending(s) ==
  IF s.frame # None /\ Fresh(s, s.frame.sequence) /\ Queued(Normalized(s), {"ready"}) = {}
    THEN Append(Normalized(s), [kind |-> "ready", sequence |-> s.frame.sequence])
    ELSE Normalized(s)

\* the lifecycle of one call, up to its first wait
Resumed(s) ==
  LET existing == IF s.frame # None THEN s.frame.format ELSE s.negotiated
      begun == IF s.streamed /\ existing # None
                 THEN [NewLifecycle EXCEPT !.phase = "streaming", !.format = existing]
                 ELSE NewLifecycle
      state == [kind |-> "state", state |-> s.state]
      ended == IF s.state \in Terminal THEN Observe(state)[begun] ELSE begun
      told == IF ~s.streamed /\ existing # None
                THEN Observe([kind |-> "agreed", format |-> existing])[ended] ELSE ended
      observed == ObserveAll(told, Pending(s))
  IN IF s.state # None THEN Observe(state)[observed] ELSE observed

Outcome(life, page, error) ==
  [at |-> "returned", life |-> life, page |-> page, error |-> error]

\* gives up; what the callbacks left stays for another call
Leaves(life, error) ==
  call' = Outcome(life, None, error) /\ UNCHANGED <<source, shared>>

\* The end of wait_for_frame.  The sequence is asked for before the outcome, so
\* that every failure is reported as a frame without a sequence.
Concludes(life, events) ==
  LET s == [shared EXCEPT !.events = events]
      Fails(error) == call' = Outcome(life, None, error) /\ shared' = s /\ UNCHANGED source
  IN \/ life.sequence = None /\ Fails("unsequenced")
     \/ life.sequence # None /\ s.frame = None /\ Fails("no pixels")
     \/ /\ life.sequence # None /\ s.frame # None /\ s.frame.format # life.format
        /\ Fails("format changed")
     \/ /\ life.sequence # None /\ s.frame # None /\ s.frame.format = life.format
        /\ call' = Outcome(life, s.frame.page, None)
        /\ shared' = [s EXCEPT !.delivered = IF Fresh(s, life.sequence)
                                             THEN life.sequence ELSE @]
        /\ source' = [source EXCEPT !.taken = source.sends]

\* drains the queue, and waits unless that settles the call
Drains(life) ==
  \/ Settled(life) /\ Concludes(life, <<>>)
  \/ /\ ~Settled(life)
     /\ call' = [NoCall EXCEPT !.at = "waiting", !.life = life]
     /\ shared' = [shared EXCEPT !.events = <<>>]
     /\ UNCHANGED source

CaptureFrame(cancelled) ==
  /\ call.at = "idle"
  /\ \/ cancelled /\ Leaves(NewLifecycle, "cancelled")
     \/ ~cancelled /\ \E life \in {Resumed(shared)} : Drains(life)

\* signalled by a callback, or awake to look at its cancellation
Wakes(cancelled) ==
  /\ call.at = "waiting"
  /\ \/ cancelled /\ Leaves(call.life, "cancelled")
     \/ /\ ~cancelled /\ shared.events # <<>>
        /\ \E life \in {ObserveAll(call.life, Normalized(shared))} : Drains(life)

\* Mutant: no deadline before the stream has agreed on a format.
TimesOutWhileStreaming(cancelled) ==
  /\ call.at = "waiting" /\ ~cancelled /\ call.life.phase = "streaming"
  /\ Concludes([call.life EXCEPT !.phase = "timeout"], shared.events)

\* the deadline has passed, or the wait itself fails
TimesOut(cancelled) ==
  /\ call.at = "waiting" /\ ~cancelled
  /\ \/ Concludes([call.life EXCEPT !.phase = "timeout"], shared.events)
     \/ Leaves(call.life, "wait")

-----------------------------------------------------------------------------
(* Properties                                                              *)

StreamTypeOK ==
  /\ call.life \in Lifecycles /\ shared.events \in Seq(Queueable)
  /\ source.taken <= source.sends /\ source.page \in 0..MaxPages
  /\ shared.delivered <= shared.next
  /\ shared.negotiated \in Formats \union {None}
  /\ shared.state \in States \union {None}
  /\ shared.frame # None => /\ shared.frame.sequence <= shared.next
                             /\ shared.frame.format = shared.negotiated

Delivers == call.at # "returned" /\ call'.at = "returned" /\ call'.error = None

(* A frame is what the producer showed last, and is delivered only if the  *)
(* producer has sent something since the delivery before: neither a frame  *)
(* from before a buffer that could not be read, or before a change of      *)
(* format, nor the previous one again is taken for news.                   *)
FreshFrames == [][Delivers => /\ call'.page = source.sent
                              /\ source.sends > source.taken]_stream

(* A stream that has ended delivers nothing more, even if it is said to    *)
(* pause or to stream afterwards.                                          *)
DeadStaysDead == [][Delivers => ~source.ended]_stream

(* "Returns the lifecycle failure reported by the stream, including        *)
(* timeout, target disappearance, malformed buffers, and format rejection."*)
FailuresReported ==
  call.at = "returned" /\ Failed(call.life.phase) => call.error = call.life.phase
=============================================================================

------------------------------- MODULE Pipeline -------------------------------
(***************************************************************************)
(* The capture pipeline (apps/scrozz/src/gui/pipeline.rs).  The main thread*)
(* posts work; an acquisition thread takes pixels, an upload thread talks  *)
(* to the network, and a worker does the rest as the only writer of the    *)
(* history.  They share channels, the clipboard's turns, a budget of whole *)
(* frames, the acquisition gate and the pin states that wait to be stored. *)
(***************************************************************************)
EXTENDS ClipboardOrder, FiniteSets, SequencesExt

CONSTANTS
  None,
  Captures,   \* captures in history that can be pinned
  MaxFrames,  \* MAX_QUEUED_CAPTURE_FRAMES
  Workloads   \* how often the user may ask for each of Requests, and
              \* history refuse to store a pin

Requests == {"capture", "scroll", "accept", "copy", "upload", "pin", "refusal"}

ASSUME PipelineAssumption ==
  /\ MaxFrames \in Nat /\ IsFiniteSet(Captures)
  /\ None \notin Nat \union [gen : Nat, state : Nat]
  /\ \A w \in Workloads : DOMAIN w = Requests /\ \A r \in Requests : w[r] \in Nat

Threads == {"acquisition", "worker", "uploads"}

VARIABLES
  main,    \* where the main thread is, and the turn it holds
  left,    \* requests the user may still make, and refusals to come
  queue,   \* of each thread: jobs in its channel
  doing,   \* of each thread: its job and the step it has come to
  frames,  \* CaptureBudget: frames in flight
  busy,    \* AcquisitionGate
  cards,   \* of each card: how far its capture has come
  shares,  \* tickets of uploads whose link was made, and remembered
  pins,    \* of each capture: its pin, here and in history
  failed,  \* outcomes of pins that could not be created, or not be stored
  late     \* whether a thread was given up during stop

vars == <<latest, running, content, fate, main, left, queue, doing, frames, busy,
          cards, shares, pins, failed, late>>

pipes == <<queue, doing>>
captured == <<frames, busy, cards>>
pinned == <<pins, failed>>

Resting == [kind |-> "none", turn |-> 0]

\* A pin restored at startup is in history and its outcome on the way.
Restored(there) ==
  [gen |-> 0, visible |-> FALSE,  \* PinIntent
   newest |-> 0,                  \* its latest placement
   pending |-> None,              \* PendingPinUpdates
   settled |-> 0,                 \* pin_generations
   stored |-> IF there THEN 0 ELSE None,
   restoring |-> there,
   behind |-> None,               \* where a wake-up queued before it found it
   told |-> FALSE]                \* the user heard that it could not be stored

Init ==
  /\ ClipboardInit
  /\ main = [at |-> "running", turn |-> 0]
  /\ left \in Workloads
  /\ queue = [t \in Threads |-> <<>>]
  /\ doing = [t \in Threads |-> [job |-> Resting, step |-> "idle"]]
  /\ frames = 0 /\ busy = FALSE /\ cards = <<>>
  /\ shares = [linked |-> {}, remembered |-> {}]
  /\ \E there \in SUBSET Captures :
       /\ left["pin"] = 0 => there = {}
       /\ pins = [c \in Captures |-> Restored(c \in there)]
  /\ failed = <<>>
  /\ late = FALSE

-----------------------------------------------------------------------------
(* Channels                                                                *)

Stopped(t) == doing[t].step = "stopped"

Sent(t, job) == [queue EXCEPT ![t] = Append(@, job)]

Now(t, job, step) == [doing EXCEPT ![t] = [job |-> job, step |-> step]]

Done(t) == Now(t, Resting, "idle")

Step(t, step) == [doing EXCEPT ![t].step = step]

Idle(t) == doing[t].step = "idle" /\ queue[t] # <<>>

Popped(t) == [queue EXCEPT ![t] = Tail(@)]

Turns(jobs) == {jobs[i].turn : i \in DOMAIN jobs} \ {0}

\* Lets go of the turns of jobs that will not be done.
Retired(turns) == IF turns \ {0} = {} THEN UNCHANGED clipboard ELSE Retire(turns \ {0})

\* A turn is reserved if the settings copy captures.
Reserved(turn) ==
  \/ turn = 0 /\ UNCHANGED clipboard
  \/ turn = Issued + 1 /\ Reserve

-----------------------------------------------------------------------------
(* The main thread: what the user asks for                                 *)

Asks(request) ==
  /\ main.at = "running" /\ left[request] > 0
  /\ left' = [left EXCEPT ![request] = @ - 1]

\* Mutant: whoever asks gets a permit.
AlwaysRoom == TRUE

\* CaptureBudget::try_acquire
HasRoom == frames < MaxFrames

NewCard == Len(cards) + 1

Admitted(thread, kind, turn) ==
  /\ frames' = frames + 1 /\ cards' = Append(cards, "admitted")
  /\ queue' = Sent(thread, [kind |-> kind, turn |-> turn, card |-> NewCard])

PostCapture ==
  /\ Asks("capture")
  /\ ~busy /\ HasRoom /\ busy' = TRUE
  /\ \E turn \in {0, Issued + 1} :
       Reserved(turn) /\ Admitted("acquisition", "capture", turn)
  /\ UNCHANGED <<main, doing, shares, pins, failed, late>>

\* post_scrolling reserves its turn first ...
PostScrolling ==
  /\ Asks("scroll")
  /\ \E turn \in {0, Issued + 1} :
       Reserved(turn) /\ main' = [at |-> "scrolling", turn |-> turn]
  /\ UNCHANGED <<pipes, captured, shares, pinned, late>>

\* ... and may then be refused
AdmitScrolling ==
  /\ main.at = "scrolling" /\ main' = [at |-> "running", turn |-> 0]
  /\ \/ /\ ~busy /\ HasRoom /\ busy' = TRUE
        /\ Admitted("acquisition", "capture", main.turn)
        /\ UNCHANGED clipboard
     \/ /\ busy \/ ~HasRoom
        /\ Retired({main.turn})
        /\ UNCHANGED <<captured, queue>>
  /\ UNCHANGED <<left, doing, shares, pinned, late>>

AcceptCapture ==
  /\ Asks("accept")
  /\ HasRoom
  /\ \E turn \in {0, Issued + 1} :
       Reserved(turn) /\ Admitted("worker", "captured", turn)
  /\ UNCHANGED <<main, doing, busy, shares, pinned, late>>

\* post reserves a turn for every job that will write the clipboard
PostOrdered(kind) ==
  /\ Asks(kind)
  /\ Reserve
  /\ queue' = Sent("worker", [kind |-> kind, turn |-> Issued + 1])
  /\ UNCHANGED <<main, doing, captured, shares, pinned, late>>

-----------------------------------------------------------------------------
(* The main thread: pins                                                   *)

PinJob(kind, c, gen, state) ==
  [kind |-> kind, turn |-> 0, capture |-> c, gen |-> gen, state |-> state]

FlushPins == [kind |-> "flush", turn |-> 0]

Wakes(jobs) == \E i \in DOMAIN jobs : jobs[i].kind = "flush"

Intent(p, visible) == [p EXCEPT !.gen = @ + 1, !.visible = visible, !.told = FALSE]

PinCard(c) ==
  /\ Asks("pin") /\ ~pins[c].visible
  /\ LET made == pins[c].newest + 1
         behind == IF Wakes(queue["worker"]) THEN made ELSE None
         p == [Intent(pins[c], TRUE) EXCEPT !.newest = made, !.behind = behind]
     IN /\ pins' = [pins EXCEPT ![c] = p]
        /\ queue' = Sent("worker", PinJob("pincard", c, p.gen, made))
  /\ UNCHANGED <<clipboard, main, doing, captured, shares, failed, late>>

\* Mutant: asked once the new state is in.
AlreadyEmpty(before, after) == \A d \in Captures : after[d].pending = None

NeedsWakeup(before, after) == \A d \in Captures : before[d].pending = None

\* CardEvent::PinChanged, and PendingPinUpdates::queue; what it would refuse as
\* older than what is pending never comes, for generations only grow
PinChanged(c) ==
  /\ Asks("pin") /\ pins[c].visible
  /\ LET moved == pins[c].newest + 1 IN
     pins' = [pins EXCEPT ![c].newest = moved, ![c].told = FALSE,
                          ![c].pending = [gen |-> pins[c].gen, state |-> moved]]
  /\ queue' = IF NeedsWakeup(pins, pins') THEN Sent("worker", FlushPins) ELSE queue
  /\ UNCHANGED <<clipboard, main, doing, captured, shares, failed, late>>

\* PendingPinUpdates::cancel_through
CancelThrough(p, gen) ==
  IF p.pending = None THEN p
  ELSE IF p.pending.gen <= gen THEN [p EXCEPT !.pending = None]
  ELSE p

\* what closing a pin does, however it is closed
Closed(c, kind) ==
  LET p == Intent(pins[c], FALSE) IN
  /\ pins' = [pins EXCEPT ![c] = CancelThrough(p, p.gen)]
  /\ queue' = Sent("worker", PinJob(kind, c, p.gen, None))

Unpin(c) ==
  /\ Asks("pin")
  /\ Closed(c, "setpin")
  /\ UNCHANGED <<clipboard, main, doing, captured, shares, failed, late>>

\* a forwarded unpin waits for the worker's answer
TerminalUnpin(c) ==
  /\ Asks("pin")
  /\ Closed(c, "unpin")
  /\ main' = [main EXCEPT !.at = "unpinning"]
  /\ UNCHANGED <<clipboard, doing, captured, shares, failed, late>>

\* PinReady: a pin of an earlier session, unless it was closed meanwhile
PinReady(c) ==
  /\ main.at = "running" /\ pins[c].restoring
  /\ LET p == [pins[c] EXCEPT !.restoring = FALSE] IN
     pins' = [pins EXCEPT ![c] = IF p.gen = 0 THEN Intent(p, TRUE) ELSE p]
  /\ UNCHANGED <<clipboard, main, left, pipes, captured, shares, failed, late>>

Hears(kind) ==
  /\ main.at = "running" /\ failed # <<>> /\ Head(failed).kind = kind
  /\ failed' = Tail(failed)

PinCreationFailed ==
  /\ Hears("creation")
  /\ LET c == Head(failed).capture IN
     IF pins[c].visible /\ pins[c].gen = Head(failed).gen
       THEN Closed(c, "setpin")
       ELSE UNCHANGED <<pins, queue>>
  /\ UNCHANGED <<clipboard, main, left, doing, captured, shares, late>>

\* a note, and no second attempt
PinPersistenceFailed ==
  /\ Hears("persistence")
  /\ LET c == Head(failed).capture IN
     pins' = IF pins[c].gen = Head(failed).gen THEN [pins EXCEPT ![c].told = TRUE] ELSE pins
  /\ UNCHANGED <<clipboard, main, left, pipes, captured, shares, late>>

-----------------------------------------------------------------------------
(* The main thread: stop                                                   *)

\* The uploads are cancelled and joined ...
Stop ==
  /\ main.at = "running" /\ main' = [main EXCEPT !.at = "uploads"]
  /\ queue' = Sent("uploads", [kind |-> "stop", turn |-> 0])
  /\ UNCHANGED <<clipboard, left, doing, captured, shares, pinned, late>>

StopAcquisition ==
  /\ main.at = "uploads" /\ Stopped("uploads")
  /\ main' = [main EXCEPT !.at = "acquisition"]
  /\ queue' = Sent("acquisition", [kind |-> "stop", turn |-> 0])
  /\ UNCHANGED <<clipboard, left, doing, captured, shares, pinned, late>>

\* Mutant: the acquisition thread is joined however long it takes.
JoinPatiently(t) == Stopped(t) /\ late' = late

\* ... the others get five seconds each
Join(t) == late' = (late \/ ~Stopped(t))

StopWorker ==
  /\ main.at = "acquisition" /\ Join("acquisition")
  /\ main' = [main EXCEPT !.at = "worker"]
  /\ queue' = Sent("worker", [kind |-> "stop", turn |-> 0])
  /\ UNCHANGED <<clipboard, left, doing, captured, shares, pinned>>

Down ==
  /\ main.at = "worker" /\ Join("worker")
  /\ main' = [main EXCEPT !.at = "down"]
  /\ UNCHANGED <<clipboard, left, pipes, captured, shares, pinned>>

-----------------------------------------------------------------------------
(* A turn at the clipboard, on any thread                                  *)

AfterTurn(t) ==
  IF doing[t].job.kind \in {"capture", "captured"} THEN Step(t, "send") ELSE Done(t)

\* Mutant: the worker keeps away from the clipboard until a capture is over.
HasTurnAfterCapture(t) == doing[t].step = "turn" /\ (t = "worker" => ~busy)

HasTurn(t) == doing[t].step = "turn"

TakesTurn(t) ==
  /\ HasTurn(t)
  /\ LET n == doing[t].job.turn IN
     \/ n = 0 /\ UNCHANGED clipboard /\ doing' = AfterTurn(t)
     \/ n # 0 /\ Superseded(n) /\ doing' = AfterTurn(t)
     \/ n # 0 /\ Run(n) /\ doing' = Step(t, "writing")
  /\ UNCHANGED <<main, left, queue, captured, shares, pinned, late>>

Writes(t) ==
  /\ doing[t].step = "writing"
  /\ Finish(doing[t].job.turn) /\ doing' = AfterTurn(t)
  /\ UNCHANGED <<main, left, queue, captured, shares, pinned, late>>

\* Mutant: a capture that fails keeps its permit.
PermitKept(n) == frames

\* CapturePermit::drop, n times
Freed(n) == frames - n

\* A capture comes to nothing: its permit and its turn go with it.
CaptureFails(t) ==
  /\ doing' = Done(t) /\ frames' = Freed(1)
  /\ cards' = [cards EXCEPT ![doing[t].job.card] = "failed"]

-----------------------------------------------------------------------------
(* The acquisition thread                                                  *)

Acquires ==
  /\ Idle("acquisition") /\ queue' = Popped("acquisition")
  /\ LET job == Head(queue["acquisition"]) IN
     doing' = IF job.kind = "stop" THEN Now("acquisition", Resting, "stopped")
              ELSE Now("acquisition", job, "taking")
  /\ UNCHANGED <<clipboard, main, left, captured, shares, pinned, late>>

\* the user picks a target, the platform gives its pixels, they are encoded ...
TakesPixels ==
  /\ doing["acquisition"].step = "taking"
  /\ doing' = Step("acquisition", "turn")
  /\ UNCHANGED <<clipboard, main, left, queue, captured, shares, pinned, late>>

\* ... or any of it fails or is cancelled
AcquisitionFails ==
  /\ doing["acquisition"].step = "taking"
  /\ CaptureFails("acquisition") /\ busy' = FALSE
  /\ Retired({doing["acquisition"].job.turn})
  /\ UNCHANGED <<main, left, queue, shares, pinned, late>>

Finalization(card) == [kind |-> "finalize", turn |-> 0, card |-> card]

\* the permit goes on with the finalization
SendsFinalization ==
  /\ doing["acquisition"].step = "send"
  /\ LET card == doing["acquisition"].job.card IN
     \/ /\ ~Stopped("worker")
        /\ queue' = Sent("worker", Finalization(card))
        /\ doing' = Step("acquisition", "publish")
        /\ cards' = [cards EXCEPT ![card] = "queued"]
        /\ UNCHANGED <<frames, busy>>
     \/ /\ Stopped("worker")
        /\ CaptureFails("acquisition") /\ busy' = FALSE /\ UNCHANGED queue
  /\ UNCHANGED <<clipboard, main, left, shares, pinned, late>>

\* Ready is on its way to the main thread, the worker may finalize, and the
\* lease ends; all in vain for a frame the worker has left behind
Publishes ==
  /\ doing["acquisition"].step = "publish"
  /\ doing' = Done("acquisition") /\ busy' = FALSE
  /\ LET card == doing["acquisition"].job.card IN
     cards' = [cards EXCEPT ![card] = IF @ = "queued" THEN "ready" ELSE @]
  /\ UNCHANGED <<clipboard, main, left, queue, frames, shares, pinned, late>>

-----------------------------------------------------------------------------
(* The worker                                                              *)

Works(kinds) == Idle("worker") /\ Head(queue["worker"]).kind \in kinds

\* PNG encoding of an accepted capture, decoding of a copied one
Starts ==
  /\ Works({"captured", "copy", "finalize"})
  /\ queue' = Popped("worker")
  /\ doing' = Now("worker", Head(queue["worker"]),
                  IF Head(queue["worker"]).kind = "finalize" THEN "finalize" ELSE "turn")
  /\ UNCHANGED <<clipboard, main, left, captured, shares, pinned, late>>

StartFails ==
  /\ Works({"captured", "copy", "upload"})
  /\ LET job == Head(queue["worker"]) IN
     /\ queue' = Popped("worker") /\ Retired({job.turn})
     /\ IF job.kind = "captured"
          THEN /\ frames' = Freed(1)
               /\ cards' = [cards EXCEPT ![job.card] = "failed"]
          ELSE UNCHANGED <<frames, cards>>
  /\ UNCHANGED <<main, left, doing, busy, shares, pinned, late>>

\* accept_captured hands the rest to a later job of its own
Accepts ==
  /\ doing["worker"].step = "send"
  /\ LET card == doing["worker"].job.card IN
     /\ queue' = Sent("worker", Finalization(card))
     /\ cards' = [cards EXCEPT ![card] = "ready"]
  /\ doing' = Done("worker")
  /\ UNCHANGED <<clipboard, main, left, frames, busy, shares, pinned, late>>

\* published.recv
Published(card) == cards[card] = "ready"

Finalizes ==
  /\ doing["worker"].step = "finalize"
  /\ Published(doing["worker"].job.card)
  /\ cards' = [cards EXCEPT ![doing["worker"].job.card] = "final"]
  /\ frames' = Freed(1) /\ doing' = Done("worker")
  /\ UNCHANGED <<clipboard, main, left, queue, busy, shares, pinned, late>>

\* an upload needs no network here: it is handed on
HandsOnUpload ==
  /\ Works({"upload"})
  /\ LET job == Head(queue["worker"]) IN
     IF Stopped("uploads")
       THEN queue' = Popped("worker") /\ Retired({job.turn})
       ELSE /\ queue' = [Popped("worker") EXCEPT !["uploads"] = Append(@, job)]
            /\ UNCHANGED clipboard
  /\ UNCHANGED <<main, left, doing, captured, shares, pinned, late>>

RemembersShare ==
  /\ Works({"share"}) /\ queue' = Popped("worker")
  /\ shares' = [shares EXCEPT !.remembered = @ \union {Head(queue["worker"]).link}]
  /\ UNCHANGED <<clipboard, main, left, doing, captured, pinned, late>>

MayClaim(p, gen) == p.settled <= gen

\* claim_pin_generation, then the write to history
Claimed(p, gen, state) ==
  IF MayClaim(p, gen) THEN [p EXCEPT !.settled = gen, !.stored = state] ELSE p

\* Bound: a workload says how many pins are refused.
Refused(n) == n <= left["refusal"] /\ left' = [left EXCEPT !["refusal"] = @ - n]

Failure(kind, c, gen) == [kind |-> kind, capture |-> c, gen |-> gen]

\* who waits for the answer to a forwarded unpin goes on
Answered(job) == main' = IF job.kind = "unpin" THEN [main EXCEPT !.at = "running"] ELSE main

SetsPin ==
  /\ Works({"pincard", "setpin", "unpin"}) /\ queue' = Popped("worker")
  /\ LET job == Head(queue["worker"]) IN
     /\ pins' = [pins EXCEPT ![job.capture] = Claimed(@, job.gen, job.state)]
     /\ Answered(job)
  /\ UNCHANGED <<clipboard, left, doing, captured, shares, failed, late>>

\* who asks for an unpin gets the error
Unstored(p, job, shown) ==
  LET q == Claimed(p, job.gen, shown)
  IN IF job.kind = "unpin" THEN [q EXCEPT !.told = TRUE] ELSE q

\* a pin is not created, for its card does not own the capture, or history
\* refuses: it has no store, or fails before or after the sidecar was replaced
PinFails ==
  /\ Works({"pincard", "setpin", "unpin"}) /\ queue' = Popped("worker")
  /\ LET job == Head(queue["worker"])
         c == job.capture
     IN
     /\ MayClaim(pins[c], job.gen) /\ Refused(1) /\ Answered(job)
     /\ \E shown \in {pins[c].stored, job.state} :
          pins' = [pins EXCEPT ![c] = Unstored(@, job, shown)]
     /\ failed' =
          CASE job.kind = "pincard" -> Append(failed, Failure("creation", c, job.gen))
            [] job.kind = "setpin" -> Append(failed, Failure("persistence", c, job.gen))
            [] job.kind = "unpin" -> failed
  /\ UNCHANGED <<clipboard, doing, captured, shares, late>>

Settled(p) ==
  IF p.pending = None THEN p
  ELSE [Claimed(p, p.pending.gen, p.pending.state) EXCEPT !.pending = None]

\* Any of the writes may fail, and some of those show all the same;
\* PendingPinUpdates is a map without an order.
Flushes ==
  /\ Works({"flush"}) /\ queue' = Popped("worker")
  /\ \E lost \in SUBSET {c \in Captures : /\ pins[c].pending # None
                                          /\ MayClaim(pins[c], pins[c].pending.gen)} :
       /\ Refused(Cardinality(lost))
       /\ \E shown \in SUBSET lost :
            pins' = [c \in Captures |->
              IF c \in lost \ shown THEN [Settled(pins[c]) EXCEPT !.stored = pins[c].stored]
              ELSE Settled(pins[c])]
       /\ \E order \in Surjection(1..Cardinality(lost), lost) :
            failed' = failed \o [i \in 1..Cardinality(lost) |->
                                   Failure("persistence", order[i], pins[order[i]].pending.gen)]
  /\ UNCHANGED <<clipboard, main, doing, captured, shares, late>>

\* Stop only ends the waiting for more: what is queued is still done, and what
\* that queues in turn ...
WorkerStops ==
  /\ Works({"stop"}) /\ queue' = Popped("worker")
  /\ UNCHANGED <<clipboard, main, left, doing, captured, shares, pinned, late>>

Stopping ==
  /\ main.at \in {"worker", "down"}
  /\ \A i \in DOMAIN queue["worker"] : queue["worker"][i].kind # "stop"

\* Mutant: Stop ends the work.
LeavesAtStop == Stopping

MayLeave == Stopping /\ queue["worker"] = <<>>

WorkerLeaves ==
  /\ doing["worker"].step = "idle" /\ MayLeave
  /\ doing' = Step("worker", "leaving")
  /\ UNCHANGED <<clipboard, main, left, queue, captured, shares, pinned, late>>

\* ... until the channel closes, with what a thread given up has sent since
WorkerGone ==
  /\ doing["worker"].step = "leaving" /\ doing' = Step("worker", "stopped")
  /\ LET dropped == {queue["worker"][i].card : i \in
                       {i \in DOMAIN queue["worker"] : queue["worker"][i].kind = "finalize"}}
     IN /\ frames' = Freed(Cardinality(dropped))
        /\ cards' = [c \in DOMAIN cards |-> IF c \in dropped THEN "lost" ELSE cards[c]]
  /\ queue' = [queue EXCEPT !["worker"] = <<>>]
  /\ UNCHANGED <<clipboard, main, left, busy, shares, pinned, late>>

-----------------------------------------------------------------------------
(* The upload thread                                                       *)

Cancelled == main.at \notin {"running", "scrolling", "unpinning"}

\* Once cancelled it takes no more, and drops what waits with its channel.
UploadsNext ==
  /\ Idle("uploads")
  /\ LET job == Head(queue["uploads"]) IN
     IF job.kind = "stop" \/ Cancelled
       THEN /\ doing' = Now("uploads", Resting, "stopped")
            /\ queue' = [queue EXCEPT !["uploads"] = <<>>]
            /\ Retired(Turns(queue["uploads"]))
       ELSE /\ doing' = Now("uploads", job, "network") /\ queue' = Popped("uploads")
            /\ UNCHANGED clipboard
  /\ UNCHANGED <<main, left, captured, shares, pinned, late>>

\* the link is sent to history before it is copied; a link made earlier, which
\* history has heard of, is only copied
Uploads ==
  /\ doing["uploads"].step = "network" /\ doing' = Step("uploads", "turn")
  /\ LET n == doing["uploads"].job.turn IN
     \/ /\ shares' = [shares EXCEPT !.linked = @ \union {n}]
        /\ queue' = Sent("worker", [kind |-> "share", turn |-> 0, link |-> n])
     \/ shares.linked # {} /\ UNCHANGED <<shares, queue>>
  /\ UNCHANGED <<clipboard, main, left, captured, pinned, late>>

UploadFails ==
  /\ doing["uploads"].step = "network" /\ doing' = Done("uploads")
  /\ Retired({doing["uploads"].job.turn})
  /\ UNCHANGED <<main, left, queue, captured, shares, pinned, late>>

-----------------------------------------------------------------------------
Finished == main.at = "down" /\ UNCHANGED vars

Main ==
  \/ PostCapture \/ PostScrolling \/ AdmitScrolling \/ AcceptCapture
  \/ PostOrdered("copy") \/ PostOrdered("upload")
  \/ \E c \in Captures : PinCard(c) \/ PinChanged(c) \/ Unpin(c) \/ TerminalUnpin(c) \/ PinReady(c)
  \/ PinCreationFailed \/ PinPersistenceFailed
  \/ Stop \/ StopAcquisition \/ StopWorker \/ Down

Acquisition ==
  \/ Acquires \/ SendsFinalization \/ Publishes
  \/ TakesTurn("acquisition") \/ Writes("acquisition")

Pixels == TakesPixels \/ AcquisitionFails

Worker ==
  \/ Starts \/ StartFails \/ Accepts \/ Finalizes \/ HandsOnUpload \/ RemembersShare
  \/ SetsPin \/ PinFails \/ Flushes \/ WorkerStops \/ WorkerLeaves \/ WorkerGone
  \/ TakesTurn("worker") \/ Writes("worker")

Uploading ==
  \/ UploadsNext \/ Uploads \/ UploadFails
  \/ TakesTurn("uploads") \/ Writes("uploads")

Next == Main \/ Acquisition \/ Pixels \/ Worker \/ Uploading \/ Finished

Spec == Init /\ [][Next]_vars

\* Threads run; the network and the clipboard answer, if only with an error; a
\* stop that has begun goes on.  The user need not pick what to capture.
Fairness ==
  /\ WF_vars(Acquisition) /\ WF_vars(Worker) /\ WF_vars(Uploading)
  /\ WF_vars(StopAcquisition \/ StopWorker \/ Down)

FairSpec == Spec /\ Fairness

-----------------------------------------------------------------------------
(* Properties                                                              *)

Jobs(t) == {queue[t][i] : i \in DOMAIN queue[t]} \union {doing[t].job}

\* Every variable keeps to its type, and whole frames to their budget.
TypeOK ==
  /\ main.at \in {"running", "scrolling", "unpinning", "uploads", "acquisition", "worker", "down"}
  /\ main.turn \in 0..Issued
  /\ frames \in 0..MaxFrames /\ busy \in BOOLEAN /\ late \in BOOLEAN
  /\ \A t \in Threads : \A job \in Jobs(t) : job.turn \in 0..Issued
  /\ \A t \in Threads : doing[t].step \in
       {"idle", "taking", "network", "turn", "writing", "send", "publish", "finalize",
        "leaving", "stopped"}
  /\ \A n \in DOMAIN cards :
       cards[n] \in {"admitted", "queued", "ready", "final", "failed", "lost"}
  /\ shares.remembered \subseteq shares.linked /\ shares.linked \subseteq 1..Issued
  /\ \A c \in Captures : pins[c].settled <= pins[c].gen

\* cards whose pixels a thread has, in its channel or at hand
InHand ==
  UNION {{job.card : job \in {j \in Jobs(t) : j.kind \in {"capture", "captured", "finalize"}}}
           : t \in Threads}

\* Every frame in flight is counted once, on whatever thread it is, and every
\* card whose capture has neither ended nor failed is still on one.
Accounted ==
  /\ frames = Cardinality({n \in InHand : cards[n] # "final" /\ cards[n] # "lost"})
  /\ \A n \in DOMAIN cards : cards[n] \in {"admitted", "queued", "ready"} => n \in InHand
  /\ busy <=> \E job \in Jobs("acquisition") : job.kind = "capture"

\* pins about which nothing more is on its way
Quiet(c) ==
  /\ \A job \in Jobs("worker") :
       /\ job.kind # "flush"
       /\ job.kind \in {"pincard", "setpin", "unpin"} => job.capture # c
  /\ \A i \in DOMAIN failed : failed[i].capture # c

\* Once the worker is through, either the user has heard that what was last
\* asked of a pin could not be stored, or history shows the pin where the user
\* last put it, and none that was closed.  What does not hold of the code is
\* left out by name: a pin made while a wake-up was queued may go back to where
\* it was made (behind), though the user moved it since and nothing failed.
PinsSettle ==
  \A c \in Captures :
    LET p == pins[c] IN
    p.gen > 0 /\ Quiet(c) /\ ~p.told =>
      IF p.visible THEN p.stored # None /\ p.stored \in {p.newest, p.behind}
                   ELSE p.stored = None

\* "Their store updates now precede this terminal fence on the sole writer": a
\* stop that gave up no thread leaves no frame and no link behind.
FencedByStop ==
  main.at = "down" /\ ~late =>
    /\ \A n \in DOMAIN cards : cards[n] \in {"final", "failed"}
    /\ shares.remembered = shares.linked
    /\ \A n \in DOMAIN fate : fate[n] \in {"written", "refused", "dropped"}

\* Threads that wait for one another at the clipboard all get their turn, or
\* hear that somebody newer wants it.
TurnsResolve ==
  \A t \in Threads : doing[t].step \in {"turn", "writing"} ~> doing[t].step \notin {"turn", "writing"}

\* Stopping returns, whatever the threads are at.
StopReturns == main.at = "uploads" ~> main.at = "down"
=============================================================================

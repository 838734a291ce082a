------------------------------ MODULE Forwarding ------------------------------
(***************************************************************************)
(* Commands forwarded to the running instance (apps/scrozz: main.rs,       *)
(* ipc.rs, gui/server.rs, gui/app.rs).  A client probes the socket and     *)
(* runs its command alone when nobody answers.  Otherwise the listener     *)
(* thread takes one connection at a time, queues its request for the main  *)
(* thread and waits for the reply; the main thread serves it, parks it     *)
(* until a recording ends, or hands it to the forwarder thread, whose      *)
(* results it must admit before they are answered.  Every wait but the     *)
(* user's has a time limit, and shutting down joins both threads.          *)
(***************************************************************************)
EXTENDS Naturals, Sequences, FiniteSets

CONSTANTS
  Clients, None,
  Kinds,        \* kinds of command that occur, of AllKinds
  Frames,       \* MAX_QUEUED_CAPTURE_FRAMES
  MaxTimeouts,  \* how many of the five-minute waits may run out
  MaxRecordings \* recordings the user starts

AllKinds == {"capture", "query", "show", "stop"}

\* what an exchange tells its client
Told == {"ok", "error"}

ASSUME ForwardingAssumption ==
  /\ None \notin Clients \union Told
  /\ Kinds \subseteq AllKinds
  /\ Frames \in Nat \ {0} /\ MaxTimeouts \in Nat /\ MaxRecordings \in Nat

VARIABLES
  kind,        \* what each client asks for
  status,      \* where each client is, and in the end what it was told
  backlog,     \* connections the listener has not accepted
  serving,     \* client the listener waits for; "accept" or "gone" otherwise
  queue,       \* the one-deep queue to the main thread
  reply,       \* reply channel of the request the listener waits for
  jobs,        \* queue of the forwarder thread; None is ForwardJob::Stop
  worker,      \* what the forwarder thread does, and for whom
  admissions,  \* commands the forwarder wants admitted, not yet polled
  pending,     \* polled and not yet admitted
  outcome,     \* answer channel of the admission the forwarder waits for
  frames,      \* captures in the pipeline
  recording,   \* phase of the recording machine
  parked,      \* clients waiting for the recording to end
  phase,       \* of the main thread, through shut_down
  ran, alone,  \* commands the instance executed; commands run by their client
  taken,       \* captures the pipeline accepted
  ended,       \* parked clients whose recording has ended
  spent        \* timeouts and recordings, against their bounds

clientVars == <<kind, status, alone>>
recordingVars == <<recording, parked, ended>>
vars == <<clientVars, backlog, serving, queue, reply, jobs, worker, admissions,
          pending, outcome, frames, recordingVars, phase, ran, taken, spent>>

Init ==
  /\ kind \in [Clients -> Kinds]
  /\ status = [c \in Clients |-> "new"]
  /\ backlog = <<>> /\ serving = "accept" /\ queue = <<>> /\ reply = None
  /\ jobs = <<>> /\ worker = [at |-> "idle", for |-> None]
  /\ admissions = <<>> /\ pending = <<>> /\ outcome = None
  /\ frames = 0 /\ recording = "idle" /\ parked = {} /\ ended = {}
  /\ phase = "running"
  /\ ran = {} /\ alone = {} /\ taken = {}
  /\ spent = [timeout |-> 0, recording |-> 0]

-----------------------------------------------------------------------------
(* The client: main.rs try_forward, ipc.rs probe and forward               *)

Listening == serving # "gone"

\* the five-minute limits; each may run out before the wait it bounds ends
Expires ==
  /\ spent.timeout < MaxTimeouts
  /\ spent' = [spent EXCEPT !.timeout = @ + 1]

\* Mutant: a client whose forwarding failed runs its command after all.
RunsAlone(cs) ==
  /\ status' = [c \in Clients |-> IF c \in cs THEN "local" ELSE status[c]]
  /\ alone' = alone \union cs

\* The exchange ends without a reply: the client reports an IPC error, which
\* is all it does, since an accepted command may have run.
Fails(cs) ==
  /\ status' = [c \in Clients |-> IF c \in cs THEN "failed" ELSE status[c]]
  /\ alone' = alone

\* Forwarding::Require for a stop, Forwarding::Prefer for the rest
Probe(c) ==
  /\ status[c] = "new"
  /\ \/ /\ Listening
        /\ status' = [status EXCEPT ![c] = "probed"] /\ UNCHANGED alone
     \/ /\ ~Listening /\ kind[c] = "stop"
        /\ status' = [status EXCEPT ![c] = "error"] /\ UNCHANGED alone
     \/ /\ ~Listening /\ kind[c] # "stop"
        /\ status' = [status EXCEPT ![c] = "local"] /\ alone' = alone \union {c}
  /\ UNCHANGED <<kind, backlog, serving, queue, reply, jobs, worker, admissions,
                 pending, outcome, frames, recordingVars, phase, ran, taken, spent>>

\* forward: connect, and send the request into the connection
Connect(c) ==
  /\ status[c] = "probed"
  /\ \/ /\ Listening
        /\ status' = [status EXCEPT ![c] = "waiting"] /\ UNCHANGED alone
        /\ backlog' = Append(backlog, c)
     \/ ~Listening /\ Fails({c}) /\ UNCHANGED backlog
  /\ UNCHANGED <<kind, serving, queue, reply, jobs, worker, admissions,
                 pending, outcome, frames, recordingVars, phase, ran, taken, spent>>

\* no response frame within COMMAND_TIMEOUT
GiveUp(c) ==
  /\ status[c] = "waiting" /\ Expires /\ Fails({c})
  /\ UNCHANGED <<kind, backlog, serving, queue, reply, jobs, worker, admissions,
                 pending, outcome, frames, recordingVars, phase, ran, taken>>

-----------------------------------------------------------------------------
(* The listener: unix_worker, serve_connection                             *)

Stopping == phase \notin {"running", "settling"}

listenerKeeps == UNCHANGED <<kind, jobs, worker, admissions, pending, outcome,
                             frames, recordingVars, phase, ran, taken>>

\* The next connection's request is read and queued; a full queue is answered
\* at once.  The request of a client that has gone may be in the socket or not.
Accept ==
  /\ serving = "accept" /\ ~Stopping /\ backlog # <<>>
  /\ backlog' = Tail(backlog)
  /\ LET c == Head(backlog) IN
     \/ /\ queue = <<>>
        /\ queue' = <<c>> /\ serving' = c /\ reply' = None
        /\ UNCHANGED <<status, alone>>
     \/ /\ queue # <<>> /\ status[c] = "waiting"
        /\ status' = [status EXCEPT ![c] = "error"]
        /\ UNCHANGED <<alone, queue, serving, reply>>
     \/ /\ status[c] # "waiting"
        /\ UNCHANGED <<status, alone, queue, serving, reply>>
  /\ UNCHANGED spent /\ listenerKeeps

\* the reply, or an error once COMMAND_TIMEOUT is over, goes to the client
Deliver ==
  /\ serving \in Clients /\ ~Stopping
  /\ \E answer \in Told :
       /\ \/ reply = answer /\ UNCHANGED spent
          \/ reply = None /\ answer = "error" /\ Expires
       /\ status' = [status EXCEPT ![serving] = IF @ = "waiting" THEN answer ELSE @]
  /\ serving' = "accept" /\ reply' = None
  /\ UNCHANGED <<alone, backlog, queue>> /\ listenerKeeps

\* The stop flag is seen wherever the listener waits or transfers: the
\* connection it serves and those it never accepted are closed.
StopListening ==
  /\ Listening /\ Stopping
  /\ serving' = "gone" /\ reply' = None /\ backlog' = <<>>
  /\ Fails({c \in Clients : status[c] = "waiting"})
  /\ UNCHANGED <<queue, spent>> /\ listenerKeeps

-----------------------------------------------------------------------------
(* Replies, from the main thread or the forwarder                          *)

\* a reply to a request nobody waits for any more is dropped
Answer(cs, answer) ==
  reply' = IF serving \in cs /\ reply = None THEN answer ELSE reply

-----------------------------------------------------------------------------
(* The main thread: drain_server                                           *)

serverKeeps == UNCHANGED <<clientVars, backlog, serving, admissions, pending,
                           outcome, phase, spent>>

\* history show and the pin commands are served in place, a stop is parked, the
\* rest is the forwarder's
Serve ==
  /\ phase = "running" /\ queue # <<>>
  /\ queue' = <<>>
  /\ LET c == Head(queue) IN
     \/ /\ kind[c] = "show" /\ ran' = ran \union {c}
        /\ \E answer \in Told : Answer({c}, answer)
        /\ UNCHANGED <<jobs, recordingVars>>
     \/ /\ kind[c] = "stop" /\ recording = "recording"
        /\ recording' = "finalising" /\ parked' = parked \union {c}
        /\ ran' = ran \union {c}
        /\ UNCHANGED <<jobs, reply, ended>>
     \/ /\ kind[c] = "stop" /\ recording # "recording"
        /\ Answer({c}, "error")
        /\ UNCHANGED <<jobs, recordingVars, ran>>
     \/ /\ kind[c] \in {"capture", "query"}
        /\ jobs' = Append(jobs, c)
        /\ UNCHANGED <<reply, recordingVars, ran>>
  /\ UNCHANGED <<worker, frames, taken>> /\ serverKeeps

Record ==
  /\ phase = "running" /\ recording = "idle"
  /\ spent.recording < MaxRecordings
  /\ spent' = [spent EXCEPT !.recording = @ + 1]
  /\ recording' = "recording"
  /\ UNCHANGED <<clientVars, backlog, serving, queue, reply, jobs, worker, admissions,
                 pending, outcome, frames, parked, ended, phase, ran, taken>>

\* finish_pending_recording, reply_waiters: whoever waits is told how it ended
Finish ==
  /\ phase = "running" /\ recording = "finalising"
  /\ recording' = "idle" /\ parked' = {} /\ ended' = ended \union parked
  /\ \E answer \in Told : Answer(parked, answer)
  /\ UNCHANGED <<queue, jobs, worker, frames, ran, taken>> /\ serverKeeps

PollAdmission ==
  /\ phase = "running" /\ admissions # <<>>
  /\ admissions' = Tail(admissions) /\ pending' = Append(pending, Head(admissions))
  /\ UNCHANGED <<clientVars, backlog, serving, queue, reply, jobs, worker, outcome,
                 frames, recordingVars, phase, ran, taken, spent>>

\* Admission::complete; the forwarder may have stopped waiting
Decide(c, verdict) ==
  outcome' = IF worker = [at |-> "admit", for |-> c] THEN verdict ELSE outcome

\* Mutant: the pipeline's budget of queued frames is not asked.
AdmitWithoutRoom ==
  /\ phase = "running" /\ pending # <<>>
  /\ pending' = Tail(pending)
  /\ frames' = frames + 1 /\ taken' = taken \union {Head(pending)}
  /\ Decide(Head(pending), "ok")
  /\ UNCHANGED <<clientVars, backlog, serving, queue, reply, jobs, worker, admissions,
                 recordingVars, phase, ran, spent>>

\* A capture waits at the head until the pipeline has room for its frame.
Admit ==
  /\ phase = "running" /\ pending # <<>>
  /\ pending' = Tail(pending)
  /\ LET c == Head(pending) IN
     \/ /\ kind[c] = "capture" /\ frames < Frames
        /\ frames' = frames + 1 /\ taken' = taken \union {c}
        /\ Decide(c, "ok")
     \/ /\ kind[c] = "capture" /\ frames < Frames
        /\ Decide(c, "error") /\ UNCHANGED <<frames, taken>>
     \/ /\ kind[c] # "capture"
        /\ Decide(c, "ok") /\ UNCHANGED <<frames, taken>>
  /\ UNCHANGED <<clientVars, backlog, serving, queue, reply, jobs, worker, admissions,
                 recordingVars, phase, ran, spent>>

\* the pipeline is done with a frame
Release ==
  /\ frames > 0 /\ frames' = frames - 1
  /\ UNCHANGED <<clientVars, backlog, serving, queue, reply, jobs, worker, admissions,
                 pending, outcome, recordingVars, phase, ran, taken, spent>>

-----------------------------------------------------------------------------
(* The forwarder thread: Forwarder::start, serve_with_selector,            *)
(* admit_on_main_thread                                                    *)

workerKeeps == UNCHANGED <<clientVars, backlog, serving, queue, pending, frames,
                           recordingVars, phase, taken>>

Works(label, c) == worker' = [at |-> label, for |-> c]

\* the selector is cancelled and the forwarder's stop flag raised
Released == phase \in {"joining", "down"}

Take ==
  /\ worker.at = "idle" /\ jobs # <<>>
  /\ jobs' = Tail(jobs)
  /\ LET c == Head(jobs) IN
     IF c = None THEN Works("gone", None)
     ELSE Works(IF kind[c] = "capture" THEN "select" ELSE "run", c)
  /\ UNCHANGED <<reply, admissions, outcome, ran, spent>> /\ workerKeeps

\* the user picks a target, which takes as long as it takes
Pick ==
  /\ worker.at = "select" /\ ~Stopping
  /\ Works("shutter", worker.for)
  /\ UNCHANGED <<reply, jobs, admissions, outcome, ran, spent>> /\ workerKeeps

\* the user cancels, or the selector was cancelled by shut_down
Cancelled ==
  /\ worker.at = "select" /\ (~Stopping \/ Released)
  /\ Works("idle", None) /\ Answer({worker.for}, "error")
  /\ UNCHANGED <<jobs, admissions, outcome, ran, spent>> /\ workerKeeps

\* announce_shutter: the main thread's acknowledgement, or two seconds
Shutter ==
  /\ worker.at = "shutter"
  /\ Works("run", worker.for)
  /\ UNCHANGED <<reply, jobs, admissions, outcome, ran, spent>> /\ workerKeeps

\* Mutant: the client hears of the capture before the app has taken it.
RunThenReply ==
  /\ worker.at = "run"
  /\ ran' = ran \union {worker.for}
  /\ Works("admit", worker.for) /\ Answer({worker.for}, "ok")
  /\ admissions' = Append(admissions, worker.for) /\ outcome' = None
  /\ UNCHANGED <<jobs, spent>> /\ workerKeeps

\* the command runs; only its success needs the main thread
Run ==
  /\ worker.at = "run"
  /\ ran' = ran \union {worker.for}
  /\ \/ /\ Works("admit", worker.for)
        /\ admissions' = Append(admissions, worker.for) /\ outcome' = None
        /\ UNCHANGED reply
     \/ /\ Works("idle", None) /\ Answer({worker.for}, "error")
        /\ UNCHANGED <<admissions, outcome>>
  /\ UNCHANGED <<jobs, spent>> /\ workerKeeps

\* Mutant: the forwarder does not look at its stop flag while it waits.
AdmittedOnly ==
  /\ worker.at = "admit" /\ outcome # None
  /\ Works("idle", None) /\ Answer({worker.for}, outcome)
  /\ outcome' = None
  /\ UNCHANGED <<jobs, admissions, ran, spent>> /\ workerKeeps

\* the main thread's verdict, the stop flag, or COMMAND_TIMEOUT
Admitted ==
  /\ worker.at = "admit"
  /\ \E answer \in Told :
       /\ \/ outcome = answer /\ UNCHANGED spent
          \/ Released /\ answer = "error" /\ UNCHANGED spent
          \/ outcome = None /\ answer = "error" /\ Expires
       /\ Works("idle", None) /\ Answer({worker.for}, answer)
  /\ outcome' = None
  /\ UNCHANGED <<jobs, admissions, ran>> /\ workerKeeps

-----------------------------------------------------------------------------
(* shut_down, on the main thread                                           *)

Quit ==
  /\ phase = "running" /\ phase' = "settling"
  /\ UNCHANGED <<clientVars, backlog, serving, queue, reply, jobs, worker, admissions,
                 pending, outcome, frames, recordingVars, ran, taken, spent>>

\* settle_recording_before_shutdown; then the server is dropped
Settle ==
  /\ phase = "settling" /\ phase' = "closing"
  /\ recording' = "idle" /\ parked' = {} /\ ended' = ended \union parked
  /\ \E answer \in Told : Answer(parked, answer)
  /\ UNCHANGED <<clientVars, backlog, serving, queue, jobs, worker, admissions,
                 pending, outcome, frames, ran, taken, spent>>

\* The listener has been joined and the queue dropped with it; the selector is
\* cancelled, what is pending refused, and Stop queued behind the jobs.
Close ==
  /\ phase = "closing" /\ ~Listening /\ phase' = "joining"
  /\ queue' = <<>> /\ pending' = <<>>
  /\ outcome' = IF worker.at = "admit" /\ \E i \in DOMAIN pending : pending[i] = worker.for
                THEN "error" ELSE outcome
  /\ jobs' = Append(jobs, None)
  /\ UNCHANGED <<clientVars, backlog, serving, reply, worker, admissions, frames,
                 recordingVars, ran, taken, spent>>

\* Mutant: the application ends without joining its forwarder.
DownAtOnce ==
  /\ phase = "joining" /\ phase' = "down"
  /\ UNCHANGED <<clientVars, backlog, serving, queue, reply, jobs, worker, admissions,
                 pending, outcome, frames, recordingVars, ran, taken, spent>>

Down ==
  /\ phase = "joining" /\ worker.at = "gone" /\ phase' = "down"
  /\ UNCHANGED <<clientVars, backlog, serving, queue, reply, jobs, worker, admissions,
                 pending, outcome, frames, recordingVars, ran, taken, spent>>

\* the instance and every client have exited
Ended ==
  /\ phase = "down" /\ frames = 0
  /\ \A c \in Clients : status[c] \in Told \union {"failed", "local"}
  /\ UNCHANGED vars

-----------------------------------------------------------------------------
Listener == Accept \/ Deliver \/ StopListening
Worker == Take \/ Cancelled \/ Shutter \/ Run \/ Admitted
Main == Serve \/ Finish \/ PollAdmission \/ Admit \/ Settle \/ Close \/ Down

Next ==
  \/ \E c \in Clients : Probe(c) \/ Connect(c) \/ GiveUp(c)
  \/ Listener \/ Worker \/ Main \/ Pick \/ Record \/ Release \/ Quit \/ Ended

Spec == Init /\ [][Next]_vars

\* The threads are scheduled, the user is not: nothing makes anyone pick a
\* target, start a recording or quit, and no five-minute limit is relied on.
Fairness ==
  /\ WF_vars(Main) /\ WF_vars(StopListening)
  /\ WF_vars(Accept \/ (reply # None /\ Deliver))
  /\ WF_vars(\/ Take \/ Shutter \/ Run
             \/ outcome # None /\ Admitted
             \/ Released /\ (Cancelled \/ Admitted))

FairSpec == Spec /\ Fairness

-----------------------------------------------------------------------------
(* Properties                                                              *)

\* Every variable keeps to its type, and only the request the listener waits
\* for has a reply.
TypeOK ==
  /\ kind \in [Clients -> Kinds]
  /\ status \in [Clients -> Told \union {"new", "probed", "waiting", "failed", "local"}]
  /\ backlog \in Seq(Clients) /\ queue \in Seq(Clients) /\ Len(queue) <= 1
  /\ serving \in Clients \union {"accept", "gone"}
  /\ reply \in Told \union {None} /\ (serving \notin Clients => reply = None)
  /\ jobs \in Seq(Clients \union {None})
  /\ worker \in [at : {"idle", "select", "shutter", "run", "admit", "gone"},
                 for : Clients \union {None}]
  /\ admissions \in Seq(Clients) /\ pending \in Seq(Clients)
  /\ outcome \in Told \union {None}
  /\ frames \in 0..Frames
  /\ recording \in {"idle", "recording", "finalising"}
  /\ parked \subseteq Clients /\ ended \subseteq Clients
  /\ phase \in {"running", "settling", "closing", "joining", "down"}
  /\ ran \subseteq Clients /\ alone \subseteq Clients /\ taken \subseteq Clients
  /\ spent \in [timeout : Nat, recording : Nat]

\* "A caller is never told a capture succeeded that the app then refused", nor
\* that a recording stopped which has not ended, whatever times out and
\* whoever's reply comes late.
OkMeansDone ==
  \A c \in Clients : status[c] = "ok" =>
    /\ c \in ran
    /\ kind[c] = "capture" => c \in taken
    /\ kind[c] = "stop" => c \in ended

\* No command runs both in the instance and in its own process: "callers
\* surface transport failures rather than retrying locally and risking
\* duplicate side effects".
NeverTwice == ran \intersect alone = {}

\* Once shut_down has returned nothing runs in the instance any more.
QuietAfterDown == [][phase = "down" => UNCHANGED <<ran, taken>>]_vars

\* A quit completes, and nobody is left waiting for the instance, though the
\* user touches nothing any more and none of the five-minute limits is used.
QuitCompletes ==
  phase # "running" ~> phase = "down" /\ \A c \in Clients : status[c] # "waiting"

\* A reply handed to the transport reaches the client that still waits for it;
\* answer_and_wait_delivery is there for a caller about to drop the server.
ReplyReachesClient ==
  [][\A c \in Clients : serving = c /\ reply # None /\ status[c] = "waiting"
       => status'[c] # "failed"]_vars
=============================================================================

--------------------------- MODULE ForwardingProofs ---------------------------
(***************************************************************************)
(* That a forwarded command is reported done only if it is, never runs     *)
(* twice, and that nothing runs once the application is down: for every    *)
(* number of clients, timeouts, frames and recordings.                     *)
(***************************************************************************)
EXTENDS Forwarding, SequenceTheorems, TLAPS

-----------------------------------------------------------------------------
(* The inductive invariant                                                 *)

\* the clients that have sent their request to the instance
Past == {c \in Clients : status[c] \notin {"new", "probed", "local"}}

\* those among them whose command is the forwarder's
Errands == {c \in Past : kind[c] \in {"capture", "query"}}

Busy == {"select", "shutter", "run", "admit"}

\* only what was sent is anywhere in the instance
Sent ==
  /\ backlog \in Seq(Past) /\ queue \in Seq(Past)
  /\ jobs \in Seq(Errands \union {None})
  /\ worker.at \in Busy => worker.for \in Errands
  /\ admissions \in Seq(Errands) /\ pending \in Seq(Errands)
  /\ ran \subseteq Past

AloneLocal == \A c \in alone : status[c] = "local"

Done(c) ==
  c \in ran /\ (kind[c] = "capture" => c \in taken) /\ (kind[c] = "stop" => c \in ended)

\* where a success waits to be told, the command is done
Answers ==
  /\ reply = "ok" => Done(serving)
  /\ worker.at = "admit" => worker.for \in ran /\ (outcome = "ok" => Done(worker.for))
  /\ parked \subseteq {c \in ran : kind[c] = "stop"}
  /\ \A c \in Clients : status[c] = "ok" => Done(c)

Gone == phase = "down" => worker.at = "gone"

IInv == TypeOK /\ Sent /\ AloneLocal /\ Answers /\ Gone

-----------------------------------------------------------------------------
(* Lemmas                                                                  *)

USE ForwardingAssumption DEF Told

LEMMA PastGrows ==
  ASSUME IInv, kind' = kind, Past \subseteq Past'
  PROVE  /\ backlog \in Seq(Past') /\ queue \in Seq(Past')
         /\ jobs \in Seq(Errands' \union {None})
         /\ worker.at \in Busy => worker.for \in Errands'
         /\ admissions \in Seq(Errands') /\ pending \in Seq(Errands')
         /\ ran \subseteq Past'
<1>1. Errands \subseteq Errands' BY DEF Errands
<1>2. Errands \union {None} \subseteq Errands' \union {None} BY <1>1
<1>3. /\ backlog \in Seq(Past) /\ queue \in Seq(Past) /\ jobs \in Seq(Errands \union {None})
      /\ admissions \in Seq(Errands) /\ pending \in Seq(Errands)
  BY DEF IInv, Sent
<1>4. backlog \in Seq(Past') /\ queue \in Seq(Past') BY <1>3, SeqMonotonic
<1>5. jobs \in Seq(Errands' \union {None}) BY <1>2, <1>3, SeqMonotonic
<1>6. admissions \in Seq(Errands') /\ pending \in Seq(Errands') BY <1>1, <1>3, SeqMonotonic
<1> QED BY <1>1, <1>4, <1>5, <1>6 DEF IInv, Sent

LEMMA ExpiresTyped ==
  ASSUME IInv, Expires PROVE spent' \in [timeout : Nat, recording : Nat]
<1>1. spent \in [timeout : Nat, recording : Nat] BY DEF IInv, TypeOK
<1>2. spent' = [spent EXCEPT !.timeout = @ + 1] BY DEF Expires
<1> QED BY <1>1, <1>2

LEMMA OneLong ==
  ASSUME NEW S, NEW e \in S PROVE <<e>> \in Seq(S) /\ Len(<<e>>) = 1
  OBVIOUS

LEMMA ProbeKeeps == ASSUME IInv, NEW c \in Clients, Probe(c) PROVE IInv'
<1> USE DEF clientVars, recordingVars
<1>0. UNCHANGED <<kind, backlog, serving, queue, reply, jobs, worker, admissions,
                 pending, outcome, frames, recordingVars, phase, ran, taken, spent>>
  BY DEF Probe
<1>1. TypeOK'
  <2>1. status' \in [Clients -> Told \union {"new", "probed", "waiting", "failed", "local"}]
    BY DEF IInv, TypeOK, Probe
  <2>2. alone' \subseteq Clients BY DEF IInv, TypeOK, Probe
  <2> QED BY <1>0, <2>1, <2>2 DEF IInv, TypeOK
<1>2. Past \subseteq Past' BY DEF IInv, TypeOK, Probe, Past
<1>3. Sent' BY <1>0, <1>2, PastGrows DEF Sent
<1>4. AloneLocal' BY DEF IInv, TypeOK, Probe, AloneLocal
<1>5. Answers' BY <1>0 DEF IInv, TypeOK, Probe, Answers, Done
<1>6. Gone' BY <1>0 DEF IInv, Gone
<1> QED BY <1>1, <1>3, <1>4, <1>5, <1>6 DEF IInv

LEMMA ConnectKeeps == ASSUME IInv, NEW c \in Clients, Connect(c) PROVE IInv'
<1> USE DEF clientVars, recordingVars, Fails
<1>0. UNCHANGED <<kind, serving, queue, reply, jobs, worker, admissions,
                 pending, outcome, frames, recordingVars, phase, ran, taken, spent>>
  BY DEF Connect
<1>1. TypeOK'
  <2>1. backlog' \in Seq(Clients)
    <3>1. backlog \in Seq(Clients) BY DEF IInv, TypeOK
    <3>2. backlog' \in {backlog, Append(backlog, c)} BY DEF Connect
    <3> QED BY <3>1, <3>2, AppendProperties
  <2>2. status' \in [Clients -> Told \union {"new", "probed", "waiting", "failed", "local"}]
    BY DEF IInv, TypeOK, Connect
  <2>3. alone' \subseteq Clients BY DEF IInv, TypeOK, Connect
  <2> QED BY <1>0, <2>1, <2>2, <2>3 DEF IInv, TypeOK
<1>2. Past \subseteq Past' /\ c \in Past' BY DEF IInv, TypeOK, Connect, Past
<1>3. Sent'
  <2>1. backlog' \in Seq(Past')
    <3>1. backlog \in Seq(Past') BY <1>0, <1>2, PastGrows
    <3>2. backlog' \in {backlog, Append(backlog, c)} BY DEF Connect
    <3> QED BY <1>2, <3>1, <3>2, AppendProperties
  <2> QED BY <1>0, <1>2, <2>1, PastGrows DEF Sent
<1>4. AloneLocal' BY DEF IInv, TypeOK, Connect, AloneLocal
<1>5. Answers' BY <1>0 DEF IInv, TypeOK, Connect, Answers, Done
<1>6. Gone' BY <1>0 DEF IInv, Gone
<1> QED BY <1>1, <1>3, <1>4, <1>5, <1>6 DEF IInv

LEMMA GiveUpKeeps == ASSUME IInv, NEW c \in Clients, GiveUp(c) PROVE IInv'
<1> USE DEF clientVars, recordingVars, Fails, Expires
<1>0. UNCHANGED <<kind, backlog, serving, queue, reply, jobs, worker, admissions,
                 pending, outcome, frames, recordingVars, phase, ran, taken>>
  BY DEF GiveUp
<1>1. TypeOK'
  <2>1. spent' \in [timeout : Nat, recording : Nat] BY ExpiresTyped DEF GiveUp
  <2>2. status' \in [Clients -> Told \union {"new", "probed", "waiting", "failed", "local"}]
    BY DEF IInv, TypeOK, GiveUp
  <2> QED BY <1>0, <2>1, <2>2 DEF IInv, TypeOK, GiveUp
<1>2. Past \subseteq Past' BY DEF IInv, TypeOK, GiveUp, Past
<1>3. Sent' BY <1>0, <1>2, PastGrows DEF Sent
<1>4. AloneLocal' BY DEF IInv, TypeOK, GiveUp, AloneLocal
<1>5. Answers' BY <1>0 DEF IInv, TypeOK, GiveUp, Answers, Done
<1>6. Gone' BY <1>0 DEF IInv, Gone
<1> QED BY <1>1, <1>3, <1>4, <1>5, <1>6 DEF IInv

LEMMA AcceptKeeps == ASSUME IInv, Accept PROVE IInv'
<1> USE DEF clientVars, recordingVars, listenerKeeps
<1> DEFINE c == Head(backlog)
<1>0. UNCHANGED <<kind, jobs, worker, admissions, pending, outcome,
                 frames, recordingVars, phase, ran, taken, spent, alone>>
  BY DEF Accept
<1>1. c \in Past /\ Tail(backlog) \in Seq(Past) /\ backlog' = Tail(backlog)
  BY HeadTailProperties DEF IInv, Sent, Accept
<1>2. c \in Clients /\ Past \subseteq Clients BY <1>1 DEF Past
<1>3. /\ status' \in [Clients -> Told \union {"new", "probed", "waiting", "failed", "local"}]
      /\ \A d \in Clients : status'[d] = status[d] \/ (status[d] = "waiting" /\ status'[d] = "error")
  BY <1>2 DEF IInv, TypeOK, Accept
<1>4. \/ queue' = <<c>> /\ serving' = c /\ reply' = None
      \/ UNCHANGED <<queue, serving, reply>>
  BY DEF Accept
<1>5. TypeOK'
  <2>1. backlog' \in Seq(Clients) BY <1>1, <1>2, SeqMonotonic
  <2>2. queue' \in Seq(Clients) /\ Len(queue') <= 1 
    <3>1. queue \in Seq(Clients) /\ Len(queue) <= 1 BY DEF IInv, TypeOK
    <3>2. queue' \in {<<c>>, queue} BY <1>4
    <3>3. <<c>> \in Seq(Clients) /\ Len(<<c>>) <= 1 BY <1>2, OneLong
    <3> QED BY <3>1, <3>2, <3>3
  <2>3. /\ serving' \in Clients \union {"accept", "gone"} /\ reply' \in Told \union {None}
        /\ serving' \notin Clients => reply' = None
    BY <1>2, <1>4 DEF IInv, TypeOK
  <2> QED BY <1>0, <1>3, <2>1, <2>2, <2>3 DEF IInv, TypeOK
<1>6. Past \subseteq Past' BY <1>3 DEF Past
<1>7. Sent'
  <2>1. backlog' \in Seq(Past') BY <1>1, <1>6, SeqMonotonic
  <2>2. queue' \in Seq(Past')
    <3>1. queue \in Seq(Past') BY <1>0, <1>6, PastGrows
    <3>2. queue' \in {<<c>>, queue} BY <1>4
    <3> QED BY <1>1, <1>6, <3>1, <3>2, OneLong
  <2> QED BY <1>0, <1>6, <2>1, <2>2, PastGrows DEF Sent
<1>8. AloneLocal' BY <1>0, <1>3 DEF IInv, TypeOK, AloneLocal
<1>9. Answers' BY <1>0, <1>3, <1>4 DEF IInv, Answers, Done
<1>10. Gone' BY <1>0 DEF IInv, Gone
<1> QED BY <1>5, <1>7, <1>8, <1>9, <1>10 DEF IInv

LEMMA DeliverKeeps == ASSUME IInv, Deliver PROVE IInv'
<1> USE DEF clientVars, recordingVars, listenerKeeps, Expires
<1>0. UNCHANGED <<kind, jobs, worker, admissions, pending, outcome, backlog, queue,
                 frames, recordingVars, phase, ran, taken, alone>>
  BY DEF Deliver
<1>1. /\ serving \in Clients /\ serving' = "accept" /\ reply' = None
      /\ spent' \in [timeout : Nat, recording : Nat]
  BY DEF Deliver, IInv, TypeOK
<1>2. PICK answer \in Told : /\ answer = "ok" => reply = "ok"
                             /\ status' = [status EXCEPT ![serving] = IF @ = "waiting" THEN answer ELSE @]
  BY DEF Deliver
<1>3. TypeOK'
  <2>1. status' \in [Clients -> Told \union {"new", "probed", "waiting", "failed", "local"}]
    BY <1>1, <1>2 DEF IInv, TypeOK
  <2> QED BY <1>0, <1>1, <2>1 DEF IInv, TypeOK
<1>4. \A d \in Clients : \/ status'[d] = status[d]
                         \/ status[d] = "waiting" /\ d = serving /\ status'[d] = answer
  BY <1>1, <1>2 DEF IInv, TypeOK
<1>5. Past \subseteq Past' BY <1>4 DEF Past
<1>6. Sent' BY <1>0, <1>5, PastGrows DEF Sent
<1>7. AloneLocal' BY <1>0, <1>4 DEF IInv, TypeOK, AloneLocal
<1>8. Answers' BY <1>0, <1>1, <1>2, <1>4 DEF IInv, Answers, Done
<1>9. Gone' BY <1>0 DEF IInv, Gone
<1> QED BY <1>3, <1>6, <1>7, <1>8, <1>9 DEF IInv

LEMMA StopListeningKeeps == ASSUME IInv, StopListening PROVE IInv'
<1> USE DEF clientVars, recordingVars, listenerKeeps, Fails
<1>0. UNCHANGED <<kind, jobs, worker, admissions, pending, outcome, queue, spent,
                 frames, recordingVars, phase, ran, taken, alone>>
  BY DEF StopListening
<1>1. serving' = "gone" /\ reply' = None /\ backlog' = <<>> BY DEF StopListening
<1>2. \A d \in Clients : \/ status'[d] = status[d]
                         \/ status[d] = "waiting" /\ status'[d] = "failed"
  BY DEF StopListening
<1>3. TypeOK'
  <2>1. status' \in [Clients -> Told \union {"new", "probed", "waiting", "failed", "local"}]
    BY DEF StopListening, IInv, TypeOK
  <2>2. backlog' \in Seq(Clients) BY <1>1, EmptySeq
  <2> QED BY <1>0, <1>1, <2>1, <2>2 DEF IInv, TypeOK
<1>4. Past \subseteq Past' BY <1>2 DEF Past
<1>5. Sent' BY <1>0, <1>1, <1>4, PastGrows, EmptySeq DEF Sent
<1>6. AloneLocal' BY <1>0, <1>2 DEF IInv, TypeOK, AloneLocal
<1>7. Answers' BY <1>0, <1>1, <1>2 DEF IInv, Answers, Done
<1>8. Gone' BY <1>0 DEF IInv, Gone
<1> QED BY <1>3, <1>5, <1>6, <1>7, <1>8 DEF IInv

\* every other step leaves the clients alone
LEMMA StepKeeps ==
  ASSUME IInv, UNCHANGED <<clientVars, backlog, serving>>, queue' \in {queue, <<>>},
         jobs' \in Seq(Errands \union {None}),
         worker' \in [at : Busy \union {"idle", "gone"}, for : Clients \union {None}],
         worker'.at \in Busy => worker'.for \in Errands,
         admissions' \in Seq(Errands), pending' \in Seq(Errands), outcome' \in Told \union {None},
         frames' \in 0..Frames, recording' \in {"idle", "recording", "finalising"},
         phase' \in {"running", "settling", "closing", "joining", "down"}, Gone',
         spent' \in [timeout : Nat, recording : Nat],
         ran \subseteq ran', ran' \subseteq Past, taken \subseteq taken', taken' \subseteq Clients,
         ended \subseteq ended', ended' \subseteq Clients,
         parked' \subseteq {c \in ran' : kind[c] = "stop"},
         reply' \in Told \union {None}, serving \notin Clients => reply' = None,
         reply' = "ok" => Done(serving)',
         worker'.at = "admit" => worker'.for \in ran' /\ (outcome' = "ok" => Done(worker.for)')
  PROVE  IInv'
<1> USE DEF clientVars
<1>1. Past' = Past /\ Errands' = Errands /\ Errands \subseteq Past /\ Past \subseteq Clients
  BY DEF Past, Errands
<1>2. queue' \in Seq(Past) /\ Len(queue') <= 1
  <2>1. queue \in Seq(Past) /\ Len(queue) <= 1 BY DEF IInv, Sent, TypeOK
  <2>2. <<>> \in Seq(Past) /\ Len(<<>>) <= 1 BY EmptySeq
  <2> QED BY <2>1, <2>2
<1>3. TypeOK'
  <2>1. queue' \in Seq(Clients) BY <1>1, <1>2, SeqMonotonic
  <2>2. jobs' \in Seq(Clients \union {None})
    <3>1. Errands \union {None} \subseteq Clients \union {None} BY <1>1
    <3> QED BY <3>1, SeqMonotonic
  <2>3. Errands \subseteq Clients BY <1>1
  <2>4. admissions' \in Seq(Clients) /\ pending' \in Seq(Clients) BY <2>3, SeqMonotonic
  <2>5. ran' \subseteq Clients /\ parked' \subseteq Clients BY <1>1
  <2>6. worker' \in [at : {"idle", "select", "shutter", "run", "admit", "gone"},
                     for : Clients \union {None}]
    BY DEF Busy
  <2> QED BY <1>2, <2>1, <2>2, <2>4, <2>5, <2>6 DEF IInv, TypeOK
<1>4. Sent' BY <1>1, <1>2 DEF IInv, Sent
<1>5. AloneLocal' BY DEF IInv, AloneLocal
<1>6. Answers' BY DEF IInv, Answers, Done
<1> QED BY <1>3, <1>4, <1>5, <1>6 DEF IInv

\* an answer to somebody whose command is done, or who is told an error
LEMMA AnswerTyped ==
  ASSUME IInv, serving' = serving, NEW cs \in SUBSET Clients, NEW answer \in Told, Answer(cs, answer),
         answer = "ok" => \A c \in cs : Done(c)',
         \A c \in Clients : Done(c) => Done(c)'
  PROVE  /\ reply' \in Told \union {None} /\ (serving \notin Clients => reply' = None)
         /\ reply' = "ok" => Done(serving)'
<1>1. /\ reply \in Told \union {None} /\ (serving \notin Clients => reply = None)
      /\ reply = "ok" => serving \in Clients /\ Done(serving)
  BY DEF IInv, TypeOK, Answers
<1>2. CASE serving \in cs /\ reply = None
  BY <1>1, <1>2 DEF Answer, Done
<1>3. CASE ~(serving \in cs /\ reply = None)
  BY <1>1, <1>3 DEF Answer, Done
<1> QED BY <1>2, <1>3

LEMMA SameKeeps == ASSUME IInv, UNCHANGED vars PROVE IInv'
  BY DEF vars, clientVars, recordingVars, IInv, TypeOK, Sent, Past, Errands, AloneLocal, Answers,
         Done, Gone, Busy

\* what IInv says of the variables that most steps leave alone
LEMMA Unmoved ==
  ASSUME IInv
  PROVE  /\ queue \in {queue, <<>>} /\ jobs \in Seq(Errands \union {None})
         /\ worker \in [at : Busy \union {"idle", "gone"}, for : Clients \union {None}]
         /\ worker.at \in Busy => worker.for \in Errands
         /\ worker.at = "admit" => worker.for \in ran /\ (outcome = "ok" => Done(worker.for))
         /\ admissions \in Seq(Errands) /\ pending \in Seq(Errands)
         /\ outcome \in Told \union {None} /\ frames \in 0..Frames
         /\ recording \in {"idle", "recording", "finalising"}
         /\ phase \in {"running", "settling", "closing", "joining", "down"}
         /\ phase = "down" => worker.at = "gone"
         /\ spent \in [timeout : Nat, recording : Nat]
         /\ ran \subseteq Past /\ taken \subseteq Clients /\ ended \subseteq Clients
         /\ parked \subseteq {c \in ran : kind[c] = "stop"}
         /\ reply \in Told \union {None} /\ (serving \notin Clients => reply = None)
         /\ reply = "ok" => Done(serving)
  BY DEF IInv, TypeOK, Sent, Answers, Gone, Busy

USE DEF clientVars, recordingVars

LEMMA RecordKeeps == ASSUME IInv, Record PROVE IInv'
<1>1. spent' \in [timeout : Nat, recording : Nat]
  <2>1. spent \in [timeout : Nat, recording : Nat] BY Unmoved
  <2>2. spent' = [spent EXCEPT !.recording = @ + 1] BY DEF Record
  <2> QED BY <2>1, <2>2
<1>2. /\ UNCHANGED <<clientVars, backlog, serving, queue, reply, jobs, worker, admissions,
                    pending, outcome, frames, parked, ended, phase, ran, taken>>
      /\ recording' = "recording"
  BY DEF Record
<1> QED BY <1>1, <1>2, Unmoved, StepKeeps DEF Gone, Done

LEMMA ReleaseKeeps == ASSUME IInv, Release PROVE IInv'
<1>1. frames' \in 0..Frames BY Unmoved DEF Release
<1>2. UNCHANGED <<clientVars, backlog, serving, queue, reply, jobs, worker, admissions,
                  pending, outcome, recordingVars, phase, ran, taken, spent>>
  BY DEF Release
<1> QED BY <1>1, <1>2, Unmoved, StepKeeps DEF Gone, Done

LEMMA PhaseKeeps == ASSUME IInv, Quit \/ Down PROVE IInv'
<1>1. UNCHANGED <<clientVars, backlog, serving, queue, reply, jobs, worker, admissions,
                  pending, outcome, frames, recordingVars, ran, taken, spent>>
  BY DEF Quit, Down
<1>2. phase' \in {"settling", "down"} /\ (phase' = "down" => worker.at = "gone")
  BY DEF Quit, Down
<1> QED BY <1>1, <1>2, Unmoved, StepKeeps DEF Gone, Done

LEMMA PollAdmissionKeeps == ASSUME IInv, PollAdmission PROVE IInv'
<1>1. UNCHANGED <<clientVars, backlog, serving, queue, reply, jobs, worker, outcome,
                  frames, recordingVars, phase, ran, taken, spent>>
  BY DEF PollAdmission
<1>2. admissions' \in Seq(Errands) /\ pending' \in Seq(Errands)
  <2>1. admissions \in Seq(Errands) /\ pending \in Seq(Errands) BY Unmoved
  <2>2. Head(admissions) \in Errands /\ Tail(admissions) \in Seq(Errands)
    BY <2>1, HeadTailProperties DEF PollAdmission
  <2> QED BY <2>1, <2>2, AppendProperties DEF PollAdmission
<1> QED BY <1>1, <1>2, Unmoved, StepKeeps DEF Gone, Done

\* a capture is admitted when the pipeline has taken it
LEMMA AdmitKeeps == ASSUME IInv, Admit PROVE IInv'
<1> DEFINE c == Head(pending)
<1>1. UNCHANGED <<clientVars, backlog, serving, queue, reply, jobs, worker, admissions,
                  recordingVars, phase, ran, spent>>
  BY DEF Admit
<1>2. c \in Errands /\ pending' \in Seq(Errands)
  BY Unmoved, HeadTailProperties DEF Admit
<1>3. frames' \in 0..Frames /\ taken \subseteq taken' /\ taken' \subseteq Clients
  <2>1. c \in Clients BY <1>2 DEF Errands, Past
  <2> QED BY <2>1, Unmoved DEF Admit
<1>4. \/ outcome' = outcome
      \/ worker = [at |-> "admit", for |-> c] /\ outcome' = "error"
      \/ worker = [at |-> "admit", for |-> c] /\ outcome' = "ok" /\ (kind[c] = "capture" => c \in taken')
  BY DEF Admit, Decide
<1>5. kind[c] # "stop" BY <1>2 DEF Errands
<1>6. worker.at = "admit" => worker.for \in ran /\ (outcome' = "ok" => Done(worker.for)')
  <2>1. CASE outcome' = outcome BY <1>1, <1>3, <2>1, Unmoved DEF Done
  <2>2. CASE worker = [at |-> "admit", for |-> c] /\ outcome' = "error" BY <2>2, Unmoved
  <2>3. CASE worker = [at |-> "admit", for |-> c] /\ (kind[c] = "capture" => c \in taken')
    <3>1. worker.for = c /\ worker.at = "admit" BY <2>3
    <3> QED BY <1>1, <1>5, <2>3, <3>1, Unmoved DEF Done
  <2> QED BY <1>4, <2>1, <2>2, <2>3
<1>7. outcome' \in Told \union {None} BY <1>4, Unmoved
<1>8. reply = "ok" => Done(serving)' BY <1>1, <1>3, Unmoved DEF Done
<1> QED BY <1>1, <1>2, <1>3, <1>6, <1>7, <1>8, Unmoved, StepKeeps DEF Gone

LEMMA TakeKeeps == ASSUME IInv, Take PROVE IInv'
<1> DEFINE c == Head(jobs)
<1>1. UNCHANGED <<clientVars, backlog, serving, queue, pending, frames, recordingVars, phase, taken,
                  reply, admissions, outcome, ran, spent>>
  BY DEF Take, workerKeeps
<1>2. c \in Errands \union {None} /\ jobs' \in Seq(Errands \union {None})
  BY Unmoved, HeadTailProperties DEF Take
<1>3. /\ worker' \in [at : {"gone", "select", "run"}, for : Clients \union {None}]
      /\ worker'.at # "gone" => worker'.for \in Errands
  BY <1>2 DEF Take, Works, Errands, Past
<1>4. phase # "down" BY Unmoved DEF Take
<1> QED BY <1>1, <1>2, <1>3, <1>4, Unmoved, StepKeeps DEF Gone, Done, Busy

\* the forwarder goes on with the command it has
LEMMA GoesOnKeeps == ASSUME IInv, Pick \/ Shutter PROVE IInv'
<1>1. UNCHANGED <<clientVars, backlog, serving, queue, pending, frames, recordingVars, phase, taken,
                  reply, jobs, admissions, outcome, ran, spent>>
  BY DEF Pick, Shutter, workerKeeps
<1>2. worker.at \in {"select", "shutter"} BY DEF Pick, Shutter
<1>3. worker.for \in Errands /\ worker.for \in Clients BY <1>2, Unmoved DEF Busy, Errands, Past
<1>4. /\ worker' \in [at : {"shutter", "run"}, for : Clients \union {None}]
      /\ worker'.for \in Errands
  BY <1>3 DEF Pick, Shutter, Works
<1>5. phase # "down" BY <1>2, Unmoved
<1> QED BY <1>1, <1>4, <1>5, Unmoved, StepKeeps DEF Gone, Done, Busy

LEMMA CancelledKeeps == ASSUME IInv, Cancelled PROVE IInv'
<1>1. UNCHANGED <<clientVars, backlog, serving, queue, pending, frames, recordingVars, phase, taken,
                  jobs, admissions, outcome, ran, spent>>
  BY DEF Cancelled, workerKeeps
<1>2. worker.at = "select" /\ worker.for \in Clients
  BY Unmoved DEF Cancelled, Busy, Errands, Past
<1>3. worker' \in [at : {"idle"}, for : Clients \union {None}] BY DEF Cancelled, Works
<1>4. /\ reply' \in Told \union {None} /\ (serving \notin Clients => reply' = None)
      /\ reply' = "ok" => Done(serving)'
  BY <1>1, <1>2, AnswerTyped DEF Cancelled, Done
<1>5. phase # "down" BY <1>2, Unmoved
<1> QED BY <1>1, <1>3, <1>4, <1>5, Unmoved, StepKeeps DEF Gone, Busy

LEMMA RunKeeps == ASSUME IInv, Run PROVE IInv'
<1> DEFINE c == worker.for
<1>1. UNCHANGED <<clientVars, backlog, serving, queue, pending, frames, recordingVars, phase, taken,
                  jobs, spent>>
  BY DEF Run, workerKeeps
<1>2. worker.at = "run" /\ c \in Errands /\ c \in Past /\ c \in Clients
  BY Unmoved DEF Run, Busy, Errands, Past
<1>3. ran' = ran \union {c} BY DEF Run
<1>4. phase # "down" BY <1>2, Unmoved
<1>5. CASE Works("admit", c) /\ admissions' = Append(admissions, c) /\ outcome' = None
           /\ UNCHANGED reply
  <2>1. admissions' \in Seq(Errands) BY <1>2, <1>5, Unmoved, AppendProperties
  <2>2. /\ worker' \in [at : {"admit"}, for : Clients \union {None}] /\ worker'.for = c
        /\ worker'.at = "admit"
    BY <1>2, <1>5 DEF Works
  <2>3. reply' = "ok" => Done(serving)' BY <1>1, <1>3, <1>5, Unmoved DEF Done
  <2> QED BY <1>1, <1>2, <1>3, <1>4, <1>5, <2>1, <2>2, <2>3, Unmoved, StepKeeps DEF Gone, Busy
<1>6. CASE Works("idle", None) /\ Answer({c}, "error") /\ UNCHANGED <<admissions, outcome>>
  <2>1. worker' \in [at : {"idle"}, for : Clients \union {None}] BY <1>6 DEF Works
  <2>2. /\ reply' \in Told \union {None} /\ (serving \notin Clients => reply' = None)
        /\ reply' = "ok" => Done(serving)'
    BY <1>1, <1>2, <1>3, <1>6, AnswerTyped DEF Done
  <2> QED BY <1>1, <1>2, <1>3, <1>4, <1>6, <2>1, <2>2, Unmoved, StepKeeps DEF Gone, Busy
<1> QED BY <1>5, <1>6 DEF Run

LEMMA AdmittedKeeps == ASSUME IInv, Admitted PROVE IInv'
<1>1. UNCHANGED <<clientVars, backlog, serving, queue, pending, frames, recordingVars, phase, taken,
                  jobs, admissions, ran>> /\ outcome' = None
  BY DEF Admitted, workerKeeps
<1>2. PICK c \in Clients : worker.at = "admit" /\ worker.for = c
  BY Unmoved DEF Admitted, Busy, Errands, Past
<1>3. PICK answer \in Told : /\ \/ outcome = answer /\ UNCHANGED spent
                                \/ Released /\ answer = "error" /\ UNCHANGED spent
                                \/ outcome = None /\ answer = "error" /\ Expires
                             /\ Works("idle", None) /\ Answer({c}, answer)
  BY <1>2 DEF Admitted
<1>4. worker' \in [at : {"idle"}, for : Clients \union {None}] BY <1>3 DEF Works
<1>5. answer = "ok" => Done(c)'
  BY <1>1, <1>2, <1>3, Unmoved DEF Done
<1>6. /\ reply' \in Told \union {None} /\ (serving \notin Clients => reply' = None)
      /\ reply' = "ok" => Done(serving)'
  <2>1. \A d \in {c} : answer = "ok" => Done(d)' BY <1>5
  <2>2. \A d \in Clients : Done(d) => Done(d)' BY <1>1 DEF Done
  <2>3. {c} \in SUBSET Clients /\ serving' = serving BY <1>1, <1>2
  <2> QED BY <1>3, <2>1, <2>2, <2>3, AnswerTyped
<1>7. spent' \in [timeout : Nat, recording : Nat]
  BY <1>3, Unmoved, ExpiresTyped
<1>8. phase # "down" BY <1>2, Unmoved
<1> QED BY <1>1, <1>4, <1>6, <1>7, <1>8, Unmoved, StepKeeps DEF Gone, Busy

\* a stop is parked, what is served at once is done, the rest is an errand
LEMMA ServeKeeps == ASSUME IInv, Serve PROVE IInv'
<1>1. UNCHANGED <<clientVars, backlog, serving, admissions, pending, outcome, phase, spent, worker,
                  frames, taken>> /\ queue' = <<>>
  BY DEF Serve, serverKeeps
<1>2. PICK c \in Past : c = Head(queue)
  <2>1. queue \in Seq(Past) BY DEF IInv, Sent
  <2> QED BY <2>1, HeadTailProperties DEF Serve
<1>3. c \in Clients BY <1>2 DEF Past
<1>4. CASE kind[c] = "show" /\ ran' = ran \union {c} /\ (\E answer \in Told : Answer({c}, answer))
           /\ UNCHANGED <<jobs, recordingVars>>
  <2>1. Done(c)' BY <1>1, <1>4 DEF Done
  <2>2. \A d \in Clients : Done(d) => Done(d)' BY <1>1, <1>4 DEF Done
  <2>3. /\ reply' \in Told \union {None} /\ (serving \notin Clients => reply' = None)
        /\ reply' = "ok" => Done(serving)'
    BY <1>1, <1>3, <1>4, <2>1, <2>2, AnswerTyped
  <2>4. worker.at = "admit" => worker.for \in ran' /\ (outcome = "ok" => Done(worker.for)')
    BY <1>1, <1>4, Unmoved DEF Done
  <2> QED BY <1>1, <1>2, <1>4, <2>3, <2>4, Unmoved, StepKeeps DEF Gone
<1>5. CASE /\ kind[c] = "stop" /\ recording' = "finalising" /\ parked' = parked \union {c}
           /\ ran' = ran \union {c} /\ UNCHANGED <<jobs, reply, ended>>
  <2>1. reply = "ok" => Done(serving)' BY <1>1, <1>5, Unmoved DEF Done
  <2>2. worker.at = "admit" => worker.for \in ran' /\ (outcome = "ok" => Done(worker.for)')
    BY <1>1, <1>5, Unmoved DEF Done
  <2>3. parked' \subseteq {d \in ran' : kind[d] = "stop"} BY <1>5, Unmoved
  <2> QED BY <1>1, <1>2, <1>5, <2>1, <2>2, <2>3, Unmoved, StepKeeps DEF Gone
<1>6. CASE Answer({c}, "error") /\ UNCHANGED <<jobs, recordingVars, ran>>
  <2>1. \A d \in Clients : Done(d) => Done(d)' BY <1>1, <1>6 DEF Done
  <2>2. /\ reply' \in Told \union {None} /\ (serving \notin Clients => reply' = None)
        /\ reply' = "ok" => Done(serving)'
    BY <1>1, <1>3, <1>6, <2>1, AnswerTyped
  <2> QED BY <1>1, <1>6, <2>2, Unmoved, StepKeeps DEF Gone, Done
<1>7. CASE kind[c] \in {"capture", "query"} /\ jobs' = Append(jobs, c)
           /\ UNCHANGED <<reply, recordingVars, ran>>
  <2>1. c \in Errands \union {None} BY <1>7 DEF Errands
  <2>2. jobs' \in Seq(Errands \union {None}) BY <1>7, <2>1, Unmoved, AppendProperties
  <2> QED BY <1>1, <1>7, <2>2, Unmoved, StepKeeps DEF Gone, Done
<1> QED BY <1>2, <1>4, <1>5, <1>6, <1>7 DEF Serve

\* the recording has ended for all who are parked
LEMMA EndsRecording ==
  ASSUME IInv, recording' = "idle", parked' = {}, ended' = ended \union parked,
         NEW answer \in Told, Answer(parked, answer),
         UNCHANGED <<clientVars, backlog, serving, queue, jobs, worker, admissions, pending, outcome,
                     frames, ran, taken, spent>>,
         phase' \in {phase, "closing"}
  PROVE  IInv'
<1>1. PICK cs \in SUBSET Clients : cs = parked BY DEF IInv, TypeOK
<1>2. \A c \in cs : Done(c)' BY <1>1, Unmoved DEF Done
<1>3. \A c \in Clients : Done(c) => Done(c)' BY DEF Done
<1>4. Answer(cs, answer) BY <1>1
<1>5. /\ reply' \in Told \union {None} /\ (serving \notin Clients => reply' = None)
      /\ reply' = "ok" => Done(serving)'
  BY <1>2, <1>3, <1>4, AnswerTyped
<1>6. worker.at = "admit" => worker.for \in ran' /\ (outcome = "ok" => Done(worker.for)')
  BY Unmoved DEF Done
<1>7. ended' \subseteq Clients BY <1>1, Unmoved
<1> QED BY <1>5, <1>6, <1>7, Unmoved, StepKeeps DEF Gone

LEMMA FinishKeeps == ASSUME IInv, Finish PROVE IInv'
  BY EndsRecording DEF Finish, serverKeeps

LEMMA SettleKeeps == ASSUME IInv, Settle PROVE IInv'
  BY EndsRecording DEF Settle

LEMMA CloseKeeps == ASSUME IInv, Close PROVE IInv'
<1>1. UNCHANGED <<clientVars, backlog, serving, reply, worker, admissions, frames, recordingVars,
                  ran, taken, spent>>
      /\ queue' = <<>> /\ phase' = "joining" /\ pending' = <<>>
  BY DEF Close
<1>2. jobs' \in Seq(Errands \union {None}) BY Unmoved, AppendProperties DEF Close
<1>3. pending' \in Seq(Errands) BY <1>1, EmptySeq
<1>4. outcome' \in {outcome, "error"} BY DEF Close
<1> QED BY <1>1, <1>2, <1>3, <1>4, Unmoved, StepKeeps DEF Gone, Done

-----------------------------------------------------------------------------
(* Theorems                                                                *)

LEMMA InitIInv == ASSUME Init PROVE IInv
<1>1. TypeOK BY EmptySeq DEF Init, TypeOK
<1>2. Sent BY EmptySeq DEF Init, Sent, Busy
<1> QED BY <1>1, <1>2 DEF Init, IInv, AloneLocal, Answers, Gone

LEMMA NextKeeps == ASSUME IInv, [Next]_vars PROVE IInv'
<1>1. ASSUME NEW c \in Clients, Probe(c) \/ Connect(c) \/ GiveUp(c) PROVE IInv'
  BY <1>1, ProbeKeeps, ConnectKeeps, GiveUpKeeps
<1>2. CASE Listener BY <1>2, AcceptKeeps, DeliverKeeps, StopListeningKeeps DEF Listener
<1>3. CASE Worker \/ Pick
  BY <1>3, TakeKeeps, CancelledKeeps, GoesOnKeeps, RunKeeps, AdmittedKeeps DEF Worker
<1>4. CASE Main
  BY <1>4, ServeKeeps, FinishKeeps, PollAdmissionKeeps, AdmitKeeps, SettleKeeps, CloseKeeps,
     PhaseKeeps
  DEF Main
<1>5. CASE Record \/ Release \/ Quit BY <1>5, RecordKeeps, ReleaseKeeps, PhaseKeeps
<1>6. CASE Ended \/ UNCHANGED vars BY <1>6, SameKeeps DEF Ended
<1> QED BY <1>1, <1>2, <1>3, <1>4, <1>5, <1>6 DEF Next

LEMMA SpecIInv == Spec => []IInv
<1>1. Init => IInv BY InitIInv
<1>2. IInv /\ [Next]_vars => IInv' BY NextKeeps
<1> QED BY <1>1, <1>2, PTL DEF Spec

(* Every queue, reply and budget keeps to its type and its limit: one      *)
(* request at most waits for the main thread, and Frames captures at most  *)
(* for the pipeline.                                                       *)
THEOREM TypeCorrect == Spec => []TypeOK
<1>1. IInv => TypeOK BY DEF IInv
<1> QED BY <1>1, SpecIInv, PTL

(* A client is told of a success only when its command is done: admitted   *)
(* by the pipeline (Admission::complete), or ended with its recording      *)
(* (reply_waiters).                                                        *)
THEOREM SuccessIsDone == Spec => []OkMeansDone
<1>1. IInv => OkMeansDone BY DEF IInv, Answers, Done, OkMeansDone
<1> QED BY <1>1, SpecIInv, PTL

(* A command that reached the instance is never run by its client as well, *)
(* since try_forward reports every failure after it was sent.              *)
THEOREM RunsOnce == Spec => []NeverTwice
<1>1. IInv => NeverTwice BY DEF IInv, Sent, AloneLocal, Past, NeverTwice
<1> QED BY <1>1, SpecIInv, PTL

(* Once shut_down has joined the forwarder nothing runs in the instance.   *)
THEOREM QuietOnceDown == Spec => QuietAfterDown
<1>1. IInv /\ [Next]_vars => [phase = "down" => UNCHANGED <<ran, taken>>]_vars
  <2> SUFFICES ASSUME IInv, Next, phase = "down" PROVE UNCHANGED <<ran, taken>>
    OBVIOUS
  <2>1. worker.at = "gone" BY DEF IInv, Gone
  <2> QED
    BY <2>1
    DEF Next, Probe, Connect, GiveUp, Listener, Accept, Deliver, StopListening, listenerKeeps,
        Worker, Take, Cancelled, Shutter, Run, Admitted, Pick, workerKeeps, Main, Serve, Finish,
        PollAdmission, Admit, Settle, Close, Down, Record, Release, Quit, Ended, serverKeeps, vars
<1> QED BY <1>1, SpecIInv, PTL DEF Spec, QuietAfterDown
=============================================================================

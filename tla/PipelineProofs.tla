---------------------------- MODULE PipelineProofs ----------------------------
(***************************************************************************)
(* Whatever the pipeline's threads do, for any workload, budget and number *)
(* of captures: they use the clipboard's turns as ClipboardOrder says, lose*)
(* and count twice no frame, leave pins as the user did or tell him that   *)
(* they could not, and are done with everything when a stop that waited    *)
(* for them is.                                                            *)
(***************************************************************************)
EXTENDS Pipeline, TLAPS, FiniteSetTheorems, SequenceTheorems

-----------------------------------------------------------------------------
(* The clipboard's turns, for any number of tickets and holders            *)

TurnsTypeOK ==
  /\ fate \in Seq(Fates)
  /\ latest \in 0..Issued /\ running \in 0..Issued /\ content \in 0..Issued

\* The newest ticket is remembered exactly while its holder may still write.
NewestKnown ==
  /\ latest # 0 => latest = Issued /\ fate[latest] \in {"held", "writing"}
  /\ \A n \in 1..Issued : fate[n] = "held" /\ n = Issued => latest = n

\* One holder writes at a time, and what was written before it is older.
OneWriter ==
  /\ \A n \in 1..Issued : fate[n] = "writing" <=> running = n
  /\ running # 0 => content < running

\* A holder that may still start is newer than what the clipboard shows.
WrittenInOrder ==
  /\ content # 0 => fate[content] = "written"
  /\ \A n \in 1..Issued : fate[n] = "written" => n <= content

OrderInv == TurnsTypeOK /\ NewestKnown /\ OneWriter /\ WrittenInOrder

\* What every proof below knows of the tickets and their numbers.
LEMMA Tickets ==
  ASSUME TurnsTypeOK
  PROVE  /\ Issued \in Nat /\ DOMAIN fate = 1..Issued
         /\ \A n \in 1..Issued : fate[n] \in Fates
  BY LenProperties, ElementOfSeq DEF TurnsTypeOK, Issued

LEMMA InitOrder == ClipboardInit => OrderInv
  BY EmptySeq DEF ClipboardInit, OrderInv, TurnsTypeOK, NewestKnown, OneWriter,
    WrittenInOrder, Issued

\* Changing the fate of one ticket changes no other and issues none.
LEMMA Settles ==
  ASSUME TurnsTypeOK, NEW n \in 1..Issued, NEW f \in Fates, fate' = [fate EXCEPT ![n] = f]
  PROVE  /\ fate' \in Seq(Fates) /\ Issued' = Issued
         /\ \A i \in 1..Issued : fate'[i] = IF i = n THEN f ELSE fate[i]
  BY ExceptSeq DEF TurnsTypeOK, Issued

LEMMA ReserveOrder == ASSUME OrderInv, Reserve PROVE OrderInv'
<1> USE Tickets DEF OrderInv
<1>1. /\ fate' \in Seq(Fates) /\ Issued' = Issued + 1
      /\ \A i \in 1..Issued : fate'[i] = fate[i]
      /\ fate'[Issued + 1] = "held"
  BY AppendProperties DEF Reserve, TurnsTypeOK, Issued, Fates
<1>2. TurnsTypeOK'
  BY <1>1 DEF TurnsTypeOK, Reserve
<1>3. NewestKnown'
  BY <1>1 DEF NewestKnown, TurnsTypeOK, Reserve
<1>4. OneWriter'
  BY <1>1 DEF OneWriter, TurnsTypeOK, Reserve
<1>5. WrittenInOrder'
  BY <1>1 DEF WrittenInOrder, TurnsTypeOK, Reserve
<1> QED
  BY <1>2, <1>3, <1>4, <1>5

LEMMA RunOrder == ASSUME OrderInv, NEW n \in DOMAIN fate, Run(n) PROVE OrderInv'
<1> USE Tickets DEF OrderInv
<1>1. /\ fate' \in Seq(Fates) /\ Issued' = Issued
      /\ \A i \in 1..Issued : fate'[i] = IF i = n THEN "writing" ELSE fate[i]
  BY Settles DEF Run, Fates
<1>2. n = Issued /\ running = 0 /\ running' = n /\ latest' = latest /\ content' = content
  BY DEF Run, Held, NewestKnown
<1>3. content < n
  BY <1>2 DEF Run, Held, TurnsTypeOK, WrittenInOrder
<1>4. TurnsTypeOK' /\ NewestKnown'
  BY <1>1, <1>2 DEF TurnsTypeOK, NewestKnown, Run
<1>5. OneWriter' /\ WrittenInOrder'
  BY <1>1, <1>2, <1>3 DEF TurnsTypeOK, OneWriter, WrittenInOrder
<1> QED
  BY <1>4, <1>5

LEMMA SupersededOrder == ASSUME OrderInv, NEW n \in DOMAIN fate, Superseded(n) PROVE OrderInv'
<1> USE Tickets DEF OrderInv
<1>1. /\ fate' \in Seq(Fates) /\ Issued' = Issued
      /\ \A i \in 1..Issued : fate'[i] = IF i = n THEN "refused" ELSE fate[i]
  BY Settles DEF Superseded, Fates
<1>2. fate[n] = "held" /\ latest # n /\ UNCHANGED <<latest, running, content>>
  BY DEF Superseded, Held
<1>3. TurnsTypeOK' /\ NewestKnown'
  BY <1>1, <1>2 DEF TurnsTypeOK, NewestKnown
<1>4. OneWriter' /\ WrittenInOrder'
  BY <1>1, <1>2 DEF TurnsTypeOK, OneWriter, WrittenInOrder
<1> QED
  BY <1>3, <1>4

LEMMA FinishOrder == ASSUME OrderInv, NEW n \in DOMAIN fate, Finish(n) PROVE OrderInv'
<1> USE Tickets DEF OrderInv
<1>1. PICK f \in {"written", "dropped"} :
        /\ fate' = [fate EXCEPT ![n] = f]
        /\ content' = IF f = "written" THEN n ELSE content
  BY DEF Finish
<1>2. /\ fate' \in Seq(Fates) /\ Issued' = Issued
      /\ \A i \in 1..Issued : fate'[i] = IF i = n THEN f ELSE fate[i]
  BY <1>1, Settles DEF Fates
<1>3. fate[n] = "writing" /\ running = n /\ content < n
  BY DEF Finish, OneWriter, TurnsTypeOK
<1>4. running' = 0 /\ latest' = IF latest = n THEN 0 ELSE latest
  BY <1>3 DEF Finish, Ended
<1>5. TurnsTypeOK'
  BY <1>1, <1>2, <1>3, <1>4 DEF TurnsTypeOK
<1>6. NewestKnown'
  BY <1>1, <1>2, <1>3, <1>4 DEF TurnsTypeOK, NewestKnown
<1>7. OneWriter'
  BY <1>1, <1>2, <1>3, <1>4 DEF TurnsTypeOK, OneWriter
<1>8. WrittenInOrder'
  BY <1>1, <1>2, <1>3, <1>4 DEF TurnsTypeOK, WrittenInOrder
<1> QED
  BY <1>5, <1>6, <1>7, <1>8

LEMMA RetireOrder ==
  ASSUME OrderInv, NEW turns \in SUBSET DOMAIN fate, Retire(turns) PROVE OrderInv'
<1> USE Tickets DEF OrderInv
<1>1. fate' = [i \in 1..Issued |-> IF i \in turns THEN "dropped" ELSE fate[i]]
  BY DEF Retire
<1>2. fate' \in [1..Issued -> Fates]
  BY <1>1 DEF Fates
<1>3. fate' \in Seq(Fates) /\ Issued' = Issued
  BY <1>2, SeqDef, LenProperties DEF Issued, TurnsTypeOK
<1>4. \A i \in turns : i \in 1..Issued /\ fate[i] = "held"
  BY DEF Retire, Held
<1>5. UNCHANGED <<running, content>> /\ latest' = IF latest \in turns THEN 0 ELSE latest
  BY DEF Retire
<1>6. TurnsTypeOK'
  BY <1>3, <1>5 DEF TurnsTypeOK
<1>7. NewestKnown'
  BY <1>1, <1>3, <1>4, <1>5 DEF TurnsTypeOK, NewestKnown
<1>8. OneWriter'
  BY <1>1, <1>3, <1>4, <1>5 DEF TurnsTypeOK, OneWriter
<1>9. WrittenInOrder'
  BY <1>1, <1>3, <1>4, <1>5 DEF TurnsTypeOK, WrittenInOrder
<1> QED
  BY <1>6, <1>7, <1>8, <1>9

LEMMA StepOrder == OrderInv /\ [ClipboardNext]_clipboard => OrderInv'
<1> SUFFICES ASSUME OrderInv, [ClipboardNext]_clipboard PROVE OrderInv'
  OBVIOUS
<1>1. CASE UNCHANGED clipboard
  BY <1>1 DEF clipboard, OrderInv, TurnsTypeOK, NewestKnown, OneWriter, WrittenInOrder, Issued
<1>2. CASE ClipboardNext
  BY <1>2, ReserveOrder, RunOrder, SupersededOrder, FinishOrder, RetireOrder DEF ClipboardNext
<1> QED
  BY <1>1, <1>2

LEMMA OrderNewest == OrderInv => NewestShows
  BY Tickets DEF OrderInv, TurnsTypeOK, WrittenInOrder, NewestShows

-----------------------------------------------------------------------------
(* Every step is a step of the register, or none of it                     *)

\* the register's fate, as the mapping of Register defines it
Bar == [n \in DOMAIN fate |-> IF fate[n] \in {"held", "writing"} THEN "open" ELSE fate[n]]

\* The register's tickets are those of the turns, none more.
LEMMA BarTickets ==
  ASSUME TurnsTypeOK
  PROVE  /\ Bar \in Seq(Fates \union {"open"}) /\ Len(Bar) = Issued
         /\ DOMAIN Bar = 1..Issued
         /\ \A n \in 1..Issued : Bar[n] = IF fate[n] \in {"held", "writing"} THEN "open" ELSE fate[n]
<1>1. Bar \in [1..Issued -> Fates \union {"open"}] /\ Issued \in Nat
  BY Tickets DEF Bar
<1>2. Bar \in Seq(Fates \union {"open"})
  BY <1>1, SeqDef
<1> QED
  BY <1>1, <1>2, LenProperties, Tickets DEF Bar

\* A step of the turns is a step of the register: Reserve issues, a
\* superseded holder is refused, a write that ends is made or dropped, a
\* retired turn is dropped, and starting to write goes unseen.
LEMMA StepRegister ==
  ASSUME OrderInv, OrderInv', [ClipboardNext]_clipboard
  PROVE  [Register!Next]_(Register!vars)
<1> USE Tickets, BarTickets DEF OrderInv
<1> DEFINE After == [i \in DOMAIN fate' |-> IF fate'[i] \in {"held", "writing"} THEN "open" ELSE fate'[i]]
<1>0. /\ TurnsTypeOK /\ TurnsTypeOK'
      /\ DOMAIN fate = 1..Issued /\ DOMAIN fate' = 1..Issued'
  BY LenProperties DEF TurnsTypeOK, Issued
<1>1. CASE UNCHANGED clipboard
  BY <1>1 DEF clipboard, Register!vars
<1>2. CASE Reserve
  <2>1. /\ Issued' = Issued + 1 /\ content' = content
        /\ \A i \in 1..Issued : fate'[i] = fate[i]
        /\ fate'[Issued + 1] = "held"
    BY <1>2, AppendProperties DEF Reserve, TurnsTypeOK, Issued, Fates
  <2>2. After \in [1..(Issued + 1) -> Fates \union {"open"}]
    BY <1>0, <2>1, BarTickets DEF Fates, TurnsTypeOK
  <2>3. After \in Seq(Fates \union {"open"}) /\ Len(After) = Issued + 1
    BY <2>2, SeqDef, LenProperties
  <2>4. /\ Append(Bar, "open") \in Seq(Fates \union {"open"})
        /\ Len(Append(Bar, "open")) = Issued + 1
        /\ \A i \in 1..(Issued + 1) : Append(Bar, "open")[i] = After[i]
    BY <1>0, <2>1, AppendProperties DEF Fates
  <2>5. After = Append(Bar, "open")
    BY <2>3, <2>4, SeqEqual, ZenonT(60)
  <2> QED
    BY <2>1, <2>5 DEF Register!Next, Register!Issue, Bar
<1>3. ASSUME NEW n \in DOMAIN fate, Run(n) PROVE UNCHANGED Register!vars
  <2>1. Issued' = Issued /\ content' = content /\ fate[n] = "held"
        /\ \A i \in 1..Issued : fate'[i] = IF i = n THEN "writing" ELSE fate[i]
    BY <1>0, <1>3, Settles DEF Run, Held, Fates
  <2>2. After = Bar
    BY <1>0, <2>1 DEF Bar
  <2> QED
    BY <2>1, <2>2 DEF Register!vars, Bar
<1>4. ASSUME NEW n \in DOMAIN fate, Superseded(n) PROVE Register!Next
  <2>1. Issued' = Issued /\ content' = content /\ fate[n] = "held" /\ latest # n
        /\ \A i \in 1..Issued : fate'[i] = IF i = n THEN "refused" ELSE fate[i]
    BY <1>0, <1>4, Settles DEF Superseded, Held, Fates
  <2>2. n < Len(Bar)
    BY <1>0, <2>1 DEF NewestKnown
  <2>3. After = [Bar EXCEPT ![n] = "refused"] /\ Bar[n] = "open" /\ n \in DOMAIN Bar
    BY <1>0, <2>1 DEF Bar
  <2> QED
    BY <2>1, <2>2, <2>3 DEF Register!Next, Register!Refuse, Bar
<1>5. ASSUME NEW n \in DOMAIN fate, Finish(n) PROVE Register!Next
  <2>1. PICK f \in {"written", "dropped"} :
          /\ fate' = [fate EXCEPT ![n] = f]
          /\ content' = IF f = "written" THEN n ELSE content
    BY <1>5 DEF Finish
  <2>0. fate[n] = "writing" /\ content < n
    BY <1>0, <1>5 DEF Finish, OneWriter, TurnsTypeOK
  <2>2. Issued' = Issued /\ \A i \in 1..Issued : fate'[i] = IF i = n THEN f ELSE fate[i]
    BY <1>0, <2>1, Settles DEF Fates
  <2>3. n \in DOMAIN Bar /\ Bar[n] = "open"
    BY <1>0, <2>0
  <2>4. CASE f = "written"
    <3>1. After = [Bar EXCEPT ![n] = "written"] /\ content' = n
      BY <1>0, <2>0, <2>1, <2>2, <2>4 DEF Bar
    <3> QED
      BY <2>0, <2>3, <3>1 DEF Register!Next, Register!Write, Bar
  <2>5. CASE f = "dropped"
    <3>1. After = [i \in DOMAIN Bar |-> IF i \in {n} THEN "dropped" ELSE Bar[i]]
      BY <1>0, <2>0, <2>1, <2>2, <2>5 DEF Bar
    <3>2. content' = content /\ {n} \in SUBSET DOMAIN Bar
      BY <2>1, <2>3, <2>5
    <3> QED
      BY <2>3, <3>1, <3>2 DEF Register!Next, Register!Drop, Bar
  <2> QED
    BY <2>4, <2>5
<1>6. ASSUME NEW turns \in SUBSET DOMAIN fate, Retire(turns) PROVE Register!Next
  <2>1. /\ fate' = [i \in 1..Issued |-> IF i \in turns THEN "dropped" ELSE fate[i]]
        /\ content' = content /\ \A i \in turns : i \in 1..Issued /\ fate[i] = "held"
    BY <1>0, <1>6 DEF Retire, Held
  <2>2. After = [i \in DOMAIN Bar |-> IF i \in turns THEN "dropped" ELSE Bar[i]]
    BY <1>0, <2>1 DEF Bar
  <2>3. turns \in SUBSET DOMAIN Bar /\ \A i \in turns : Bar[i] = "open"
    BY <1>0, <2>1
  <2> QED
    BY <2>1, <2>2, <2>3 DEF Register!Next, Register!Drop, Bar
<1> QED
  BY <1>1, <1>2, <1>3, <1>4, <1>5, <1>6 DEF ClipboardNext

LEMMA InitRegister == ClipboardInit => Register!Init
<1> SUFFICES ASSUME ClipboardInit PROVE Register!Init
  OBVIOUS
<1>1. TurnsTypeOK /\ Issued = 0
  BY InitOrder, EmptySeq DEF OrderInv, ClipboardInit, Issued
<1>2. Bar \in Seq(Fates \union {"open"}) /\ Len(Bar) = 0
  BY <1>1, BarTickets
<1>3. Bar = <<>>
  BY <1>2, EmptySeq
<1> QED
  BY <1>3 DEF Bar, ClipboardInit, Register!Init

-----------------------------------------------------------------------------
(* Theorems                                                                *)

\* However many holders there are and however they are timed, the clipboard
\* shows the newest of what was written to it (ClipboardTurn::run and drop,
\* RunningClipboardTurn::drop).
THEOREM NewestIsShown == ClipboardSpec => []NewestShows
  BY InitOrder, StepOrder, OrderNewest, PTL DEF ClipboardSpec

\* Turns implement the register: no older write ends up on top of a newer one,
\* and only a newer request turns a holder away.
THEOREM TurnsImplementRegister == ClipboardSpec => TurnsKeepOrder
<1>1. OrderInv /\ OrderInv' /\ [ClipboardNext]_clipboard => [Register!Next]_(Register!vars)
  BY StepRegister
<1> QED
  BY <1>1, InitOrder, StepOrder, InitRegister, PTL
  DEF ClipboardSpec, TurnsKeepOrder, Register!Spec

-----------------------------------------------------------------------------
(* The pipeline's threads take turns                                       *)

\* Jobs that are given up retire their turns, or had none.
LEMMA RetiredIsRetire ==
  ASSUME NEW turns, Retired(turns) PROVE [ClipboardNext]_clipboard
<1>1. CASE UNCHANGED clipboard
  BY <1>1
<1>2. CASE Retire(turns \ {0})
  <2>1. turns \ {0} \in SUBSET DOMAIN fate
    BY <1>2 DEF Retire, Held
  <2> QED
    BY <1>2, <2>1 DEF ClipboardNext
<1> QED
  BY <1>1, <1>2 DEF Retired

LEMMA MainTurns == ASSUME Main PROVE [ClipboardNext]_clipboard
<1>1. ASSUME PostCapture \/ AcceptCapture \/ PostScrolling PROVE [ClipboardNext]_clipboard
  BY <1>1 DEF PostCapture, AcceptCapture, PostScrolling, Reserved, ClipboardNext
<1>2. ASSUME AdmitScrolling PROVE [ClipboardNext]_clipboard
  BY <1>2, RetiredIsRetire DEF AdmitScrolling
<1>3. ASSUME PostOrdered("copy") \/ PostOrdered("upload") PROVE [ClipboardNext]_clipboard
  BY <1>3 DEF PostOrdered, ClipboardNext
<1>4. ASSUME NEW c \in Captures,
             PinCard(c) \/ PinChanged(c) \/ Unpin(c) \/ TerminalUnpin(c) \/ PinReady(c)
      PROVE  [ClipboardNext]_clipboard
  BY <1>4 DEF PinCard, PinChanged, Unpin, TerminalUnpin, PinReady
<1>5. ASSUME PinCreationFailed \/ PinPersistenceFailed \/ Stop \/ StopAcquisition \/ StopWorker \/ Down
      PROVE  [ClipboardNext]_clipboard
  BY <1>5 DEF PinCreationFailed, PinPersistenceFailed, Stop, StopAcquisition, StopWorker, Down
<1> QED
  BY <1>1, <1>2, <1>3, <1>4, <1>5 DEF Main

LEMMA ThreadTurns ==
  ASSUME NEW t, TakesTurn(t) \/ Writes(t) PROVE [ClipboardNext]_clipboard
<1>1. CASE TakesTurn(t)
  BY <1>1 DEF TakesTurn, Superseded, Run, Held, ClipboardNext
<1>2. CASE Writes(t)
  BY <1>2 DEF Writes, Finish, ClipboardNext
<1> QED
  BY <1>1, <1>2

LEMMA AcquisitionTurns ==
  ASSUME Acquisition \/ Pixels PROVE [ClipboardNext]_clipboard
<1>1. ASSUME Acquires \/ SendsFinalization \/ Publishes \/ TakesPixels
      PROVE  [ClipboardNext]_clipboard
  BY <1>1 DEF Acquires, SendsFinalization, Publishes, TakesPixels
<1>2. ASSUME AcquisitionFails PROVE [ClipboardNext]_clipboard
  BY <1>2, RetiredIsRetire DEF AcquisitionFails
<1> QED
  BY <1>1, <1>2, ThreadTurns DEF Acquisition, Pixels

LEMMA WorkerTurns == ASSUME Worker PROVE [ClipboardNext]_clipboard
<1>1. ASSUME StartFails PROVE [ClipboardNext]_clipboard
  BY <1>1, RetiredIsRetire DEF StartFails
<1>2. ASSUME HandsOnUpload PROVE [ClipboardNext]_clipboard
  BY <1>2, RetiredIsRetire DEF HandsOnUpload
<1>3. ASSUME Starts \/ Accepts \/ Finalizes \/ RemembersShare \/ SetsPin \/ PinFails
             \/ Flushes \/ WorkerStops \/ WorkerLeaves \/ WorkerGone
      PROVE  [ClipboardNext]_clipboard
  BY <1>3 DEF Starts, Accepts, Finalizes, RemembersShare, SetsPin, PinFails,
    Flushes, WorkerStops, WorkerLeaves, WorkerGone
<1> QED
  BY <1>1, <1>2, <1>3, ThreadTurns DEF Worker

LEMMA UploadingTurns == ASSUME Uploading PROVE [ClipboardNext]_clipboard
<1>1. ASSUME UploadsNext PROVE [ClipboardNext]_clipboard
  BY <1>1, RetiredIsRetire DEF UploadsNext
<1>2. ASSUME UploadFails PROVE [ClipboardNext]_clipboard
  BY <1>2, RetiredIsRetire DEF UploadFails
<1>3. ASSUME Uploads PROVE [ClipboardNext]_clipboard
  BY <1>3 DEF Uploads
<1> QED
  BY <1>1, <1>2, <1>3, ThreadTurns DEF Uploading

\* Every step of every thread keeps to the turns.
LEMMA StepTurns == [Next]_vars => [ClipboardNext]_clipboard
<1> SUFFICES ASSUME [Next]_vars PROVE [ClipboardNext]_clipboard
  OBVIOUS
<1>1. CASE UNCHANGED vars
  BY <1>1 DEF vars, clipboard
<1>2. CASE Finished
  BY <1>2 DEF Finished, vars, clipboard
<1> QED
  BY <1>1, <1>2, MainTurns, AcquisitionTurns, WorkerTurns, UploadingTurns DEF Next

LEMMA PipelineTurns == Spec => ClipboardSpec
<1>1. Init => ClipboardInit
  BY DEF Init
<1> QED
  BY <1>1, StepTurns, PTL DEF Spec, ClipboardSpec

-----------------------------------------------------------------------------
(* The inductive invariant                                                 *)

Members(jobs) == {jobs[i] : i \in DOMAIN jobs}

\* a comes out of its channel before b
Ahead(jobs, a, b) ==
  \E i, j \in DOMAIN jobs : i < j /\ jobs[i] = a /\ jobs[j] = b

StopJob == [kind |-> "stop", turn |-> 0]
CaptureJobs == [kind : {"capture"}, turn : Nat, card : Nat]
CapturedJobs == [kind : {"captured"}, turn : Nat, card : Nat]
CopyJobs == [kind : {"copy"}, turn : Nat \ {0}]
UploadJobs == [kind : {"upload"}, turn : Nat \ {0}]
Finalizations == [kind : {"finalize"}, turn : {0}, card : Nat]
ShareJobs == [kind : {"share"}, turn : {0}, link : Nat]
PinCardJobs == [kind : {"pincard"}, turn : {0}, capture : Captures, gen : Nat, state : Nat]
ClosingJobs ==
  [kind : {"setpin", "unpin"}, turn : {0}, capture : Captures, gen : Nat, state : {None}]

AcquisitionJobs == CaptureJobs \union {StopJob}
WorkerJobs ==
  CapturedJobs \union CopyJobs \union UploadJobs \union Finalizations \union ShareJobs
    \union PinCardJobs \union ClosingJobs \union {FlushPins, StopJob}
NetworkJobs == UploadJobs \union {StopJob}

At(jobs, steps) == [job : jobs, step : steps]

AcquisitionAt ==
  At({Resting}, {"idle", "stopped"})
    \union At(CaptureJobs, {"taking", "turn", "writing", "send", "publish"})
WorkerAt ==
  At({Resting}, {"idle", "leaving", "stopped"})
    \union At(CapturedJobs, {"turn", "writing", "send"})
    \union At(CopyJobs, {"turn", "writing"})
    \union At(Finalizations, {"finalize"})
UploadsAt ==
  At({Resting}, {"idle", "stopped"}) \union At(UploadJobs, {"network", "turn", "writing"})

Placements == [gen : Nat, state : Nat]

PinStates ==
  [gen : Nat, visible : BOOLEAN, newest : Nat, pending : Placements \union {None},
   settled : Nat, stored : Nat \union {None}, restoring : BOOLEAN,
   behind : Nat \union {None}, told : BOOLEAN]

Refusals == [kind : {"creation", "persistence"}, capture : Captures, gen : Nat]

Stages == {"running", "scrolling", "unpinning", "uploads", "acquisition", "worker", "down"}

CardStates == {"admitted", "queued", "ready", "final", "failed", "lost"}

\* each thread gets its own kind of job, and is at a step of the one it has
Shaped ==
  /\ main \in [at : Stages, turn : Nat]
  /\ queue \in [Threads -> Seq(AcquisitionJobs \union WorkerJobs)]
  /\ queue["acquisition"] \in Seq(AcquisitionJobs)
  /\ queue["worker"] \in Seq(WorkerJobs)
  /\ queue["uploads"] \in Seq(NetworkJobs)
  /\ doing \in [Threads -> AcquisitionAt \union WorkerAt \union UploadsAt]
  /\ doing["acquisition"] \in AcquisitionAt
  /\ doing["worker"] \in WorkerAt
  /\ doing["uploads"] \in UploadsAt
  /\ frames \in Nat /\ busy \in BOOLEAN /\ late \in BOOLEAN
  /\ cards \in Seq(CardStates)
  /\ shares \in [linked : SUBSET Nat, remembered : SUBSET Nat]
  /\ pins \in [Captures -> PinStates]
  /\ failed \in Seq(Refusals)

\* A turn nobody has run is held by the main thread or by a job.
Holds(n) == n = main.turn \/ \E t \in Threads : \E job \in Jobs(t) : job.turn = n

Open(n) == n \in DOMAIN fate /\ fate[n] \in {"held", "writing"}

Tracked ==
  /\ main.turn <= Issued
  /\ main.at # "scrolling" => main.turn = 0
  /\ \A t \in Threads : \A job \in Jobs(t) : job.turn <= Issued
  /\ \A n \in DOMAIN fate : Open(n) => Holds(n)
  /\ \A t \in Threads : doing[t].step \in {"send", "publish"} => ~Open(doing[t].job.turn)

\* What stop has asked of a thread tells how far stop has come, and a thread
\* that has ended has nothing left to do.
Fenced ==
  /\ StopJob \in Members(queue["uploads"]) => Cancelled
  /\ Stopped("uploads") => Cancelled /\ queue["uploads"] = <<>>
  /\ StopJob \in Members(queue["acquisition"]) \/ Stopped("acquisition")
       => main.at \in {"acquisition", "worker", "down"}
  /\ Stopped("acquisition") => queue["acquisition"] = <<>>
  /\ \A job \in AcquisitionJobs : ~Ahead(queue["acquisition"], StopJob, job)
  /\ StopJob \in Members(queue["worker"]) => main.at \in {"worker", "down"}
  /\ doing["worker"].step \in {"leaving", "stopped"} =>
       /\ main.at \in {"worker", "down"}
       /\ Members(queue["worker"]) \subseteq Finalizations
       /\ ~late => queue["worker"] = <<>>
  /\ Stopped("worker") => queue["worker"] = <<>>
  /\ main.at \in {"acquisition", "worker", "down"} => Stopped("uploads")
  /\ main.at \in {"worker", "down"} /\ ~late => Stopped("acquisition")
  /\ main.at = "down" /\ ~late => Stopped("worker")

\* A forwarded unpin that waits in the channel has the main thread waiting.
Unpinning ==
  /\ \A job \in Members(queue["worker"]) : job.kind = "unpin" => main.at = "unpinning"
  /\ \A a, b \in WorkerJobs :
       Ahead(queue["worker"], a, b) => ~(a.kind = "unpin" /\ b.kind = "unpin")

\* A link that was made is in history, or in the channel to the only writer.
Linked ==
  /\ shares.linked \subseteq 1..Issued
  /\ \A n \in shares.linked :
       n \in shares.remembered
         \/ \E job \in Members(queue["worker"]) : job.kind = "share" /\ job.link = n
  /\ shares.remembered \subseteq shares.linked
  /\ \A job \in Members(queue["worker"]) : job.kind = "share" => job.link \in shares.linked

Flight == {n \in DOMAIN cards : cards[n] \in {"admitted", "queued", "ready"}}

Capturing == {"capture", "captured"}

\* who has the pixels of a card that is still being taken, and of one that
\* waits to be finalized
Taking(n) ==
  \E job \in Jobs("acquisition") \union Jobs("worker") : job.kind \in Capturing /\ job.card = n

Finalizing(n) == \E job \in Jobs("worker") : job.kind = "finalize" /\ job.card = n

\* Every frame in flight is in one place, and what it is there for agrees with
\* how far it has come.
Counted ==
  /\ frames = Cardinality(Flight) /\ frames <= MaxFrames
  /\ \A n \in DOMAIN cards :
       /\ cards[n] = "admitted" => Taking(n)
       /\ cards[n] \in {"queued", "ready"} => Finalizing(n)
       /\ cards[n] = "lost" => late
  /\ \A t \in Threads : \A job \in Members(queue[t]) :
       /\ job.kind \in Capturing => job.card \in DOMAIN cards /\ cards[job.card] = "admitted"
       /\ job.kind = "finalize" =>
            job.card \in DOMAIN cards /\ cards[job.card] \in {"queued", "ready"}
  /\ doing["acquisition"].job.kind = "capture" =>
       /\ doing["acquisition"].job.card \in DOMAIN cards
       /\ cards[doing["acquisition"].job.card] \in
            IF doing["acquisition"].step = "publish" THEN {"queued", "lost"} ELSE {"admitted"}
  /\ doing["worker"].job.kind \in {"captured", "finalize"} =>
       /\ doing["worker"].job.card \in DOMAIN cards
       /\ cards[doing["worker"].job.card] \in
            IF doing["worker"].job.kind = "captured" THEN {"admitted"} ELSE {"queued", "ready"}

\* No card is at hand twice.
Once ==
  /\ \A a, b \in WorkerJobs : Ahead(queue["worker"], a, b) =>
       ~(a.kind = b.kind /\ a.kind \in {"captured", "finalize"} /\ a.card = b.card)
  /\ \A job \in Members(queue["worker"]) :
       /\ job.kind = doing["worker"].job.kind /\ job.kind \in {"captured", "finalize"} =>
            job.card # doing["worker"].job.card
       /\ job.kind = "captured" =>
            \A other \in Jobs("acquisition") : other.kind = "capture" => other.card # job.card
  /\ doing["worker"].job.kind = "captured" =>
       \A other \in Jobs("acquisition") :
         other.kind = "capture" => other.card # doing["worker"].job.card

\* The gate is shut while there is one capture to be taken, and only then.
Gated ==
  /\ busy <=> \E job \in Jobs("acquisition") : job.kind = "capture"
  /\ doing["acquisition"].job.kind = "capture" =>
       \A job \in Members(queue["acquisition"]) : job.kind # "capture"
  /\ \A a, b \in AcquisitionJobs : Ahead(queue["acquisition"], a, b) =>
       ~(a.kind = "capture" /\ b.kind = "capture")

OfPins == {"pincard", "setpin", "unpin"}

Asked(c) == {job \in Members(queue["worker"]) : job.kind \in OfPins /\ job.capture = c}

\* what the worker will make of a pin whose latest intent is in its channel
Promised(p, job) ==
  IF ~p.visible THEN job.kind \in {"setpin", "unpin"}
  ELSE /\ job.kind = "pincard"
       /\ p.behind # None => job.state = p.behind
       /\ job.state = p.newest \/ p.behind # None \/ p.pending # None

\* what history shows of a pin whose latest intent has been carried out
Shows(p) ==
  IF ~p.visible THEN p.stored = None
  ELSE p.pending # None \/ (p.stored # None /\ p.stored \in {p.newest, p.behind})

\* news on their way that the latest intent could not be
Hearing(messages, c, p) ==
  \E e \in messages : e.capture = c /\ e.gen = p.gen /\ (e.kind = "creation" => p.visible)

Kept(c, p) == p.told \/ Hearing(Members(failed), c, p) \/ Shows(p)

\* A move that waits is the pin's latest, and a wake-up is on its way to it.
Woken ==
  \A c \in Captures : pins[c].pending # None =>
    /\ FlushPins \in Members(queue["worker"])
    /\ pins[c].visible
    /\ pins[c].pending = [gen |-> pins[c].gen, state |-> pins[c].newest]

\* History knows of no intent that was not made, and has what it had at first of
\* a pin nobody has touched.
Untouched ==
  \A c \in Captures :
    /\ pins[c].settled <= pins[c].gen
    /\ pins[c].gen = 0 =>
         /\ ~pins[c].visible /\ pins[c].newest = 0
         /\ pins[c].restoring => pins[c].stored = 0

\* If any intent is in the channel, so is the latest.
Latest ==
  \A c \in Captures :
    /\ \A job \in Asked(c) : job.gen \in 1..pins[c].gen
    /\ Asked(c) # {} => \E job \in Asked(c) : job.gen = pins[c].gen

\* What is in the channel about a pin will leave history as it should be ...
Promising ==
  \A c \in Captures : \A job \in Asked(c) :
    job.gen = pins[c].gen => Promised(pins[c], job)

\* ... and if nothing is, history is, or the user hears that it is not.
Keeping == \A c \in Captures : pins[c].gen > 0 /\ Asked(c) = {} => Kept(c, pins[c])

Lagging == Woken /\ Untouched /\ Latest /\ Promising /\ Keeping

\* Intents come out of the channel in the order they were made, and a wake-up
\* ahead of a pin's creation is known to be.
InTurn ==
  \A a, b \in WorkerJobs : Ahead(queue["worker"], a, b) =>
    /\ a.kind \in OfPins /\ b.kind \in OfPins /\ a.capture = b.capture => a.gen < b.gen
    /\ a.kind = "flush" /\ b.kind \in OfPins /\ b.gen = pins[b.capture].gen
         /\ pins[b.capture].visible => pins[b.capture].behind # None

IInv ==
  Shaped /\ Tracked /\ Fenced /\ Unpinning /\ Linked /\ Counted /\ Once /\ Gated
    /\ Lagging /\ InTurn

-----------------------------------------------------------------------------
(* Lemmas about channels                                                   *)

LEMMA InChannel ==
  ASSUME NEW S, NEW jobs \in Seq(S) PROVE Members(jobs) \subseteq S
  BY ElementOfSeq DEF Members

LEMMA NoJobs == Members(<<>>) = {} /\ \A a, b : ~Ahead(<<>>, a, b)
  BY DEF Members, Ahead

LEMMA NonEmpty ==
  ASSUME NEW S, NEW jobs \in Seq(S), Members(jobs) = {} PROVE jobs = <<>>
<1>1. Len(jobs) \in Nat /\ DOMAIN jobs = 1..Len(jobs)
  BY LenProperties
<1>2. CASE Len(jobs) = 0
  BY <1>2, EmptySeq
<1>3. CASE Len(jobs) # 0
  <2>1. 1 \in DOMAIN jobs
    BY <1>1, <1>3
  <2>2. jobs[1] \in Members(jobs)
    BY <2>1 DEF Members
  <2> QED
    BY <2>2
<1> QED
  BY <1>2, <1>3

LEMMA AheadInChannel ==
  ASSUME NEW jobs, NEW a, NEW b, Ahead(jobs, a, b) PROVE a \in Members(jobs) /\ b \in Members(jobs)
  BY DEF Ahead, Members

LEMMA SentJobs ==
  ASSUME NEW S, NEW jobs \in Seq(S), NEW job \in S
  PROVE  /\ Append(jobs, job) \in Seq(S)
         /\ Members(Append(jobs, job)) = Members(jobs) \union {job}
         /\ \A a, b : Ahead(Append(jobs, job), a, b) =>
              Ahead(jobs, a, b) \/ (a \in Members(jobs) /\ b = job)
<1> DEFINE more == Append(jobs, job)
<1>1. /\ more \in Seq(S) /\ Len(jobs) \in Nat /\ DOMAIN jobs = 1..Len(jobs)
      /\ DOMAIN more = 1..Len(jobs) + 1
      /\ \A i \in 1..Len(jobs) : more[i] = jobs[i]
      /\ more[Len(jobs) + 1] = job
  BY AppendProperties, LenProperties
<1>2. Members(more) = Members(jobs) \union {job}
  BY <1>1 DEF Members
<1>3. ASSUME NEW a, NEW b, Ahead(more, a, b)
      PROVE  Ahead(jobs, a, b) \/ (a \in Members(jobs) /\ b = job)
  <2> PICK i \in DOMAIN more, j \in DOMAIN more : i < j /\ more[i] = a /\ more[j] = b
    BY <1>3 DEF Ahead
  <2>1. i \in 1..Len(jobs) /\ more[i] = jobs[i]
    BY <1>1
  <2>2. CASE j = Len(jobs) + 1
    BY <1>1, <2>1, <2>2 DEF Members
  <2>3. CASE j # Len(jobs) + 1
    <3>1. j \in 1..Len(jobs) /\ more[j] = jobs[j]
      BY <1>1, <2>3
    <3> QED
      BY <1>1, <2>1, <3>1 DEF Ahead
  <2> QED
    BY <2>2, <2>3
<1> QED
  BY <1>1, <1>2, <1>3

LEMMA PoppedJobs ==
  ASSUME NEW S, NEW jobs \in Seq(S), jobs # <<>>
  PROVE  /\ Head(jobs) \in S /\ Tail(jobs) \in Seq(S)
         /\ Members(jobs) = Members(Tail(jobs)) \union {Head(jobs)}
         /\ \A a, b : Ahead(Tail(jobs), a, b) => Ahead(jobs, a, b)
         /\ \A b \in Members(Tail(jobs)) : Ahead(jobs, Head(jobs), b)
<1> DEFINE rest == Tail(jobs)
<1>1. /\ Head(jobs) \in S /\ rest \in Seq(S)
      /\ Len(jobs) \in Nat \ {0} /\ DOMAIN jobs = 1..Len(jobs)
      /\ DOMAIN rest = 1..Len(jobs) - 1
      /\ \A i \in 1..Len(jobs) - 1 : rest[i] = jobs[i + 1]
      /\ Head(jobs) = jobs[1]
  BY HeadTailProperties, LenProperties, EmptySeq
<1>2. Members(jobs) = Members(rest) \union {Head(jobs)}
  <2>1. ASSUME NEW i \in DOMAIN jobs PROVE jobs[i] \in Members(rest) \union {Head(jobs)}
    <3>1. CASE i = 1
      BY <1>1, <3>1
    <3>2. CASE i # 1
      <4>1. i - 1 \in DOMAIN rest /\ rest[i - 1] = jobs[i]
        BY <1>1, <3>2
      <4> QED
        BY <4>1 DEF Members
    <3> QED
      BY <3>1, <3>2
  <2>2. ASSUME NEW i \in DOMAIN rest PROVE rest[i] \in Members(jobs)
    <3>1. i + 1 \in DOMAIN jobs /\ rest[i] = jobs[i + 1]
      BY <1>1
    <3> QED
      BY <3>1 DEF Members
  <2>3. Head(jobs) \in Members(jobs)
    BY <1>1 DEF Members
  <2>4. Members(jobs) \subseteq Members(rest) \union {Head(jobs)}
    BY <2>1 DEF Members
  <2>5. Members(rest) \subseteq Members(jobs)
    BY <2>2 DEF Members
  <2> QED
    BY <2>3, <2>4, <2>5
<1>3. ASSUME NEW a, NEW b, Ahead(rest, a, b) PROVE Ahead(jobs, a, b)
  <2> PICK i \in DOMAIN rest, j \in DOMAIN rest : i < j /\ rest[i] = a /\ rest[j] = b
    BY <1>3 DEF Ahead
  <2>1. /\ i + 1 \in DOMAIN jobs /\ j + 1 \in DOMAIN jobs /\ i + 1 < j + 1
        /\ jobs[i + 1] = a /\ jobs[j + 1] = b
    BY <1>1
  <2> QED
    BY <2>1 DEF Ahead
<1>4. ASSUME NEW b \in Members(rest) PROVE Ahead(jobs, Head(jobs), b)
  <2> PICK j \in DOMAIN rest : rest[j] = b
    BY <1>4 DEF Members
  <2>1. 1 \in DOMAIN jobs /\ j + 1 \in DOMAIN jobs /\ 1 < j + 1 /\ jobs[j + 1] = b
    BY <1>1
  <2> QED
    BY <1>1, <2>1 DEF Ahead
<1> QED
  BY <1>1, <1>2, <1>3, <1>4

-----------------------------------------------------------------------------
(* What sending to a thread and taking from its channel does               *)

LEMMA WorkerGets ==
  ASSUME Shaped, NEW job \in WorkerJobs, queue' = Sent("worker", job)
  PROVE  /\ queue' \in [Threads -> Seq(AcquisitionJobs \union WorkerJobs)]
         /\ queue'["worker"] \in Seq(WorkerJobs)
         /\ queue'["acquisition"] = queue["acquisition"]
         /\ queue'["uploads"] = queue["uploads"]
         /\ Members(queue'["worker"]) = Members(queue["worker"]) \union {job}
         /\ \A a, b : Ahead(queue'["worker"], a, b) =>
              Ahead(queue["worker"], a, b) \/ (a \in Members(queue["worker"]) /\ b = job)
<1> DEFINE more == Append(queue["worker"], job)
<1>1. /\ queue \in [Threads -> Seq(AcquisitionJobs \union WorkerJobs)]
      /\ queue["worker"] \in Seq(WorkerJobs)
  BY DEF Shaped
<1>2. /\ more \in Seq(WorkerJobs)
      /\ Members(more) = Members(queue["worker"]) \union {job}
      /\ \A a, b : Ahead(more, a, b) =>
           Ahead(queue["worker"], a, b) \/ (a \in Members(queue["worker"]) /\ b = job)
  BY <1>1, SentJobs
<1>3. more \in Seq(AcquisitionJobs \union WorkerJobs)
  BY <1>2, SeqMonotonic
<1>4. queue' = [queue EXCEPT !["worker"] = more]
  BY DEF Sent
<1>5. /\ queue'["worker"] = more /\ queue'["acquisition"] = queue["acquisition"]
      /\ queue'["uploads"] = queue["uploads"]
      /\ queue' \in [Threads -> Seq(AcquisitionJobs \union WorkerJobs)]
  BY <1>1, <1>3, <1>4 DEF Threads
<1>6. ASSUME NEW a, NEW b, Ahead(queue'["worker"], a, b)
      PROVE  Ahead(queue["worker"], a, b) \/ (a \in Members(queue["worker"]) /\ b = job)
  <2>1. Ahead(more, a, b)
    BY <1>5, <1>6
  <2> HIDE DEF more
  <2> QED
    BY <1>2, <2>1
<1>7. /\ queue'["worker"] \in Seq(WorkerJobs)
      /\ Members(queue'["worker"]) = Members(queue["worker"]) \union {job}
  BY <1>2, <1>5
<1> QED
  BY <1>5, <1>6, <1>7

LEMMA WorkerPops ==
  ASSUME Shaped, queue["worker"] # <<>>, queue' = Popped("worker")
  PROVE  /\ queue' \in [Threads -> Seq(AcquisitionJobs \union WorkerJobs)]
         /\ queue'["worker"] \in Seq(WorkerJobs)
         /\ queue'["acquisition"] = queue["acquisition"]
         /\ queue'["uploads"] = queue["uploads"]
         /\ Head(queue["worker"]) \in WorkerJobs
         /\ Members(queue["worker"]) =
              Members(queue'["worker"]) \union {Head(queue["worker"])}
         /\ \A a, b : Ahead(queue'["worker"], a, b) => Ahead(queue["worker"], a, b)
         /\ \A b \in Members(queue'["worker"]) :
              Ahead(queue["worker"], Head(queue["worker"]), b)
<1> DEFINE rest == Tail(queue["worker"])
<1>1. /\ queue \in [Threads -> Seq(AcquisitionJobs \union WorkerJobs)]
      /\ queue["worker"] \in Seq(WorkerJobs)
  BY DEF Shaped
<1>2. /\ rest \in Seq(WorkerJobs) /\ Head(queue["worker"]) \in WorkerJobs
      /\ Members(queue["worker"]) = Members(rest) \union {Head(queue["worker"])}
      /\ \A a, b : Ahead(rest, a, b) => Ahead(queue["worker"], a, b)
      /\ \A b \in Members(rest) : Ahead(queue["worker"], Head(queue["worker"]), b)
  BY <1>1, PoppedJobs
<1>3. rest \in Seq(AcquisitionJobs \union WorkerJobs)
  BY <1>2, SeqMonotonic
<1>4. queue' = [queue EXCEPT !["worker"] = rest]
  BY DEF Popped
<1> QED
  BY <1>1, <1>2, <1>3, <1>4 DEF Threads

LEMMA AcquisitionGets ==
  ASSUME Shaped, NEW job \in AcquisitionJobs, queue' = Sent("acquisition", job)
  PROVE  /\ queue' \in [Threads -> Seq(AcquisitionJobs \union WorkerJobs)]
         /\ queue'["acquisition"] \in Seq(AcquisitionJobs)
         /\ queue'["worker"] = queue["worker"]
         /\ queue'["uploads"] = queue["uploads"]
         /\ Members(queue'["acquisition"]) = Members(queue["acquisition"]) \union {job}
         /\ \A a, b : Ahead(queue'["acquisition"], a, b) =>
              Ahead(queue["acquisition"], a, b) \/ (a \in Members(queue["acquisition"]) /\ b = job)
<1> DEFINE more == Append(queue["acquisition"], job)
<1>1. /\ queue \in [Threads -> Seq(AcquisitionJobs \union WorkerJobs)]
      /\ queue["acquisition"] \in Seq(AcquisitionJobs)
  BY DEF Shaped
<1>2. /\ more \in Seq(AcquisitionJobs)
      /\ Members(more) = Members(queue["acquisition"]) \union {job}
      /\ \A a, b : Ahead(more, a, b) =>
           Ahead(queue["acquisition"], a, b) \/ (a \in Members(queue["acquisition"]) /\ b = job)
  BY <1>1, SentJobs
<1>3. more \in Seq(AcquisitionJobs \union WorkerJobs)
  BY <1>2, SeqMonotonic
<1>4. queue' = [queue EXCEPT !["acquisition"] = more]
  BY DEF Sent
<1>5. /\ queue'["acquisition"] = more /\ queue'["worker"] = queue["worker"]
      /\ queue'["uploads"] = queue["uploads"]
      /\ queue' \in [Threads -> Seq(AcquisitionJobs \union WorkerJobs)]
  BY <1>1, <1>3, <1>4 DEF Threads
<1>6. ASSUME NEW a, NEW b, Ahead(queue'["acquisition"], a, b)
      PROVE  Ahead(queue["acquisition"], a, b) \/ (a \in Members(queue["acquisition"]) /\ b = job)
  <2>1. Ahead(more, a, b)
    BY <1>5, <1>6
  <2> HIDE DEF more
  <2> QED
    BY <1>2, <2>1
<1>7. /\ queue'["acquisition"] \in Seq(AcquisitionJobs)
      /\ Members(queue'["acquisition"]) = Members(queue["acquisition"]) \union {job}
  BY <1>2, <1>5
<1> QED
  BY <1>5, <1>6, <1>7

LEMMA AcquisitionPops ==
  ASSUME Shaped, queue["acquisition"] # <<>>, queue' = Popped("acquisition")
  PROVE  /\ queue' \in [Threads -> Seq(AcquisitionJobs \union WorkerJobs)]
         /\ queue'["acquisition"] \in Seq(AcquisitionJobs)
         /\ queue'["worker"] = queue["worker"]
         /\ queue'["uploads"] = queue["uploads"]
         /\ Head(queue["acquisition"]) \in AcquisitionJobs
         /\ Members(queue["acquisition"]) =
              Members(queue'["acquisition"]) \union {Head(queue["acquisition"])}
         /\ \A a, b : Ahead(queue'["acquisition"], a, b) => Ahead(queue["acquisition"], a, b)
         /\ \A b \in Members(queue'["acquisition"]) :
              Ahead(queue["acquisition"], Head(queue["acquisition"]), b)
<1> DEFINE rest == Tail(queue["acquisition"])
<1>1. /\ queue \in [Threads -> Seq(AcquisitionJobs \union WorkerJobs)]
      /\ queue["acquisition"] \in Seq(AcquisitionJobs)
  BY DEF Shaped
<1>2. /\ rest \in Seq(AcquisitionJobs) /\ Head(queue["acquisition"]) \in AcquisitionJobs
      /\ Members(queue["acquisition"]) = Members(rest) \union {Head(queue["acquisition"])}
      /\ \A a, b : Ahead(rest, a, b) => Ahead(queue["acquisition"], a, b)
      /\ \A b \in Members(rest) : Ahead(queue["acquisition"], Head(queue["acquisition"]), b)
  BY <1>1, PoppedJobs
<1>3. rest \in Seq(AcquisitionJobs \union WorkerJobs)
  BY <1>2, SeqMonotonic
<1>4. queue' = [queue EXCEPT !["acquisition"] = rest]
  BY DEF Popped
<1> QED
  BY <1>1, <1>2, <1>3, <1>4 DEF Threads

\* What is in a channel is of its thread's kind.
LEMMA Channels ==
  ASSUME Shaped
  PROVE  /\ Members(queue["acquisition"]) \subseteq AcquisitionJobs
         /\ Members(queue["worker"]) \subseteq WorkerJobs
         /\ Members(queue["uploads"]) \subseteq NetworkJobs
  BY InChannel DEF Shaped

LEMMA Hands ==
  \A t : /\ Jobs(t) = Members(queue[t]) \union {doing[t].job}
        /\ Jobs(t)' = Members(queue'[t]) \union {doing'[t].job}
  BY DEF Jobs, Members

\* What each kind of job carries.
LEMMA JobFields ==
  ASSUME NEW job \in AcquisitionJobs \union WorkerJobs \union {Resting}
  PROVE  /\ job.turn \in Nat
         /\ job.kind \in Capturing => job.card \in Nat
         /\ job.kind = "finalize" => job.card \in Nat /\ job.turn = 0
         /\ job.kind \in {"copy", "upload"} => job.turn # 0
         /\ job.kind = "share" => job.link \in Nat /\ job.turn = 0
         /\ job.kind \in OfPins =>
              /\ job.capture \in Captures /\ job.gen \in Nat /\ job.turn = 0
              /\ job.state \in IF job.kind = "pincard" THEN Nat ELSE {None}
         /\ job.kind \in {"flush", "stop", "none"} => job.turn = 0
         /\ job.kind = "stop" => job = StopJob
         /\ job.kind = "flush" => job = FlushPins
         /\ job.kind = "none" => job = Resting
         /\ job.kind \in {"capture", "captured", "finalize", "copy", "upload", "share", "flush", "stop", "none"} \union OfPins
  BY DEF AcquisitionJobs, WorkerJobs, CaptureJobs, CapturedJobs, CopyJobs, UploadJobs,
    Finalizations, ShareJobs, PinCardJobs, ClosingJobs, FlushPins, StopJob, Resting,
    Capturing, OfPins

\* What each thread may be at.
LEMMA Steps ==
  ASSUME Shaped
  PROVE  /\ doing["acquisition"].job \in CaptureJobs \union {Resting}
         /\ doing["acquisition"].step \in
              IF doing["acquisition"].job = Resting THEN {"idle", "stopped"}
              ELSE {"taking", "turn", "writing", "send", "publish"}
         /\ doing["worker"].job \in CapturedJobs \union CopyJobs \union Finalizations \union {Resting}
         /\ doing["worker"].step \in
              IF doing["worker"].job = Resting THEN {"idle", "leaving", "stopped"}
              ELSE IF doing["worker"].job.kind = "captured" THEN {"turn", "writing", "send"}
              ELSE IF doing["worker"].job.kind = "copy" THEN {"turn", "writing"}
              ELSE {"finalize"}
         /\ doing["uploads"].job \in UploadJobs \union {Resting}
         /\ doing["uploads"].step \in
              IF doing["uploads"].job = Resting THEN {"idle", "stopped"}
              ELSE {"network", "turn", "writing"}
<1>1. /\ doing["acquisition"] \in AcquisitionAt /\ doing["worker"] \in WorkerAt
      /\ doing["uploads"] \in UploadsAt
  BY DEF Shaped
<1>2. /\ doing["acquisition"].job \in CaptureJobs \union {Resting}
      /\ doing["acquisition"].step \in
           IF doing["acquisition"].job = Resting THEN {"idle", "stopped"}
           ELSE {"taking", "turn", "writing", "send", "publish"}
  BY <1>1 DEF AcquisitionAt, At, CaptureJobs, Resting
<1>3. /\ doing["worker"].job \in CapturedJobs \union CopyJobs \union Finalizations \union {Resting}
      /\ doing["worker"].step \in
           IF doing["worker"].job = Resting THEN {"idle", "leaving", "stopped"}
           ELSE IF doing["worker"].job.kind = "captured" THEN {"turn", "writing", "send"}
           ELSE IF doing["worker"].job.kind = "copy" THEN {"turn", "writing"}
           ELSE {"finalize"}
  BY <1>1 DEF WorkerAt, At, CapturedJobs, CopyJobs, Finalizations, Resting
<1>4. /\ doing["uploads"].job \in UploadJobs \union {Resting}
      /\ doing["uploads"].step \in
           IF doing["uploads"].job = Resting THEN {"idle", "stopped"}
           ELSE {"network", "turn", "writing"}
  BY <1>1 DEF UploadsAt, At, UploadJobs, Resting
<1> QED
  BY <1>2, <1>3, <1>4

-----------------------------------------------------------------------------
(* What a step that does not concern a part of the invariant leaves of it  *)

CardKinds == {"capture", "captured", "finalize"}

Same(kinds) ==
  /\ \A t \in Threads : \A job :
       job.kind \in kinds => (job \in Members(queue'[t]) <=> job \in Members(queue[t]))
  /\ \A t \in Threads : \A a, b :
       a.kind \in kinds /\ b.kind \in kinds /\ Ahead(queue'[t], a, b) => Ahead(queue[t], a, b)

LEMMA PinsAlone ==
  ASSUME Lagging, InTurn, Unpinning, UNCHANGED pinned, Same(OfPins \union {"flush"}),
         main.at = "unpinning" => main'.at = "unpinning"
  PROVE  Lagging' /\ InTurn' /\ Unpinning'
<1>1. \A c \in Captures : Asked(c)' = Asked(c)
  BY DEF Asked, Same, Threads
<1>2. FlushPins \in Members(queue["worker"]) => FlushPins \in Members(queue'["worker"])
  BY DEF Same, FlushPins, Threads
<1>3. pins' = pins /\ failed' = failed
  BY DEF pinned
<1>4. Lagging'
  BY <1>1, <1>2, <1>3 DEF Lagging, Woken, Untouched, Latest, Promising, Keeping, Promised, Kept
<1>5. InTurn'
  BY <1>3 DEF InTurn, Same, OfPins, Threads
<1>6. Unpinning'
  BY DEF Unpinning, Same, OfPins, Threads
<1> QED
  BY <1>4, <1>5, <1>6

LEMMA LinksAlone ==
  ASSUME Linked, UNCHANGED shares, Same({"share"}), Issued \in Nat, Issued' \in Nat, Issued <= Issued'
  PROVE  Linked'
  BY DEF Linked, Same, Threads

\* a thread that had no card's pixels in hand and has none still, or has the same
HandAlone(t) ==
  \/ doing'[t].job = doing[t].job
       /\ (doing'[t].step = "publish" <=> doing[t].step = "publish")
  \/ doing'[t].job.kind \notin CardKinds /\ doing[t].job.kind \notin CardKinds

LEMMA CardsAlone ==
  ASSUME Counted, Once, Gated, UNCHANGED captured, late => late', Same(CardKinds),
         HandAlone("acquisition"), HandAlone("worker")
  PROVE  Counted' /\ Once' /\ Gated'
<1> USE Hands
<1>1. frames' = frames /\ busy' = busy /\ cards' = cards
  BY DEF captured
<1>2. \A t \in {"acquisition", "worker"} : \A job :
        job.kind \in CardKinds => (job \in Jobs(t)' <=> job \in Jobs(t))
  BY DEF Same, HandAlone, Threads
<1>3. \A n : (Taking(n)' <=> Taking(n)) /\ (Finalizing(n)' <=> Finalizing(n))
  BY <1>2 DEF Taking, Finalizing, Capturing, CardKinds
<1>4. Flight' = Flight
  BY <1>1 DEF Flight
<1>5. Counted'
  BY <1>1, <1>3, <1>4 DEF Counted, Same, HandAlone, Capturing, CardKinds
<1>6. Once'
  BY <1>2 DEF Once, Same, HandAlone, CardKinds, Threads
<1>7. Gated'
  BY <1>1, <1>2 DEF Gated, Same, HandAlone, CardKinds, Threads
<1> QED
  BY <1>5, <1>6, <1>7

-----------------------------------------------------------------------------
(* Turns, and cards                                                        *)

LEMMA ReservedOpens ==
  ASSUME TurnsTypeOK, TurnsTypeOK', NEW turn \in {0, Issued + 1}, Reserved(turn)
  PROVE  /\ turn \in Nat /\ Issued \in Nat /\ Issued' \in Nat
         /\ Issued <= Issued' /\ turn <= Issued'
         /\ \A n : Open(n)' => Open(n) \/ (n = turn /\ n = Issued + 1)
         /\ \A n : Open(n) => n \in 1..Issued
<1> USE Tickets
<1>0. \A n : Open(n) => n \in 1..Issued
  BY DEF Open
<1>1. CASE fate' = fate /\ turn = 0
  BY <1>1 DEF Open, Issued
<1>2. CASE turn = Issued + 1 /\ fate' = Append(fate, "held")
  <2>2. /\ Issued' = Issued + 1 /\ DOMAIN fate' = 1..Issued + 1
        /\ \A i \in 1..Issued : fate'[i] = fate[i]
    BY <1>2, AppendProperties DEF TurnsTypeOK, Issued, Fates
  <2> QED
    BY <1>2, <2>2 DEF Open
<1>3. turn = 0 => fate' = fate
  BY DEF Reserved, clipboard
<1> QED
  BY <1>0, <1>1, <1>2, <1>3 DEF Reserved, Reserve

LEMMA RetiredCloses ==
  ASSUME TurnsTypeOK, NEW turns, Retired(turns)
  PROVE  /\ Issued \in Nat /\ Issued' = Issued
         /\ \A n : Open(n)' => Open(n) /\ n \notin turns
<1> USE Tickets
<1>1. CASE UNCHANGED clipboard /\ turns \ {0} = {}
  BY <1>1 DEF clipboard, Open, Issued
<1>2. CASE Retire(turns \ {0})
  <2>1. fate' = [n \in DOMAIN fate |-> IF n \in turns \ {0} THEN "dropped" ELSE fate[n]]
    BY <1>2 DEF Retire
  <2>2. Issued' = Issued /\ DOMAIN fate' = DOMAIN fate
    <3>1. fate' \in Seq(Fates)
      BY <2>1, IsASeq DEF Fates
    <3> QED
      BY <2>1, <3>1, LenProperties DEF Issued
  <2> QED
    BY <2>1, <2>2 DEF Open
<1> QED
  BY <1>1, <1>2 DEF Retired

LEMMA FlightFinite == ASSUME Shaped PROVE IsFiniteSet(Flight)
<1>1. Len(cards) \in Nat /\ DOMAIN cards = 1..Len(cards)
  BY LenProperties DEF Shaped
<1>2. IsFiniteSet(1..Len(cards))
  BY <1>1, FS_Interval
<1> QED
  BY <1>1, <1>2, FS_Subset DEF Flight

LEMMA NewFrame ==
  ASSUME Shaped, Counted, frames' = frames + 1, cards' = Append(cards, "admitted")
  PROVE  /\ cards' \in Seq(CardStates) /\ frames' \in Nat
         /\ NewCard \in Nat /\ NewCard \notin DOMAIN cards
         /\ DOMAIN cards' = DOMAIN cards \union {NewCard}
         /\ cards'[NewCard] = "admitted"
         /\ \A n \in DOMAIN cards : cards'[n] = cards[n]
         /\ frames' = Cardinality(Flight')
<1>1. /\ cards' \in Seq(CardStates) /\ Len(cards) \in Nat /\ DOMAIN cards = 1..Len(cards)
      /\ DOMAIN cards' = 1..Len(cards) + 1 /\ cards'[Len(cards) + 1] = "admitted"
      /\ \A n \in 1..Len(cards) : cards'[n] = cards[n]
  BY AppendProperties, LenProperties DEF Shaped, CardStates
<1>2. Flight' = Flight \union {NewCard} /\ NewCard \notin Flight
  BY <1>1 DEF Flight, NewCard
<1>3. Cardinality(Flight') = Cardinality(Flight) + 1
  BY <1>2, FlightFinite, FS_AddElement
<1>4. frames = Cardinality(Flight) /\ frames \in Nat
  BY DEF Shaped, Counted
<1>5. frames' \in Nat /\ frames' = Cardinality(Flight')
  BY <1>3, <1>4
<1> QED
  BY <1>1, <1>5 DEF NewCard

LEMMA MovesCard ==
  ASSUME Shaped, Counted, NEW n \in Flight, NEW state \in CardStates,
         cards' = [cards EXCEPT ![n] = state]
  PROVE  /\ cards' \in Seq(CardStates) /\ DOMAIN cards' = DOMAIN cards
         /\ cards'[n] = state /\ \A m \in DOMAIN cards : m # n => cards'[m] = cards[m]
         /\ frames \in Nat \ {0} /\ Cardinality(Flight') =
              IF state \in {"admitted", "queued", "ready"} THEN frames ELSE frames - 1
<1>1. /\ cards' \in Seq(CardStates) /\ DOMAIN cards' = DOMAIN cards /\ n \in DOMAIN cards
      /\ cards'[n] = state /\ \A m \in DOMAIN cards : m # n => cards'[m] = cards[m]
  <2>1. cards \in Seq(CardStates) /\ n \in 1..Len(cards) /\ n \in DOMAIN cards
    BY LenProperties DEF Shaped, Flight
  <2> QED
    BY <2>1, ExceptSeq
<1>2. Flight' = IF state \in {"admitted", "queued", "ready"} THEN Flight ELSE Flight \ {n}
  BY <1>1 DEF Flight
<1>3. Cardinality(Flight \ {n}) = Cardinality(Flight) - 1 /\ Cardinality(Flight) \in Nat
  BY FlightFinite, FS_RemoveElement, FS_CardinalityType
<1>4. Cardinality(Flight) # 0
  BY FlightFinite, FS_EmptySet
<1> QED
  BY <1>1, <1>2, <1>3, <1>4 DEF Counted

\* whoever has pixels has those of a card there is
LEMMA CardsAtHand ==
  ASSUME Shaped, Counted, NEW job \in Jobs("acquisition") \union Jobs("worker"),
         job.kind \in CardKinds
  PROVE  job.card \in DOMAIN cards
<1>1. doing["acquisition"].job.kind \in CardKinds => doing["acquisition"].job.kind = "capture"
  BY Steps DEF CaptureJobs, Resting, CardKinds
<1>2. doing["worker"].job.kind \in CardKinds => doing["worker"].job.kind # "capture"
  BY Steps DEF CapturedJobs, CopyJobs, Finalizations, Resting, CardKinds
<1> QED
  BY <1>1, <1>2, Hands DEF Counted, CardKinds, Capturing, Threads

LEMMA TurnsCount ==
  ASSUME Shaped, NEW t \in Threads, NEW job \in Jobs(t) PROVE job.turn \in Nat
<1>1. job \in AcquisitionJobs \union WorkerJobs \union {Resting}
  BY Hands, Channels, Steps DEF Threads, WorkerJobs, AcquisitionJobs, NetworkJobs
<1> QED
  BY <1>1, JobFields

-----------------------------------------------------------------------------
(* The main thread's steps                                                 *)

USE PipelineAssumption

LEMMA AdmitsCapture ==
  ASSUME IInv, NEW turn \in Nat, Issued \in Nat, Issued' \in Nat, Issued <= Issued',
         ~busy, HasRoom, busy' = TRUE, Admitted("acquisition", "capture", turn),
         UNCHANGED <<doing, shares, pinned, late>>,
         main' \in [at : Stages, turn : Nat],
         main.at \in {"running", "scrolling"}, main'.at = "running"
  PROVE  /\ Shaped' /\ Fenced' /\ Unpinning' /\ Linked' /\ Counted' /\ Once' /\ Gated'
         /\ Lagging' /\ InTurn'
         /\ \E job \in AcquisitionJobs : job.turn = turn /\ queue' = Sent("acquisition", job)
<1> USE DEF IInv
<1> DEFINE job == [kind |-> "capture", turn |-> turn, card |-> NewCard]
<1>1. /\ cards' \in Seq(CardStates) /\ frames' \in Nat
      /\ NewCard \in Nat /\ NewCard \notin DOMAIN cards
      /\ DOMAIN cards' = DOMAIN cards \union {NewCard}
      /\ cards'[NewCard] = "admitted"
      /\ \A n \in DOMAIN cards : cards'[n] = cards[n]
      /\ frames' = Cardinality(Flight')
  BY NewFrame DEF Admitted
<1>2. job \in CaptureJobs /\ job \in AcquisitionJobs
  BY <1>1 DEF CaptureJobs, AcquisitionJobs
<1>3. queue' = Sent("acquisition", job)
  BY DEF Admitted
<1>4. /\ queue' \in [Threads -> Seq(AcquisitionJobs \union WorkerJobs)]
      /\ queue'["acquisition"] \in Seq(AcquisitionJobs)
      /\ queue'["worker"] = queue["worker"]
      /\ queue'["uploads"] = queue["uploads"]
      /\ Members(queue'["acquisition"]) = Members(queue["acquisition"]) \union {job}
      /\ \A a, b : Ahead(queue'["acquisition"], a, b) =>
           Ahead(queue["acquisition"], a, b) \/ (a \in Members(queue["acquisition"]) /\ b = job)
  BY <1>2, <1>3, AcquisitionGets
<1> HIDE DEF job
<1>5. job.kind = "capture" /\ job.turn = turn /\ job.card = NewCard
  BY DEF job
<1>6. Shaped'
  BY <1>1, <1>4 DEF Shaped, pinned
<1>7. Fenced'
  <2>1. StopJob \notin Members(queue["acquisition"]) /\ ~Stopped("acquisition")
    BY DEF Fenced
  <2> QED
    BY <1>4, <1>5, <2>1 DEF Fenced, Stopped, Cancelled, StopJob
<1>8. Same(OfPins \union {"flush", "share"})
  BY <1>4, <1>5 DEF Same, Threads, OfPins
<1>9. Unpinning' /\ Lagging' /\ InTurn'
  BY <1>8, PinsAlone DEF Same
<1>10. Linked'
  BY <1>8, LinksAlone DEF Same
<1>11. Counted'
  <2>1. frames' <= MaxFrames
    BY DEF HasRoom, Admitted, Shaped
  <2>2. ASSUME NEW n \in DOMAIN cards'
        PROVE /\ cards'[n] = "admitted" => Taking(n)'
              /\ cards'[n] \in {"queued", "ready"} => Finalizing(n)'
              /\ cards'[n] = "lost" => late
    <3>1. \A m : m = NewCard => Taking(m)'
      BY <1>4, <1>5, Hands DEF Taking, Capturing
    <3>2. \A m : (Taking(m) => Taking(m)') /\ (Finalizing(m) => Finalizing(m)')
      BY <1>4, Hands DEF Taking, Finalizing
    <3> QED
      BY <1>1, <3>1, <3>2 DEF Counted
  <2>3. \A t \in Threads : \A j \in Members(queue'[t]) :
          /\ j.kind \in Capturing => j.card \in DOMAIN cards' /\ cards'[j.card] = "admitted"
          /\ j.kind = "finalize" =>
               j.card \in DOMAIN cards' /\ cards'[j.card] \in {"queued", "ready"}
    BY <1>1, <1>4, <1>5 DEF Counted, Threads
  <2> QED
    BY <1>1, <2>1, <2>2, <2>3 DEF Counted
<1>12. ASSUME NEW j \in Jobs("acquisition") \union Jobs("worker"), j.kind \in CardKinds
       PROVE  j.card # NewCard
  BY <1>1, <1>12, CardsAtHand
<1>13. Once'
  BY <1>4, <1>5, <1>12, Hands DEF Once, CardKinds
<1>14. Gated'
  BY <1>4, <1>5, Hands DEF Gated
<1> QED
  BY <1>2, <1>3, <1>5, <1>6, <1>7, <1>9, <1>10, <1>11, <1>13, <1>14

\* Something more is sent, with or without a new turn.
LEMMA TracksSent ==
  ASSUME Shaped, Tracked, Issued \in Nat, Issued' \in Nat, Issued <= Issued', doing' = doing,
         NEW t \in Threads, NEW job, job.turn \in Nat, job.turn <= Issued',
         \A u \in Threads : Members(queue'[u]) =
           IF u = t THEN Members(queue[u]) \union {job} ELSE Members(queue[u]),
         main'.turn <= Issued', main'.at # "scrolling" => main'.turn = 0,
         \A n : Open(n)' => Open(n) \/ n = Issued + 1,
         \A n : Open(n)' /\ n \in {Issued + 1, main.turn} => n \in {job.turn, main'.turn}
  PROVE  Tracked'
<1> USE Hands
<1>1. \A u \in Threads : \A j \in Jobs(u)' : j.turn <= Issued'
  <2>1. ASSUME NEW u \in Threads, NEW j \in Jobs(u)' PROVE j.turn <= Issued'
    <3>1. j \in Jobs(u) \/ j = job
      BY <2>1
    <3>2. j \in Jobs(u) => j.turn <= Issued /\ j.turn \in Nat
      BY TurnsCount DEF Tracked
    <3> QED
      BY <3>1, <3>2
  <2> QED
    BY <2>1
<1>2. \A n \in DOMAIN fate' : Open(n)' => Holds(n)'
  <2>1. ASSUME NEW n, Open(n)' PROVE Holds(n)'
    <3>1. CASE n \in {Issued + 1, main.turn}
      <4>1. job \in Jobs(t)' /\ n \in {job.turn, main'.turn}
        BY <2>1, <3>1
      <4> QED
        BY <4>1 DEF Holds
    <3>2. CASE n \notin {Issued + 1, main.turn}
      <4>1. PICK u \in Threads : \E j \in Jobs(u) : j.turn = n
        BY <2>1, <3>2 DEF Tracked, Holds, Open
      <4>2. Jobs(u) \subseteq Jobs(u)'
        OBVIOUS
      <4> QED
        BY <4>1, <4>2 DEF Holds
    <3> QED
      BY <3>1, <3>2
  <2> QED
    BY <2>1
<1>3. \A u \in Threads : doing[u].step \in {"send", "publish"} => ~Open(doing[u].job.turn)'
  <2>1. ASSUME NEW u \in Threads, doing[u].step \in {"send", "publish"}
        PROVE  ~Open(doing[u].job.turn)'
    <3>1. doing[u].job \in Jobs(u)
      OBVIOUS
    <3>2. ~Open(doing[u].job.turn) /\ doing[u].job.turn <= Issued
      BY <2>1, <3>1 DEF Tracked
    <3>3. doing[u].job.turn # Issued + 1
      BY <3>2
    <3> QED
      BY <3>2, <3>3
  <2> QED
    BY <2>1
<1> QED
  BY <1>1, <1>2, <1>3 DEF Tracked

LEMMA PostCaptureKeeps ==
  ASSUME IInv, TurnsTypeOK, TurnsTypeOK', PostCapture PROVE IInv'
<1>1. PICK turn \in {0, Issued + 1} :
        Reserved(turn) /\ Admitted("acquisition", "capture", turn)
  BY DEF PostCapture
<1>2. /\ turn \in Nat /\ Issued \in Nat /\ Issued' \in Nat
      /\ Issued <= Issued' /\ turn <= Issued'
      /\ \A n : Open(n)' => Open(n) \/ (n = turn /\ n = Issued + 1)
      /\ \A n : Open(n) => n \in 1..Issued
  BY <1>1, ReservedOpens
<1>3. /\ ~busy /\ HasRoom /\ busy' = TRUE /\ UNCHANGED <<doing, shares, pinned, late>>
      /\ main.at = "running" /\ main' = main /\ main' \in [at : Stages, turn : Nat]
  BY DEF PostCapture, Asks, IInv, Shaped, pinned
<1>4. /\ Shaped' /\ Fenced' /\ Unpinning' /\ Linked' /\ Counted' /\ Once' /\ Gated'
      /\ Lagging' /\ InTurn'
      /\ \E job \in AcquisitionJobs : job.turn = turn /\ queue' = Sent("acquisition", job)
  BY <1>1, <1>2, <1>3, AdmitsCapture
<1>5. PICK job \in AcquisitionJobs : job.turn = turn /\ queue' = Sent("acquisition", job)
  BY <1>4
<1>6. \A u \in Threads : Members(queue'[u]) =
        IF u = "acquisition" THEN Members(queue[u]) \union {job} ELSE Members(queue[u])
  BY <1>5, AcquisitionGets DEF IInv, Threads
<1>7. Tracked'
  BY <1>2, <1>3, <1>5, <1>6, TracksSent DEF IInv, Tracked, Threads
<1> QED
  BY <1>4, <1>7 DEF IInv

LEMMA PostScrollingKeeps ==
  ASSUME IInv, TurnsTypeOK, TurnsTypeOK', PostScrolling PROVE IInv'
<1> USE DEF IInv, pipes, captured, pinned
<1>1. PICK turn \in {0, Issued + 1} :
        Reserved(turn) /\ main' = [at |-> "scrolling", turn |-> turn]
  BY DEF PostScrolling
<1>2. /\ turn \in Nat /\ Issued \in Nat /\ Issued' \in Nat
      /\ Issued <= Issued' /\ turn <= Issued'
      /\ \A n : Open(n)' => Open(n) \/ (n = turn /\ n = Issued + 1)
      /\ \A n : Open(n) => n \in 1..Issued
  BY <1>1, ReservedOpens
<1>3. UNCHANGED <<pipes, captured, shares, pinned, late>> /\ main.at = "running"
  BY DEF PostScrolling, Asks
<1>4. Shaped' /\ Fenced' /\ Gated' /\ Once' /\ InTurn' /\ Unpinning'
  BY <1>1, <1>2, <1>3 DEF Shaped, Stages, Fenced, Stopped, Cancelled, Gated, Jobs, Once, InTurn,
    Unpinning
<1>5. Same({"share"} \union CardKinds \union OfPins \union {"flush"})
  BY <1>3 DEF Same
<1>6. Linked'
  BY <1>2, <1>3, <1>5, LinksAlone DEF Same
<1>7. Counted' /\ Lagging'
  BY <1>3 DEF Counted, Flight, Taking, Finalizing, Jobs, Lagging, Woken, Untouched, Latest, Promising, Keeping, Asked, Kept, Promised
<1>8. Tracked'
  <2>1. ASSUME NEW n, Open(n)' PROVE Holds(n)'
    <3>1. CASE n = turn
      BY <1>1, <3>1 DEF Holds
    <3>2. CASE n # turn
      <4>1. Open(n) /\ Holds(n)
        BY <1>2, <2>1, <3>2 DEF Tracked, Open
      <4>2. n # 0
        BY <4>1, Tickets DEF Open
      <4> QED
        BY <1>3, <4>1, <4>2 DEF Holds, Jobs, Tracked
    <3> QED
      BY <3>1, <3>2
  <2>2. \A t \in Threads : \A job \in Jobs(t)' : job.turn <= Issued'
    BY <1>2, <1>3, TurnsCount DEF Tracked, Jobs
  <2>3. \A t \in Threads : doing[t].step \in {"send", "publish"} => ~Open(doing[t].job.turn)'
    <3>1. ASSUME NEW t \in Threads, doing[t].step \in {"send", "publish"}
          PROVE  ~Open(doing[t].job.turn)'
      <4>1. ~Open(doing[t].job.turn) /\ doing[t].job.turn <= Issued
        BY <3>1, Hands DEF Tracked
      <4>2. doing[t].job.turn # Issued + 1
        BY <1>2, <4>1
      <4> QED
        BY <1>2, <1>3, <4>1, <4>2
    <3> QED
      BY <3>1
  <2> QED
    BY <1>1, <1>2, <1>3, <2>1, <2>2, <2>3 DEF Tracked
<1> QED
  BY <1>4, <1>6, <1>7, <1>8

LEMMA AdmitScrollingKeeps ==
  ASSUME IInv, TurnsTypeOK, TurnsTypeOK', AdmitScrolling PROVE IInv'
<1> USE DEF IInv
<1>1. /\ main.at = "scrolling" /\ main' = [at |-> "running", turn |-> 0]
      /\ main' \in [at : Stages, turn : Nat] /\ main.turn \in Nat /\ main.turn <= Issued
      /\ UNCHANGED <<doing, shares, pinned, late>>
  BY DEF AdmitScrolling, Shaped, Stages, Tracked
<1>2. CASE /\ ~busy /\ HasRoom /\ busy' = TRUE
           /\ Admitted("acquisition", "capture", main.turn) /\ UNCHANGED clipboard
  <2>1. Issued \in Nat /\ Issued' = Issued /\ \A n : Open(n)' => Open(n)
    BY <1>2, Tickets DEF clipboard, Issued, Open
  <2>2. /\ Shaped' /\ Fenced' /\ Unpinning' /\ Linked' /\ Counted' /\ Once' /\ Gated'
        /\ Lagging' /\ InTurn'
        /\ \E job \in AcquisitionJobs : job.turn = main.turn /\ queue' = Sent("acquisition", job)
    BY <1>1, <1>2, <2>1, AdmitsCapture
  <2>3. PICK job \in AcquisitionJobs : job.turn = main.turn /\ queue' = Sent("acquisition", job)
    BY <2>2
  <2>4. \A u \in Threads : Members(queue'[u]) =
          IF u = "acquisition" THEN Members(queue[u]) \union {job} ELSE Members(queue[u])
    BY <2>3, AcquisitionGets DEF Threads
  <2>5. \A n : Open(n)' => n # Issued + 1
    BY <2>1, Tickets DEF Open
  <2>6. Tracked'
    BY <1>1, <2>1, <2>3, <2>4, <2>5, TracksSent DEF Threads
  <2> QED
    BY <2>2, <2>6
<1>3. CASE Retired({main.turn}) /\ UNCHANGED <<captured, queue>>
  <2>1. Issued \in Nat /\ Issued' = Issued /\ \A n : Open(n)' => Open(n) /\ n # main.turn
    BY <1>3, RetiredCloses
  <2>2. Shaped' /\ Fenced' /\ Gated' /\ Once' /\ InTurn' /\ Unpinning'
    BY <1>1, <1>3 DEF captured, pinned, Shaped, Fenced, Stopped, Cancelled, Gated, Jobs, Once,
      InTurn, Unpinning
  <2>3. Same({"share"})
    BY <1>3 DEF Same
  <2>4. Linked'
    BY <1>1, <2>1, <2>3, LinksAlone
  <2>5. Counted' /\ Lagging'
    BY <1>1, <1>3 DEF captured, pinned, Counted, Flight, Taking, Finalizing, Jobs, Lagging, Woken, Untouched, Latest, Promising, Keeping,
      Asked, Kept, Promised
  <2>6. Tracked'
    <3>1. ASSUME NEW n, Open(n)' PROVE Holds(n)'
      BY <1>1, <1>3, <2>1, <3>1 DEF Holds, Jobs, Tracked, Open
    <3> QED
      BY <1>1, <1>3, <2>1, <3>1 DEF Tracked, Jobs
  <2> QED
    BY <2>2, <2>4, <2>5, <2>6
<1> QED
  BY <1>2, <1>3 DEF AdmitScrolling

LEMMA AcceptCaptureKeeps ==
  ASSUME IInv, TurnsTypeOK, TurnsTypeOK', AcceptCapture PROVE IInv'
<1> USE DEF IInv
<1>1. PICK turn \in {0, Issued + 1} :
        Reserved(turn) /\ Admitted("worker", "captured", turn)
  BY DEF AcceptCapture
<1>2. /\ turn \in Nat /\ Issued \in Nat /\ Issued' \in Nat
      /\ Issued <= Issued' /\ turn <= Issued'
      /\ \A n : Open(n)' => Open(n) \/ (n = turn /\ n = Issued + 1)
      /\ \A n : Open(n) => n \in 1..Issued
  BY <1>1, ReservedOpens
<1>3. /\ HasRoom /\ UNCHANGED <<main, doing, busy, shares, pinned, late>>
      /\ main.at = "running"
  BY DEF AcceptCapture, Asks, pinned
<1>4. /\ cards' \in Seq(CardStates) /\ frames' \in Nat
      /\ NewCard \in Nat /\ NewCard \notin DOMAIN cards
      /\ DOMAIN cards' = DOMAIN cards \union {NewCard}
      /\ cards'[NewCard] = "admitted"
      /\ \A n \in DOMAIN cards : cards'[n] = cards[n]
      /\ frames' = Cardinality(Flight')
  BY <1>1, NewFrame DEF Admitted
<1> DEFINE job == [kind |-> "captured", turn |-> turn, card |-> NewCard]
<1>5. job \in CapturedJobs /\ job \in WorkerJobs
  BY <1>2, <1>4 DEF CapturedJobs, WorkerJobs
<1>6. queue' = Sent("worker", job)
  BY <1>1 DEF Admitted
<1>7. /\ queue' \in [Threads -> Seq(AcquisitionJobs \union WorkerJobs)]
      /\ queue'["worker"] \in Seq(WorkerJobs)
      /\ queue'["acquisition"] = queue["acquisition"]
      /\ queue'["uploads"] = queue["uploads"]
      /\ Members(queue'["worker"]) = Members(queue["worker"]) \union {job}
      /\ \A a, b : Ahead(queue'["worker"], a, b) =>
           Ahead(queue["worker"], a, b) \/ (a \in Members(queue["worker"]) /\ b = job)
  BY <1>5, <1>6, WorkerGets
<1>8. job.kind = "captured" /\ job.turn = turn /\ job.card = NewCard
  OBVIOUS
<1> HIDE DEF job
<1>9. Shaped'
  BY <1>3, <1>4, <1>7 DEF Shaped, pinned
<1>10. Fenced'
  <2>1. doing["worker"].step \notin {"leaving", "stopped"}
    BY <1>3 DEF Fenced
  <2> QED
    BY <1>3, <1>7, <1>8, <2>1 DEF Fenced, Stopped, Cancelled, StopJob
<1>11. Same(OfPins \union {"flush", "share"})
  BY <1>7, <1>8 DEF Same, Threads, OfPins
<1>12. Unpinning' /\ Lagging' /\ InTurn'
  BY <1>3, <1>11, PinsAlone DEF Same
<1>13. Linked'
  BY <1>2, <1>3, <1>11, LinksAlone DEF Same
<1>14. Counted'
  <2>1. frames' <= MaxFrames
    BY <1>1, <1>3 DEF HasRoom, Admitted, Shaped
  <2>2. ASSUME NEW n \in DOMAIN cards'
        PROVE /\ cards'[n] = "admitted" => Taking(n)'
              /\ cards'[n] \in {"queued", "ready"} => Finalizing(n)'
              /\ cards'[n] = "lost" => late
    <3>1. \A m : m = NewCard => Taking(m)'
      BY <1>7, <1>8, Hands DEF Taking, Capturing
    <3>2. \A m : (Taking(m) => Taking(m)') /\ (Finalizing(m) => Finalizing(m)')
      BY <1>3, <1>7, Hands DEF Taking, Finalizing
    <3> QED
      BY <1>4, <3>1, <3>2 DEF Counted
  <2>3. \A t \in Threads : \A j \in Members(queue'[t]) :
          /\ j.kind \in Capturing => j.card \in DOMAIN cards' /\ cards'[j.card] = "admitted"
          /\ j.kind = "finalize" =>
               j.card \in DOMAIN cards' /\ cards'[j.card] \in {"queued", "ready"}
    BY <1>4, <1>7, <1>8 DEF Counted, Threads
  <2> QED
    BY <1>3, <1>4, <2>1, <2>2, <2>3 DEF Counted
<1>15. ASSUME NEW j \in Jobs("acquisition") \union Jobs("worker"), j.kind \in CardKinds
       PROVE  j.card # NewCard
  BY <1>4, <1>15, CardsAtHand
<1>16. Once'
  BY <1>3, <1>7, <1>8, <1>15, Hands DEF Once, CardKinds
<1>17. Gated'
  BY <1>3, <1>7, Hands DEF Gated
<1>18. Tracked'
  <2>1. \A u \in Threads : Members(queue'[u]) =
          IF u = "worker" THEN Members(queue[u]) \union {job} ELSE Members(queue[u])
    BY <1>7 DEF Threads
  <2> QED
    BY <1>2, <1>3, <1>8, <2>1, TracksSent DEF Tracked, Threads
<1> QED
  BY <1>9, <1>10, <1>12, <1>13, <1>14, <1>16, <1>17, <1>18

\* Work for the worker that holds no card's pixels and is about no pin.
LEMMA PostsKeep ==
  ASSUME IInv, TurnsTypeOK, TurnsTypeOK', NEW kind \in {"copy", "upload"}, PostOrdered(kind)
  PROVE  IInv'
<1> USE DEF IInv
<1> DEFINE job == [kind |-> kind, turn |-> Issued + 1]
<1>1. /\ Reserve /\ queue' = Sent("worker", job) /\ main.at = "running"
      /\ UNCHANGED <<main, doing, captured, shares, pinned, late>>
  BY DEF PostOrdered, Asks
<1>2. /\ Issued \in Nat /\ Issued' \in Nat /\ Issued <= Issued' /\ Issued + 1 <= Issued'
      /\ \A n : Open(n)' => Open(n) \/ n = Issued + 1
      /\ \A n : Open(n) => n \in 1..Issued
  BY <1>1, Tickets, ReservedOpens DEF Reserved
<1>3. job \in WorkerJobs /\ job.turn = Issued + 1 /\ job.kind = kind
  BY <1>2 DEF WorkerJobs, CopyJobs, UploadJobs
<1>4. /\ queue' \in [Threads -> Seq(AcquisitionJobs \union WorkerJobs)]
      /\ queue'["worker"] \in Seq(WorkerJobs)
      /\ queue'["acquisition"] = queue["acquisition"]
      /\ queue'["uploads"] = queue["uploads"]
      /\ Members(queue'["worker"]) = Members(queue["worker"]) \union {job}
      /\ \A a, b : Ahead(queue'["worker"], a, b) =>
           Ahead(queue["worker"], a, b) \/ (a \in Members(queue["worker"]) /\ b = job)
  BY <1>1, <1>3, WorkerGets
<1> HIDE DEF job
<1>5. Shaped'
  BY <1>1, <1>4 DEF Shaped, captured, pinned
<1>6. Fenced'
  <2>1. doing["worker"].step \notin {"leaving", "stopped"}
    BY <1>1 DEF Fenced
  <2> QED
    BY <1>1, <1>3, <1>4, <2>1 DEF Fenced, Stopped, Cancelled, StopJob
<1>7. Same(OfPins \union CardKinds \union {"flush", "share"})
  BY <1>3, <1>4 DEF Same, Threads, OfPins, CardKinds
<1>8. Unpinning' /\ Lagging' /\ InTurn'
  BY <1>1, <1>7, PinsAlone DEF Same
<1>9. Linked'
  BY <1>1, <1>2, <1>7, LinksAlone DEF Same
<1>10. Counted' /\ Once' /\ Gated'
  BY <1>1, <1>7, CardsAlone DEF Same, HandAlone
<1>11. Tracked'
  <2>1. \A u \in Threads : Members(queue'[u]) =
          IF u = "worker" THEN Members(queue[u]) \union {job} ELSE Members(queue[u])
    BY <1>4 DEF Threads
  <2> QED
    BY <1>1, <1>2, <1>3, <2>1, TracksSent DEF Tracked, Threads
<1> QED
  BY <1>5, <1>6, <1>8, <1>9, <1>10, <1>11

\* A step about pins disturbs nothing else.
LEMMA PinsOnly ==
  ASSUME IInv, TurnsTypeOK, NEW job \in WorkerJobs, job.kind \in OfPins \union {"flush"},
         queue' = Sent("worker", job) \/ queue' = queue,
         UNCHANGED <<clipboard, doing, captured, shares, late>>, main.at = "running",
         main' \in [at : {"running", "unpinning"}, turn : Nat], main'.turn = main.turn,
         pins' \in [Captures -> PinStates], failed' \in Seq(Refusals)
  PROVE  Shaped' /\ Tracked' /\ Fenced' /\ Linked' /\ Counted' /\ Once' /\ Gated'
<1> USE DEF IInv
<1>1. /\ queue' \in [Threads -> Seq(AcquisitionJobs \union WorkerJobs)]
      /\ queue'["worker"] \in Seq(WorkerJobs)
      /\ queue'["acquisition"] = queue["acquisition"]
      /\ queue'["uploads"] = queue["uploads"]
      /\ Members(queue["worker"]) \subseteq Members(queue'["worker"])
      /\ Members(queue'["worker"]) \subseteq Members(queue["worker"]) \union {job}
      /\ \A a, b : Ahead(queue'["worker"], a, b) =>
           Ahead(queue["worker"], a, b) \/ (a \in Members(queue["worker"]) /\ b = job)
  <2>1. CASE queue' = queue
    BY <2>1 DEF Shaped
  <2>2. CASE queue' = Sent("worker", job)
    BY <2>2, WorkerGets
  <2> QED
    BY <2>1, <2>2
<1>2. Shaped'
  BY <1>1 DEF Shaped, captured, Stages
<1>3. Fenced'
  <2>1. doing["worker"].step \notin {"leaving", "stopped"}
    BY DEF Fenced
  <2> QED
    BY <1>1, <2>1 DEF Fenced, Stopped, Cancelled, StopJob, OfPins
<1>4. Same({"share"} \union CardKinds)
  BY <1>1 DEF Same, Threads, OfPins, CardKinds
<1>5. Issued \in Nat /\ Issued' = Issued /\ fate' = fate
  BY Tickets DEF clipboard, Issued
<1>6. Linked'
  BY <1>4, <1>5, LinksAlone DEF Same
<1>7. Counted' /\ Once' /\ Gated'
  BY <1>4, CardsAlone DEF Same, HandAlone
<1>8. Tracked'
  <2>1. job.turn = 0
    BY JobFields
  <2>2. \A t \in Threads : \A j \in Jobs(t)' : j.turn <= Issued'
    BY <1>1, <1>5, <2>1, Hands DEF Tracked, Threads
  <2>3. \A t \in Threads : Jobs(t) \subseteq Jobs(t)'
    BY <1>1, Hands DEF Threads
  <2>4. \A n \in DOMAIN fate' : Open(n)' => Holds(n)'
    BY <1>5, <2>3 DEF Tracked, Open, Holds
  <2> QED
    BY <1>5, <2>2, <2>4 DEF Tracked, Open
<1> QED
  BY <1>2, <1>3, <1>6, <1>7, <1>8

LEMMA PinFields ==
  ASSUME Shaped, NEW c \in Captures
  PROVE  /\ pins[c].gen \in Nat /\ pins[c].visible \in BOOLEAN /\ pins[c].newest \in Nat
         /\ pins[c].pending # None => pins[c].pending \in Placements
         /\ pins[c].settled \in Nat /\ pins[c].stored \in Nat \union {None}
         /\ pins[c].restoring \in BOOLEAN /\ pins[c].behind \in Nat \union {None}
         /\ pins[c].told \in BOOLEAN
         /\ pins[c] \in PinStates
  BY DEF Shaped, PinStates

LEMMA WakesIff == Wakes(queue["worker"]) <=> \E job \in Members(queue["worker"]) : job.kind = "flush"
  BY DEF Wakes, Members

LEMMA IntentFields ==
  ASSUME NEW p \in PinStates, NEW visible \in BOOLEAN
  PROVE  /\ Intent(p, visible) \in PinStates
         /\ Intent(p, visible).gen = p.gen + 1 /\ Intent(p, visible).visible = visible
         /\ Intent(p, visible).newest = p.newest /\ Intent(p, visible).pending = p.pending
         /\ Intent(p, visible).settled = p.settled /\ Intent(p, visible).stored = p.stored
         /\ Intent(p, visible).restoring = p.restoring /\ Intent(p, visible).behind = p.behind
<1>1. [p EXCEPT !.gen = @ + 1] \in PinStates
  BY DEF PinStates
<1>2. \A q \in PinStates : [q EXCEPT !.visible = visible] \in PinStates
  BY DEF PinStates
<1>3. \A q \in PinStates : [q EXCEPT !.told = FALSE] \in PinStates
  BY DEF PinStates
<1>4. Intent(p, visible) \in PinStates
  <2>1. Intent(p, visible) =
          [[[p EXCEPT !.gen = @ + 1] EXCEPT !.visible = visible] EXCEPT !.told = FALSE]
    BY DEF Intent, PinStates
  <2> QED
    BY <1>1, <1>2, <1>3, <2>1
<1> QED
  BY <1>4 DEF Intent, PinStates

LEMMA PinCardKeeps ==
  ASSUME IInv, TurnsTypeOK, NEW c \in Captures, PinCard(c) PROVE IInv'
<1> USE DEF IInv
<1> DEFINE made == pins[c].newest + 1
           behind == IF Wakes(queue["worker"]) THEN made ELSE None
           p == [Intent(pins[c], TRUE) EXCEPT !.newest = made, !.behind = behind]
           job == PinJob("pincard", c, p.gen, made)
<1>1. /\ main.at = "running" /\ ~pins[c].visible
      /\ pins' = [pins EXCEPT ![c] = p] /\ queue' = Sent("worker", job)
      /\ UNCHANGED <<clipboard, main, doing, captured, shares, failed, late>>
  BY DEF PinCard, Asks
<1>2. /\ pins[c].gen \in Nat /\ pins[c].newest \in Nat /\ pins[c] \in PinStates
      /\ pins \in [Captures -> PinStates] /\ pins[c].pending = None
  BY <1>1, PinFields DEF Shaped, Lagging, Woken
<1>3. /\ p \in PinStates /\ p.gen = pins[c].gen + 1 /\ p.newest = made /\ p.visible
      /\ p.behind = behind /\ p.pending = pins[c].pending
      /\ p.settled = pins[c].settled /\ p.stored = pins[c].stored /\ p.restoring = pins[c].restoring
  <2> DEFINE q == Intent(pins[c], TRUE)
  <2>1. /\ q \in PinStates /\ q.gen = pins[c].gen + 1 /\ q.visible /\ q.newest = pins[c].newest
        /\ q.pending = pins[c].pending /\ q.settled = pins[c].settled
        /\ q.stored = pins[c].stored /\ q.restoring = pins[c].restoring
    BY <1>2, IntentFields
  <2>2. p = [q EXCEPT !.newest = made, !.behind = behind]
    OBVIOUS
  <2>3. made \in Nat /\ behind \in Nat \union {None}
    BY <1>2
  <2> HIDE DEF q, p, made, behind
  <2>4. [q EXCEPT !.newest = made] \in PinStates
    BY <2>1, <2>3 DEF PinStates
  <2>5. \A r \in PinStates : [r EXCEPT !.behind = behind] \in PinStates
    BY <2>3 DEF PinStates
  <2>6. p = [[q EXCEPT !.newest = made] EXCEPT !.behind = behind]
    BY <2>1, <2>2 DEF PinStates
  <2>7. p \in PinStates
    BY <2>4, <2>5, <2>6
  <2> QED
    BY <1>2, <2>1, <2>2, <2>7 DEF PinStates
<1> HIDE DEF p
<1>4. /\ job \in WorkerJobs /\ job.kind = "pincard" /\ job.capture = c
      /\ job.gen = p.gen /\ job.state = p.newest
  BY <1>2, <1>3 DEF PinJob, WorkerJobs, PinCardJobs, PinStates
<1>b. /\ p.behind # None => p.behind = p.newest
      /\ (\E j \in Members(queue["worker"]) : j.kind = "flush") => p.behind # None
  <2>1. made \in Nat /\ made # None
    BY <1>2 DEF PipelineAssumption
  <2> QED
    BY <1>3, <2>1, WakesIff
<1> HIDE DEF job, made, behind
<1>5. pins' \in [Captures -> PinStates] /\ pins'[c] = p /\ \A d \in Captures : d # c => pins'[d] = pins[d]
  BY <1>1, <1>2, <1>3
<1>6. Shaped' /\ Tracked' /\ Fenced' /\ Linked' /\ Counted' /\ Once' /\ Gated'
  BY <1>1, <1>4, <1>5, PinsOnly DEF Shaped, OfPins
<1>7. /\ Members(queue'["worker"]) = Members(queue["worker"]) \union {job}
      /\ \A a, b : Ahead(queue'["worker"], a, b) =>
           Ahead(queue["worker"], a, b) \/ (a \in Members(queue["worker"]) /\ b = job)
  BY <1>1, <1>4, WorkerGets
<1>8. Asked(c)' = Asked(c) \union {job} /\ \A d \in Captures : d # c => Asked(d)' = Asked(d)
  BY <1>4, <1>7 DEF Asked, OfPins
<1>9. Lagging'
  <2>1. ASSUME NEW d \in Captures, d # c
        PROVE  /\ pins'[d] = pins[d] /\ Asked(d)' = Asked(d)
               /\ Kept(d, pins[d])' = Kept(d, pins[d])
    BY <1>1, <1>5, <1>8, <2>1 DEF Kept
  <2>2. ASSUME NEW j \in Asked(c)' PROVE j = job \/ j.gen < p.gen
    BY <1>2, <1>3, <1>8, <2>2 DEF Lagging, Latest
  <2>3. Promised(p, job)
    BY <1>3, <1>4, <1>b DEF Promised
  <2>4. Woken'
    BY <1>2, <1>3, <1>5, <1>7, <2>1 DEF Lagging, Woken
  <2>5. Untouched'
    BY <1>2, <1>3, <1>5, <2>1, PinFields DEF Lagging, Untouched
  <2>6. Latest'
    BY <1>2, <1>3, <1>4, <1>5, <1>8 DEF Lagging, Latest
  <2>7. Promising'
    BY <1>3, <1>4, <1>5, <1>8, <2>2, <2>3, PinFields DEF Lagging, Promising
  <2>8. Keeping'
    BY <1>8, <2>1 DEF Lagging, Keeping
  <2> QED
    BY <2>4, <2>5, <2>6, <2>7, <2>8 DEF Lagging
<1>10. Unpinning'
  BY <1>1, <1>4, <1>7 DEF Unpinning
<1>11. InTurn'
  <2>1. ASSUME NEW a \in WorkerJobs, NEW b \in WorkerJobs, Ahead(queue["worker"], a, b),
               b.kind \in OfPins, b.capture = c
        PROVE  b.gen \in Nat /\ b.gen <= pins[c].gen
    BY <1>2, <2>1, AheadInChannel DEF Lagging, Latest, Asked
  <2>2. ASSUME NEW a \in WorkerJobs, NEW b \in WorkerJobs, Ahead(queue'["worker"], a, b)
        PROVE  a.kind \in OfPins /\ b.kind \in OfPins /\ a.capture = b.capture => a.gen < b.gen
    BY <1>2, <1>3, <1>4, <1>7, <1>8, <2>2 DEF InTurn, Lagging, Latest, Asked
  <2>3. ASSUME NEW a \in WorkerJobs, NEW b \in WorkerJobs, Ahead(queue'["worker"], a, b),
               a.kind = "flush", b.kind \in OfPins, b.gen = pins'[b.capture].gen,
               pins'[b.capture].visible
        PROVE  pins'[b.capture].behind # None
    <3>1. CASE b = job /\ a \in Members(queue["worker"])
      BY <1>b, <1>4, <1>5, <2>3, <3>1
    <3>2. CASE Ahead(queue["worker"], a, b)
      BY <1>2, <1>3, <1>5, <2>1, <2>3, <3>2, JobFields DEF InTurn
    <3> QED
      BY <1>7, <2>3, <3>1, <3>2
  <2> QED
    BY <2>2, <2>3 DEF InTurn
<1> QED
  BY <1>6, <1>9, <1>10, <1>11

\* what closing a pin makes of it
LEMMA ClosedFields ==
  ASSUME IInv, NEW c \in Captures, NEW kind, Closed(c, kind)
  PROVE  \E q \in PinStates :
           /\ pins' = [pins EXCEPT ![c] = q]
           /\ q.gen = pins[c].gen + 1 /\ ~q.visible /\ q.newest = pins[c].newest
           /\ q.pending = None /\ q.settled = pins[c].settled
           /\ q.stored = pins[c].stored /\ q.restoring = pins[c].restoring
           /\ queue' = Sent("worker", PinJob(kind, c, q.gen, None))
<1> USE DEF IInv
<1> DEFINE p == Intent(pins[c], FALSE)
<1>1. /\ p \in PinStates
      /\ p.gen = pins[c].gen + 1 /\ ~p.visible
      /\ p.newest = pins[c].newest /\ p.pending = pins[c].pending
      /\ p.settled = pins[c].settled /\ p.stored = pins[c].stored
      /\ p.restoring = pins[c].restoring
  BY PinFields, IntentFields
<1>2. /\ pins' = [pins EXCEPT ![c] = CancelThrough(p, p.gen)]
      /\ queue' = Sent("worker", PinJob(kind, c, p.gen, None))
  BY DEF Closed
<1> HIDE DEF p
<1>3. CASE p.pending = None
  BY <1>1, <1>2, <1>3 DEF CancelThrough
<1>4. CASE p.pending # None
  <2>1. p.pending.gen <= p.gen
    <3>1. pins[c].pending.gen = pins[c].gen
      <4>1. pins[c].pending = [gen |-> pins[c].gen, state |-> pins[c].newest]
        BY <1>1, <1>4 DEF Lagging, Woken
      <4> QED
        BY <4>1
    <3>2. pins[c].gen \in Nat
      BY PinFields
    <3> QED
      BY <1>1, <3>1, <3>2
  <2> DEFINE q == [p EXCEPT !.pending = None]
  <2>2. CancelThrough(p, p.gen) = q
    BY <1>4, <2>1 DEF CancelThrough
  <2>3. /\ q \in PinStates /\ q.gen = p.gen /\ q.visible = p.visible /\ q.newest = p.newest
        /\ q.pending = None /\ q.settled = p.settled /\ q.stored = p.stored
        /\ q.restoring = p.restoring
    BY <1>1 DEF PinStates
  <2> HIDE DEF q
  <2>4. /\ pins' = [pins EXCEPT ![c] = q]
        /\ queue' = Sent("worker", PinJob(kind, c, q.gen, None))
    BY <1>2, <2>2, <2>3
  <2>5. /\ q.gen = pins[c].gen + 1 /\ ~q.visible /\ q.newest = pins[c].newest
        /\ q.settled = pins[c].settled /\ q.stored = pins[c].stored
        /\ q.restoring = pins[c].restoring
    BY ONLY <1>1, <2>3
  <2> QED
    BY <2>3, <2>4, <2>5
<1> QED
  BY <1>3, <1>4

LEMMA ClosedKeeps ==
  ASSUME IInv, TurnsTypeOK, NEW c \in Captures, NEW kind \in {"setpin", "unpin"}, Closed(c, kind),
         UNCHANGED <<clipboard, doing, captured, shares, late>>, main.at = "running",
         main' \in [at : {"running", "unpinning"}, turn : Nat], main'.turn = main.turn,
         kind = "unpin" => main'.at = "unpinning",
         failed' \in Seq(Refusals),
         \A e \in Members(failed) : e.capture # c => e \in Members(failed')
  PROVE  IInv'
<1> USE DEF IInv
<1>1. PICK q \in PinStates :
        /\ pins' = [pins EXCEPT ![c] = q]
        /\ q.gen = pins[c].gen + 1 /\ ~q.visible /\ q.newest = pins[c].newest
        /\ q.pending = None /\ q.settled = pins[c].settled
        /\ q.stored = pins[c].stored /\ q.restoring = pins[c].restoring
        /\ queue' = Sent("worker", PinJob(kind, c, q.gen, None))
  BY ClosedFields
<1> DEFINE job == PinJob(kind, c, q.gen, None)
<1>2. pins[c].gen \in Nat /\ pins \in [Captures -> PinStates] /\ q.gen \in Nat
  BY <1>1, PinFields DEF Shaped
<1>3. /\ job \in WorkerJobs /\ job.kind = kind /\ job.capture = c
      /\ job.gen = q.gen /\ job.state = None
  BY <1>2 DEF PinJob, WorkerJobs, ClosingJobs
<1>4. queue' = Sent("worker", job)
  BY <1>1
<1> HIDE DEF job
<1>5. pins' \in [Captures -> PinStates] /\ pins'[c] = q /\ \A d \in Captures : d # c => pins'[d] = pins[d]
  BY <1>1, <1>2
<1>6. Shaped' /\ Tracked' /\ Fenced' /\ Linked' /\ Counted' /\ Once' /\ Gated'
  BY <1>3, <1>4, <1>5, PinsOnly DEF OfPins
<1>7. /\ Members(queue'["worker"]) = Members(queue["worker"]) \union {job}
      /\ \A a, b : Ahead(queue'["worker"], a, b) =>
           Ahead(queue["worker"], a, b) \/ (a \in Members(queue["worker"]) /\ b = job)
  BY <1>3, <1>4, WorkerGets
<1>8. Asked(c)' = Asked(c) \union {job} /\ \A d \in Captures : d # c => Asked(d)' = Asked(d)
  BY <1>3, <1>7 DEF Asked, OfPins
<1>9. Lagging'
  <2>1. ASSUME NEW d \in Captures, d # c
        PROVE  /\ pins'[d] = pins[d] /\ Asked(d)' = Asked(d)
               /\ Kept(d, pins[d]) => Kept(d, pins[d])'
    <3>1. Hearing(Members(failed), d, pins[d]) => Hearing(Members(failed'), d, pins[d])
      BY <2>1 DEF Hearing
    <3> QED
      BY <1>5, <1>8, <2>1, <3>1 DEF Kept
  <2>2. ASSUME NEW j \in Asked(c)' PROVE j = job \/ j.gen < q.gen
    BY <1>1, <1>2, <1>8, <2>2 DEF Lagging, Latest
  <2>3. Promised(q, job)
    BY <1>1, <1>3 DEF Promised
  <2>4. Woken'
    BY <1>1, <1>5, <1>7, <2>1 DEF Lagging, Woken
  <2>5. Untouched'
    BY <1>1, <1>2, <1>5, <2>1, PinFields DEF Lagging, Untouched
  <2>6. Latest'
    BY <1>1, <1>2, <1>3, <1>5, <1>8 DEF Lagging, Latest
  <2>7. Promising'
    BY <1>2, <1>3, <1>5, <1>8, <2>2, <2>3 DEF Lagging, Promising
  <2>8. Keeping'
    BY <1>8, <2>1 DEF Lagging, Keeping
  <2> QED
    BY <2>4, <2>5, <2>6, <2>7, <2>8 DEF Lagging
<1>10. Unpinning'
  BY <1>3, <1>7 DEF Unpinning
<1>11. InTurn'
  <2>1. ASSUME NEW a \in WorkerJobs, NEW b \in WorkerJobs, Ahead(queue["worker"], a, b),
               b.kind \in OfPins, b.capture = c
        PROVE  b.gen \in Nat /\ b.gen <= pins[c].gen
    BY <1>2, <2>1, AheadInChannel DEF Lagging, Latest, Asked
  <2>2. ASSUME NEW a \in WorkerJobs, NEW b \in WorkerJobs, Ahead(queue'["worker"], a, b)
        PROVE  a.kind \in OfPins /\ b.kind \in OfPins /\ a.capture = b.capture => a.gen < b.gen
    BY <1>1, <1>2, <1>3, <1>7, <1>8, <2>2 DEF InTurn, Lagging, Latest, Asked
  <2>3. ASSUME NEW a \in WorkerJobs, NEW b \in WorkerJobs, Ahead(queue'["worker"], a, b),
               a.kind = "flush", b.kind \in OfPins, b.gen = pins'[b.capture].gen,
               pins'[b.capture].visible
        PROVE  pins'[b.capture].behind # None
    BY <1>1, <1>3, <1>5, <1>7, <2>3, JobFields DEF InTurn
  <2> QED
    BY <2>2, <2>3 DEF InTurn
<1> QED
  BY <1>6, <1>9, <1>10, <1>11

LEMMA UnpinsKeep ==
  ASSUME IInv, TurnsTypeOK, NEW c \in Captures, Unpin(c) \/ TerminalUnpin(c) PROVE IInv'
<1>1. CASE Unpin(c)
  BY <1>1, ClosedKeeps DEF Unpin, Asks, IInv, Shaped
<1>2. CASE TerminalUnpin(c)
  <2>1. main' \in [at : {"running", "unpinning"}, turn : Nat] /\ main'.turn = main.turn
        /\ main'.at = "unpinning"
    BY <1>2 DEF TerminalUnpin, IInv, Shaped
  <2> QED
    BY <1>2, <2>1, ClosedKeeps DEF TerminalUnpin, Asks, IInv, Shaped
<1> QED
  BY <1>1, <1>2

LEMMA ToldIs ==
  ASSUME NEW p \in PinStates, NEW q, q = [p EXCEPT !.told = TRUE]
  PROVE  /\ q \in PinStates /\ q.told
         /\ q.gen = p.gen /\ q.visible = p.visible /\ q.newest = p.newest
         /\ q.pending = p.pending /\ q.settled = p.settled /\ q.stored = p.stored
         /\ q.restoring = p.restoring /\ q.behind = p.behind
  BY DEF PinStates

LEMMA StoredIs ==
  ASSUME NEW p \in PinStates, NEW stored \in Nat \union {None}, NEW q,
         q = [p EXCEPT !.stored = stored]
  PROVE  /\ q \in PinStates /\ q.stored = stored
         /\ q.gen = p.gen /\ q.visible = p.visible /\ q.newest = p.newest
         /\ q.pending = p.pending /\ q.settled = p.settled
         /\ q.restoring = p.restoring /\ q.behind = p.behind
  BY DEF PinStates

\* News of a refusal change nothing but, for the latest intent, what the user
\* was told.
LEMMA HeardKeeps ==
  ASSUME IInv, TurnsTypeOK, NEW e, failed # <<>>, e = Head(failed), failed' = Tail(failed),
         main.at = "running", UNCHANGED <<clipboard, main, queue, doing, captured, shares, late>>,
         \/ /\ pins' = pins
            /\ pins[e.capture].gen # e.gen \/ (e.kind = "creation" /\ ~pins[e.capture].visible)
         \/ pins' = [pins EXCEPT ![e.capture].told = TRUE]
  PROVE  IInv'
<1> USE DEF IInv
<1>1. /\ failed' \in Seq(Refusals) /\ e \in Refusals
      /\ Members(failed) = Members(failed') \union {e}
  <2>1. failed \in Seq(Refusals)
    BY DEF Shaped
  <2> QED
    BY <2>1, PoppedJobs
<1>2. e.capture \in Captures
  BY <1>1 DEF Refusals
<1>3. /\ pins \in [Captures -> PinStates] /\ pins' \in [Captures -> PinStates]
      /\ \A c \in Captures :
           /\ pins'[c].gen = pins[c].gen /\ pins'[c].visible = pins[c].visible
           /\ pins'[c].newest = pins[c].newest /\ pins'[c].pending = pins[c].pending
           /\ pins'[c].settled = pins[c].settled /\ pins'[c].stored = pins[c].stored
           /\ pins'[c].restoring = pins[c].restoring /\ pins'[c].behind = pins[c].behind
           /\ pins[c].told => pins'[c].told
           /\ c = e.capture =>
                \/ pins'[c].told \/ pins[c].gen # e.gen
                \/ e.kind = "creation" /\ ~pins[c].visible
  <2>1. pins \in [Captures -> PinStates]
    BY DEF Shaped
  <2>2. CASE /\ pins' = pins
             /\ pins[e.capture].gen # e.gen \/ (e.kind = "creation" /\ ~pins[e.capture].visible)
    BY <2>1, <2>2
  <2>3. CASE pins' = [pins EXCEPT ![e.capture].told = TRUE]
    <3> PICK p : p = pins[e.capture]
      OBVIOUS
    <3>1. PICK q : q = [p EXCEPT !.told = TRUE]
      OBVIOUS
    <3>2. /\ q \in PinStates /\ q.told
          /\ q.gen = pins[e.capture].gen /\ q.visible = pins[e.capture].visible
          /\ q.newest = pins[e.capture].newest /\ q.pending = pins[e.capture].pending
          /\ q.settled = pins[e.capture].settled /\ q.stored = pins[e.capture].stored
          /\ q.restoring = pins[e.capture].restoring /\ q.behind = pins[e.capture].behind
      <4>1. p \in PinStates
        BY <1>2, <2>1
      <4> QED
        BY <3>1, <4>1, ToldIs
    <3>3. pins' = [pins EXCEPT ![e.capture] = q]
      BY <1>2, <2>1, <2>3, <3>1
    <3> QED
      BY <1>2, <2>1, <3>2, <3>3
  <2> QED
    BY <2>2, <2>3
<1>4. Shaped' /\ Tracked' /\ Fenced' /\ Linked' /\ Counted' /\ Once' /\ Gated'
  <2>1. FlushPins \in WorkerJobs /\ FlushPins.kind = "flush"
    BY DEF WorkerJobs, FlushPins
  <2>2. main' \in [at : {"running", "unpinning"}, turn : Nat]
    BY DEF Shaped
  <2> QED
    BY <1>1, <1>3, <2>1, <2>2, PinsOnly
<1>5. \A c \in Captures : Asked(c)' = Asked(c)
  BY DEF Asked
<1>6. ASSUME NEW c \in Captures, Kept(c, pins[c]) PROVE Kept(c, pins[c])'
  <2>1. CASE pins[c].told
    BY <1>3, <2>1 DEF Kept
  <2>2. CASE Shows(pins[c])
    BY <1>3, <2>2 DEF Kept, Shows
  <2>3. CASE Hearing(Members(failed), c, pins[c])
    <3>1. PICK m \in Members(failed) :
            m.capture = c /\ m.gen = pins[c].gen /\ (m.kind = "creation" => pins[c].visible)
      BY <2>3 DEF Hearing
    <3>2. CASE m = e
      BY <1>3, <3>1, <3>2 DEF Kept
    <3>3. CASE m # e
      <4>1. Hearing(Members(failed'), c, pins'[c])
        BY <1>1, <1>3, <3>1, <3>3 DEF Hearing
      <4> QED
        BY <4>1 DEF Kept
    <3> QED
      BY <3>2, <3>3
  <2> QED
    BY <1>6, <2>1, <2>2, <2>3 DEF Kept
<1>7. Lagging'
  <2>1. Woken' /\ Untouched' /\ Latest'
    BY <1>3, <1>5 DEF Lagging, Woken, Untouched, Latest
  <2>2. Promising'
    BY <1>3, <1>5 DEF Lagging, Promising, Promised
  <2>3. Keeping'
    BY <1>3, <1>5, <1>6 DEF Lagging, Keeping
  <2> QED
    BY <2>1, <2>2, <2>3 DEF Lagging
<1>8. Unpinning'
  BY DEF Unpinning
<1>9. InTurn'
  <2>1. \A b \in WorkerJobs : b.kind \in OfPins => b.capture \in Captures
    BY JobFields
  <2> QED
    BY <1>3, <2>1 DEF InTurn
<1> QED
  BY <1>4, <1>7, <1>8, <1>9

LEMMA PinCreationFailedKeeps ==
  ASSUME IInv, TurnsTypeOK, PinCreationFailed PROVE IInv'
<1>1. PICK e : e = Head(failed)
  OBVIOUS
<1>2. /\ main.at = "running" /\ failed' = Tail(failed) /\ failed # <<>> /\ e.kind = "creation"
      /\ UNCHANGED <<clipboard, main, doing, captured, shares, late>>
      /\ failed \in Seq(Refusals) /\ main \in [at : Stages, turn : Nat]
  BY <1>1 DEF PinCreationFailed, Hears, IInv, Shaped
<1>3. CASE pins[e.capture].visible /\ pins[e.capture].gen = e.gen
  <2>1. Closed(e.capture, "setpin")
    BY <1>1, <1>3 DEF PinCreationFailed
  <2>2. /\ failed' \in Seq(Refusals) /\ e \in Refusals
        /\ Members(failed) = Members(failed') \union {e}
    BY <1>1, <1>2, PoppedJobs
  <2>3. e.capture \in Captures /\ main' \in [at : {"running", "unpinning"}, turn : Nat]
    BY <1>2, <2>2 DEF Refusals
  <2> QED
    BY <1>2, <2>1, <2>2, <2>3, ClosedKeeps
<1>4. CASE ~(pins[e.capture].visible /\ pins[e.capture].gen = e.gen)
  <2>1. pins' = pins /\ queue' = queue
    BY <1>1, <1>4 DEF PinCreationFailed
  <2> QED
    BY <1>1, <1>2, <1>4, <2>1, HeardKeeps
<1> QED
  BY <1>3, <1>4

LEMMA PinPersistenceFailedKeeps ==
  ASSUME IInv, TurnsTypeOK, PinPersistenceFailed PROVE IInv'
<1>1. PICK e : e = Head(failed)
  OBVIOUS
<1>2. /\ main.at = "running" /\ failed' = Tail(failed) /\ failed # <<>>
      /\ UNCHANGED <<clipboard, main, queue, doing, captured, shares, late>>
      /\ pins' = IF pins[e.capture].gen = e.gen THEN [pins EXCEPT ![e.capture].told = TRUE]
                 ELSE pins
  BY <1>1 DEF PinPersistenceFailed, Hears, pipes
<1> QED
  BY <1>1, <1>2, HeardKeeps

LEMMA PinChangedKeeps ==
  ASSUME IInv, TurnsTypeOK, NEW c \in Captures, PinChanged(c) PROVE IInv'
<1> USE DEF IInv
<1> DEFINE moved == pins[c].newest + 1
           place == [gen |-> pins[c].gen, state |-> moved]
           p == [pins[c] EXCEPT !.newest = moved, !.told = FALSE, !.pending = place]
<1>1. /\ main.at = "running" /\ pins[c].visible /\ pins' = [pins EXCEPT ![c] = p]
      /\ queue' = IF NeedsWakeup(pins, pins') THEN Sent("worker", FlushPins) ELSE queue
      /\ UNCHANGED <<clipboard, main, doing, captured, shares, failed, late>>
  BY DEF PinChanged, Asks
<1>2. /\ pins[c].gen \in Nat /\ pins[c].newest \in Nat /\ pins[c] \in PinStates
      /\ pins \in [Captures -> PinStates]
  BY PinFields DEF Shaped
<1>3. place \in Placements /\ place # None
  BY <1>2 DEF Placements, PipelineAssumption
<1>4. /\ p \in PinStates /\ p.gen = pins[c].gen /\ p.newest = moved /\ p.visible
      /\ p.behind = pins[c].behind /\ p.pending = place
      /\ p.settled = pins[c].settled /\ p.stored = pins[c].stored /\ p.restoring = pins[c].restoring
  <2> HIDE DEF place
  <2>1. [pins[c] EXCEPT !.newest = moved] \in PinStates
    BY <1>2 DEF PinStates
  <2>2. \A r \in PinStates : [r EXCEPT !.told = FALSE] \in PinStates
    BY DEF PinStates
  <2>3. \A r \in PinStates : [r EXCEPT !.pending = place] \in PinStates
    BY <1>3 DEF PinStates
  <2>4. p \in PinStates
    <3>1. p = [[[pins[c] EXCEPT !.newest = moved] EXCEPT !.told = FALSE] EXCEPT !.pending = place]
      BY <1>2 DEF PinStates
    <3> QED
      BY <2>1, <2>2, <2>3, <3>1
  <2> QED
    BY <1>1, <1>2, <2>4 DEF PinStates
<1> HIDE DEF p
<1>5. pins' \in [Captures -> PinStates] /\ pins'[c] = p /\ \A d \in Captures : d # c => pins'[d] = pins[d]
  BY <1>1, <1>2, <1>4
<1>6. FlushPins \in WorkerJobs /\ FlushPins.kind = "flush"
  BY DEF WorkerJobs, FlushPins
<1>7. Shaped' /\ Tracked' /\ Fenced' /\ Linked' /\ Counted' /\ Once' /\ Gated'
  BY <1>1, <1>5, <1>6, PinsOnly DEF Shaped
<1>8. /\ FlushPins \in Members(queue'["worker"])
      /\ Members(queue["worker"]) \subseteq Members(queue'["worker"])
      /\ Members(queue'["worker"]) \subseteq Members(queue["worker"]) \union {FlushPins}
      /\ \A a, b : Ahead(queue'["worker"], a, b) =>
           Ahead(queue["worker"], a, b) \/ (a \in Members(queue["worker"]) /\ b = FlushPins)
  <2>1. CASE NeedsWakeup(pins, pins')
    BY <1>1, <1>6, <2>1, WorkerGets
  <2>2. CASE ~NeedsWakeup(pins, pins')
    BY <1>1, <2>2 DEF NeedsWakeup, Lagging, Woken
  <2> QED
    BY <2>1, <2>2
<1>9. \A d \in Captures : Asked(d)' = Asked(d)
  BY <1>6, <1>8 DEF Asked, OfPins
<1>10. Lagging'
  <2>1. \A d \in Captures : d # c => Kept(d, pins[d])' = Kept(d, pins[d])
    BY <1>1, <1>5 DEF Kept
  <2>2. Kept(c, pins[c])'
    BY <1>3, <1>4, <1>5 DEF Kept, Shows
  <2>3. Woken'
    BY <1>4, <1>5, <1>8 DEF Lagging, Woken
  <2>4. Untouched'
    BY <1>1, <1>2, <1>4, <1>5 DEF Lagging, Untouched
  <2>5. Latest'
    BY <1>4, <1>5, <1>9 DEF Lagging, Latest
  <2>6. Promising'
    BY <1>1, <1>3, <1>4, <1>5, <1>9 DEF Lagging, Promising, Promised
  <2>7. Keeping'
    BY <1>5, <1>9, <2>1, <2>2 DEF Lagging, Keeping
  <2> QED
    BY <2>3, <2>4, <2>5, <2>6, <2>7 DEF Lagging
<1>11. Unpinning'
  BY <1>1, <1>6, <1>8 DEF Unpinning
<1>12. InTurn'
  BY <1>1, <1>4, <1>5, <1>6, <1>8, JobFields DEF InTurn, OfPins
<1> QED
  BY <1>7, <1>10, <1>11, <1>12

LEMMA PinReadyKeeps ==
  ASSUME IInv, TurnsTypeOK, NEW c \in Captures, PinReady(c) PROVE IInv'
<1> USE DEF IInv
<1> DEFINE r == [pins[c] EXCEPT !.restoring = FALSE]
           p == IF r.gen = 0 THEN Intent(r, TRUE) ELSE r
<1>1. /\ main.at = "running" /\ pins[c].restoring /\ pins' = [pins EXCEPT ![c] = p]
      /\ UNCHANGED <<clipboard, main, left, pipes, captured, shares, failed, late>>
  BY DEF PinReady
<1>2. /\ pins[c].gen \in Nat /\ pins[c] \in PinStates /\ pins \in [Captures -> PinStates]
  BY PinFields DEF Shaped
<1>3. /\ r \in PinStates /\ r.gen = pins[c].gen /\ r.newest = pins[c].newest
      /\ r.visible = pins[c].visible /\ r.behind = pins[c].behind /\ r.pending = pins[c].pending
      /\ r.settled = pins[c].settled /\ r.stored = pins[c].stored /\ ~r.restoring
      /\ r.told = pins[c].told
  BY <1>2 DEF PinStates
<1> HIDE DEF r
<1>4. /\ p \in PinStates /\ p.newest = pins[c].newest
      /\ p.behind = pins[c].behind /\ p.pending = pins[c].pending
      /\ p.settled = pins[c].settled /\ p.stored = pins[c].stored /\ ~p.restoring
      /\ pins[c].gen # 0 =>
           p.gen = pins[c].gen /\ p.visible = pins[c].visible /\ p.told = pins[c].told
      /\ pins[c].gen = 0 => p.gen = 1 /\ p.visible
  <2>1. CASE r.gen = 0
    <3>1. p = Intent(r, TRUE)
      BY <2>1
    <3> HIDE DEF p
    <3> QED
      <4>1. /\ p \in PinStates /\ p.gen = r.gen + 1 /\ p.visible = TRUE
            /\ p.newest = r.newest /\ p.pending = r.pending
            /\ p.settled = r.settled /\ p.stored = r.stored
            /\ p.restoring = r.restoring /\ p.behind = r.behind
        BY <1>3, <3>1, IntentFields
      <4> QED
        BY <1>3, <2>1, <4>1
  <2>2. CASE r.gen # 0
    BY <1>3, <2>2
  <2> QED
    BY <2>1, <2>2
<1> HIDE DEF p
<1>5. pins' \in [Captures -> PinStates] /\ pins'[c] = p /\ \A d \in Captures : d # c => pins'[d] = pins[d]
  BY <1>1, <1>2, <1>4
<1>6. FlushPins \in WorkerJobs /\ FlushPins.kind = "flush"
  BY DEF WorkerJobs, FlushPins
<1>7. Shaped' /\ Tracked' /\ Fenced' /\ Linked' /\ Counted' /\ Once' /\ Gated'
  <2>1. main' \in [at : {"running", "unpinning"}, turn : Nat] /\ queue' = queue /\ doing' = doing
    BY <1>1 DEF Shaped, pipes
  <2> QED
    BY <1>1, <1>5, <1>6, <2>1, PinsOnly DEF Shaped
<1>8. \A d \in Captures : Asked(d)' = Asked(d)
  BY <1>1 DEF Asked, pipes
<1>9. Lagging'
  <2>1. \A d \in Captures : d # c => Kept(d, pins[d])' = Kept(d, pins[d])
    BY <1>1, <1>5 DEF Kept
  <2>2. pins[c].gen = 0 => p.stored = 0 /\ p.newest = 0 /\ p.pending = None /\ Asked(c) = {}
    <3> SUFFICES ASSUME pins[c].gen = 0
                 PROVE  p.stored = 0 /\ p.newest = 0 /\ p.pending = None /\ Asked(c) = {}
      OBVIOUS
    <3>1. ~pins[c].visible /\ pins[c].newest = 0 /\ pins[c].stored = 0
      BY <1>1 DEF Lagging, Untouched
    <3>2. pins[c].pending = None
      BY <3>1 DEF Lagging, Woken
    <3>3. \A job \in Asked(c) : job.gen \in 1..0
      BY DEF Lagging, Latest
    <3> QED
      BY <1>4, <3>1, <3>2, <3>3
  <2>3. Woken'
    BY <1>1, <1>4, <1>5, <2>2 DEF Lagging, Woken, pipes
  <2>4. Untouched'
    BY <1>1, <1>2, <1>4, <1>5, PinFields DEF Lagging, Untouched
  <2>5. Latest'
    BY <1>2, <1>4, <1>5, <1>8, <2>2 DEF Lagging, Latest
  <2>6. Promising'
    BY <1>2, <1>4, <1>5, <1>8, <2>2 DEF Lagging, Promising, Promised
  <2>7. Kept(c, pins[c]) /\ pins[c].gen # 0 => Kept(c, pins[c])'
    BY <1>1, <1>4, <1>5 DEF Kept, Shows, Hearing
  <2>8. pins[c].gen = 0 => Kept(c, pins[c])'
    BY <1>4, <1>5, <2>2 DEF Kept, Shows, PipelineAssumption
  <2>9. Keeping'
    BY <1>2, <1>4, <1>5, <1>8, <2>1, <2>7, <2>8 DEF Lagging, Keeping
  <2> QED
    BY <2>3, <2>4, <2>5, <2>6, <2>9 DEF Lagging
<1>10. Unpinning'
  BY <1>1 DEF Unpinning, pipes
<1>11. InTurn'
  <2>1. ASSUME NEW a \in WorkerJobs, NEW b \in WorkerJobs, Ahead(queue["worker"], a, b),
               b.kind \in OfPins
        PROVE  pins[b.capture].gen # 0 /\ b.capture \in Captures
    BY <1>2, <2>1, AheadInChannel, JobFields DEF Lagging, Latest, Asked
  <2> QED
    BY <1>1, <1>4, <1>5, <2>1 DEF InTurn, pipes
<1> QED
  BY <1>7, <1>9, <1>10, <1>11

\* A thread that is told to stop gets one job more.
LEMMA FenceSent ==
  ASSUME Shaped, NEW t \in Threads, queue' = Sent(t, StopJob)
  PROVE  /\ queue' \in [Threads -> Seq(AcquisitionJobs \union WorkerJobs)]
         /\ queue'["acquisition"] \in Seq(AcquisitionJobs)
         /\ queue'["worker"] \in Seq(WorkerJobs)
         /\ queue'["uploads"] \in Seq(NetworkJobs)
         /\ \A u \in Threads : Members(queue'[u]) =
              IF u = t THEN Members(queue[u]) \union {StopJob} ELSE Members(queue[u])
         /\ \A u \in Threads : \A a, b : Ahead(queue'[u], a, b) =>
              Ahead(queue[u], a, b) \/ (u = t /\ a \in Members(queue[u]) /\ b = StopJob)
<1>1. /\ StopJob \in AcquisitionJobs /\ StopJob \in WorkerJobs /\ StopJob \in NetworkJobs
  BY DEF AcquisitionJobs, WorkerJobs, NetworkJobs
<1>2. /\ queue["uploads"] \in Seq(NetworkJobs)
      /\ queue \in [Threads -> Seq(AcquisitionJobs \union WorkerJobs)]
      /\ queue["acquisition"] \in Seq(AcquisitionJobs)
      /\ queue["worker"] \in Seq(WorkerJobs)
  BY DEF Shaped
<1>3. CASE t = "acquisition"
  BY <1>1, <1>2, <1>3, AcquisitionGets DEF Threads
<1>4. CASE t = "worker"
  BY <1>1, <1>2, <1>4, WorkerGets DEF Threads
<1>5. CASE t = "uploads"
  <2> DEFINE more == Append(queue["uploads"], StopJob)
  <2>1. /\ more \in Seq(NetworkJobs)
        /\ Members(more) = Members(queue["uploads"]) \union {StopJob}
        /\ \A a, b : Ahead(more, a, b) =>
             Ahead(queue["uploads"], a, b) \/ (a \in Members(queue["uploads"]) /\ b = StopJob)
    BY <1>1, <1>2, SentJobs
  <2>2. more \in Seq(AcquisitionJobs \union WorkerJobs)
    <3>1. NetworkJobs \subseteq AcquisitionJobs \union WorkerJobs
      BY DEF NetworkJobs, AcquisitionJobs, WorkerJobs
    <3> QED
      BY <2>1, <3>1, SeqMonotonic
  <2>3. queue' = [queue EXCEPT !["uploads"] = more]
    BY <1>5 DEF Sent
  <2> HIDE DEF more
  <2>4. /\ queue'["uploads"] = more /\ queue'["acquisition"] = queue["acquisition"]
        /\ queue'["worker"] = queue["worker"]
        /\ queue' \in [Threads -> Seq(AcquisitionJobs \union WorkerJobs)]
    BY <1>2, <2>2, <2>3 DEF Threads
  <2> QED
    BY <1>2, <1>5, <2>1, <2>4 DEF Threads
<1> QED
  BY <1>3, <1>4, <1>5 DEF Threads

\* A step of stop that may tell a thread disturbs nothing but the fences.
LEMMA StopOnly ==
  ASSUME IInv, TurnsTypeOK, NEW t \in Threads, queue' = queue \/ queue' = Sent(t, StopJob),
         UNCHANGED <<clipboard, doing, captured, shares, pinned>>, late => late', late' \in BOOLEAN,
         main' \in [at : Stages, turn : Nat], main'.turn = main.turn,
         main.at \notin {"scrolling", "unpinning"}, main'.at # "scrolling"
  PROVE  /\ Shaped' /\ Tracked' /\ Unpinning' /\ Linked' /\ Counted' /\ Once' /\ Gated'
         /\ Lagging' /\ InTurn'
<1> USE DEF IInv
<1>1. /\ queue' \in [Threads -> Seq(AcquisitionJobs \union WorkerJobs)]
      /\ queue'["acquisition"] \in Seq(AcquisitionJobs)
      /\ queue'["worker"] \in Seq(WorkerJobs)
      /\ queue'["uploads"] \in Seq(NetworkJobs)
      /\ \A u \in Threads : Members(queue[u]) \subseteq Members(queue'[u])
      /\ \A u \in Threads : Members(queue'[u]) \subseteq Members(queue[u]) \union {StopJob}
      /\ \A u \in Threads : \A a, b : Ahead(queue'[u], a, b) =>
           Ahead(queue[u], a, b) \/ (a \in Members(queue[u]) /\ b = StopJob)
  <2>1. CASE queue' = queue
    BY <2>1 DEF Shaped
  <2>2. CASE queue' = Sent(t, StopJob)
    <3>1. Shaped
      OBVIOUS
    <3>2. /\ queue' \in [Threads -> Seq(AcquisitionJobs \union WorkerJobs)]
          /\ queue'["acquisition"] \in Seq(AcquisitionJobs)
          /\ queue'["worker"] \in Seq(WorkerJobs)
          /\ queue'["uploads"] \in Seq(NetworkJobs)
          /\ \A u \in Threads : Members(queue'[u]) =
               IF u = t THEN Members(queue[u]) \union {StopJob} ELSE Members(queue[u])
          /\ \A u \in Threads : \A a, b : Ahead(queue'[u], a, b) =>
               Ahead(queue[u], a, b) \/ (u = t /\ a \in Members(queue[u]) /\ b = StopJob)
      BY ONLY <2>2, <3>1, FenceSent, t \in Threads
    <3>3. ASSUME NEW u \in Threads
          PROVE  /\ Members(queue[u]) \subseteq Members(queue'[u])
                 /\ Members(queue'[u]) \subseteq Members(queue[u]) \union {StopJob}
      BY ONLY <3>2, u \in Threads
    <3>4. \A u \in Threads : \A a, b : Ahead(queue'[u], a, b) =>
            Ahead(queue[u], a, b) \/ (a \in Members(queue[u]) /\ b = StopJob)
      BY ONLY <3>2
    <3> QED
      BY ONLY <3>2, <3>3, <3>4
  <2> QED
    BY <2>1, <2>2
<1>2. StopJob.kind = "stop" /\ StopJob.turn = 0
  BY DEF StopJob
<1>3. Same(OfPins \union CardKinds \union {"flush", "share"})
  BY <1>1, <1>2 DEF Same, OfPins, CardKinds
<1>4. Shaped'
  BY <1>1 DEF Shaped, captured, pinned
<1>5. Issued \in Nat /\ Issued' = Issued /\ fate' = fate
  BY Tickets DEF clipboard, Issued
<1>6. Tracked'
  <2>1. \A u \in Threads : \A j \in Jobs(u)' : j.turn <= Issued'
    BY <1>1, <1>2, <1>5, Hands DEF Tracked
  <2>2. \A u \in Threads : Jobs(u) \subseteq Jobs(u)'
    BY <1>1, Hands
  <2>3. \A n \in DOMAIN fate' : Open(n)' => Holds(n)'
    BY <1>5, <2>2 DEF Tracked, Open, Holds
  <2> QED
    BY <1>5, <2>1, <2>3 DEF Tracked, Open
<1>7. Unpinning' /\ Lagging' /\ InTurn'
  BY <1>3, PinsAlone DEF Same
<1>8. Linked'
  BY <1>3, <1>5, LinksAlone DEF Same
<1>9. Counted' /\ Once' /\ Gated'
  BY <1>3, CardsAlone DEF Same, HandAlone
<1> QED
  BY <1>4, <1>6, <1>7, <1>8, <1>9

LEMMA StopKeeps == ASSUME IInv, TurnsTypeOK, Stop PROVE IInv'
<1>1. /\ main.at = "running" /\ queue' = Sent("uploads", StopJob)
      /\ main' = [main EXCEPT !.at = "uploads"] /\ main \in [at : Stages, turn : Nat]
      /\ UNCHANGED <<clipboard, doing, captured, shares, pinned, late>> /\ late \in BOOLEAN
  BY DEF Stop, StopJob, IInv, Shaped
<1>2. main' \in [at : Stages, turn : Nat] /\ main'.turn = main.turn /\ main'.at = "uploads"
  BY <1>1 DEF Stages
<1>3. Fenced'
  <2>1. \A u \in {"acquisition", "worker"} :
          /\ Members(queue'[u]) = Members(queue[u])
          /\ \A a, b : Ahead(queue'[u], a, b) => Ahead(queue[u], a, b)
    BY <1>1, FenceSent DEF IInv, Threads
  <2>2. ~Stopped("uploads") /\ ~Stopped("acquisition") /\ doing["worker"].step \notin {"leaving", "stopped"}
    BY <1>1 DEF IInv, Fenced, Cancelled
  <2> QED
    BY <1>1, <1>2, <2>1, <2>2 DEF IInv, Fenced, Stopped, Cancelled
<1> QED
  BY <1>1, <1>2, <1>3, StopOnly DEF IInv, Threads

LEMMA StopAcquisitionKeeps == ASSUME IInv, TurnsTypeOK, StopAcquisition PROVE IInv'
<1>1. /\ main.at = "uploads" /\ queue' = Sent("acquisition", StopJob) /\ Stopped("uploads")
      /\ main' = [main EXCEPT !.at = "acquisition"] /\ main \in [at : Stages, turn : Nat]
      /\ UNCHANGED <<clipboard, doing, captured, shares, pinned, late>> /\ late \in BOOLEAN
  BY DEF StopAcquisition, StopJob, IInv, Shaped
<1>2. main' \in [at : Stages, turn : Nat] /\ main'.turn = main.turn /\ main'.at = "acquisition"
  BY <1>1 DEF Stages
<1>3. Fenced'
  <2>1. /\ Members(queue'["worker"]) = Members(queue["worker"])
        /\ \A a, b : Ahead(queue'["acquisition"], a, b) => Ahead(queue["acquisition"], a, b) \/
             (a \in Members(queue["acquisition"]) /\ b = StopJob)
    BY <1>1, FenceSent DEF IInv, Threads
  <2>2. /\ StopJob \notin Members(queue["acquisition"])
        /\ ~Stopped("acquisition") /\ doing["worker"].step \notin {"leaving", "stopped"}
    BY <1>1 DEF IInv, Fenced
  <2>3. queue'["uploads"] = queue["uploads"]
    BY <1>1, AcquisitionGets DEF IInv, AcquisitionJobs
  <2>4. \A job \in AcquisitionJobs : ~Ahead(queue'["acquisition"], StopJob, job)
    BY <2>1, <2>2 DEF IInv, Fenced
  <2> QED
    BY <1>1, <1>2, <2>1, <2>2, <2>3, <2>4 DEF IInv, Fenced, Stopped, Cancelled
<1> QED
  BY <1>1, <1>2, <1>3, StopOnly DEF IInv, Threads

LEMMA StopWorkerKeeps == ASSUME IInv, TurnsTypeOK, StopWorker PROVE IInv'
<1>1. /\ main.at = "acquisition" /\ queue' = Sent("worker", StopJob)
      /\ main' = [main EXCEPT !.at = "worker"] /\ main \in [at : Stages, turn : Nat]
      /\ late' = (late \/ ~Stopped("acquisition"))
      /\ UNCHANGED <<clipboard, doing, captured, shares, pinned>> /\ late \in BOOLEAN
  BY DEF StopWorker, StopJob, Join, IInv, Shaped
<1>2. main' \in [at : Stages, turn : Nat] /\ main'.turn = main.turn /\ main'.at = "worker"
  BY <1>1 DEF Stages
<1>3. Fenced'
  <2>1. /\ queue'["uploads"] = queue["uploads"]
        /\ queue'["acquisition"] = queue["acquisition"]
    BY <1>1, WorkerGets DEF IInv, WorkerJobs
  <2>2. doing["worker"].step \notin {"leaving", "stopped"} /\ Stopped("uploads")
    BY <1>1 DEF IInv, Fenced
  <2> QED
    BY <1>1, <1>2, <2>1, <2>2 DEF IInv, Fenced, Stopped, Cancelled
<1> QED
  BY <1>1, <1>2, <1>3, StopOnly DEF IInv, Threads, Stopped

LEMMA DownKeeps == ASSUME IInv, TurnsTypeOK, Down PROVE IInv'
<1>1. /\ main.at = "worker" /\ queue' = queue
      /\ main' = [main EXCEPT !.at = "down"] /\ main \in [at : Stages, turn : Nat]
      /\ late' = (late \/ ~Stopped("worker"))
      /\ UNCHANGED <<clipboard, doing, captured, shares, pinned>> /\ late \in BOOLEAN
  BY DEF Down, pipes, Join, IInv, Shaped
<1>2. main' \in [at : Stages, turn : Nat] /\ main'.turn = main.turn /\ main'.at = "down"
  BY <1>1 DEF Stages
<1>3. Fenced'
  BY <1>1, <1>2 DEF IInv, Fenced, Stopped, Cancelled
<1> QED
  BY <1>1, <1>2, <1>3, StopOnly DEF IInv, Threads, Stopped

-----------------------------------------------------------------------------
(* The threads' turns at the clipboard                                     *)

\* A thread comes to something else, the others stay where they are.
LEMMA Moves ==
  ASSUME Shaped, NEW t \in Threads, NEW at, doing' = [doing EXCEPT ![t] = at],
         t = "acquisition" => at \in AcquisitionAt,
         t = "worker" => at \in WorkerAt,
         t = "uploads" => at \in UploadsAt
  PROVE  /\ doing' \in [Threads -> AcquisitionAt \union WorkerAt \union UploadsAt]
         /\ doing'["acquisition"] \in AcquisitionAt
         /\ doing'["worker"] \in WorkerAt
         /\ doing'["uploads"] \in UploadsAt
         /\ doing'[t] = at /\ \A u \in Threads : u # t => doing'[u] = doing[u]
<1>1. /\ doing \in [Threads -> AcquisitionAt \union WorkerAt \union UploadsAt]
      /\ doing["acquisition"] \in AcquisitionAt
      /\ doing["worker"] \in WorkerAt
      /\ doing["uploads"] \in UploadsAt
  BY DEF Shaped
<1>2. at \in AcquisitionAt \union WorkerAt \union UploadsAt
  BY DEF Threads
<1> QED
  BY <1>1, <1>2 DEF Threads

LEMMA StepIs ==
  ASSUME Shaped, NEW t \in Threads, NEW step
  PROVE  Step(t, step) = [doing EXCEPT ![t] = [job |-> doing[t].job, step |-> step]]
<1>1. doing \in [Threads -> AcquisitionAt \union WorkerAt \union UploadsAt]
  BY DEF Shaped
<1>2. [doing[t] EXCEPT !.step = step] = [job |-> doing[t].job, step |-> step]
  BY <1>1 DEF AcquisitionAt, WorkerAt, UploadsAt, At
<1> QED
  BY <1>1, <1>2 DEF Step

\* A turn that is taken, given up or over concerns nothing but the turns.
LEMMA TurnOnly ==
  ASSUME IInv, NEW t \in Threads, doing[t].step \in {"turn", "writing"},
         doing' = AfterTurn(t) \/ doing' = Step(t, "writing"),
         Issued \in Nat, Issued' = Issued, \A n : Open(n)' => Open(n),
         \A n : doing' = AfterTurn(t) /\ n = doing[t].job.turn => ~Open(n)',
         UNCHANGED <<main, queue, captured, shares, pinned, late>>
  PROVE  IInv'
<1> USE DEF IInv
<1> DEFINE job == doing[t].job
<1>1. /\ t = "acquisition" => job \in CaptureJobs
      /\ t = "worker" => job \in CapturedJobs \union CopyJobs
      /\ t = "uploads" => job \in UploadJobs
  BY Steps DEF Threads, Resting, Finalizations
<1>2. /\ job.kind \in {"capture", "captured", "copy", "upload"}
      /\ job.kind = "capture" <=> t = "acquisition"
      /\ job.kind = "captured" => t = "worker"
  BY <1>1 DEF CaptureJobs, CapturedJobs, CopyJobs, UploadJobs, Threads
<1>3. PICK at :
        /\ doing' = [doing EXCEPT ![t] = at]
        /\ \/ at = [job |-> job, step |-> "writing"]
           \/ /\ job.kind \in Capturing /\ at = [job |-> job, step |-> "send"]
              /\ \A n : n = job.turn => ~Open(n)'
           \/ /\ job.kind \notin Capturing /\ at = [job |-> Resting, step |-> "idle"]
              /\ \A n : n = job.turn => ~Open(n)'
  BY StepIs DEF AfterTurn, Done, Now, Capturing
<1>4. /\ t = "acquisition" => at \in AcquisitionAt
      /\ t = "worker" => at \in WorkerAt
      /\ t = "uploads" => at \in UploadsAt
  <2> HIDE DEF job
  <2>1. t = "worker" /\ job.kind \in Capturing => job \in CapturedJobs
    BY <1>1, <1>2 DEF CopyJobs, Capturing
  <2> QED
    BY <1>1, <1>2, <1>3, <2>1 DEF AcquisitionAt, WorkerAt, UploadsAt, At, Capturing
<1>5. /\ doing' \in [Threads -> AcquisitionAt \union WorkerAt \union UploadsAt]
      /\ doing'["acquisition"] \in AcquisitionAt
      /\ doing'["worker"] \in WorkerAt
      /\ doing'["uploads"] \in UploadsAt
      /\ doing'[t] = at /\ \A u \in Threads : u # t => doing'[u] = doing[u]
  BY <1>3, <1>4, Moves
<1> HIDE DEF job
<1>6. /\ at.job = job \/ (at.job = Resting /\ job.kind \notin CardKinds)
      /\ at.step \in {"writing", "send", "idle"}
  BY <1>2, <1>3 DEF Capturing, CardKinds
<1>7. Shaped'
  BY <1>5 DEF Shaped, captured, pinned
<1>8. Fenced'
  <2>1. \A u \in Threads : Stopped(u)' = Stopped(u)
    BY <1>5, <1>6 DEF Stopped
  <2>2. doing'["worker"].step \in {"leaving", "stopped"} <=> doing["worker"].step \in {"leaving", "stopped"}
    BY <1>5, <1>6 DEF Threads
  <2> QED
    BY <2>1, <2>2 DEF Fenced, Threads, Cancelled
<1>9. Unpinning' /\ Lagging' /\ InTurn'
  BY PinsAlone DEF Same
<1>10. Linked'
  BY LinksAlone DEF Same
<1>11. Counted' /\ Once' /\ Gated'
  <2>1. \A u \in Threads : HandAlone(u)
    BY <1>5, <1>6 DEF HandAlone, Resting, CardKinds, job
  <2> QED
    BY <2>1, CardsAlone DEF Same, Threads
<1>12. Tracked'
  <2>1. Resting.turn = 0
    BY DEF Resting
  <2>2. \A u \in Threads : \A j \in Jobs(u)' : j.turn <= Issued'
    BY <1>5, <1>6, <2>1, Hands DEF Tracked, job
  <2>3. ASSUME NEW n, Open(n)' PROVE Holds(n)'
    <3>1. Open(n) /\ Holds(n)
      BY <2>3 DEF Tracked, Open
    <3>2. CASE n = main.turn
      BY <3>2 DEF Holds
    <3>3. CASE n # main.turn
      <4>0. PICK u \in Threads : \E j \in Jobs(u) : j.turn = n
        BY <3>1, <3>3 DEF Holds
      <4>1. PICK j \in Jobs(u) : j.turn = n
        BY <4>0
      <4>2. CASE j = doing[u].job /\ u = t
        <5>1. at.job = job
          BY <1>3, <2>3, <4>1, <4>2 DEF job
        <5> QED
          BY <1>5, <4>1, <4>2, <5>1, Hands DEF job, Holds
      <4>3. CASE j \in Members(queue[u]) \/ u # t
        BY <1>5, <4>1, <4>3, Hands DEF Holds
      <4> QED
        BY <4>1, <4>2, <4>3, Hands
    <3> QED
      BY <3>2, <3>3
  <2>4. ASSUME NEW u \in Threads, doing'[u].step \in {"send", "publish"},
               NEW n, n = doing'[u].job.turn
        PROVE  ~Open(n)'
    <3>1. CASE u = t
      BY <1>3, <1>5, <2>4, <3>1
    <3>2. CASE u # t
      BY <1>5, <2>4, <3>2 DEF Tracked
    <3> QED
      BY <3>1, <3>2
  <2> QED
    BY <2>2, <2>3, <2>4 DEF Tracked
<1> QED
  BY <1>7, <1>8, <1>9, <1>10, <1>11, <1>12

LEMMA TakesTurnKeeps ==
  ASSUME IInv, TurnsTypeOK, NEW t \in Threads, TakesTurn(t) PROVE IInv'
<1> DEFINE n == doing[t].job.turn
<1>1. /\ doing[t].step = "turn"
      /\ UNCHANGED <<main, queue, captured, shares, pinned, late>>
  BY DEF TakesTurn, HasTurn
<1>2. CASE n = 0 /\ UNCHANGED clipboard /\ doing' = AfterTurn(t)
  <2>1. Issued \in Nat /\ Issued' = Issued /\ \A m : Open(m)' <=> Open(m)
    BY <1>2, Tickets DEF clipboard, Issued, Open
  <2>2. ~Open(0)
    BY Tickets DEF Open
  <2> QED
    BY <1>1, <1>2, <2>1, <2>2, TurnOnly
<1>3. CASE Superseded(n) /\ doing' = AfterTurn(t)
  <2>1. n \in 1..Issued /\ fate' = [fate EXCEPT ![n] = "refused"]
    BY <1>3, Tickets DEF Superseded, Held
  <2>2. Issued \in Nat /\ Issued' = Issued /\ \A m : Open(m)' => Open(m) /\ m # n
    BY <2>1, Settles, Tickets DEF Open, Fates
  <2> QED
    BY <1>1, <1>3, <2>2, TurnOnly
<1>4. CASE Run(n) /\ doing' = Step(t, "writing")
  <2>1. n \in 1..Issued /\ fate' = [fate EXCEPT ![n] = "writing"] /\ Open(n)
    BY <1>4, Tickets DEF Run, Held, Open
  <2>2. Issued \in Nat /\ Issued' = Issued /\ \A m : Open(m)' => Open(m)
    BY <2>1, Settles, Tickets DEF Open, Fates
  <2>3. Step(t, "writing") # AfterTurn(t)
    <3>1. doing \in [Threads -> AcquisitionAt \union WorkerAt \union UploadsAt]
      BY DEF IInv, Shaped
    <3>2. /\ Step(t, "writing")[t].step = "writing"
          /\ AfterTurn(t)[t].step \in {"send", "idle"}
      BY <3>1, StepIs DEF AfterTurn, Done, Now, IInv
    <3> QED
      BY <3>2
  <2> QED
    BY <1>1, <1>4, <2>2, <2>3, TurnOnly
<1> QED
  BY <1>2, <1>3, <1>4 DEF TakesTurn

LEMMA WritesKeeps ==
  ASSUME IInv, TurnsTypeOK, NEW t \in Threads, Writes(t) PROVE IInv'
<1> DEFINE n == doing[t].job.turn
<1>1. /\ doing[t].step = "writing" /\ Finish(n) /\ doing' = AfterTurn(t)
      /\ UNCHANGED <<main, queue, captured, shares, pinned, late>>
  BY DEF Writes
<1>2. PICK f \in {"written", "dropped"} : fate' = [fate EXCEPT ![n] = f]
  BY <1>1 DEF Finish
<1>3. Issued \in Nat /\ Issued' = Issued /\ \A m : Open(m)' => Open(m) /\ m # n
  <2>1. n \in 1..Issued
    BY <1>1, Tickets DEF Finish
  <2> QED
    BY <1>2, <2>1, Settles, Tickets DEF Open, Fates
<1> QED
  BY <1>1, <1>3, TurnOnly

-----------------------------------------------------------------------------
(* The acquisition thread's steps                                          *)

LEMMA AcquiresKeeps == ASSUME IInv, TurnsTypeOK, Acquires PROVE IInv'
<1> USE DEF IInv
<1> DEFINE job == Head(queue["acquisition"])
           at == IF job.kind = "stop" THEN [job |-> Resting, step |-> "stopped"]
                 ELSE [job |-> job, step |-> "taking"]
<1>1. /\ doing["acquisition"].step = "idle" /\ queue["acquisition"] # <<>>
      /\ queue' = Popped("acquisition") /\ doing' = [doing EXCEPT !["acquisition"] = at]
      /\ UNCHANGED <<clipboard, main, captured, shares, pinned, late>>
  BY DEF Acquires, Idle, Now
<1>2. /\ queue' \in [Threads -> Seq(AcquisitionJobs \union WorkerJobs)]
      /\ queue'["acquisition"] \in Seq(AcquisitionJobs)
      /\ queue'["worker"] = queue["worker"]
      /\ queue'["uploads"] = queue["uploads"]
      /\ job \in AcquisitionJobs
      /\ Members(queue["acquisition"]) = Members(queue'["acquisition"]) \union {job}
      /\ \A a, b : Ahead(queue'["acquisition"], a, b) => Ahead(queue["acquisition"], a, b)
      /\ \A b \in Members(queue'["acquisition"]) : Ahead(queue["acquisition"], job, b)
  BY <1>1, AcquisitionPops
<1>3. \/ job.kind = "stop" /\ job = StopJob /\ job.turn = 0
      \/ job.kind = "capture" /\ job \in CaptureJobs
  BY <1>2 DEF AcquisitionJobs, CaptureJobs, StopJob
<1> HIDE DEF job
<1>4. at \in AcquisitionAt
  BY <1>3 DEF AcquisitionAt, At
<1>5. /\ doing' \in [Threads -> AcquisitionAt \union WorkerAt \union UploadsAt]
      /\ doing'["acquisition"] \in AcquisitionAt
      /\ doing'["worker"] \in WorkerAt
      /\ doing'["uploads"] \in UploadsAt
      /\ doing'["acquisition"] = at
      /\ \A u \in Threads : u # "acquisition" => doing'[u] = doing[u]
  BY <1>1, <1>4, Moves DEF Threads
<1>6. /\ at.job = IF job.kind = "stop" THEN Resting ELSE job
      /\ at.step = IF job.kind = "stop" THEN "stopped" ELSE "taking"
      /\ Resting.kind = "none" /\ Resting.turn = 0
  BY DEF Resting
<1>7. doing["acquisition"].job = Resting
  BY <1>1, Steps
<1> HIDE DEF at
<1>8. Shaped'
  BY <1>1, <1>2, <1>5 DEF Shaped, captured, pinned
<1>9. Jobs("acquisition") \union {at.job} = Jobs("acquisition")' \union {job, Resting}
  BY <1>2, <1>5, <1>6, <1>7, Hands
<1>10. \A k : k # "none" /\ k # "stop" =>
         \A j : j.kind = k => (j \in Jobs("acquisition") <=> j \in Jobs("acquisition")')
  BY <1>2, <1>3, <1>5, <1>6, <1>7, Hands
<1>11. Fenced'
  <2>1. job.kind = "stop" => queue'["acquisition"] = <<>>
    <3>1. job.kind = "stop" => Members(queue'["acquisition"]) = {}
      BY <1>2, <1>3, InChannel DEF Fenced
    <3> QED
      BY <1>2, <3>1, NonEmpty
  <2>2. job.kind = "stop" => main.at \in {"acquisition", "worker", "down"}
    BY <1>2, <1>3 DEF Fenced
  <2>3. ~Stopped("acquisition")
    BY <1>1 DEF Stopped
  <2> QED
    BY <1>1, <1>2, <1>5, <1>6, <2>1, <2>2, <2>3 DEF Fenced, Stopped, Cancelled, Threads
<1>12. Unpinning' /\ Lagging' /\ InTurn' /\ Linked'
  <2>1. Same(OfPins \union {"flush", "share"})
    BY <1>2, <1>3 DEF Same, Threads, OfPins
  <2>2. Issued \in Nat /\ Issued' = Issued
    BY <1>1, Tickets DEF clipboard, Issued
  <2> QED
    BY <1>1, <2>1, <2>2, PinsAlone, LinksAlone DEF Same
<1>13. Counted'
  <2>1. Flight' = Flight /\ \A n : (Taking(n)' <=> Taking(n)) /\ (Finalizing(n)' <=> Finalizing(n))
    BY <1>1, <1>2, <1>5, <1>10, Hands DEF Flight, captured, Taking, Finalizing, Capturing, Threads
  <2>2. /\ frames' = Cardinality(Flight') /\ frames' <= MaxFrames
        /\ \A n \in DOMAIN cards' :
             /\ cards'[n] = "admitted" => Taking(n)'
             /\ cards'[n] \in {"queued", "ready"} => Finalizing(n)'
             /\ cards'[n] = "lost" => late'
    BY <1>1, <2>1 DEF captured, Counted
  <2>3. \A t \in Threads : Members(queue'[t]) \subseteq Members(queue[t])
    BY <1>2 DEF Threads
  <2>4. at.job.kind = "capture" => at.job.card \in DOMAIN cards /\ cards[at.job.card] = "admitted"
    BY <1>2, <1>6 DEF Counted, Capturing, Threads
  <2> QED
    BY <1>1, <1>5, <1>6, <2>2, <2>3, <2>4 DEF captured, Counted, Threads
<1>14. Once'
  BY <1>2, <1>5, <1>10 DEF Once, Threads
<1>15. Gated'
  <2>1. (\E j \in Jobs("acquisition") : j.kind = "capture") <=>
          (\E j \in Jobs("acquisition")' : j.kind = "capture")
    BY <1>10
  <2>2. job.kind = "capture" => \A j \in Members(queue'["acquisition"]) : j.kind # "capture"
    BY <1>2, InChannel DEF Gated
  <2> QED
    BY <1>1, <1>2, <1>5, <1>6, <2>1, <2>2 DEF Gated, captured
<1>16. Tracked'
  <2>1. fate' = fate /\ Issued' = Issued
    BY <1>1 DEF clipboard, Issued
  <2>2. \A t \in Threads : \A j \in Jobs(t)' : j.turn <= Issued'
    BY <1>2, <1>5, <1>6, <1>7, <2>1, Hands DEF Tracked, Threads
  <2>3. ASSUME NEW n, Open(n)' PROVE Holds(n)'
    <3>1. Open(n) /\ Holds(n) /\ n # 0
      BY <2>1, <2>3, Tickets DEF Tracked, Open
    <3>2. \A t \in Threads : \A j \in Jobs(t) : j.turn # 0 => j \in Jobs(t)'
      BY <1>2, <1>3, <1>5, <1>6, <1>7, Hands DEF Threads
    <3> QED
      BY <1>1, <3>1, <3>2 DEF Holds
  <2>4. \A u \in Threads : doing'[u].step \in {"send", "publish"} => ~Open(doing[u].job.turn)
    BY <1>5, <1>6 DEF Tracked
  <2>5. \A u \in Threads : doing'[u].step \in {"send", "publish"} => doing'[u] = doing[u]
    BY <1>5, <1>6
  <2> QED
    BY <1>1, <2>1, <2>2, <2>3, <2>4, <2>5 DEF Tracked, Open
<1> QED
  BY <1>8, <1>11, <1>12, <1>13, <1>14, <1>15, <1>16

LEMMA TakesPixelsKeeps == ASSUME IInv, TurnsTypeOK, TakesPixels PROVE IInv'
<1> USE DEF IInv
<1> DEFINE job == doing["acquisition"].job
           at == [job |-> job, step |-> "turn"]
<1>1. /\ doing["acquisition"].step = "taking" /\ doing' = [doing EXCEPT !["acquisition"] = at]
      /\ UNCHANGED <<clipboard, main, queue, captured, shares, pinned, late>>
  BY StepIs DEF TakesPixels, Threads
<1>2. job \in CaptureJobs
  BY <1>1, Steps
<1>3. at \in AcquisitionAt
  BY <1>2 DEF AcquisitionAt, At
<1>4. /\ doing' \in [Threads -> AcquisitionAt \union WorkerAt \union UploadsAt]
      /\ doing'["acquisition"] \in AcquisitionAt
      /\ doing'["worker"] \in WorkerAt
      /\ doing'["uploads"] \in UploadsAt
      /\ doing'["acquisition"] = at
      /\ \A u \in Threads : u # "acquisition" => doing'[u] = doing[u]
  BY <1>1, <1>3, Moves DEF Threads
<1>5. doing'["acquisition"].job = job /\ doing'["acquisition"].step = "turn"
  BY <1>4
<1>6. Shaped'
  BY <1>1, <1>4 DEF Shaped, captured, pinned
<1>7. Fenced'
  BY <1>1, <1>4 DEF Fenced, Stopped, Cancelled, Threads
<1>8. Unpinning' /\ Lagging' /\ InTurn' /\ Linked'
  <2>1. Issued \in Nat /\ Issued' = Issued
    BY <1>1, Tickets DEF clipboard, Issued
  <2> QED
    BY <1>1, <2>1, PinsAlone, LinksAlone DEF Same
<1>9. Counted' /\ Once' /\ Gated'
  BY <1>1, <1>4, CardsAlone DEF Same, HandAlone, Threads
<1>10. Tracked'
  <2>1. fate' = fate /\ Issued' = Issued
    BY <1>1 DEF clipboard, Issued
  <2>2. \A u \in Threads : Jobs(u)' = Jobs(u)
    BY <1>1, <1>4, Hands
  <2>3. \A n \in DOMAIN fate' : Open(n)' => Holds(n)'
    BY <1>1, <2>1, <2>2 DEF Tracked, Open, Holds
  <2>4. \A u \in Threads : doing'[u].step \in {"send", "publish"} => doing'[u] = doing[u]
    BY <1>4
  <2> QED
    BY <1>1, <2>1, <2>2, <2>3, <2>4 DEF Tracked, Open
<1> QED
  BY <1>6, <1>7, <1>8, <1>9, <1>10

\* The acquisition thread is through with its capture.
LEMMA CaptureOver ==
  ASSUME IInv, doing["acquisition"].step \in {"taking", "send", "publish"},
         doing' = Done("acquisition"), busy' = FALSE,
         queue' \in [Threads -> Seq(AcquisitionJobs \union WorkerJobs)],
         queue' = queue, frames' \in Nat, cards' \in Seq(CardStates),
         Issued \in Nat, Issued' = Issued,
         \A n : Open(n)' => Open(n) /\ n # doing["acquisition"].job.turn,
         UNCHANGED <<main, shares, pinned, late>>
  PROVE  /\ Shaped' /\ Fenced' /\ Unpinning' /\ Linked' /\ Once' /\ Gated' /\ Lagging' /\ InTurn'
         /\ Tracked'
         /\ doing'["acquisition"].job = Resting /\ doing'["worker"] = doing["worker"]
         /\ doing["acquisition"].job \in CaptureJobs
<1> USE DEF IInv
<1> DEFINE at == [job |-> Resting, step |-> "idle"]
<1>1. at \in AcquisitionAt /\ doing' = [doing EXCEPT !["acquisition"] = at]
  BY DEF AcquisitionAt, At, Done, Now
<1>2. /\ doing' \in [Threads -> AcquisitionAt \union WorkerAt \union UploadsAt]
      /\ doing'["acquisition"] \in AcquisitionAt
      /\ doing'["worker"] \in WorkerAt
      /\ doing'["uploads"] \in UploadsAt
      /\ doing'["acquisition"] = at
      /\ \A u \in Threads : u # "acquisition" => doing'[u] = doing[u]
  BY <1>1, Moves DEF Threads
<1>0. doing'["acquisition"].job = Resting /\ doing'["acquisition"].step = "idle"
  BY <1>2
<1> HIDE DEF at
<1>3. doing["acquisition"].job \in CaptureJobs /\ doing["acquisition"].job.kind = "capture"
  BY Steps DEF CaptureJobs
<1>4. Resting.kind = "none" /\ Resting.turn = 0
  BY DEF Resting
<1>5. Shaped'
  BY <1>2 DEF Shaped, pinned
<1>6. Fenced'
  BY <1>0, <1>2 DEF Fenced, Stopped, Cancelled, Threads
<1>7. Unpinning' /\ Lagging' /\ InTurn' /\ Linked'
  BY PinsAlone, LinksAlone DEF Same
<1>8. Once' /\ Gated'
  <2>1. \A j \in Jobs("acquisition")' : \/ j \in Jobs("acquisition") /\ j.kind # "capture"
                                        \/ j = Resting
    BY <1>0, <1>3, Hands DEF Gated
  <2>2. Gated'
    BY <1>0, <1>4, <2>1 DEF Gated
  <2>3. Once'
    BY <1>2, <1>4, <2>1 DEF Once, Threads
  <2> QED
    BY <2>2, <2>3
<1>9. Tracked'
  <2>1. \A u \in Threads : \A j \in Jobs(u)' : j.turn <= Issued'
    <3>1. \A u \in Threads : \A j \in Jobs(u)' : j \in Jobs(u) \/ j = Resting
      BY <1>0, <1>2, Hands
    <3> QED
      BY <1>4, <3>1 DEF Tracked
  <2>2. ASSUME NEW n, Open(n)' PROVE Holds(n)'
    <3>1. Open(n) /\ Holds(n) /\ n # doing["acquisition"].job.turn
      BY <2>2 DEF Tracked, Open
    <3>2. CASE n = main.turn
      BY <3>2 DEF Holds
    <3>3. CASE n # main.turn
      <4>1. PICK u \in Threads : \E j \in Jobs(u) : j.turn = n
        BY <3>1, <3>3 DEF Holds
      <4>2. PICK j \in Jobs(u) : j.turn = n
        BY <4>1
      <4>3. j \in Jobs(u)'
        BY <1>2, <3>1, <4>2, Hands
      <4> QED
        BY <4>2, <4>3 DEF Holds
    <3> QED
      BY <3>2, <3>3
  <2>3. \A u \in Threads : doing'[u].step \in {"send", "publish"} => doing'[u] = doing[u]
    BY <1>0, <1>2
  <2> QED
    BY <2>1, <2>2, <2>3 DEF Tracked, Open
<1> QED
  BY <1>0, <1>2, <1>3, <1>5, <1>6, <1>7, <1>8, <1>9 DEF Threads

\* A card whose capture is being taken is at hand nowhere else.
LEMMA TakenOnce ==
  ASSUME IInv, doing["acquisition"].job.kind = "capture", doing["acquisition"].step # "publish"
  PROVE  /\ doing["acquisition"].job.card \in Flight
         /\ cards[doing["acquisition"].job.card] = "admitted"
         /\ \A t \in Threads : \A j \in Members(queue[t]) :
              j.kind \in CardKinds => j.card # doing["acquisition"].job.card
         /\ doing["worker"].job.kind \in CardKinds =>
              doing["worker"].job.card # doing["acquisition"].job.card
<1> USE DEF IInv
<1>1. /\ doing["acquisition"].job.card \in Flight
      /\ cards[doing["acquisition"].job.card] = "admitted"
  BY DEF Counted, Flight
<1>2. ASSUME NEW j \in Members(queue["acquisition"]) PROVE j.kind \notin CardKinds
  <2>1. j.kind \in {"capture", "stop"} /\ j.kind # "capture"
    BY Channels DEF AcquisitionJobs, CaptureJobs, StopJob, Gated
  <2> QED
    BY <2>1 DEF CardKinds
<1>3. ASSUME NEW j \in Members(queue["worker"]), j.kind \in CardKinds
      PROVE  j.card # doing["acquisition"].job.card
  <2>1. j.kind \in {"captured", "finalize"}
    BY <1>3, Channels DEF WorkerJobs, CapturedJobs, CopyJobs, UploadJobs, Finalizations, ShareJobs,
      PinCardJobs, ClosingJobs, FlushPins, StopJob, CardKinds
  <2>2. j.kind = "finalize" => cards[j.card] \in {"queued", "ready"}
    BY <1>3 DEF Counted, Threads
  <2>3. j.kind = "captured" => j.card # doing["acquisition"].job.card
    BY <1>3, Hands DEF Once
  <2> QED
    BY <1>1, <2>1, <2>2, <2>3
<1>4. ASSUME NEW j \in Members(queue["uploads"]) PROVE j.kind \notin CardKinds
  BY Channels DEF NetworkJobs, UploadJobs, StopJob, CardKinds
<1>5. doing["worker"].job.kind \in CardKinds =>
        doing["worker"].job.card # doing["acquisition"].job.card
  <2>1. doing["worker"].job.kind # "capture"
    BY Steps DEF CapturedJobs, CopyJobs, Finalizations, Resting
  <2>2. doing["worker"].job.kind = "finalize" =>
          cards[doing["worker"].job.card] \in {"queued", "ready"}
    BY DEF Counted
  <2>3. doing["worker"].job.kind = "captured" =>
          doing["worker"].job.card # doing["acquisition"].job.card
    BY Hands DEF Once
  <2> QED
    BY <1>1, <2>1, <2>2, <2>3 DEF CardKinds
<1> QED
  BY <1>1, <1>2, <1>3, <1>4, <1>5 DEF Threads

LEMMA CaptureFailsKeeps ==
  ASSUME IInv, doing["acquisition"].step \in {"taking", "send"},
         CaptureFails("acquisition"), busy' = FALSE, queue' = queue,
         Issued \in Nat, Issued' = Issued,
         \A n : Open(n)' => Open(n) /\ n # doing["acquisition"].job.turn,
         UNCHANGED <<main, shares, pinned, late>>
  PROVE  IInv'
<1> USE DEF IInv
<1>1. PICK card : card = doing["acquisition"].job.card
  OBVIOUS
<1>2. doing["acquisition"].job.kind = "capture"
  BY Steps DEF CaptureJobs
<1>3. /\ card \in Flight /\ cards[card] = "admitted"
      /\ \A t \in Threads : \A j \in Members(queue[t]) : j.kind \in CardKinds => j.card # card
      /\ doing["worker"].job.kind \in CardKinds => doing["worker"].job.card # card
  BY <1>1, <1>2, TakenOnce
<1>4. /\ cards' = [cards EXCEPT ![card] = "failed"] /\ frames' = frames - 1
      /\ doing' = Done("acquisition")
  BY <1>1 DEF CaptureFails, Freed
<1>5. /\ cards' \in Seq(CardStates) /\ DOMAIN cards' = DOMAIN cards
      /\ cards'[card] = "failed" /\ \A m \in DOMAIN cards : m # card => cards'[m] = cards[m]
      /\ frames \in Nat \ {0} /\ Cardinality(Flight') = frames - 1
  BY <1>3, <1>4, MovesCard DEF CardStates
<1>6. queue \in [Threads -> Seq(AcquisitionJobs \union WorkerJobs)] /\ frames' \in Nat
  BY <1>4, <1>5 DEF Shaped
<1>7. /\ Shaped' /\ Fenced' /\ Unpinning' /\ Linked' /\ Once' /\ Gated' /\ Lagging' /\ InTurn'
      /\ Tracked'
      /\ doing'["acquisition"].job = Resting /\ doing'["worker"] = doing["worker"]
  BY <1>4, <1>5, <1>6, CaptureOver
<1>8. Counted'
  <2>1. frames' = Cardinality(Flight') /\ frames' <= MaxFrames
    BY <1>4, <1>5 DEF Counted
  <2>2. ASSUME NEW n \in DOMAIN cards'
        PROVE /\ cards'[n] = "admitted" => Taking(n)'
              /\ cards'[n] \in {"queued", "ready"} => Finalizing(n)'
              /\ cards'[n] = "lost" => late'
    <3>1. CASE n = card
      BY <1>5, <3>1
    <3>2. CASE n # card
      <4>1. cards'[n] = cards[n]
        BY <1>5, <3>2
      <4>2. Taking(n) => Taking(n)'
        BY <1>1, <1>7, <3>2, Hands DEF Taking
      <4>3. Finalizing(n) => Finalizing(n)'
        BY <1>7, Hands DEF Finalizing
      <4> QED
        BY <1>5, <4>1, <4>2, <4>3 DEF Counted
    <3> QED
      BY <3>1, <3>2
  <2>3. \A t \in Threads : \A j \in Members(queue'[t]) :
          /\ j.kind \in Capturing => j.card \in DOMAIN cards' /\ cards'[j.card] = "admitted"
          /\ j.kind = "finalize" =>
               j.card \in DOMAIN cards' /\ cards'[j.card] \in {"queued", "ready"}
    BY <1>3, <1>5 DEF Counted, Capturing, CardKinds
  <2>4. doing'["worker"].job.kind \in {"captured", "finalize"} =>
          /\ doing'["worker"].job.card \in DOMAIN cards'
          /\ cards'[doing'["worker"].job.card] \in
               IF doing'["worker"].job.kind = "captured" THEN {"admitted"} ELSE {"queued", "ready"}
    BY <1>3, <1>5, <1>7 DEF Counted, CardKinds
  <2> QED
    BY <1>7, <2>1, <2>2, <2>3, <2>4 DEF Counted, Resting
<1> QED
  BY <1>7, <1>8

LEMMA AcquisitionFailsKeeps == ASSUME IInv, TurnsTypeOK, AcquisitionFails PROVE IInv'
<1>1. /\ doing["acquisition"].step = "taking" /\ CaptureFails("acquisition") /\ busy' = FALSE
      /\ Retired({doing["acquisition"].job.turn})
      /\ UNCHANGED <<main, queue, shares, pinned, late>>
  BY DEF AcquisitionFails
<1>2. Issued \in Nat /\ Issued' = Issued
      /\ \A n : Open(n)' => Open(n) /\ n # doing["acquisition"].job.turn
  BY <1>1, RetiredCloses
<1> QED
  BY <1>1, <1>2, CaptureFailsKeeps

LEMMA SendsFinalizationKeeps == ASSUME IInv, TurnsTypeOK, SendsFinalization PROVE IInv'
<1> USE DEF IInv
<1>1. /\ doing["acquisition"].step = "send"
      /\ UNCHANGED <<clipboard, main, shares, pinned, late>>
  BY DEF SendsFinalization
<1>2. PICK card : card = doing["acquisition"].job.card
  OBVIOUS
<1>3. doing["acquisition"].job \in CaptureJobs /\ doing["acquisition"].job.kind = "capture"
  BY <1>1, Steps DEF CaptureJobs
<1>4. Issued \in Nat /\ Issued' = Issued /\ fate' = fate /\ \A n : Open(n)' <=> Open(n)
  BY <1>1, Tickets DEF clipboard, Issued, Open
<1>5. CASE Stopped("worker") /\ CaptureFails("acquisition") /\ busy' = FALSE /\ UNCHANGED queue
  <2>1. \A n : Open(n)' => Open(n) /\ n # doing["acquisition"].job.turn
    BY <1>1, <1>4 DEF Tracked, Threads
  <2> QED
    BY <1>1, <1>4, <1>5, <2>1, CaptureFailsKeeps
<1>6. CASE /\ ~Stopped("worker") /\ queue' = Sent("worker", Finalization(card))
           /\ doing' = Step("acquisition", "publish")
           /\ cards' = [cards EXCEPT ![card] = "queued"] /\ UNCHANGED <<frames, busy>>
  <2> DEFINE job == Finalization(card)
             mine == doing["acquisition"].job
             at == [job |-> mine, step |-> "publish"]
  <2>1. /\ card \in Flight /\ cards[card] = "admitted"
        /\ \A t \in Threads : \A j \in Members(queue[t]) : j.kind \in CardKinds => j.card # card
        /\ doing["worker"].job.kind \in CardKinds => doing["worker"].job.card # card
    BY <1>1, <1>2, <1>3, TakenOnce
  <2>2. /\ cards' \in Seq(CardStates) /\ DOMAIN cards' = DOMAIN cards
        /\ cards'[card] = "queued" /\ \A m \in DOMAIN cards : m # card => cards'[m] = cards[m]
        /\ Cardinality(Flight') = frames
    BY <1>6, <2>1, MovesCard DEF CardStates
  <2>3. job \in WorkerJobs /\ job \in Finalizations /\ job.kind = "finalize" /\ job.card = card /\ job.turn = 0
    BY <1>2, <1>3 DEF WorkerJobs, Finalizations, Finalization, CaptureJobs
  <2> HIDE DEF job
  <2>4. /\ queue' \in [Threads -> Seq(AcquisitionJobs \union WorkerJobs)]
        /\ queue'["worker"] \in Seq(WorkerJobs)
        /\ queue'["acquisition"] = queue["acquisition"]
        /\ queue'["uploads"] = queue["uploads"]
        /\ Members(queue'["worker"]) = Members(queue["worker"]) \union {job}
        /\ \A a, b : Ahead(queue'["worker"], a, b) =>
             Ahead(queue["worker"], a, b) \/ (a \in Members(queue["worker"]) /\ b = job)
    BY <1>6, <2>3, WorkerGets DEF job
  <2>5. at \in AcquisitionAt /\ doing' = [doing EXCEPT !["acquisition"] = at]
    BY <1>3, <1>6, StepIs DEF AcquisitionAt, At, Threads
  <2>6. /\ doing' \in [Threads -> AcquisitionAt \union WorkerAt \union UploadsAt]
        /\ doing'["acquisition"] \in AcquisitionAt
        /\ doing'["worker"] \in WorkerAt
        /\ doing'["uploads"] \in UploadsAt
        /\ doing'["acquisition"] = at
        /\ \A u \in Threads : u # "acquisition" => doing'[u] = doing[u]
    BY <2>5, Moves DEF Threads
  <2>7. doing'["acquisition"].job = mine /\ doing'["acquisition"].step = "publish"
    BY <2>6
  <2> HIDE DEF at
  <2>8. Shaped'
    BY <1>1, <1>6, <2>2, <2>4, <2>6 DEF Shaped, pinned
  <2>9. Fenced'
    <3>1. ~Stopped("acquisition") /\ Stopped("acquisition")' = Stopped("acquisition")
      BY <1>1, <2>7 DEF Stopped
    <3>2. job # StopJob
      BY <2>3 DEF StopJob
    <3>3. doing["worker"].step \in {"leaving", "stopped"} => late
      BY <3>1 DEF Fenced
    <3> QED
      BY <1>1, <1>6, <2>3, <2>4, <2>6, <3>1, <3>2, <3>3 DEF Fenced, Stopped, Cancelled, Threads
  <2>10. Unpinning' /\ Lagging' /\ InTurn' /\ Linked'
    <3>1. Same(OfPins \union {"flush", "share"})
      BY <2>3, <2>4 DEF Same, Threads, OfPins
    <3> QED
      BY <1>1, <1>4, <3>1, PinsAlone, LinksAlone DEF Same
  <2>11. Counted'
    <3>1. ASSUME NEW n \in DOMAIN cards'
          PROVE /\ cards'[n] = "admitted" => Taking(n)'
                /\ cards'[n] \in {"queued", "ready"} => Finalizing(n)'
                /\ cards'[n] = "lost" => late'
      <4>1. Taking(n) => Taking(n)'
        BY <2>4, <2>6, <2>7, Hands DEF Taking, Threads
      <4>2. Finalizing(n) => Finalizing(n)'
        BY <2>4, <2>6, Hands DEF Finalizing, Threads
      <4>3. n = card => Finalizing(n)'
        BY <2>3, <2>4, Hands DEF Finalizing
      <4> QED
        BY <1>1, <2>2, <4>1, <4>2, <4>3 DEF Counted
    <3>2. \A t \in Threads : \A j \in Members(queue'[t]) :
            /\ j.kind \in Capturing => j.card \in DOMAIN cards' /\ cards'[j.card] = "admitted"
            /\ j.kind = "finalize" =>
                 j.card \in DOMAIN cards' /\ cards'[j.card] \in {"queued", "ready"}
      <4>1. ASSUME NEW t \in Threads, NEW j \in Members(queue[t])
            PROVE  /\ j.kind \in Capturing => j.card \in DOMAIN cards' /\ cards'[j.card] = "admitted"
                   /\ j.kind = "finalize" =>
                        j.card \in DOMAIN cards' /\ cards'[j.card] \in {"queued", "ready"}
        BY <2>1, <2>2 DEF Counted, Capturing, CardKinds
      <4>2. job.card \in DOMAIN cards' /\ cards'[job.card] = "queued" /\ job.kind \notin Capturing
        BY <2>1, <2>2, <2>3 DEF Capturing, Flight
      <4> QED
        BY <2>4, <4>1, <4>2 DEF Threads
    <3>3. doing'["worker"].job.kind \in {"captured", "finalize"} =>
            /\ doing'["worker"].job.card \in DOMAIN cards'
            /\ cards'[doing'["worker"].job.card] \in
                 IF doing'["worker"].job.kind = "captured" THEN {"admitted"} ELSE {"queued", "ready"}
      BY <2>1, <2>2, <2>6 DEF Counted, CardKinds, Threads
    <3>4. doing'["acquisition"].job.card \in DOMAIN cards' /\ cards'[doing'["acquisition"].job.card] = "queued"
      BY <1>2, <2>1, <2>2, <2>7 DEF Flight
    <3> QED
      BY <1>6, <2>2, <2>7, <3>1, <3>2, <3>3, <3>4 DEF Counted
  <2>12. Once'
    <3>1. Jobs("acquisition")' = Jobs("acquisition") /\ doing'["worker"] = doing["worker"]
      BY <2>4, <2>6, <2>7, Hands DEF Threads
    <3>2. /\ job.kind = "finalize" /\ job.card = card
          /\ \A j \in Members(queue["worker"]) : j.kind = "finalize" => j.card # card
          /\ doing["worker"].job.kind = "finalize" => doing["worker"].job.card # card
      BY <2>1, <2>3 DEF CardKinds, Threads
    <3>3. ASSUME NEW a \in WorkerJobs, NEW b \in WorkerJobs, Ahead(queue'["worker"], a, b)
          PROVE  ~(a.kind = b.kind /\ a.kind \in {"captured", "finalize"} /\ a.card = b.card)
      <4>1. CASE Ahead(queue["worker"], a, b)
        BY <4>1 DEF Once
      <4>2. CASE a \in Members(queue["worker"]) /\ b = job
        BY <3>2, <4>2
      <4> QED
        BY <2>4, <3>3, <4>1, <4>2
    <3>4. ASSUME NEW j \in Members(queue'["worker"])
          PROVE  /\ j.kind = doing'["worker"].job.kind /\ j.kind \in {"captured", "finalize"} =>
                      j.card # doing'["worker"].job.card
                 /\ j.kind = "captured" =>
                      \A other \in Jobs("acquisition")' : other.kind = "capture" => other.card # j.card
      <4>1. CASE j = job
        BY <3>1, <3>2, <4>1
      <4>2. CASE j \in Members(queue["worker"])
        BY <3>1, <4>2 DEF Once
      <4> QED
        BY <2>4, <4>1, <4>2
    <3>5. doing'["worker"].job.kind = "captured" =>
            \A other \in Jobs("acquisition")' :
              other.kind = "capture" => other.card # doing'["worker"].job.card
      BY <3>1 DEF Once
    <3> QED
      BY <3>3, <3>4, <3>5 DEF Once
  <2>13. Gated'
    <3>1. Jobs("acquisition")' = Jobs("acquisition")
      BY <2>4, <2>7, Hands
    <3> QED
      BY <1>6, <2>4, <2>7, <3>1 DEF Gated
  <2>14. Tracked'
    <3>1. \A u \in Threads : \A j \in Jobs(u)' : j.turn <= Issued'
      <4>1. \A u \in Threads : \A j \in Jobs(u)' : j \in Jobs(u) \/ j = job
        BY <2>4, <2>6, <2>7, Hands DEF Threads
      <4> QED
        BY <1>4, <2>3, <4>1 DEF Tracked
    <3>2. \A u \in Threads : Jobs(u) \subseteq Jobs(u)'
      BY <2>4, <2>6, <2>7, Hands DEF Threads
    <3>3. \A n \in DOMAIN fate' : Open(n)' => Holds(n)'
      BY <1>1, <1>4, <3>2 DEF Tracked, Holds
    <3>4. \A u \in Threads : doing'[u].step \in {"send", "publish"} => ~Open(doing'[u].job.turn)
      BY <1>1, <2>6, <2>7 DEF Tracked
    <3> QED
      BY <1>1, <1>4, <3>1, <3>3, <3>4 DEF Tracked, Open
  <2> QED
    BY <2>8, <2>9, <2>10, <2>11, <2>12, <2>13, <2>14
<1> QED
  BY <1>2, <1>5, <1>6 DEF SendsFinalization

LEMMA PublishesKeeps == ASSUME IInv, TurnsTypeOK, Publishes PROVE IInv'
<1> USE DEF IInv
<1>1. /\ doing["acquisition"].step = "publish" /\ doing' = Done("acquisition") /\ busy' = FALSE
      /\ UNCHANGED <<clipboard, main, queue, frames, shares, pinned, late>>
  BY DEF Publishes
<1>2. PICK card : card = doing["acquisition"].job.card
  OBVIOUS
<1>3. doing["acquisition"].job.kind = "capture"
  BY <1>1, Steps DEF CaptureJobs
<1>4. card \in DOMAIN cards /\ cards[card] \in {"queued", "lost"}
  BY <1>1, <1>2, <1>3 DEF Counted
<1>5. /\ cards' \in Seq(CardStates) /\ DOMAIN cards' = DOMAIN cards
      /\ cards[card] = "queued" => cards'[card] = "ready"
      /\ cards[card] = "lost" => cards'[card] = "lost"
      /\ \A m \in DOMAIN cards : m # card => cards'[m] = cards[m]
      /\ frames = Cardinality(Flight')
  <2>1. CASE cards[card] = "queued"
    <3>1. card \in Flight /\ cards' = [cards EXCEPT ![card] = "ready"]
      BY <1>2, <1>4, <2>1 DEF Flight, Publishes
    <3> QED
      BY <2>1, <3>1, MovesCard DEF CardStates
  <2>2. CASE cards[card] = "lost"
    <3>1. cards' = cards
      <4>1. cards' = [cards EXCEPT ![card] = cards[card]]
        BY <1>2, <2>2 DEF Publishes
      <4>2. cards \in Seq(CardStates)
        BY DEF Shaped
      <4>3. cards = [i \in 1..Len(cards) |-> cards[i]] /\ Len(cards) \in Nat
        BY <4>2, LenProperties
      <4> QED
        BY <4>1, <4>3
    <3> QED
      BY <2>2, <3>1 DEF Shaped, Counted, Flight
  <2> QED
    BY <1>4, <2>1, <2>2
<1>6. Issued \in Nat /\ Issued' = Issued /\ \A n : Open(n)' <=> Open(n)
  BY <1>1, Tickets DEF clipboard, Issued, Open
<1>7. \A n : Open(n)' => Open(n) /\ n # doing["acquisition"].job.turn
  BY <1>1, <1>6 DEF Tracked, Threads
<1>8. /\ Shaped' /\ Fenced' /\ Unpinning' /\ Linked' /\ Once' /\ Gated' /\ Lagging' /\ InTurn'
      /\ Tracked'
      /\ doing'["acquisition"].job = Resting /\ doing'["worker"] = doing["worker"]
  <2>1. frames' \in Nat /\ queue' \in [Threads -> Seq(AcquisitionJobs \union WorkerJobs)]
    BY <1>1 DEF Shaped
  <2> QED
    BY <1>1, <1>5, <1>6, <1>7, <2>1, CaptureOver
<1>9. Counted'
  <2>1. ASSUME NEW n \in DOMAIN cards'
        PROVE /\ cards'[n] = "admitted" => Taking(n)'
              /\ cards'[n] \in {"queued", "ready"} => Finalizing(n)'
              /\ cards'[n] = "lost" => late'
    <3>1. Finalizing(n) => Finalizing(n)'
      BY <1>1, <1>8, Hands DEF Finalizing
    <3>2. n # card /\ Taking(n) => Taking(n)'
      BY <1>1, <1>2, <1>8, Hands DEF Taking
    <3> QED
      BY <1>1, <1>4, <1>5, <3>1, <3>2 DEF Counted
  <2>2. \A t \in Threads : \A j \in Members(queue'[t]) :
          /\ j.kind \in Capturing => j.card \in DOMAIN cards' /\ cards'[j.card] = "admitted"
          /\ j.kind = "finalize" =>
               j.card \in DOMAIN cards' /\ cards'[j.card] \in {"queued", "ready"}
    BY <1>1, <1>4, <1>5 DEF Counted
  <2>3. doing'["worker"].job.kind \in {"captured", "finalize"} =>
          /\ doing'["worker"].job.card \in DOMAIN cards'
          /\ cards'[doing'["worker"].job.card] \in
               IF doing'["worker"].job.kind = "captured" THEN {"admitted"} ELSE {"queued", "ready"}
    BY <1>4, <1>5, <1>8 DEF Counted
  <2> QED
    BY <1>1, <1>5, <1>8, <2>1, <2>2, <2>3 DEF Counted, Resting
<1> QED
  BY <1>8, <1>9

-----------------------------------------------------------------------------
(* The worker's steps                                                      *)

\* The worker is through with a job as soon as it has taken it.
LEMMA WorkerDrops ==
  ASSUME IInv, TurnsTypeOK, Idle("worker"), queue' = Popped("worker"), doing' = doing,
         Issued' = Issued,
         \A n : Open(n)' => Open(n) /\ (n # Head(queue["worker"]).turn \/ n = 0),
         main' \in [at : Stages, turn : Nat], main'.turn = main.turn,
         main' = main \/ (main.at = "unpinning" /\ main'.at = "running"),
         frames' \in Nat, busy' = busy, late' = late, cards' \in Seq(CardStates),
         shares' \in [linked : SUBSET Nat, remembered : SUBSET Nat],
         pins' \in [Captures -> PinStates], failed' \in Seq(Refusals)
  PROVE  Shaped' /\ Tracked' /\ Fenced'
<1> USE DEF IInv
<1> DEFINE job == Head(queue["worker"])
<1>1. /\ queue' \in [Threads -> Seq(AcquisitionJobs \union WorkerJobs)]
      /\ queue'["worker"] \in Seq(WorkerJobs)
      /\ queue'["acquisition"] = queue["acquisition"]
      /\ queue'["uploads"] = queue["uploads"]
      /\ Members(queue["worker"]) = Members(queue'["worker"]) \union {job}
      /\ doing["worker"].step = "idle"
  BY WorkerPops DEF Idle
<1> HIDE DEF job
<1>2. Shaped'
  BY <1>1 DEF Shaped
<1>3. Fenced'
  BY <1>1 DEF Fenced, Stopped, Cancelled
<1>4. Tracked'
  <2>1. \A u \in Threads : \A j \in Jobs(u)' : j.turn <= Issued'
    BY <1>1, Hands DEF Tracked, Threads
  <2>2. ASSUME NEW n, Open(n)' PROVE Holds(n)'
    <3>1. Open(n) /\ Holds(n) /\ n # job.turn
      BY <2>2, Tickets DEF Tracked, Open, job
    <3>2. CASE n = main.turn
      BY <3>2 DEF Holds
    <3>3. CASE n # main.turn
      <4>1. PICK u \in Threads : \E j \in Jobs(u) : j.turn = n
        BY <3>1, <3>3 DEF Holds
      <4>2. PICK j \in Jobs(u) : j.turn = n
        BY <4>1
      <4>3. j \in Jobs(u)'
        BY <1>1, <3>1, <4>2, Hands DEF Threads
      <4> QED
        BY <4>2, <4>3 DEF Holds
    <3> QED
      BY <3>2, <3>3
  <2>3. main'.at # "scrolling" => main'.turn = 0
    BY DEF Tracked
  <2>4. \A u \in Threads : doing[u].step \in {"send", "publish"} => ~Open(doing[u].job.turn)
    BY DEF Tracked
  <2> QED
    BY <2>1, <2>2, <2>3, <2>4 DEF Tracked, Open
<1> QED
  BY <1>2, <1>3, <1>4

\* What popping the worker's channel leaves of it, by kind.
LEMMA PoppedSame ==
  ASSUME Shaped, queue["worker"] # <<>>, queue' = Popped("worker"),
         NEW kinds, Head(queue["worker"]).kind \notin kinds
  PROVE  Same(kinds)
<1>1. /\ queue'["acquisition"] = queue["acquisition"]
      /\ queue'["uploads"] = queue["uploads"]
      /\ Members(queue["worker"]) = Members(queue'["worker"]) \union {Head(queue["worker"])}
      /\ \A a, b : Ahead(queue'["worker"], a, b) => Ahead(queue["worker"], a, b)
  BY WorkerPops
<1> QED
  BY <1>1 DEF Same, Threads

LEMMA WorkerStopsKeeps == ASSUME IInv, TurnsTypeOK, WorkerStops PROVE IInv'
<1> USE DEF IInv
<1>1. /\ Idle("worker") /\ queue["worker"] # <<>> /\ queue' = Popped("worker")
      /\ Head(queue["worker"]).kind = "stop"
      /\ UNCHANGED <<clipboard, main, doing, captured, shares, pinned, late>>
  BY DEF WorkerStops, Works, Idle
<1>2. Head(queue["worker"]).turn = 0
  BY <1>1, WorkerPops, JobFields
<1>3. Issued \in Nat /\ Issued' = Issued /\ \A n : Open(n)' => Open(n)
  BY <1>1, Tickets DEF clipboard, Issued, Open
<1>4. Same(OfPins \union CardKinds \union {"flush", "share"})
  BY <1>1, PoppedSame DEF OfPins, CardKinds
<1>5. Shaped' /\ Tracked' /\ Fenced'
  BY <1>1, <1>2, <1>3, WorkerDrops DEF Shaped, captured, pinned
<1>6. Unpinning' /\ Lagging' /\ InTurn' /\ Linked'
  BY <1>1, <1>3, <1>4, PinsAlone, LinksAlone DEF Same
<1>7. Counted' /\ Once' /\ Gated'
  BY <1>1, <1>4, CardsAlone DEF Same, HandAlone
<1> QED
  BY <1>5, <1>6, <1>7

LEMMA RemembersShareKeeps == ASSUME IInv, TurnsTypeOK, RemembersShare PROVE IInv'
<1> USE DEF IInv
<1> DEFINE job == Head(queue["worker"])
<1>1. /\ Idle("worker") /\ queue["worker"] # <<>> /\ queue' = Popped("worker")
      /\ job.kind = "share"
      /\ shares' = [shares EXCEPT !.remembered = @ \union {job.link}]
      /\ UNCHANGED <<clipboard, main, doing, captured, pinned, late>>
  BY DEF RemembersShare, Works, Idle
<1>2. /\ job.turn = 0 /\ job.link \in Nat
      /\ Members(queue["worker"]) = Members(queue'["worker"]) \union {job}
  BY <1>1, WorkerPops, JobFields
<1> HIDE DEF job
<1>3. Issued \in Nat /\ Issued' = Issued /\ \A n : Open(n)' => Open(n)
  BY <1>1, Tickets DEF clipboard, Issued, Open
<1>4. Same(OfPins \union CardKinds \union {"flush"})
  BY <1>1, PoppedSame DEF OfPins, CardKinds, job
<1>5. /\ shares \in [linked : SUBSET Nat, remembered : SUBSET Nat]
      /\ shares' \in [linked : SUBSET Nat, remembered : SUBSET Nat]
      /\ shares'.linked = shares.linked /\ shares'.remembered = shares.remembered \union {job.link}
  BY <1>1, <1>2 DEF Shaped
<1>6. Shaped' /\ Tracked' /\ Fenced'
  BY <1>1, <1>2, <1>3, <1>5, WorkerDrops DEF Shaped, captured, pinned, job
<1>7. Unpinning' /\ Lagging' /\ InTurn'
  BY <1>1, <1>4, PinsAlone DEF Same
<1>8. Linked'
  BY <1>1, <1>2, <1>3, <1>5 DEF Linked
<1>9. Counted' /\ Once' /\ Gated'
  BY <1>1, <1>4, CardsAlone DEF Same, HandAlone
<1> QED
  BY <1>6, <1>7, <1>8, <1>9

LEMMA StartsKeeps == ASSUME IInv, TurnsTypeOK, Starts PROVE IInv'
<1> USE DEF IInv
<1> DEFINE job == Head(queue["worker"])
           at == [job |-> job, step |-> IF job.kind = "finalize" THEN "finalize" ELSE "turn"]
<1>1. /\ doing["worker"].step = "idle" /\ queue["worker"] # <<>>
      /\ queue' = Popped("worker") /\ doing' = [doing EXCEPT !["worker"] = at]
      /\ job.kind \in {"captured", "copy", "finalize"}
      /\ UNCHANGED <<clipboard, main, captured, shares, pinned, late>>
  BY DEF Starts, Works, Idle, Now
<1>2. /\ queue' \in [Threads -> Seq(AcquisitionJobs \union WorkerJobs)]
      /\ queue'["worker"] \in Seq(WorkerJobs)
      /\ queue'["acquisition"] = queue["acquisition"]
      /\ queue'["uploads"] = queue["uploads"]
      /\ job \in WorkerJobs
      /\ Members(queue["worker"]) = Members(queue'["worker"]) \union {job}
      /\ \A a, b : Ahead(queue'["worker"], a, b) => Ahead(queue["worker"], a, b)
      /\ \A b \in Members(queue'["worker"]) : Ahead(queue["worker"], job, b)
  BY <1>1, WorkerPops
<1>3. \/ job.kind = "captured" /\ job \in CapturedJobs
      \/ job.kind = "copy" /\ job \in CopyJobs
      \/ job.kind = "finalize" /\ job \in Finalizations
  BY <1>1, <1>2 DEF WorkerJobs, CapturedJobs, CopyJobs, UploadJobs, Finalizations, ShareJobs,
    PinCardJobs, ClosingJobs, FlushPins, StopJob
<1>4. Same(OfPins \union {"flush", "share", "capture"})
  BY <1>1, <1>3, PoppedSame DEF OfPins
<1> HIDE DEF job
<1>5. at \in WorkerAt
  BY <1>3 DEF WorkerAt, At
<1>6. /\ doing' \in [Threads -> AcquisitionAt \union WorkerAt \union UploadsAt]
      /\ doing'["acquisition"] \in AcquisitionAt
      /\ doing'["worker"] \in WorkerAt
      /\ doing'["uploads"] \in UploadsAt
      /\ doing'["worker"] = at
      /\ \A u \in Threads : u # "worker" => doing'[u] = doing[u]
  BY <1>1, <1>5, Moves DEF Threads
<1>7. /\ at.job = job /\ at.step \in {"turn", "finalize"}
      /\ Resting.kind = "none" /\ Resting.turn = 0 /\ doing["worker"].job = Resting
  BY <1>1, Steps DEF Resting
<1> HIDE DEF at
<1>8. Shaped'
  BY <1>1, <1>2, <1>6 DEF Shaped, captured, pinned
<1>9. Jobs("worker") = Jobs("worker")' \union {Resting}
  BY <1>2, <1>6, <1>7, Hands
<1>10. Jobs("acquisition")' = Jobs("acquisition") /\ Jobs("uploads")' = Jobs("uploads")
  BY <1>2, <1>6, Hands DEF Threads
<1>11. Fenced'
  BY <1>1, <1>2, <1>6, <1>7 DEF Fenced, Stopped, Cancelled, Threads
<1>12. Unpinning' /\ Lagging' /\ InTurn' /\ Linked'
  <2>1. Issued \in Nat /\ Issued' = Issued
    BY <1>1, Tickets DEF clipboard, Issued
  <2> QED
    BY <1>1, <1>4, <2>1, PinsAlone, LinksAlone DEF Same
<1>13. Counted'
  <2>1. Flight' = Flight /\ \A n : (Taking(n)' <=> Taking(n)) /\ (Finalizing(n)' <=> Finalizing(n))
    BY <1>1, <1>7, <1>9, <1>10 DEF Flight, captured, Taking, Finalizing, Capturing
  <2>2. /\ frames' = Cardinality(Flight') /\ frames' <= MaxFrames
        /\ \A n \in DOMAIN cards' :
             /\ cards'[n] = "admitted" => Taking(n)'
             /\ cards'[n] \in {"queued", "ready"} => Finalizing(n)'
             /\ cards'[n] = "lost" => late'
    BY <1>1, <2>1 DEF captured, Counted
  <2>3. \A t \in Threads : Members(queue'[t]) \subseteq Members(queue[t])
    BY <1>2 DEF Threads
  <2>4. at.job.kind \in {"captured", "finalize"} =>
          /\ at.job.card \in DOMAIN cards
          /\ cards[at.job.card] \in
               IF at.job.kind = "captured" THEN {"admitted"} ELSE {"queued", "ready"}
    BY <1>2, <1>7 DEF Counted, Capturing, Threads
  <2> QED
    BY <1>1, <1>6, <2>2, <2>3, <2>4 DEF captured, Counted, Threads
<1>14. Once'
  <2>1. ASSUME NEW j \in Members(queue'["worker"])
        PROVE  j.kind = job.kind /\ j.kind \in {"captured", "finalize"} => j.card # job.card
    BY <1>2, InChannel DEF Once
  <2>2. job.kind = "captured" =>
          \A other \in Jobs("acquisition") : other.kind = "capture" => other.card # job.card
    BY <1>2 DEF Once
  <2> QED
    BY <1>2, <1>6, <1>7, <1>10, <2>1, <2>2 DEF Once
<1>15. Gated'
  BY <1>1, <1>2, <1>6, <1>10 DEF Gated, captured, Threads
<1>16. Tracked'
  <2>1. fate' = fate /\ Issued' = Issued /\ main' = main
    BY <1>1 DEF clipboard, Issued
  <2>2. \A t \in Threads : \A j \in Jobs(t)' : j.turn <= Issued'
    BY <1>9, <1>10, <2>1 DEF Tracked, Threads
  <2>3. ASSUME NEW n, Open(n)' PROVE Holds(n)'
    <3>1. Open(n) /\ Holds(n) /\ n # 0
      BY <2>1, <2>3, Tickets DEF Tracked, Open
    <3>2. \A t \in Threads : \A j \in Jobs(t) : j.turn # 0 => j \in Jobs(t)'
      BY <1>7, <1>9, <1>10 DEF Threads
    <3> QED
      BY <2>1, <3>1, <3>2 DEF Holds
  <2>4. \A u \in Threads : doing'[u].step \in {"send", "publish"} => doing'[u] = doing[u]
    BY <1>6, <1>7
  <2> QED
    BY <2>1, <2>2, <2>3, <2>4 DEF Tracked, Open
<1> QED
  BY <1>8, <1>11, <1>12, <1>13, <1>14, <1>15, <1>16

\* A frame that ends, at the only thread that has it, is counted no more.
LEMMA FrameEnds ==
  ASSUME IInv, NEW card \in Flight, NEW state \in {"failed", "final"},
         cards' = [cards EXCEPT ![card] = state], frames' = frames - 1, late' = late,
         \A t \in Threads : Members(queue'[t]) \subseteq Members(queue[t]),
         \A t \in {"acquisition", "worker"} :
           /\ doing'[t] = doing[t] \/ doing'[t].job = Resting
           /\ \A j \in Jobs(t)' : j.kind \in CardKinds => j.card # card
           /\ \A j \in Jobs(t) : j.kind \in CardKinds /\ j.card # card => j \in Jobs(t)'
  PROVE  cards' \in Seq(CardStates) /\ frames' \in Nat /\ Counted'
<1> USE DEF IInv
<1>1. /\ cards' \in Seq(CardStates) /\ DOMAIN cards' = DOMAIN cards
      /\ cards'[card] = state /\ \A m \in DOMAIN cards : m # card => cards'[m] = cards[m]
      /\ frames \in Nat \ {0} /\ Cardinality(Flight') = frames - 1
  BY MovesCard DEF CardStates
<1>2. frames' = Cardinality(Flight') /\ frames' <= MaxFrames /\ frames' \in Nat
  BY <1>1 DEF Counted
<1>3. ASSUME NEW n \in DOMAIN cards'
      PROVE /\ cards'[n] = "admitted" => Taking(n)'
            /\ cards'[n] \in {"queued", "ready"} => Finalizing(n)'
            /\ cards'[n] = "lost" => late'
  <2>1. CASE n = card
    BY <1>1, <2>1
  <2>2. CASE n # card
    <3>1. cards'[n] = cards[n]
      BY <1>1, <2>2
    <3>2. Taking(n) => Taking(n)'
      BY <2>2 DEF Taking, Capturing, CardKinds
    <3>3. Finalizing(n) => Finalizing(n)'
      BY <2>2 DEF Finalizing, CardKinds
    <3> QED
      BY <1>1, <3>1, <3>2, <3>3 DEF Counted
  <2> QED
    BY <2>1, <2>2
<1>4. ASSUME NEW t \in Threads, NEW j \in Members(queue'[t]), j.kind \in CardKinds
      PROVE  j.card # card
  <2>1. CASE t = "uploads"
    BY <1>4, <2>1, Channels DEF NetworkJobs, UploadJobs, StopJob, CardKinds
  <2>2. CASE t # "uploads"
    BY <1>4, <2>2, Hands DEF Threads
  <2> QED
    BY <2>1, <2>2
<1>5. \A t \in Threads : \A j \in Members(queue'[t]) :
        /\ j.kind \in Capturing => j.card \in DOMAIN cards' /\ cards'[j.card] = "admitted"
        /\ j.kind = "finalize" =>
             j.card \in DOMAIN cards' /\ cards'[j.card] \in {"queued", "ready"}
  <2> SUFFICES ASSUME NEW t \in Threads, NEW j \in Members(queue'[t]), j.kind \in CardKinds
      PROVE  /\ j.kind \in Capturing => j.card \in DOMAIN cards' /\ cards'[j.card] = "admitted"
             /\ j.kind = "finalize" =>
                  j.card \in DOMAIN cards' /\ cards'[j.card] \in {"queued", "ready"}
    BY DEF Capturing, CardKinds
  <2>1. j \in Members(queue[t]) /\ j.card # card
    BY <1>4
  <2> QED
    BY <1>1, <2>1 DEF Counted
<1>6. \A t \in {"acquisition", "worker"} :
        doing'[t].job.kind \in CardKinds => doing'[t] = doing[t] /\ doing'[t].job.card # card
  BY Hands DEF Resting, CardKinds
<1>7. doing'["acquisition"].job.kind = "capture" =>
        /\ doing'["acquisition"].job.card \in DOMAIN cards'
        /\ cards'[doing'["acquisition"].job.card] \in
             IF doing'["acquisition"].step = "publish" THEN {"queued", "lost"} ELSE {"admitted"}
  BY <1>1, <1>6 DEF Counted, CardKinds
<1>8. doing'["worker"].job.kind \in {"captured", "finalize"} =>
        /\ doing'["worker"].job.card \in DOMAIN cards'
        /\ cards'[doing'["worker"].job.card] \in
             IF doing'["worker"].job.kind = "captured" THEN {"admitted"} ELSE {"queued", "ready"}
  BY <1>1, <1>6 DEF Counted, CardKinds
<1> QED
  BY <1>1, <1>2, <1>3, <1>5, <1>7, <1>8 DEF Counted

LEMMA StartFailsKeeps == ASSUME IInv, TurnsTypeOK, StartFails PROVE IInv'
<1> USE DEF IInv
<1> DEFINE job == Head(queue["worker"])
<1>1. /\ Idle("worker") /\ queue["worker"] # <<>> /\ queue' = Popped("worker")
      /\ job.kind \in {"captured", "copy", "upload"} /\ Retired({job.turn})
      /\ IF job.kind = "captured"
           THEN frames' = frames - 1 /\ cards' = [cards EXCEPT ![job.card] = "failed"]
           ELSE UNCHANGED <<frames, cards>>
      /\ UNCHANGED <<main, doing, busy, shares, pinned, late>>
  BY DEF StartFails, Works, Idle, Freed
<1>2. /\ queue'["acquisition"] = queue["acquisition"]
      /\ queue'["uploads"] = queue["uploads"]
      /\ job \in WorkerJobs
      /\ Members(queue["worker"]) = Members(queue'["worker"]) \union {job}
      /\ \A a, b : Ahead(queue'["worker"], a, b) => Ahead(queue["worker"], a, b)
      /\ \A b \in Members(queue'["worker"]) : Ahead(queue["worker"], job, b)
      /\ queue'["worker"] \in Seq(WorkerJobs)
  BY <1>1, WorkerPops
<1>3. Issued \in Nat /\ Issued' = Issued /\ \A n : Open(n)' => Open(n) /\ n # job.turn
  BY <1>1, RetiredCloses
<1>4. Same(OfPins \union {"flush", "share"})
  BY <1>1, PoppedSame DEF OfPins
<1>5. doing["worker"].job = Resting /\ Resting.kind = "none"
  BY <1>1, Steps DEF Idle, Resting
<1>6. Unpinning' /\ Lagging' /\ InTurn' /\ Linked'
  BY <1>1, <1>3, <1>4, PinsAlone, LinksAlone DEF Same
<1>7. cards' \in Seq(CardStates) /\ frames' \in Nat /\ Counted' /\ Once' /\ Gated'
  <2>1. CASE job.kind # "captured"
    <3>1. Same(CardKinds)
      BY <1>1, <2>1, PoppedSame DEF CardKinds
    <3>2. UNCHANGED captured
      BY <1>1, <2>1 DEF captured
    <3> QED
      BY <1>1, <3>1, <3>2, CardsAlone DEF Shaped, HandAlone, captured
  <2>2. CASE job.kind = "captured"
    <3> PICK card : card = job.card
      OBVIOUS
    <3> HIDE DEF job
    <3>1. card \in Flight /\ cards[card] = "admitted"
      BY <1>2, <2>2 DEF Counted, Flight, Capturing, Threads
    <3>2. \A j \in Jobs("acquisition") : j.kind = "capture" => j.card # card
      BY <1>2, <2>2 DEF Once
    <3>3. \A j \in Jobs("acquisition") : j.kind \in CardKinds => j.kind = "capture"
      BY Hands, Channels, Steps DEF AcquisitionJobs, CaptureJobs, StopJob, Resting, CardKinds
    <3>4. ASSUME NEW j \in Members(queue'["worker"]), j.kind \in CardKinds PROVE j.card # card
      <4>1. j.kind \in {"captured", "finalize"} /\ j \in WorkerJobs
        BY <1>2, <3>4, InChannel, Channels DEF WorkerJobs, CapturedJobs, CopyJobs, UploadJobs,
          Finalizations, ShareJobs, PinCardJobs, ClosingJobs, FlushPins, StopJob, CardKinds
      <4>2. j.kind = "captured" => j.card # card
        BY <1>2, <2>2, <4>1 DEF Once
      <4>3. j.kind = "finalize" => cards[j.card] # "admitted"
        BY <1>2 DEF Counted, Threads
      <4> QED
        BY <3>1, <4>1, <4>2, <4>3
    <3>5. /\ Jobs("acquisition")' = Jobs("acquisition")
          /\ Jobs("worker")' = Members(queue'["worker"]) \union {Resting}
          /\ Jobs("worker") = Members(queue["worker"]) \union {Resting}
      BY <1>1, <1>2, <1>5, Hands
    <3>6. \A t \in Threads : Members(queue'[t]) \subseteq Members(queue[t])
      BY <1>2 DEF Threads
    <3>7. \A t \in {"acquisition", "worker"} :
           /\ doing'[t] = doing[t] \/ doing'[t].job = Resting
           /\ \A j \in Jobs(t)' : j.kind \in CardKinds => j.card # card
           /\ \A j \in Jobs(t) : j.kind \in CardKinds /\ j.card # card => j \in Jobs(t)'
      <4>1. \A j \in Jobs("worker")' : j.kind \in CardKinds => j.card # card
        BY <1>5, <3>4, <3>5 DEF CardKinds
      <4>2. \A j \in Jobs("worker") : j.kind \in CardKinds /\ j.card # card => j \in Jobs("worker")'
        BY <1>2, <3>5
      <4>3. \A j \in Jobs("acquisition")' : j.kind \in CardKinds => j.card # card
        BY <3>2, <3>3, <3>5
      <4>4. \A j \in Jobs("acquisition") :
              j.kind \in CardKinds /\ j.card # card => j \in Jobs("acquisition")'
        BY <3>5
      <4>5. doing' = doing
        BY <1>1
      <4> QED
        BY <4>1, <4>2, <4>3, <4>4, <4>5
    <3>8. cards' \in Seq(CardStates) /\ frames' \in Nat /\ Counted'
      BY <1>1, <2>2, <3>1, <3>6, <3>7, FrameEnds
    <3>9. Once'
      BY <1>1, <1>2, <3>5 DEF Once
    <3>10. Gated'
      BY <1>1, <1>2, <3>5 DEF Gated
    <3> QED
      BY <3>8, <3>9, <3>10
  <2> QED
    BY <2>1, <2>2
<1>8. Shaped' /\ Tracked' /\ Fenced'
  BY <1>1, <1>3, <1>7, WorkerDrops DEF Shaped, pinned
<1> QED
  BY <1>6, <1>7, <1>8

\* The worker is through with the capture it has had at hand.
LEMMA WorkerDone ==
  ASSUME IInv, TurnsTypeOK, doing["worker"].step \in {"send", "finalize"}, doing' = Done("worker"),
         NEW job \in Finalizations, queue' = queue \/ queue' = Sent("worker", job),
         UNCHANGED <<clipboard, main, busy, shares, pinned, late>>,
         frames' \in Nat, cards' \in Seq(CardStates)
  PROVE  /\ Shaped' /\ Tracked' /\ Fenced' /\ Unpinning' /\ Linked' /\ Gated' /\ Lagging' /\ InTurn'
         /\ doing'["worker"].job = Resting /\ doing'["acquisition"] = doing["acquisition"]
         /\ Jobs("acquisition")' = Jobs("acquisition")
<1> USE DEF IInv
<1> DEFINE at == [job |-> Resting, step |-> "idle"]
<1>1. job.kind = "finalize" /\ job.turn = 0 /\ job \in WorkerJobs
  BY DEF Finalizations, WorkerJobs
<1>2. /\ queue' \in [Threads -> Seq(AcquisitionJobs \union WorkerJobs)]
      /\ queue'["worker"] \in Seq(WorkerJobs)
      /\ queue'["acquisition"] = queue["acquisition"]
      /\ queue'["uploads"] = queue["uploads"]
      /\ Members(queue["worker"]) \subseteq Members(queue'["worker"])
      /\ Members(queue'["worker"]) \subseteq Members(queue["worker"]) \union {job}
      /\ \A a, b : Ahead(queue'["worker"], a, b) =>
           Ahead(queue["worker"], a, b) \/ (a \in Members(queue["worker"]) /\ b = job)
  <2>1. CASE queue' = queue
    BY <2>1 DEF Shaped
  <2>2. CASE queue' = Sent("worker", job)
    BY <1>1, <2>2, WorkerGets
  <2> QED
    BY <2>1, <2>2
<1>3. at \in WorkerAt /\ doing' = [doing EXCEPT !["worker"] = at]
  BY DEF WorkerAt, At, Done, Now
<1>4. /\ doing' \in [Threads -> AcquisitionAt \union WorkerAt \union UploadsAt]
      /\ doing'["acquisition"] \in AcquisitionAt
      /\ doing'["worker"] \in WorkerAt
      /\ doing'["uploads"] \in UploadsAt
      /\ doing'["worker"] = at
      /\ \A u \in Threads : u # "worker" => doing'[u] = doing[u]
  BY <1>3, Moves DEF Threads
<1>5. /\ doing'["worker"].job = Resting /\ doing'["worker"].step = "idle"
      /\ Resting.turn = 0 /\ Resting.kind = "none"
  BY <1>4 DEF Resting
<1> HIDE DEF at
<1>6. Shaped'
  BY <1>2, <1>4 DEF Shaped, pinned
<1>7. Jobs("acquisition")' = Jobs("acquisition") /\ Jobs("uploads")' = Jobs("uploads")
  BY <1>2, <1>4, Hands DEF Threads
<1>8. Fenced'
  <2>1. job # StopJob
    BY <1>1 DEF StopJob
  <2>2. ~Stopped("worker") /\ ~Stopped("worker")'
    BY <1>5 DEF Stopped
  <2> QED
    BY <1>2, <1>4, <1>5, <2>1, <2>2 DEF Fenced, Stopped, Cancelled, Threads
<1>9. Issued \in Nat /\ Issued' = Issued /\ fate' = fate /\ main' = main
  BY Tickets DEF clipboard, Issued
<1>10. Unpinning' /\ Lagging' /\ InTurn' /\ Linked'
  <2>1. Same(OfPins \union {"flush", "share"})
    BY <1>1, <1>2 DEF Same, Threads, OfPins
  <2> QED
    BY <1>9, <2>1, PinsAlone, LinksAlone DEF Same
<1>11. Gated'
  BY <1>2, <1>4, <1>7 DEF Gated, Threads
<1>12. ~Open(doing["worker"].job.turn) \/ doing["worker"].job.turn = 0
  <2>1. doing["worker"].step = "finalize" => doing["worker"].job.turn = 0
    BY Steps DEF CapturedJobs, CopyJobs, Finalizations, Resting
  <2> QED
    BY <2>1 DEF Tracked, Threads
<1>13. Tracked'
  <2>1. \A u \in Threads : \A j \in Jobs(u)' : j.turn <= Issued'
    <3>1. \A j \in Jobs("worker")' : j \in Jobs("worker") \/ j.turn = 0
      BY <1>1, <1>2, <1>5, Hands
    <3> QED
      BY <1>7, <1>9, <3>1 DEF Tracked, Threads
  <2>2. ASSUME NEW n, Open(n)' PROVE Holds(n)'
    <3>1. Open(n) /\ Holds(n) /\ n # 0 /\ n # doing["worker"].job.turn
      BY <1>9, <1>12, <2>2, Tickets DEF Tracked, Open
    <3>2. \A j \in Jobs("worker") : j = doing["worker"].job \/ j \in Jobs("worker")'
      BY <1>2, Hands
    <3> QED
      BY <1>7, <1>9, <3>1, <3>2 DEF Holds, Threads
  <2>3. \A u \in Threads : doing'[u].step \in {"send", "publish"} => doing'[u] = doing[u]
    BY <1>4, <1>5
  <2> QED
    BY <1>9, <2>1, <2>2, <2>3 DEF Tracked, Open
<1> QED
  BY <1>4, <1>5, <1>6, <1>7, <1>8, <1>10, <1>11, <1>13 DEF Threads

LEMMA FinalizesKeeps == ASSUME IInv, TurnsTypeOK, Finalizes PROVE IInv'
<1> USE DEF IInv
<1>1. /\ doing["worker"].step = "finalize" /\ cards[doing["worker"].job.card] = "ready"
      /\ cards' = [cards EXCEPT ![doing["worker"].job.card] = "final"]
      /\ frames' = frames - 1 /\ doing' = Done("worker")
      /\ UNCHANGED <<clipboard, main, queue, busy, shares, pinned, late>>
  BY DEF Finalizes, Published, Freed
<1>2. PICK card : card = doing["worker"].job.card
  OBVIOUS
<1>3. doing["worker"].job \in Finalizations /\ doing["worker"].job.kind = "finalize"
  BY <1>1, Steps DEF Finalizations, CapturedJobs, CopyJobs, Resting
<1>4. card \in Flight /\ cards[card] = "ready"
  BY <1>1, <1>2, <1>3 DEF Counted, Flight
<1>5. /\ doing'["worker"].job = Resting /\ doing'["acquisition"] = doing["acquisition"]
      /\ Resting.kind = "none"
  BY <1>1 DEF Shaped, Done, Now, Threads, Resting
<1>6. Jobs("acquisition")' = Jobs("acquisition")
  BY <1>1, <1>5, Hands
<1>7. \A j \in Jobs("acquisition") : j.kind \in CardKinds => j.card # card
  <2>1. \A j \in Members(queue["acquisition"]) : j.kind \in CardKinds => j.card # card
    <3>1. \A j \in Members(queue["acquisition"]) : j.kind \in {"capture", "stop"}
      BY Channels DEF AcquisitionJobs, CaptureJobs, StopJob
    <3> QED
      BY <1>4, <3>1 DEF Counted, Capturing, CardKinds, Threads
  <2>2. doing["acquisition"].job.kind \in CardKinds => doing["acquisition"].job.kind = "capture"
    BY Steps DEF CaptureJobs, Resting, CardKinds
  <2>3. doing["acquisition"].job.kind \in CardKinds => doing["acquisition"].job.card # card
    BY <1>4, <2>2 DEF Counted
  <2> QED
    BY <2>1, <2>3, Hands
<1>8. ASSUME NEW j \in Members(queue["worker"]), j.kind \in CardKinds PROVE j.card # card
  <2>1. j.kind = "finalize" => j.card # card
    BY <1>2, <1>3 DEF Once
  <2>2. j.kind # "finalize" => cards[j.card] = "admitted"
    BY <1>8 DEF Counted, Capturing, CardKinds, Threads
  <2> QED
    BY <1>4, <2>1, <2>2
<1>9. \A t \in {"acquisition", "worker"} :
        /\ doing'[t] = doing[t] \/ doing'[t].job = Resting
        /\ \A j \in Jobs(t)' : j.kind \in CardKinds => j.card # card
        /\ \A j \in Jobs(t) : j.kind \in CardKinds /\ j.card # card => j \in Jobs(t)'
  <2>1. \A j \in Jobs("worker")' : j.kind \in CardKinds => j.card # card
    BY <1>1, <1>5, <1>8, Hands DEF CardKinds
  <2>2. \A j \in Jobs("worker") : j.kind \in CardKinds /\ j.card # card => j \in Jobs("worker")'
    BY <1>1, <1>2, Hands
  <2> QED
    BY <1>5, <1>6, <1>7, <2>1, <2>2
<1>10. cards' \in Seq(CardStates) /\ frames' \in Nat /\ Counted'
  <2>1. cards' = [cards EXCEPT ![card] = "final"]
    BY <1>1, <1>2
  <2> QED
    BY <1>1, <1>4, <1>9, <2>1, FrameEnds
<1>11. Once'
  BY <1>1, <1>5, <1>6 DEF Once
<1>12. PICK job \in Finalizations : job = doing["worker"].job
  BY <1>3
<1>13. /\ Shaped' /\ Tracked' /\ Fenced' /\ Unpinning' /\ Linked' /\ Gated' /\ Lagging' /\ InTurn'
  BY <1>1, <1>10, <1>12, WorkerDone
<1> QED
  BY <1>10, <1>11, <1>13

LEMMA AcceptsKeeps == ASSUME IInv, TurnsTypeOK, Accepts PROVE IInv'
<1> USE DEF IInv
<1> DEFINE card == doing["worker"].job.card
           job == Finalization(card)
<1>1. /\ doing["worker"].step = "send" /\ queue' = Sent("worker", job)
      /\ cards' = [cards EXCEPT ![card] = "ready"] /\ doing' = Done("worker")
      /\ UNCHANGED <<clipboard, main, frames, busy, shares, pinned, late>>
  BY DEF Accepts
<1>2. doing["worker"].job \in CapturedJobs /\ doing["worker"].job.kind = "captured"
  BY <1>1, Steps DEF Finalizations, CapturedJobs, CopyJobs, Resting
<1>3. /\ job \in Finalizations /\ job \in WorkerJobs
      /\ job.kind = "finalize" /\ job.card = card /\ job.turn = 0
  BY <1>2 DEF WorkerJobs, Finalizations, Finalization, CapturedJobs
<1>4. card \in Flight /\ cards[card] = "admitted"
  BY <1>2 DEF Counted, Flight
<1>5. \A j \in Jobs("acquisition") : j.kind = "capture" => j.card # card
  BY <1>2 DEF Once
<1>6. ASSUME NEW j \in Members(queue["worker"]), j.kind \in CardKinds PROVE j.card # card
  <2>1. j.kind \in {"captured", "finalize"}
    BY <1>6, Channels DEF WorkerJobs, CapturedJobs, CopyJobs, UploadJobs,
      Finalizations, ShareJobs, PinCardJobs, ClosingJobs, FlushPins, StopJob, CardKinds
  <2>2. j.kind = "captured" => j.card # card
    BY <1>2 DEF Once
  <2>3. j.kind = "finalize" => cards[j.card] # "admitted"
    BY DEF Counted, Threads
  <2> QED
    BY <1>4, <2>1, <2>2, <2>3
<1> HIDE DEF card, job
<1>7. /\ cards' \in Seq(CardStates) /\ DOMAIN cards' = DOMAIN cards
      /\ cards'[card] = "ready" /\ \A m \in DOMAIN cards : m # card => cards'[m] = cards[m]
      /\ Cardinality(Flight') = frames /\ frames' = frames
  BY <1>1, <1>4, MovesCard DEF CardStates
<1>8. /\ Shaped' /\ Tracked' /\ Fenced' /\ Unpinning' /\ Linked' /\ Gated' /\ Lagging' /\ InTurn'
      /\ doing'["worker"].job = Resting /\ doing'["acquisition"] = doing["acquisition"]
      /\ Jobs("acquisition")' = Jobs("acquisition")
  BY <1>1, <1>3, <1>7, WorkerDone DEF Shaped
<1>9. /\ queue'["acquisition"] = queue["acquisition"]
      /\ queue'["uploads"] = queue["uploads"]
      /\ Members(queue'["worker"]) = Members(queue["worker"]) \union {job}
      /\ \A a, b : Ahead(queue'["worker"], a, b) =>
           Ahead(queue["worker"], a, b) \/ (a \in Members(queue["worker"]) /\ b = job)
  BY <1>1, <1>3, WorkerGets
<1>10. Counted'
  <2>1. ASSUME NEW n \in DOMAIN cards'
        PROVE /\ cards'[n] = "admitted" => Taking(n)'
              /\ cards'[n] \in {"queued", "ready"} => Finalizing(n)'
              /\ cards'[n] = "lost" => late'
    <3>1. CASE n = card
      <4>1. job \in Jobs("worker")'
        BY <1>9, Hands
      <4> QED
        BY <1>3, <1>7, <3>1, <4>1 DEF Finalizing
    <3>2. CASE n # card
      <4>1. cards'[n] = cards[n]
        BY <1>7, <3>2
      <4>2. \A j \in Jobs("worker") : j = doing["worker"].job \/ j \in Jobs("worker")'
        BY <1>9, Hands
      <4>3. Taking(n) => Taking(n)'
        BY <1>8, <3>2, <4>2 DEF Taking, card
      <4>4. Finalizing(n) => Finalizing(n)'
        BY <1>2, <4>2 DEF Finalizing
      <4> QED
        BY <1>1, <1>7, <4>1, <4>3, <4>4 DEF Counted
    <3> QED
      BY <3>1, <3>2
  <2>2. ASSUME NEW t \in Threads, NEW j \in Members(queue[t]), j.kind \in CardKinds
        PROVE  j.card # card
    <3>1. CASE t = "uploads"
      BY <2>2, <3>1, Channels DEF NetworkJobs, UploadJobs, StopJob, CardKinds
    <3>2. CASE t = "acquisition"
      BY <1>5, <2>2, <3>2, Channels, Hands DEF AcquisitionJobs, CaptureJobs, StopJob, CardKinds
    <3>3. CASE t = "worker"
      BY <1>6, <2>2, <3>3
    <3> QED
      BY <3>1, <3>2, <3>3 DEF Threads
  <2>3. ASSUME NEW t \in Threads, NEW j \in Members(queue'[t]), j.kind \in CardKinds
        PROVE  /\ j.kind \in Capturing => j.card \in DOMAIN cards' /\ cards'[j.card] = "admitted"
               /\ j.kind = "finalize" =>
                    j.card \in DOMAIN cards' /\ cards'[j.card] \in {"queued", "ready"}
    <3>1. CASE j \in Members(queue[t])
      BY <1>7, <2>2, <2>3, <3>1 DEF Counted
    <3>2. CASE j = job
      BY <1>3, <1>4, <1>7, <3>2 DEF Flight, Capturing
    <3> QED
      BY <1>9, <2>3, <3>1, <3>2 DEF Threads
  <2>4. doing'["acquisition"].job.kind = "capture" =>
          /\ doing'["acquisition"].job.card \in DOMAIN cards'
          /\ cards'[doing'["acquisition"].job.card] \in
               IF doing'["acquisition"].step = "publish" THEN {"queued", "lost"} ELSE {"admitted"}
    BY <1>5, <1>7, <1>8, Hands DEF Counted
  <2> QED
    BY <1>7, <1>8, <2>1, <2>3, <2>4 DEF Counted, Resting, Capturing, CardKinds
<1>11. Once'
  <2>1. ASSUME NEW a \in WorkerJobs, NEW b \in WorkerJobs, Ahead(queue'["worker"], a, b)
        PROVE  ~(a.kind = b.kind /\ a.kind \in {"captured", "finalize"} /\ a.card = b.card)
    <3>1. CASE Ahead(queue["worker"], a, b)
      BY <3>1 DEF Once
    <3>2. CASE a \in Members(queue["worker"]) /\ b = job
      BY <1>3, <1>6, <3>2 DEF CardKinds
    <3> QED
      BY <1>9, <2>1, <3>1, <3>2
  <2>2. ASSUME NEW j \in Members(queue'["worker"])
        PROVE  /\ j.kind = doing'["worker"].job.kind /\ j.kind \in {"captured", "finalize"} =>
                    j.card # doing'["worker"].job.card
               /\ j.kind = "captured" =>
                    \A other \in Jobs("acquisition")' : other.kind = "capture" => other.card # j.card
    <3>1. CASE j = job
      BY <1>3, <1>8, <3>1 DEF Resting
    <3>2. CASE j \in Members(queue["worker"])
      BY <1>8, <3>2 DEF Once, Resting
    <3> QED
      BY <1>9, <3>1, <3>2
  <2>3. doing'["worker"].job.kind = "captured" =>
          \A other \in Jobs("acquisition")' :
            other.kind = "capture" => other.card # doing'["worker"].job.card
    BY <1>8 DEF Resting
  <2> QED
    BY <2>1, <2>2, <2>3 DEF Once
<1> QED
  BY <1>8, <1>10, <1>11

LEMMA HandsOnUploadKeeps == ASSUME IInv, TurnsTypeOK, HandsOnUpload PROVE IInv'
<1> USE DEF IInv
<1> DEFINE job == Head(queue["worker"])
<1>1. /\ Idle("worker") /\ queue["worker"] # <<>> /\ job.kind = "upload"
      /\ doing["worker"].step = "idle"
      /\ UNCHANGED <<main, doing, captured, shares, pinned, late>>
  BY DEF HandsOnUpload, Works, Idle
<1>2. /\ queue \in [Threads -> Seq(AcquisitionJobs \union WorkerJobs)]
      /\ queue["worker"] \in Seq(WorkerJobs) /\ queue["uploads"] \in Seq(NetworkJobs)
  BY DEF Shaped
<1>3. /\ job \in WorkerJobs /\ Tail(queue["worker"]) \in Seq(WorkerJobs)
      /\ Members(queue["worker"]) = Members(Tail(queue["worker"])) \union {job}
      /\ \A a, b : Ahead(Tail(queue["worker"]), a, b) => Ahead(queue["worker"], a, b)
  BY <1>1, <1>2, PoppedJobs
<1>4. job \in NetworkJobs /\ job \in UploadJobs /\ job.turn \in Nat
  BY <1>1, <1>3 DEF WorkerJobs, CapturedJobs, CopyJobs, UploadJobs, Finalizations, ShareJobs,
    PinCardJobs, ClosingJobs, FlushPins, StopJob, NetworkJobs
<1>5. /\ Append(queue["uploads"], job) \in Seq(NetworkJobs)
      /\ Members(Append(queue["uploads"], job)) = Members(queue["uploads"]) \union {job}
      /\ \A a, b : Ahead(Append(queue["uploads"], job), a, b) =>
           Ahead(queue["uploads"], a, b) \/ (a \in Members(queue["uploads"]) /\ b = job)
  BY <1>2, <1>4, SentJobs
<1>6. CASE queue' = Popped("worker") /\ Retired({job.turn})
  <2>1. Issued \in Nat /\ Issued' = Issued /\ \A n : Open(n)' => Open(n) /\ n # job.turn
    BY <1>6, RetiredCloses
  <2>2. Same(OfPins \union CardKinds \union {"flush", "share"})
    BY <1>1, <1>2, <1>6, PoppedSame DEF OfPins, CardKinds
  <2>3. Shaped' /\ Tracked' /\ Fenced'
    BY <1>1, <1>6, <2>1, WorkerDrops DEF Shaped, captured, pinned
  <2>4. Unpinning' /\ Lagging' /\ InTurn' /\ Linked'
    BY <1>1, <2>1, <2>2, PinsAlone, LinksAlone DEF Same
  <2>5. Counted' /\ Once' /\ Gated'
    BY <1>1, <2>2, CardsAlone DEF Same, HandAlone
  <2> QED
    BY <2>3, <2>4, <2>5
<1>7. CASE /\ ~Stopped("uploads") /\ UNCHANGED clipboard
           /\ queue' = [Popped("worker") EXCEPT !["uploads"] = Append(@, job)]
  <2> PICK net : net = Append(queue["uploads"], job)
    OBVIOUS
  <2>1. /\ queue'["worker"] = Tail(queue["worker"]) /\ queue'["uploads"] = net
        /\ queue'["acquisition"] = queue["acquisition"]
    BY <1>2, <1>7 DEF Popped, Threads
  <2>2. queue' \in [Threads -> Seq(AcquisitionJobs \union WorkerJobs)]
    <3>1. /\ Tail(queue["worker"]) \in Seq(AcquisitionJobs \union WorkerJobs)
          /\ net \in Seq(AcquisitionJobs \union WorkerJobs)
      <4>1. NetworkJobs \subseteq AcquisitionJobs \union WorkerJobs
        BY DEF NetworkJobs, AcquisitionJobs, WorkerJobs
      <4> QED
        BY <1>3, <1>5, <4>1
    <3>2. Popped("worker") \in [Threads -> Seq(AcquisitionJobs \union WorkerJobs)]
      BY <1>2, <3>1 DEF Popped
    <3>3. queue' = [Popped("worker") EXCEPT !["uploads"] = net]
      BY <1>2, <1>7 DEF Popped, Threads
    <3> QED
      BY <3>1, <3>2, <3>3
  <2> HIDE DEF job
  <2>3. Shaped'
    BY <1>1, <1>3, <1>5, <2>1, <2>2 DEF Shaped, captured, pinned
  <2>4. /\ Members(queue["worker"]) = Members(queue'["worker"]) \union {job}
        /\ Members(queue'["uploads"]) = Members(queue["uploads"]) \union {job}
        /\ \A a, b : Ahead(queue'["worker"], a, b) => Ahead(queue["worker"], a, b)
        /\ \A a, b : Ahead(queue'["uploads"], a, b) => Ahead(queue["uploads"], a, b) \/ b = job
    BY <1>3, <1>5, <2>1
  <2>5. Issued \in Nat /\ Issued' = Issued /\ fate' = fate
    BY <1>7, Tickets DEF clipboard, Issued
  <2>6. Same(OfPins \union CardKinds \union {"flush", "share"})
    BY <1>1, <2>1, <2>4 DEF Same, OfPins, CardKinds, Threads
  <2>7. Unpinning' /\ Lagging' /\ InTurn' /\ Linked'
    BY <1>1, <2>5, <2>6, PinsAlone, LinksAlone DEF Same
  <2>8. Counted' /\ Once' /\ Gated'
    BY <1>1, <2>6, CardsAlone DEF Same, HandAlone
  <2>9. Fenced'
    <3>1. job # StopJob
      BY <1>1 DEF StopJob, job
    <3> QED
      BY <1>1, <1>7, <2>1, <2>4, <3>1 DEF Fenced, Stopped, Cancelled, Threads
  <2>10. Tracked'
    <3>1. \A u \in Threads : \A j \in Jobs(u)' : \E v \in Threads : j \in Jobs(v)
      BY <1>1, <2>1, <2>4, Hands DEF Threads
    <3>2. \A u \in Threads : \A j \in Jobs(u) : \E v \in Threads : j \in Jobs(v)'
      BY <1>1, <2>1, <2>4, Hands DEF Threads
    <3>3. \A u \in Threads : \A j \in Jobs(u)' : j.turn <= Issued'
      BY <2>5, <3>1 DEF Tracked
    <3>4. \A n \in DOMAIN fate' : Open(n)' => Holds(n)'
      BY <1>1, <2>5, <3>2 DEF Tracked, Open, Holds
    <3> QED
      BY <1>1, <2>5, <3>3, <3>4 DEF Tracked, Open
  <2> QED
    BY <2>3, <2>7, <2>8, <2>9, <2>10
<1> QED
  BY <1>6, <1>7 DEF HandsOnUpload

-----------------------------------------------------------------------------
(* The worker's steps: pins                                                *)

ClaimedAs(q, p, gen, state) ==
  /\ q \in PinStates
  /\ q.gen = p.gen /\ q.visible = p.visible /\ q.newest = p.newest
  /\ q.pending = p.pending /\ q.restoring = p.restoring /\ q.behind = p.behind
  /\ p.settled > gen => q.settled = p.settled /\ q.stored = p.stored
  /\ ~(p.settled > gen) => q.settled = gen /\ q.stored = state

LEMMA ClaimedFields ==
  ASSUME NEW p \in PinStates, NEW gen \in Nat, NEW state \in Nat \union {None}
  PROVE  ClaimedAs(Claimed(p, gen, state), p, gen, state)
<1>0. p.settled > gen <=> ~MayClaim(p, gen)
  BY DEF MayClaim, PinStates
<1>1. CASE p.settled > gen
  BY <1>0, <1>1 DEF Claimed, ClaimedAs
<1>2. CASE ~(p.settled > gen)
  <2>1. [p EXCEPT !.settled = gen] \in PinStates
    BY DEF PinStates
  <2>2. \A r \in PinStates : [r EXCEPT !.stored = state] \in PinStates
    BY DEF PinStates
  <2>3. Claimed(p, gen, state) = [[p EXCEPT !.settled = gen] EXCEPT !.stored = state]
    BY <1>0, <1>2 DEF Claimed, PinStates
  <2>4. Claimed(p, gen, state) \in PinStates
    BY <2>1, <2>2, <2>3
  <2> QED
    BY <1>0, <1>2, <2>4 DEF Claimed, ClaimedAs, PinStates
<1> QED
  BY <1>1, <1>2

\* An intent is carried out, or fails to be: what history makes of the pin.
Carried(job, q) ==
  /\ q \in PinStates /\ pins' = [pins EXCEPT ![job.capture] = q]
  /\ q.gen = pins[job.capture].gen /\ q.visible = pins[job.capture].visible
  /\ q.newest = pins[job.capture].newest /\ q.pending = pins[job.capture].pending
  /\ q.restoring = pins[job.capture].restoring /\ q.behind = pins[job.capture].behind
  /\ q.settled \in {pins[job.capture].settled, job.gen}
  /\ job.gen = pins[job.capture].gen /\ Promised(pins[job.capture], job) =>
       q.told \/ Hearing(Members(failed'), job.capture, q) \/ Shows(q)

LEMMA PinDone ==
  ASSUME IInv, TurnsTypeOK, Works(OfPins), queue' = Popped("worker"),
         \E q : Carried(Head(queue["worker"]), q),
         failed' \in Seq(Refusals), Members(failed) \subseteq Members(failed'),
         main' \in [at : Stages, turn : Nat], main'.turn = main.turn,
         main' = main \/ (main.at = "unpinning" /\ main'.at = "running"),
         Head(queue["worker"]).kind # "unpin" => main' = main,
         UNCHANGED <<clipboard, doing, captured, shares, late>>
  PROVE  IInv'
<1> USE DEF IInv
<1> PICK job : job = Head(queue["worker"])
  OBVIOUS
<1>q. PICK q :
      /\ q \in PinStates /\ pins' = [pins EXCEPT ![job.capture] = q]
      /\ q.gen = pins[job.capture].gen /\ q.visible = pins[job.capture].visible
      /\ q.newest = pins[job.capture].newest /\ q.pending = pins[job.capture].pending
      /\ q.restoring = pins[job.capture].restoring /\ q.behind = pins[job.capture].behind
      /\ q.settled \in {pins[job.capture].settled, job.gen}
      /\ job.gen = pins[job.capture].gen /\ Promised(pins[job.capture], job) =>
           q.told \/ Hearing(Members(failed'), job.capture, q) \/ Shows(q)
  BY DEF Carried
<1>0. Idle("worker") /\ job.kind \in OfPins /\ (job.kind # "unpin" => main' = main)
  BY DEF Works
<1>1. /\ queue'["acquisition"] = queue["acquisition"]
      /\ queue'["uploads"] = queue["uploads"]
      /\ job \in WorkerJobs /\ queue["worker"] # <<>>
      /\ Members(queue["worker"]) = Members(queue'["worker"]) \union {job}
      /\ \A a, b : Ahead(queue'["worker"], a, b) => Ahead(queue["worker"], a, b)
      /\ \A b \in Members(queue'["worker"]) : Ahead(queue["worker"], job, b)
      /\ queue'["worker"] \in Seq(WorkerJobs)
  BY <1>0, WorkerPops DEF Idle
<1> PICK c \in Captures : c = job.capture
  BY <1>0, <1>1, JobFields
<1>2. job.gen \in Nat /\ job.turn = 0
  BY <1>0, <1>1, JobFields
<1>3. /\ pins[c].gen \in Nat /\ pins[c].settled \in Nat
      /\ pins' \in [Captures -> PinStates] /\ pins'[c] = q
      /\ \A d \in Captures : d # c => pins'[d] = pins[d]
  BY <1>q, PinFields DEF Shaped
<1>r. /\ pins'[c].gen = pins[c].gen /\ pins'[c].visible = pins[c].visible
      /\ pins'[c].newest = pins[c].newest /\ pins'[c].pending = pins[c].pending
      /\ pins'[c].restoring = pins[c].restoring /\ pins'[c].behind = pins[c].behind
      /\ pins'[c].settled \in {pins[c].settled, job.gen}
  BY <1>q, <1>3
<1>4. Issued \in Nat /\ Issued' = Issued /\ \A n : Open(n)' => Open(n)
  BY Tickets DEF clipboard, Issued, Open
<1>5. Same(CardKinds \union {"flush", "share"})
  BY <1>0, <1>1, PoppedSame DEF OfPins, CardKinds
<1>6. Shaped' /\ Tracked' /\ Fenced'
  BY <1>0, <1>2, <1>3, <1>4, WorkerDrops DEF Shaped, captured
<1>7. Linked' /\ Counted' /\ Once' /\ Gated'
  BY <1>4, <1>5, LinksAlone, CardsAlone DEF Same, HandAlone
<1>8. Asked(c) = Asked(c)' \union {job} /\ \A d \in Captures : d # c => Asked(d)' = Asked(d)
  BY <1>0, <1>1 DEF Asked
<1>9. job.gen \in 1..pins[c].gen
  BY <1>8 DEF Lagging, Latest
<1>10. ASSUME NEW j \in Asked(c)' PROVE job.gen < j.gen /\ j.gen \in 1..pins[c].gen
  <2>1. j \in WorkerJobs /\ Ahead(queue["worker"], job, j) /\ j.kind \in OfPins /\ j.capture = c
    BY <1>1, InChannel DEF Asked
  <2> QED
    BY <1>0, <1>1, <1>8, <2>1 DEF InTurn, Lagging, Latest
<1>11. Lagging'
  <2>1. ASSUME NEW d \in Captures, d # c
        PROVE  /\ pins'[d] = pins[d] /\ Asked(d)' = Asked(d)
               /\ Kept(d, pins[d]) => Kept(d, pins[d])'
    <3>1. Hearing(Members(failed), d, pins[d]) => Hearing(Members(failed'), d, pins[d])
      BY DEF Hearing
    <3> QED
      BY <1>3, <1>8, <2>1, <3>1 DEF Kept
  <2>2. FlushPins \in Members(queue["worker"]) => FlushPins \in Members(queue'["worker"])
    BY <1>5 DEF Same, FlushPins, Threads
  <2>3. Woken'
    <3>1. Woken
      BY DEF Lagging
    <3>2. \A d \in Captures :
            /\ pins'[d].pending = pins[d].pending /\ pins'[d].visible = pins[d].visible
            /\ pins'[d].gen = pins[d].gen /\ pins'[d].newest = pins[d].newest
      BY <1>r, <2>1
    <3>3. ASSUME NEW d \in Captures, pins'[d].pending # None
          PROVE  /\ FlushPins \in Members(queue'["worker"])
                 /\ pins'[d].visible
                 /\ pins'[d].pending = [gen |-> pins'[d].gen, state |-> pins'[d].newest]
      <4>1. pins[d].pending # None
        BY <3>2, <3>3
      <4>2. /\ FlushPins \in Members(queue["worker"]) /\ pins[d].visible
            /\ pins[d].pending = [gen |-> pins[d].gen, state |-> pins[d].newest]
        BY <3>1, <4>1 DEF Woken
      <4> QED
        BY ONLY <2>2, <3>2, <4>2, d \in Captures
    <3> QED
      BY <3>3 DEF Woken
  <2>4. Untouched'
    <3>1. Untouched
      BY DEF Lagging
    <3>2. pins[c].gen # 0 /\ pins'[c].settled <= pins'[c].gen
      <4>1. pins[c].settled <= pins[c].gen
        BY <3>1 DEF Untouched
      <4>2. pins[c].gen # 0 /\ job.gen <= pins[c].gen
        BY <1>2, <1>3, <1>9
      <4> QED
        BY <1>r, <4>1, <4>2
    <3> QED
      <4>1. pins'[c].gen # 0
        BY <1>r, <3>2
      <4> QED
        BY <2>1, <3>1, <3>2, <4>1 DEF Untouched
  <2>5. Latest'
    <3>1. Asked(c)' # {} => \E j \in Asked(c)' : j.gen = pins[c].gen
      <4>1. PICK j \in Asked(c) : j.gen = pins[c].gen
        BY <1>8 DEF Lagging, Latest
      <4>2. Asked(c)' # {} => j # job
        BY <1>2, <1>3, <1>10, <4>1
      <4> QED
        BY <1>8, <4>1, <4>2
    <3>2. /\ \A j \in Asked(c)' : j.gen \in 1..pins'[c].gen
          /\ Asked(c)' # {} => \E j \in Asked(c)' : j.gen = pins'[c].gen
      <4>1. pins'[c].gen = pins[c].gen
        BY <1>q, <1>3
      <4>2. \A j \in Asked(c)' : j.gen \in 1..pins[c].gen
        BY <1>10
      <4> QED
        BY <3>1, <4>1, <4>2
    <3>3. \A d \in Captures : d # c =>
            /\ \A j \in Asked(d)' : j.gen \in 1..pins'[d].gen
            /\ Asked(d)' # {} => \E j \in Asked(d)' : j.gen = pins'[d].gen
      <4>1. Latest
        BY DEF Lagging
      <4> QED
        BY <2>1, <4>1 DEF Latest
    <3> QED
      BY <3>2, <3>3 DEF Latest
  <2>6. Promising'
    <3>1. \A j : Promised(q, j) <=> Promised(pins[c], j)
      BY <1>q DEF Promised
    <3>2. ASSUME NEW d \in Captures, NEW j \in Asked(d)', j.gen = pins'[d].gen
          PROVE  Promised(pins'[d], j)
      <4>1. CASE d = c
        BY <1>r, <1>3, <1>8, <3>1, <3>2, <4>1 DEF Lagging, Promising
      <4>2. CASE d # c
        BY <2>1, <3>2, <4>2 DEF Lagging, Promising
      <4> QED
        BY <4>1, <4>2
    <3>3. \A d \in Captures : \A j \in Asked(d)' : j.gen = pins'[d].gen => Promised(pins'[d], j)
      BY <3>2
    <3> QED
      BY <3>3 DEF Promising, Promised
  <2>7. Keeping'
    <3>1. Asked(c)' = {} => job.gen = pins[c].gen /\ Promised(pins[c], job)
      <4>1. Latest /\ Promising
        BY DEF Lagging
      <4>2. job \in Asked(c) /\ (Asked(c)' = {} => \A j \in Asked(c) : j = job)
        BY <1>8
      <4>3. Asked(c)' = {} => job.gen = pins[c].gen
        BY <4>1, <4>2 DEF Latest
      <4> QED
        BY <4>1, <4>2, <4>3 DEF Promising
    <3>2. Asked(c)' = {} => Kept(c, pins[c])'
      <4> SUFFICES ASSUME Asked(c)' = {} PROVE Kept(c, pins[c])'
        OBVIOUS
      <4>1. q.told \/ Hearing(Members(failed'), c, q) \/ Shows(q)
        BY <1>q, <3>1
      <4> QED
        BY <1>3, <4>1 DEF Kept
    <3> QED
      BY <1>8, <2>1, <3>2 DEF Lagging, Keeping
  <2> QED
    BY <2>3, <2>4, <2>5, <2>6, <2>7 DEF Lagging
<1>12. Unpinning'
  <2>1. ASSUME NEW j \in Members(queue'["worker"]), j.kind = "unpin" PROVE main'.at = "unpinning"
    <3>1. j \in WorkerJobs /\ job.kind # "unpin"
      BY <1>1, <2>1, InChannel DEF Unpinning
    <3> QED
      BY <1>0, <1>1, <2>1, <3>1 DEF Unpinning
  <2> QED
    BY <1>1, <2>1 DEF Unpinning
<1>13. InTurn'
  <2>1. \A d \in Captures : pins'[d].gen = pins[d].gen /\ pins'[d].visible = pins[d].visible
                             /\ pins'[d].behind = pins[d].behind
    BY <1>r, <1>3
  <2>2. ASSUME NEW b \in WorkerJobs, b.kind \in OfPins PROVE b.capture \in Captures
    BY <2>2, JobFields
  <2>3. \A a, b \in WorkerJobs : Ahead(queue'["worker"], a, b) => Ahead(queue["worker"], a, b)
    BY <1>1
  <2>4. InTurn
    OBVIOUS
  <2> QED
    BY ONLY <2>1, <2>2, <2>3, <2>4 DEF InTurn
<1> QED
  BY <1>6, <1>7, <1>11, <1>12, <1>13

LEMMA SetsPinKeeps == ASSUME IInv, TurnsTypeOK, SetsPin PROVE IInv'
<1> USE DEF IInv
<1> PICK job : job = Head(queue["worker"])
  OBVIOUS
<1> PICK c : c = job.capture
  OBVIOUS
<1> PICK q : q = Claimed(pins[c], job.gen, job.state)
  OBVIOUS
<1>1. /\ Idle("worker") /\ queue["worker"] # <<>> /\ queue' = Popped("worker")
      /\ job.kind \in OfPins
      /\ pins' = [pins EXCEPT ![job.capture] = q]
      /\ main' = IF job.kind = "unpin" THEN [main EXCEPT !.at = "running"] ELSE main
      /\ UNCHANGED <<clipboard, doing, captured, shares, failed, late>>
  BY DEF SetsPin, Answered, Works, Idle, OfPins
<1>2. job \in WorkerJobs /\ job \in Members(queue["worker"])
  BY <1>1, WorkerPops
<1>3. c \in Captures /\ job.gen \in Nat /\ job.state \in IF job.kind = "pincard" THEN Nat ELSE {None}
  BY <1>1, <1>2, JobFields
<1>4. /\ job.gen \in 1..pins[c].gen /\ pins[c].settled <= pins[c].gen
      /\ pins[c].gen \in Nat /\ pins[c].settled \in Nat
  BY <1>1, <1>2, <1>3, PinFields DEF Lagging, Latest, Untouched, Asked
<1>5. /\ q \in PinStates
      /\ q.gen = pins[c].gen /\ q.visible = pins[c].visible /\ q.newest = pins[c].newest
      /\ q.pending = pins[c].pending /\ q.restoring = pins[c].restoring
      /\ q.behind = pins[c].behind
      /\ q.settled \in {pins[c].settled, job.gen}
      /\ ~(pins[c].settled > job.gen) => q.stored = job.state
  <2>1. job.state \in Nat \union {None} /\ pins[c] \in PinStates
    BY <1>3, PinFields
  <2> QED
    <3>1. ClaimedAs(q, pins[c], job.gen, job.state)
      BY <1>3, <2>1, ClaimedFields
    <3> QED
      BY <3>1 DEF ClaimedAs
<1>6. job.gen = pins[c].gen /\ Promised(pins[c], job) => Shows(q)
  <2> SUFFICES ASSUME job.gen = pins[c].gen, Promised(pins[c], job) PROVE Shows(q)
    OBVIOUS
  <2>1. q.stored = job.state
    <3>1. ~(pins[c].settled > job.gen)
      BY <1>4
    <3> QED
      BY <1>5, <3>1
  <2>2. job.kind \in {"setpin", "unpin"} => q.stored = None
    BY <1>3, <2>1
  <2>3. job.kind = "pincard" => q.stored # None
    BY <1>3, <2>1 DEF PipelineAssumption
  <2>4. CASE ~q.visible
    BY <1>5, <2>2, <2>4 DEF Promised, Shows
  <2>5. CASE q.visible
    BY <1>5, <2>1, <2>3, <2>5 DEF Promised, Shows
  <2> QED
    BY <2>4, <2>5
<1>7. /\ main' \in [at : Stages, turn : Nat] /\ main'.turn = main.turn
      /\ main' = main \/ (main.at = "unpinning" /\ main'.at = "running")
      /\ job.kind # "unpin" => main' = main
  <2>1. main \in [at : Stages, turn : Nat] /\ "running" \in Stages
    BY DEF Shaped, Stages
  <2>2. job.kind = "unpin" => main.at = "unpinning"
    BY <1>2 DEF Unpinning
  <2> QED
    BY <1>1, <2>1, <2>2
<1>8. failed' = failed /\ failed \in Seq(Refusals)
  BY <1>1 DEF Shaped
<1>9. q.settled \in {pins[c].settled, job.gen} /\ Members(failed) \subseteq Members(failed')
  BY <1>5, <1>8
<1>10. UNCHANGED <<clipboard, doing, captured, shares, late>>
  BY <1>1
<1>11. Carried(job, q)
  BY <1>1, <1>5, <1>6 DEF Carried
<1>12. Works(OfPins)
  BY <1>1 DEF Works
<1>13. \E r : Carried(Head(queue["worker"]), r)
  BY <1>11
<1> QED
  BY <1>1, <1>7, <1>8, <1>9, <1>10, <1>12, <1>13, PinDone

LEMMA PinFailsKeeps == ASSUME IInv, TurnsTypeOK, PinFails PROVE IInv'
<1> USE DEF IInv
<1> PICK job : job = Head(queue["worker"])
  OBVIOUS
<1> PICK c : c = job.capture
  OBVIOUS
<1>1. /\ queue["worker"] # <<>> /\ queue' = Popped("worker") /\ job.kind \in OfPins
      /\ \E shown \in {pins[c].stored, job.state} :
           pins' = [pins EXCEPT ![c] = Unstored(@, job, shown)]
      /\ failed' = CASE job.kind = "pincard" -> Append(failed, Failure("creation", c, job.gen))
                     [] job.kind = "setpin" -> Append(failed, Failure("persistence", c, job.gen))
                     [] job.kind = "unpin" -> failed
      /\ main' = IF job.kind = "unpin" THEN [main EXCEPT !.at = "running"] ELSE main
      /\ UNCHANGED <<clipboard, doing, captured, shares, late>>
  BY DEF PinFails, Answered, Works, Idle, OfPins
<1>2. Works(OfPins) /\ job \in WorkerJobs /\ job \in Members(queue["worker"])
  BY <1>1, WorkerPops DEF PinFails, Works, OfPins
<1>3. c \in Captures /\ job.gen \in Nat /\ job.state \in Nat \union {None}
  BY <1>1, <1>2, JobFields DEF OfPins
<1>4. pins[c] \in PinStates /\ pins \in [Captures -> PinStates]
  BY <1>3, PinFields DEF Shaped
<1>5. PICK shown \in Nat \union {None} : pins' = [pins EXCEPT ![c] = Unstored(@, job, shown)]
  <2>1. pins[c].stored \in Nat \union {None}
    BY <1>3, PinFields
  <2>2. PICK shown \in {pins[c].stored, job.state} :
          pins' = [pins EXCEPT ![c] = Unstored(@, job, shown)]
    BY <1>1
  <2>3. shown \in Nat \union {None}
    BY <1>3, <2>1, <2>2
  <2> QED
    BY <2>2, <2>3
<1>6. PICK r : r = Claimed(pins[c], job.gen, shown)
  OBVIOUS
<1>7. PICK q : q = Unstored(pins[c], job, shown)
  OBVIOUS
<1>8. /\ q \in PinStates
      /\ q.gen = pins[c].gen /\ q.visible = pins[c].visible /\ q.newest = pins[c].newest
      /\ q.pending = pins[c].pending /\ q.restoring = pins[c].restoring
      /\ q.behind = pins[c].behind /\ q.settled \in {pins[c].settled, job.gen}
      /\ job.kind = "unpin" => q.told
  <2>1. ClaimedAs(r, pins[c], job.gen, shown)
    BY <1>3, <1>4, <1>6, ClaimedFields
  <2>2. /\ r \in PinStates
        /\ r.gen = pins[c].gen /\ r.visible = pins[c].visible /\ r.newest = pins[c].newest
        /\ r.pending = pins[c].pending /\ r.restoring = pins[c].restoring
        /\ r.behind = pins[c].behind /\ r.settled \in {pins[c].settled, job.gen}
    BY <2>1 DEF ClaimedAs
  <2>3. CASE job.kind = "unpin"
    <3>1. q = [r EXCEPT !.told = TRUE]
      BY <1>6, <1>7, <2>3 DEF Unstored
    <3> QED
      BY <2>2, <3>1, ToldIs
  <2>4. CASE job.kind # "unpin"
    BY <1>6, <1>7, <2>2, <2>4 DEF Unstored
  <2> QED
    BY <2>3, <2>4
<1>9. pins' = [pins EXCEPT ![c] = q]
  BY <1>5, <1>7
<1>10. /\ failed' \in Seq(Refusals) /\ Members(failed) \subseteq Members(failed')
       /\ job.kind = "pincard" => Failure("creation", c, job.gen) \in Members(failed')
       /\ job.kind = "setpin" => Failure("persistence", c, job.gen) \in Members(failed')
  <2>1. failed \in Seq(Refusals)
    BY DEF Shaped
  <2>2. \A kind \in {"creation", "persistence"} : Failure(kind, c, job.gen) \in Refusals
    BY <1>3 DEF Failure, Refusals
  <2>3. \A e \in Refusals : /\ Append(failed, e) \in Seq(Refusals)
                           /\ Members(Append(failed, e)) = Members(failed) \union {e}
    BY <2>1, SentJobs
  <2>4. CASE job.kind = "pincard"
    BY <1>1, <2>2, <2>3, <2>4
  <2>5. CASE job.kind = "setpin"
    BY <1>1, <2>2, <2>3, <2>5
  <2>6. CASE job.kind = "unpin"
    BY <1>1, <2>1, <2>6
  <2> QED
    BY <1>1, <2>4, <2>5, <2>6 DEF OfPins
<1>11. job.gen = pins[c].gen /\ Promised(pins[c], job) =>
         q.told \/ Hearing(Members(failed'), c, q)
  <2> SUFFICES ASSUME job.gen = pins[c].gen, Promised(pins[c], job)
               PROVE  q.told \/ Hearing(Members(failed'), c, q)
    OBVIOUS
  <2>1. CASE job.kind = "pincard"
    BY <1>8, <1>10, <2>1 DEF Hearing, Failure, Promised
  <2>2. CASE job.kind = "setpin"
    BY <1>8, <1>10, <2>2 DEF Hearing, Failure
  <2>3. CASE job.kind = "unpin"
    BY <1>8, <2>3
  <2> QED
    BY <1>1, <2>1, <2>2, <2>3 DEF OfPins
<1>12. \E p : Carried(Head(queue["worker"]), p)
  <2>1. Carried(job, q)
    BY <1>8, <1>9, <1>11 DEF Carried
  <2> QED
    BY <2>1
<1>13. /\ main' \in [at : Stages, turn : Nat] /\ main'.turn = main.turn
       /\ main' = main \/ (main.at = "unpinning" /\ main'.at = "running")
       /\ job.kind # "unpin" => main' = main
  <2>1. main \in [at : Stages, turn : Nat] /\ "running" \in Stages
    BY DEF Shaped, Stages
  <2>2. job.kind = "unpin" => main.at = "unpinning"
    BY <1>2 DEF Unpinning
  <2> QED
    BY <1>1, <2>1, <2>2
<1> QED
  BY <1>1, <1>2, <1>10, <1>12, <1>13, PinDone

LEMMA Joined ==
  ASSUME NEW S, NEW first \in Seq(S), NEW second \in Seq(S)
  PROVE  /\ first \o second \in Seq(S) /\ Members(first) \subseteq Members(first \o second)
         /\ Members(second) \subseteq Members(first \o second)
<1>1. PICK both : both = first \o second
  OBVIOUS
<1>2. /\ both \in Seq(S) /\ Len(both) = Len(first) + Len(second)
      /\ \A i \in 1..(Len(first) + Len(second)) :
           both[i] = IF i <= Len(first) THEN first[i] ELSE second[i - Len(first)]
  BY <1>1, ConcatProperties
<1>3. /\ Len(first) \in Nat /\ DOMAIN first = 1..Len(first)
      /\ Len(second) \in Nat /\ DOMAIN second = 1..Len(second)
      /\ DOMAIN both = 1..(Len(first) + Len(second))
  BY <1>2, LenProperties
<1>4. ASSUME NEW i \in DOMAIN first PROVE first[i] \in Members(both)
  <2>1. i \in DOMAIN both /\ i <= Len(first)
    BY <1>3
  <2>2. both[i] = first[i]
    BY <1>2, <1>3, <2>1
  <2> QED
    BY <2>1, <2>2 DEF Members
<1>5. ASSUME NEW i \in DOMAIN second PROVE second[i] \in Members(both)
  <2>1. PICK k : k = Len(first) + i
    OBVIOUS
  <2>2. k \in DOMAIN both /\ ~(k <= Len(first)) /\ k - Len(first) = i
    BY <1>3, <2>1
  <2>3. both[k] = second[i]
    BY <1>2, <1>3, <2>2
  <2> QED
    BY <2>2, <2>3 DEF Members
<1>6. Members(first) \subseteq Members(both) /\ Members(second) \subseteq Members(both)
  <2>1. \A x \in Members(first) : x \in Members(both)
    BY <1>4 DEF Members
  <2>2. \A x \in Members(second) : x \in Members(both)
    BY <1>5 DEF Members
  <2> QED
    BY <2>1, <2>2
<1> QED
  BY <1>1, <1>2, <1>6

LEMMA TellsMore ==
  ASSUME Shaped, NEW news \in Seq(Refusals), failed' = failed \o news
  PROVE  /\ failed' \in Seq(Refusals) /\ Members(failed) \subseteq Members(failed')
         /\ Members(news) \subseteq Members(failed')
<1>1. failed \in Seq(Refusals)
  BY DEF Shaped
<1> QED
  BY <1>1, Joined

LEMMA Listed ==
  ASSUME NEW S, NEW n \in Nat, NEW seq \in [1..n -> S], NEW i \in 1..n
  PROVE  seq \in Seq(S) /\ seq[i] \in Members(seq)
  BY DEF Members

LEMMA NothingListed ==
  ASSUME NEW S, NEW n \in Nat, NEW seq \in [1..n -> S]
  PROVE  seq \in Seq(S)
  OBVIOUS

\* What a flush tells of: of every pin it could not store, whichever way round.
LEMMA FlushTells ==
  ASSUME Shaped, NEW lost \in SUBSET Captures, \A c \in lost : pins[c].pending # None,
         NEW order \in Surjection(1..Cardinality(lost), lost),
         failed' = failed \o [i \in 1..Cardinality(lost) |->
                                Failure("persistence", order[i], pins[order[i]].pending.gen)]
  PROVE  /\ failed' \in Seq(Refusals) /\ Members(failed) \subseteq Members(failed')
         /\ \A c \in lost : Failure("persistence", c, pins[c].pending.gen) \in Members(failed')
<1>1. PICK n \in Nat : n = Cardinality(lost)
  BY FS_Subset, FS_CardinalityType, PipelineAssumption
<1>2. /\ \A i \in 1..n : order[i] \in lost
      /\ \A c \in lost : \E i \in 1..n : order[i] = c
  BY <1>1 DEF Surjection
<1>3. PICK news : news = [i \in 1..n |->
                            Failure("persistence", order[i], pins[order[i]].pending.gen)]
  OBVIOUS
<1>4. failed \in Seq(Refusals) /\ failed' = failed \o news
  BY <1>1, <1>3 DEF Shaped
<1>5. news \in [1..n -> Refusals]
  <2>1. \A c \in lost : Failure("persistence", c, pins[c].pending.gen) \in Refusals
    BY PinFields DEF Failure, Refusals, Placements
  <2> QED
    BY <1>2, <1>3, <2>1
<1>6. news \in Seq(Refusals)
  BY <1>5, NothingListed
<1>7. /\ failed' \in Seq(Refusals) /\ Members(failed) \subseteq Members(failed')
      /\ Members(news) \subseteq Members(failed')
  BY <1>4, <1>6, TellsMore
<1>8. ASSUME NEW c \in lost
      PROVE  Failure("persistence", c, pins[c].pending.gen) \in Members(failed')
  <2>1. PICK i \in 1..n : order[i] = c
    BY <1>2
  <2>2. news[i] = Failure("persistence", c, pins[c].pending.gen)
    BY <1>3, <2>1
  <2>3. news[i] \in Members(news)
    BY <1>5, Listed
  <2> QED
    BY <1>7, <2>2, <2>3
<1> QED
  BY <1>7, <1>8

LEMMA FlushesKeeps == ASSUME IInv, TurnsTypeOK, Flushes PROVE IInv'
<1> USE DEF IInv
<1> PICK job : job = Head(queue["worker"])
  OBVIOUS
<1>1. /\ Idle("worker") /\ queue["worker"] # <<>> /\ queue' = Popped("worker") /\ job.kind = "flush"
      /\ UNCHANGED <<clipboard, main, doing, captured, shares, late>>
  BY DEF Flushes, Works, Idle
<1>f. PICK lost \in SUBSET {c \in Captures : /\ pins[c].pending # None
                                           /\ MayClaim(pins[c], pins[c].pending.gen)} :
        /\ \E shown \in SUBSET lost :
             pins' = [c \in Captures |->
               IF c \in lost \ shown THEN [Settled(pins[c]) EXCEPT !.stored = pins[c].stored]
               ELSE Settled(pins[c])]
        /\ \E order \in Surjection(1..Cardinality(lost), lost) :
             failed' = failed \o [i \in 1..Cardinality(lost) |->
                                    Failure("persistence", order[i], pins[order[i]].pending.gen)]
  BY DEF Flushes
<1>p. PICK shown \in SUBSET lost :
        pins' = [c \in Captures |->
          IF c \in lost \ shown THEN [Settled(pins[c]) EXCEPT !.stored = pins[c].stored]
          ELSE Settled(pins[c])]
  BY <1>f
<1>t. /\ failed' \in Seq(Refusals) /\ Members(failed) \subseteq Members(failed')
      /\ \A c \in lost : Failure("persistence", c, pins[c].pending.gen) \in Members(failed')
  <2>1. lost \in SUBSET Captures /\ \A c \in lost : pins[c].pending # None
    OBVIOUS
  <2> QED
    BY <1>f, <2>1, FlushTells
<1>2. /\ queue'["acquisition"] = queue["acquisition"]
      /\ queue'["uploads"] = queue["uploads"]
      /\ job \in WorkerJobs
      /\ Members(queue["worker"]) = Members(queue'["worker"]) \union {job}
      /\ \A a, b : Ahead(queue'["worker"], a, b) => Ahead(queue["worker"], a, b)
      /\ \A b \in Members(queue'["worker"]) : Ahead(queue["worker"], job, b)
      /\ queue'["worker"] \in Seq(WorkerJobs)
  BY <1>1, WorkerPops
<1>3. job.turn = 0
  BY <1>1, <1>2, JobFields
<1>4. ASSUME NEW c \in Captures, pins[c].pending # None
      PROVE  /\ pins'[c] \in PinStates
             /\ pins'[c].gen = pins[c].gen /\ pins'[c].visible = pins[c].visible
             /\ pins'[c].newest = pins[c].newest /\ pins'[c].pending = None
             /\ pins'[c].restoring = pins[c].restoring /\ pins'[c].behind = pins[c].behind
             /\ pins'[c].settled = pins[c].gen
             /\ pins'[c].stored = pins[c].newest \/ c \in lost
             /\ pins[c].visible /\ pins[c].pending.gen = pins[c].gen
  <2>1. /\ pins[c].pending = [gen |-> pins[c].gen, state |-> pins[c].newest] /\ pins[c].visible
        /\ pins[c].settled <= pins[c].gen
    BY <1>4 DEF Lagging, Woken, Untouched
  <2>2. /\ pins[c] \in PinStates /\ pins[c].gen \in Nat /\ pins[c].newest \in Nat \union {None}
        /\ pins[c].settled \in Nat /\ pins[c].stored \in Nat \union {None}
    BY PinFields
  <2>3. PICK q : q = Claimed(pins[c], pins[c].gen, pins[c].newest)
    OBVIOUS
  <2>4. ClaimedAs(q, pins[c], pins[c].gen, pins[c].newest)
    BY <2>2, <2>3, ClaimedFields
  <2>5. /\ q \in PinStates
        /\ q.gen = pins[c].gen /\ q.visible = pins[c].visible /\ q.newest = pins[c].newest
        /\ q.restoring = pins[c].restoring /\ q.behind = pins[c].behind
        /\ q.settled = pins[c].gen /\ q.stored = pins[c].newest
    BY <2>1, <2>2, <2>4 DEF ClaimedAs
  <2>6. PICK r : r = [q EXCEPT !.pending = None]
    OBVIOUS
  <2>7. Settled(pins[c]) = r
    <3>1. pins[c].pending.gen = pins[c].gen /\ pins[c].pending.state = pins[c].newest
      BY <2>1
    <3> QED
      BY <1>4, <2>3, <2>6, <3>1 DEF Settled
  <2>8. /\ r \in PinStates
        /\ r.gen = pins[c].gen /\ r.visible = pins[c].visible /\ r.newest = pins[c].newest
        /\ r.restoring = pins[c].restoring /\ r.behind = pins[c].behind
        /\ r.settled = pins[c].gen /\ r.stored = pins[c].newest /\ r.pending = None
    BY <2>5, <2>6 DEF PinStates
  <2>9. CASE c \in lost \ shown
    <3>1. PICK s : s = [r EXCEPT !.stored = pins[c].stored]
      OBVIOUS
    <3>2. pins'[c] = s
      BY <1>p, <2>7, <2>9, <3>1
    <3>3. /\ s \in PinStates
          /\ s.gen = r.gen /\ s.visible = r.visible /\ s.newest = r.newest
          /\ s.pending = r.pending /\ s.settled = r.settled
          /\ s.restoring = r.restoring /\ s.behind = r.behind
      BY <2>2, <2>8, <3>1, StoredIs
    <3> QED
      BY <2>1, <2>8, <2>9, <3>2, <3>3
  <2>10. CASE c \notin lost \ shown
    <3>1. pins'[c] = r
      BY <1>p, <2>7, <2>10
    <3> QED
      <4>1. /\ pins'[c] \in PinStates
            /\ pins'[c].gen = r.gen /\ pins'[c].visible = r.visible /\ pins'[c].newest = r.newest
            /\ pins'[c].pending = r.pending /\ pins'[c].settled = r.settled
            /\ pins'[c].restoring = r.restoring /\ pins'[c].behind = r.behind
            /\ pins'[c].stored = r.stored
        BY <2>8, <3>1
      <4> QED
        BY <2>1, <2>8, <4>1
  <2> QED
    BY <2>9, <2>10
<1>5. \A c \in Captures : pins[c].pending = None => pins'[c] = pins[c]
  BY <1>p DEF Settled
<1>6. pins' \in [Captures -> PinStates]
  <2>1. \A c \in Captures : pins'[c] \in PinStates
    BY <1>4, <1>5, PinFields
  <2>2. DOMAIN pins' = Captures /\ pins' = [c \in Captures |-> pins'[c]]
    BY <1>p
  <2> QED
    BY <2>1, <2>2
<1>7. Issued \in Nat /\ Issued' = Issued /\ \A n : Open(n)' => Open(n)
  BY <1>1, Tickets DEF clipboard, Issued, Open
<1>8. Same(CardKinds \union OfPins \union {"share"})
  BY <1>1, PoppedSame DEF OfPins, CardKinds
<1>9. Shaped' /\ Tracked' /\ Fenced'
  BY <1>1, <1>3, <1>6, <1>7, <1>t, WorkerDrops DEF Shaped, captured
<1>10. Linked' /\ Counted' /\ Once' /\ Gated'
  BY <1>1, <1>7, <1>8, LinksAlone, CardsAlone DEF Same, HandAlone
<1>11. \A c \in Captures : Asked(c)' = Asked(c)
  BY <1>8 DEF Asked, Same, Threads
<1>12. \A c \in Captures :
         /\ pins'[c].pending = None
         /\ pins'[c].gen = pins[c].gen /\ pins'[c].visible = pins[c].visible
         /\ pins'[c].newest = pins[c].newest /\ pins'[c].behind = pins[c].behind
         /\ pins'[c].restoring = pins[c].restoring
         /\ pins'[c].settled \in {pins[c].gen, pins[c].settled}
         /\ pins[c].visible \/ pins'[c] = pins[c]
         /\ pins'[c].stored = pins[c].newest \/ c \in lost \/ pins'[c] = pins[c]
         /\ c \in lost => pins[c].pending.gen = pins[c].gen
  BY <1>4, <1>5
<1>13. Woken'
  BY <1>12 DEF Woken
<1>14. Untouched'
  <2>1. ASSUME NEW c \in Captures
        PROVE  /\ pins'[c].settled <= pins'[c].gen
               /\ pins'[c].gen = 0 =>
                    /\ ~pins'[c].visible /\ pins'[c].newest = 0
                    /\ pins'[c].restoring => pins'[c].stored = 0
    <3>1. pins[c].settled \in Nat /\ pins[c].gen \in Nat
      BY PinFields
    <3> QED
      BY <1>12, <3>1 DEF Lagging, Untouched
  <2> QED
    BY <2>1 DEF Untouched
<1>15. Latest'
  BY <1>11, <1>12 DEF Lagging, Latest
<1>16. Promising'
  <2>1. ASSUME NEW c \in Captures, NEW j \in Asked(c), j.gen = pins[c].gen, pins[c].pending # None
        PROVE  pins[c].behind # None
    <3>1. j \in WorkerJobs /\ Ahead(queue["worker"], job, j) /\ j.kind \in OfPins /\ j.capture = c
      <4>1. j \in Asked(c)'
        BY <1>11
      <4> QED
        BY <1>2, <4>1, InChannel DEF Asked
    <3> QED
      BY <1>1, <1>2, <1>4, <2>1, <3>1 DEF InTurn
  <2>2. ASSUME NEW c \in Captures, NEW j \in Asked(c), j.gen = pins[c].gen
        PROVE  Promised(pins'[c], j)
    <3>1. Promised(pins[c], j)
      BY <2>2 DEF Lagging, Promising
    <3>2. pins[c].pending # None => pins[c].behind # None
      BY <2>1, <2>2
    <3> QED
      BY <1>12, <3>1, <3>2 DEF Promised
  <2>3. \A c \in Captures : \A j \in Asked(c)' : j.gen = pins'[c].gen => Promised(pins'[c], j)
    BY <1>11, <1>12, <2>2
  <2> QED
    BY <2>3 DEF Promising, Promised
<1>17. Keeping'
  <2>1. ASSUME NEW c \in Captures, Kept(c, pins[c]) PROVE Kept(c, pins[c])'
    <3>1. CASE pins'[c] = pins[c]
      <4>1. Hearing(Members(failed), c, pins[c]) => Hearing(Members(failed'), c, pins[c])
        BY <1>t DEF Hearing
      <4> QED
        BY <2>1, <3>1, <4>1 DEF Kept
    <3>2. CASE c \in lost
      <4>1. Hearing(Members(failed'), c, pins'[c])
        <5>1. PICK e \in Members(failed') : e = Failure("persistence", c, pins[c].pending.gen)
          BY <1>t, <3>2
        <5>2. pins[c].pending.gen = pins[c].gen /\ pins'[c].gen = pins[c].gen
          BY <1>12, <3>2
        <5>3. e.capture = c /\ e.gen = pins'[c].gen /\ e.kind = "persistence"
          BY <5>1, <5>2 DEF Failure
        <5> QED
          BY <5>1, <5>3 DEF Hearing
      <4> QED
        BY <4>1 DEF Kept
    <3>3. CASE pins'[c] # pins[c] /\ c \notin lost
      <4>1. pins'[c].stored = pins'[c].newest /\ pins'[c].visible /\ pins'[c].newest \in Nat
        BY <1>12, <3>3, PinFields
      <4>2. Shows(pins'[c])
        BY <4>1 DEF Shows, PipelineAssumption
      <4> QED
        BY <4>2 DEF Kept
    <3> QED
      BY <3>1, <3>2, <3>3
  <2> QED
    BY <1>11, <1>12, <2>1 DEF Lagging, Keeping
<1>18. Unpinning'
  BY <1>1, <1>2 DEF Unpinning
<1>19. InTurn'
  <2>1. ASSUME NEW b \in WorkerJobs, b.kind \in OfPins PROVE b.capture \in Captures
    BY <2>1, JobFields
  <2> QED
    BY <1>2, <1>12, <2>1 DEF InTurn
<1> QED
  BY <1>9, <1>10, <1>13, <1>14, <1>15, <1>16, <1>17, <1>18, <1>19 DEF Lagging

-----------------------------------------------------------------------------
(* The worker's steps: its end                                             *)

LEMMA WorkerLeavesKeeps == ASSUME IInv, TurnsTypeOK, WorkerLeaves PROVE IInv'
<1> USE DEF IInv
<1> DEFINE at == [job |-> Resting, step |-> "leaving"]
<1>1. /\ doing["worker"].step = "idle" /\ main.at \in {"worker", "down"}
      /\ queue["worker"] = <<>> /\ doing' = Step("worker", "leaving")
      /\ UNCHANGED <<clipboard, main, queue, captured, shares, pinned, late>>
  BY DEF WorkerLeaves, MayLeave, Stopping
<1>2. doing["worker"].job = Resting
  BY <1>1, Steps
<1>3. at \in WorkerAt /\ doing' = [doing EXCEPT !["worker"] = at]
  BY <1>1, <1>2, StepIs DEF WorkerAt, At, Threads
<1>4. /\ doing' \in [Threads -> AcquisitionAt \union WorkerAt \union UploadsAt]
      /\ doing'["acquisition"] \in AcquisitionAt
      /\ doing'["worker"] \in WorkerAt
      /\ doing'["uploads"] \in UploadsAt
      /\ doing'["worker"] = at
      /\ \A u \in Threads : u # "worker" => doing'[u] = doing[u]
  BY <1>3, Moves DEF Threads
<1>5. /\ doing'["worker"].job = Resting /\ doing'["worker"].step = "leaving"
      /\ Resting.turn = 0 /\ Resting.kind = "none"
  BY <1>4 DEF Resting
<1> HIDE DEF at
<1>6. Shaped'
  BY <1>1, <1>4 DEF Shaped, captured, pinned
<1>7. Fenced'
  BY <1>1, <1>4, <1>5, NoJobs DEF Fenced, Stopped, Cancelled, Threads
<1>8. Same(OfPins \union CardKinds \union {"flush", "share"})
  BY <1>1 DEF Same
<1>9. Issued \in Nat /\ Issued' = Issued /\ fate' = fate
  BY <1>1, Tickets DEF clipboard, Issued
<1>10. Unpinning' /\ Lagging' /\ InTurn' /\ Linked'
  BY <1>1, <1>8, <1>9, PinsAlone, LinksAlone DEF Same
<1>11. Counted' /\ Once' /\ Gated'
  BY <1>1, <1>2, <1>4, <1>5, <1>8, CardsAlone DEF Same, HandAlone, CardKinds, Threads
<1>12. Tracked'
  <2>1. \A u \in Threads : Jobs(u)' = Jobs(u)
    BY <1>1, <1>2, <1>4, <1>5, Hands DEF Threads
  <2>2. \A u \in Threads : doing'[u].step \in {"send", "publish"} => doing'[u] = doing[u]
    BY <1>4, <1>5
  <2>3. \A n \in DOMAIN fate' : Open(n)' => Holds(n)'
    BY <1>1, <1>9, <2>1 DEF Tracked, Holds, Open
  <2> QED
    BY <1>1, <1>9, <2>1, <2>2, <2>3 DEF Tracked, Open
<1> QED
  BY <1>6, <1>7, <1>10, <1>11, <1>12

LEMMA WorkerGoneKeeps == ASSUME IInv, TurnsTypeOK, WorkerGone PROVE IInv'
<1> USE DEF IInv
<1> DEFINE at == [job |-> Resting, step |-> "stopped"]
           dropped == {j.card : j \in Members(queue["worker"])}
<1>1. /\ doing["worker"].step = "leaving" /\ doing' = Step("worker", "stopped")
      /\ queue' = [queue EXCEPT !["worker"] = <<>>]
      /\ UNCHANGED <<clipboard, main, busy, shares, pinned, late>>
  BY DEF WorkerGone
<1>2. /\ Members(queue["worker"]) \subseteq Finalizations
      /\ \A j \in Members(queue["worker"]) : j.kind = "finalize" /\ j.turn = 0
  BY <1>1 DEF Fenced, Finalizations
<1>3. /\ frames' = frames - Cardinality(dropped)
      /\ cards' = [c \in DOMAIN cards |-> IF c \in dropped THEN "lost" ELSE cards[c]]
  <2>1. dropped = {queue["worker"][i].card : i \in
                    {i \in DOMAIN queue["worker"] : queue["worker"][i].kind = "finalize"}}
    BY <1>2 DEF Members
  <2> QED
    BY <2>1 DEF WorkerGone, Freed
<1>4. /\ queue' \in [Threads -> Seq(AcquisitionJobs \union WorkerJobs)]
      /\ queue'["worker"] = <<>> /\ queue'["worker"] \in Seq(WorkerJobs)
      /\ queue'["acquisition"] = queue["acquisition"]
      /\ queue'["uploads"] = queue["uploads"]
      /\ Members(queue'["worker"]) = {} /\ \A a, b : ~Ahead(queue'["worker"], a, b)
  <2>1. /\ queue \in [Threads -> Seq(AcquisitionJobs \union WorkerJobs)]
        /\ <<>> \in Seq(AcquisitionJobs \union WorkerJobs) /\ <<>> \in Seq(WorkerJobs)
    BY DEF Shaped
  <2> QED
    BY <1>1, <2>1, NoJobs DEF Threads
<1>5. doing["worker"].job = Resting
  BY <1>1, Steps
<1>6. at \in WorkerAt /\ doing' = [doing EXCEPT !["worker"] = at]
  BY <1>1, <1>5, StepIs DEF WorkerAt, At, Threads
<1>7. /\ doing' \in [Threads -> AcquisitionAt \union WorkerAt \union UploadsAt]
      /\ doing'["acquisition"] \in AcquisitionAt
      /\ doing'["worker"] \in WorkerAt
      /\ doing'["uploads"] \in UploadsAt
      /\ doing'["worker"] = at
      /\ \A u \in Threads : u # "worker" => doing'[u] = doing[u]
  BY <1>6, Moves DEF Threads
<1>8. /\ doing'["worker"].job = Resting /\ doing'["worker"].step = "stopped"
      /\ Resting.turn = 0 /\ Resting.kind = "none"
  BY <1>7 DEF Resting
<1> HIDE DEF at
<1>9. /\ dropped \subseteq Flight /\ \A n \in dropped : cards[n] \in {"queued", "ready"}
      /\ dropped # {} => late
  <2>1. \A n \in dropped : n \in DOMAIN cards /\ cards[n] \in {"queued", "ready"}
    BY <1>2 DEF Counted, Threads
  <2>2. ~late => dropped = {}
    BY <1>1, NoJobs DEF Fenced
  <2> QED
    BY <2>1, <2>2 DEF Flight
<1>10. \A n : Finalizing(n) => n \in dropped
  BY <1>2, <1>5, <1>8, Hands DEF Finalizing
<1> HIDE DEF dropped
<1>11. /\ cards' \in Seq(CardStates) /\ DOMAIN cards' = DOMAIN cards
       /\ \A n \in DOMAIN cards : cards'[n] = IF n \in dropped THEN "lost" ELSE cards[n]
  <2>1. /\ cards \in Seq(CardStates) /\ Len(cards) \in Nat /\ DOMAIN cards = 1..Len(cards)
        /\ \A n \in DOMAIN cards : cards[n] \in CardStates
    BY LenProperties, ElementOfSeq DEF Shaped
  <2>2. \A n \in 1..Len(cards) : (IF n \in dropped THEN "lost" ELSE cards[n]) \in CardStates
    BY <2>1 DEF CardStates
  <2>3. cards' = [n \in 1..Len(cards) |-> IF n \in dropped THEN "lost" ELSE cards[n]]
    BY <1>3, <2>1
  <2>4. cards' \in Seq(CardStates)
    BY <2>1, <2>2, <2>3
  <2> QED
    BY <2>1, <2>3, <2>4
<1>12. frames' \in Nat /\ frames' = Cardinality(Flight') /\ frames' <= MaxFrames
  <2>1. Flight' = Flight \ dropped
    BY <1>9, <1>11 DEF Flight
  <2>2. IsFiniteSet(Flight) /\ frames = Cardinality(Flight) /\ frames \in Nat /\ frames <= MaxFrames
    BY FlightFinite DEF Counted, Shaped
  <2>3. /\ IsFiniteSet(dropped) /\ Cardinality(dropped) \in Nat
        /\ Cardinality(dropped) <= Cardinality(Flight)
    BY <1>9, <2>2, FS_Subset, FS_CardinalityType
  <2>4. Cardinality(Flight \ dropped) = Cardinality(Flight) - Cardinality(Flight \intersect dropped)
    BY <2>2, FS_Difference
  <2>5. Flight \intersect dropped = dropped
    BY <1>9
  <2>6. MaxFrames \in Nat
    BY DEF PipelineAssumption
  <2>7. Cardinality(Flight') = frames - Cardinality(dropped)
    BY <2>1, <2>2, <2>4, <2>5
  <2>8. frames - Cardinality(dropped) \in Nat /\ frames - Cardinality(dropped) <= MaxFrames
    BY <2>2, <2>3, <2>6
  <2> QED
    BY <1>3, <2>7, <2>8
<1>13. Shaped'
  BY <1>1, <1>4, <1>7, <1>11, <1>12 DEF Shaped, pinned
<1>14. Jobs("acquisition")' = Jobs("acquisition")
  BY <1>4, <1>7, Hands DEF Threads
<1>15. Counted'
  <2>1. ASSUME NEW n \in DOMAIN cards'
        PROVE /\ cards'[n] = "admitted" => Taking(n)'
              /\ cards'[n] \in {"queued", "ready"} => Finalizing(n)'
              /\ cards'[n] = "lost" => late'
    <3>1. Taking(n) => Taking(n)'
      BY <1>2, <1>5, <1>8, <1>14, Hands DEF Taking, Capturing
    <3>2. cards'[n] \in {"queued", "ready"} => Finalizing(n) /\ n \notin dropped
      BY <1>11 DEF Counted
    <3>3. cards'[n] = "lost" => late'
      BY <1>1, <1>9, <1>11 DEF Counted
    <3>4. cards'[n] = "admitted" => cards[n] = "admitted"
      BY <1>11
    <3> QED
      BY <1>10, <1>11, <3>1, <3>2, <3>3, <3>4 DEF Counted
  <2>2. \A n \in DOMAIN cards : cards[n] \in {"admitted", "lost"} => cards'[n] = cards[n]
    BY <1>9, <1>11
  <2>3. ASSUME NEW t \in Threads, NEW j \in Members(queue'[t])
        PROVE  /\ j.kind \in Capturing => j.card \in DOMAIN cards' /\ cards'[j.card] = "admitted"
               /\ j.kind # "finalize"
    <3>1. j \in Members(queue[t]) /\ t # "worker"
      BY <1>4, <2>3 DEF Threads
    <3>2. j.kind # "finalize"
      BY <3>1, Channels DEF AcquisitionJobs, CaptureJobs, NetworkJobs, UploadJobs, StopJob, Threads
    <3> QED
      BY <1>11, <2>2, <3>1, <3>2 DEF Counted
  <2>4. doing'["acquisition"].job.kind = "capture" =>
          /\ doing'["acquisition"].job.card \in DOMAIN cards'
          /\ cards'[doing'["acquisition"].job.card] \in
               IF doing'["acquisition"].step = "publish" THEN {"queued", "lost"} ELSE {"admitted"}
    BY <1>7, <1>11, <2>2 DEF Counted, Threads
  <2> QED
    BY <1>8, <1>12, <2>1, <2>3, <2>4 DEF Counted
<1>16. Once' /\ Gated'
  BY <1>1, <1>4, <1>7, <1>8, <1>14 DEF Once, Gated, Threads
<1>17. Issued \in Nat /\ Issued' = Issued /\ fate' = fate /\ main' = main
  BY <1>1, Tickets DEF clipboard, Issued
<1>18. Unpinning' /\ Lagging' /\ InTurn' /\ Linked'
  <2>1. Same(OfPins \union {"flush", "share"})
    BY <1>2, <1>4 DEF Same, OfPins, Threads
  <2> QED
    BY <1>1, <1>17, <2>1, PinsAlone, LinksAlone DEF Same
<1>19. Fenced'
  BY <1>1, <1>4, <1>7, <1>8 DEF Fenced, Stopped, Cancelled, Threads
<1>20. Tracked'
  <2>1. \A u \in Threads : \A j \in Jobs(u)' : j \in Jobs(u)
    BY <1>4, <1>5, <1>7, <1>8, Hands DEF Threads
  <2>2. ASSUME NEW n, Open(n)' PROVE Holds(n)'
    <3>1. Open(n) /\ Holds(n) /\ n # 0
      BY <1>17, <2>2, Tickets DEF Tracked, Open
    <3>2. \A u \in Threads : \A j \in Jobs(u) : j.turn = 0 \/ j \in Jobs(u)'
      BY <1>2, <1>4, <1>5, <1>7, <1>8, Hands DEF Threads
    <3> QED
      BY <1>17, <3>1, <3>2 DEF Holds
  <2>3. \A u \in Threads : doing'[u].step \in {"send", "publish"} => doing'[u] = doing[u]
    BY <1>7, <1>8
  <2> QED
    BY <1>17, <2>1, <2>2, <2>3 DEF Tracked, Open
<1> QED
  BY <1>13, <1>15, <1>16, <1>18, <1>19, <1>20

-----------------------------------------------------------------------------
(* The upload thread's steps                                               *)

\* What the upload thread does concerns its own job, and may send a link.
LEMMA UploadsOnly ==
  ASSUME IInv, NEW at \in UploadsAt, doing' = [doing EXCEPT !["uploads"] = at],
         queue' \in [Threads -> Seq(AcquisitionJobs \union WorkerJobs)],
         queue'["acquisition"] = queue["acquisition"], queue'["worker"] = queue["worker"],
         queue'["uploads"] \in Seq(NetworkJobs),
         Members(queue'["uploads"]) \subseteq Members(queue["uploads"]),
         Issued \in Nat, Issued' = Issued, \A n : Open(n)' => Open(n) /\ n # 0,
         at.job \in Jobs("uploads") \union {Resting}, at.step \notin {"send", "publish"},
         \A j \in Jobs("uploads") : j.turn = 0 \/ j = at.job \/ j \in Members(queue'["uploads"])
                                      \/ ~Open(j.turn)',
         UNCHANGED <<main, captured, shares, pinned, late>>
  PROVE  /\ Shaped' /\ Tracked' /\ Unpinning' /\ Linked' /\ Counted' /\ Once' /\ Gated'
         /\ Lagging' /\ InTurn'
         /\ doing'["uploads"] = at
         /\ doing'["worker"] = doing["worker"] /\ doing'["acquisition"] = doing["acquisition"]
<1> USE DEF IInv
<1>1. /\ doing' \in [Threads -> AcquisitionAt \union WorkerAt \union UploadsAt]
      /\ doing'["acquisition"] \in AcquisitionAt
      /\ doing'["worker"] \in WorkerAt
      /\ doing'["uploads"] \in UploadsAt
      /\ doing'["uploads"] = at
      /\ \A u \in Threads : u # "uploads" => doing'[u] = doing[u]
  BY Moves DEF Threads
<1>2. Shaped'
  BY <1>1 DEF Shaped, captured, pinned
<1>3. Same(OfPins \union CardKinds \union {"flush", "share"})
  <2>1. /\ queue["uploads"] \in Seq(NetworkJobs)
        /\ \A j \in NetworkJobs : j.kind \in {"upload", "stop"}
    BY DEF Shaped, NetworkJobs, UploadJobs, StopJob
  <2>2. /\ \A j \in Members(queue["uploads"]) : j.kind \in {"upload", "stop"}
        /\ \A j \in Members(queue'["uploads"]) : j.kind \in {"upload", "stop"}
    BY <2>1, InChannel
  <2>3. \A a, b : Ahead(queue'["uploads"], a, b) => a.kind \in {"upload", "stop"}
    BY <2>2, AheadInChannel
  <2> QED
    BY <2>2, <2>3 DEF Same, OfPins, CardKinds, Threads
<1>4. Unpinning' /\ Lagging' /\ InTurn' /\ Linked'
  BY <1>3, PinsAlone, LinksAlone DEF Same
<1>5. doing'["worker"] = doing["worker"] /\ doing'["acquisition"] = doing["acquisition"]
  BY <1>1 DEF Threads
<1>6. Counted' /\ Once' /\ Gated'
  BY <1>3, <1>5, CardsAlone DEF Same, HandAlone
<1>7. Tracked'
  <2>1. /\ Jobs("worker")' = Jobs("worker") /\ Jobs("acquisition")' = Jobs("acquisition")
        /\ Jobs("uploads")' = Members(queue'["uploads"]) \union {at.job}
    BY <1>1, <1>5, Hands
  <2>2. \A u \in Threads : \A j \in Jobs(u)' : j.turn <= Issued'
    <3>1. \A j \in Jobs("uploads")' : j \in Jobs("uploads") \/ j = Resting
      BY <2>1, Hands
    <3>2. Resting.turn = 0
      BY DEF Resting
    <3> QED
      BY <2>1, <3>1, <3>2 DEF Tracked, Threads
  <2>3. ASSUME NEW n, Open(n)' PROVE Holds(n)'
    <3>1. Open(n) /\ Holds(n) /\ n # 0
      BY <2>3 DEF Tracked, Open
    <3>2. \A u \in Threads : \A j \in Jobs(u) : j.turn # n \/ j \in Jobs(u)'
      BY <2>1, <2>3, <3>1 DEF Threads
    <3> QED
      BY <3>1, <3>2 DEF Holds
  <2>4. \A u \in Threads : doing'[u].step \in {"send", "publish"} => doing'[u] = doing[u]
    BY <1>1
  <2>5. ASSUME NEW u \in Threads, doing'[u].step \in {"send", "publish"}
        PROVE  \A n : n = doing'[u].job.turn => ~Open(n)'
    <3>1. doing'[u] = doing[u] /\ ~Open(doing[u].job.turn)
      BY <2>4, <2>5 DEF Tracked
    <3> QED
      BY <3>1
  <2> QED
    BY <2>2, <2>3, <2>5 DEF Tracked, Open
<1> QED
  BY <1>1, <1>2, <1>4, <1>5, <1>6, <1>7

LEMMA UploadsNextKeeps == ASSUME IInv, TurnsTypeOK, UploadsNext PROVE IInv'
<1> USE DEF IInv
<1> PICK job : job = Head(queue["uploads"])
  OBVIOUS
<1>1. /\ doing["uploads"].step = "idle" /\ queue["uploads"] # <<>>
      /\ UNCHANGED <<main, captured, shares, pinned, late>>
  BY DEF UploadsNext, Idle
<1>2. /\ queue \in [Threads -> Seq(AcquisitionJobs \union WorkerJobs)]
      /\ queue["uploads"] \in Seq(NetworkJobs)
      /\ <<>> \in Seq(AcquisitionJobs \union WorkerJobs) /\ <<>> \in Seq(NetworkJobs)
  BY DEF Shaped
<1>3. /\ job \in NetworkJobs /\ Tail(queue["uploads"]) \in Seq(NetworkJobs)
      /\ Members(queue["uploads"]) = Members(Tail(queue["uploads"])) \union {job}
  BY <1>1, <1>2, PoppedJobs
<1>4. doing["uploads"].job = Resting /\ Resting.turn = 0
  BY <1>1, Steps DEF Resting
<1>5. Jobs("uploads") = Members(queue["uploads"]) \union {Resting}
  BY <1>4, Hands
<1>6. CASE job.kind = "stop" \/ Cancelled
  <2> DEFINE at == [job |-> Resting, step |-> "stopped"]
  <2>1. /\ doing' = [doing EXCEPT !["uploads"] = at]
        /\ queue' = [queue EXCEPT !["uploads"] = <<>>]
        /\ Retired(Turns(queue["uploads"]))
    BY <1>6 DEF UploadsNext, Now
  <2>2. at \in UploadsAt /\ at.job = Resting /\ at.step = "stopped"
    BY DEF UploadsAt, At
  <2> HIDE DEF at
  <2>3. /\ queue' \in [Threads -> Seq(AcquisitionJobs \union WorkerJobs)]
        /\ queue'["uploads"] = <<>> /\ queue'["uploads"] \in Seq(NetworkJobs)
        /\ queue'["acquisition"] = queue["acquisition"] /\ queue'["worker"] = queue["worker"]
        /\ Members(queue'["uploads"]) = {}
    BY <1>2, <2>1, NoJobs DEF Threads
  <2>4. /\ Issued \in Nat /\ Issued' = Issued
        /\ \A n : Open(n)' => Open(n) /\ n \notin Turns(queue["uploads"])
    BY <2>1, RetiredCloses
  <2>5. \A j \in Members(queue["uploads"]) : j.turn = 0 \/ j.turn \in Turns(queue["uploads"])
    BY DEF Members, Turns
  <2>6. \A n : Open(n)' => Open(n) /\ n # 0
    BY <2>4, Tickets DEF Open
  <2>7. \A j \in Jobs("uploads") : j.turn = 0 \/ ~Open(j.turn)'
    <3>1. \A n : n \in Turns(queue["uploads"]) => ~Open(n)'
      BY <2>4
    <3>2. ASSUME NEW j \in Jobs("uploads"), j.turn # 0 PROVE ~Open(j.turn)'
      <4>1. j.turn \in Turns(queue["uploads"])
        BY <1>4, <1>5, <2>5, <3>2
      <4> QED
        BY <3>1, <4>1
    <3> QED
      BY <3>2
  <2>8. /\ Shaped' /\ Tracked' /\ Unpinning' /\ Linked' /\ Counted' /\ Once' /\ Gated'
        /\ Lagging' /\ InTurn'
        /\ doing'["uploads"] = at
        /\ doing'["worker"] = doing["worker"] /\ doing'["acquisition"] = doing["acquisition"]
    BY <1>1, <2>1, <2>2, <2>3, <2>4, <2>6, <2>7, UploadsOnly
  <2>9. Fenced'
    <3>1. Cancelled
      BY <1>3, <1>6 DEF Fenced, NetworkJobs, UploadJobs
    <3> QED
      BY <1>1, <2>2, <2>3, <2>8, <3>1 DEF Fenced, Stopped, Cancelled
  <2> QED
    BY <2>8, <2>9
<1>7. CASE ~(job.kind = "stop" \/ Cancelled)
  <2> DEFINE at == [job |-> job, step |-> "network"]
  <2>1. /\ doing' = [doing EXCEPT !["uploads"] = at]
        /\ queue' = Popped("uploads") /\ UNCHANGED clipboard
    BY <1>7 DEF UploadsNext, Now
  <2>2. at \in UploadsAt /\ at.job = job /\ at.step = "network"
    BY <1>3, <1>7 DEF UploadsAt, At, NetworkJobs, StopJob
  <2> HIDE DEF at
  <2>3. /\ queue' \in [Threads -> Seq(AcquisitionJobs \union WorkerJobs)]
        /\ queue'["uploads"] = Tail(queue["uploads"]) /\ queue'["uploads"] \in Seq(NetworkJobs)
        /\ queue'["acquisition"] = queue["acquisition"] /\ queue'["worker"] = queue["worker"]
    <3>1. Tail(queue["uploads"]) \in Seq(AcquisitionJobs \union WorkerJobs)
      <4>1. NetworkJobs \subseteq AcquisitionJobs \union WorkerJobs
        BY DEF NetworkJobs, AcquisitionJobs, WorkerJobs
      <4> QED
        BY <1>3, <4>1
    <3> QED
      BY <1>2, <1>3, <2>1, <3>1 DEF Popped, Threads
  <2>4. Issued \in Nat /\ Issued' = Issued /\ fate' = fate /\ \A n : Open(n)' => Open(n) /\ n # 0
    BY <2>1, Tickets DEF clipboard, Issued, Open
  <2>5. Members(queue["uploads"]) = Members(queue'["uploads"]) \union {job}
    BY <1>3, <2>3
  <2>6. /\ Shaped' /\ Tracked' /\ Unpinning' /\ Linked' /\ Counted' /\ Once' /\ Gated'
        /\ Lagging' /\ InTurn'
        /\ doing'["uploads"] = at
        /\ doing'["worker"] = doing["worker"] /\ doing'["acquisition"] = doing["acquisition"]
    <3>1. at.job \in Jobs("uploads") /\ Members(queue'["uploads"]) \subseteq Members(queue["uploads"])
      BY <1>5, <2>2, <2>5
    <3>2. \A j \in Jobs("uploads") : j.turn = 0 \/ j = at.job \/ j \in Members(queue'["uploads"])
      BY <1>4, <1>5, <2>2, <2>5
    <3> QED
      BY <1>1, <2>1, <2>2, <2>3, <2>4, <3>1, <3>2, UploadsOnly
  <2>7. Fenced'
    BY <1>1, <1>7, <2>2, <2>3, <2>5, <2>6 DEF Fenced, Stopped, Cancelled
  <2> QED
    BY <2>6, <2>7
<1> QED
  BY <1>6, <1>7

LEMMA UploadFailsKeeps == ASSUME IInv, TurnsTypeOK, UploadFails PROVE IInv'
<1> USE DEF IInv
<1> DEFINE at == [job |-> Resting, step |-> "idle"]
<1>1. /\ doing["uploads"].step = "network" /\ doing' = [doing EXCEPT !["uploads"] = at]
      /\ Retired({doing["uploads"].job.turn})
      /\ UNCHANGED <<main, queue, captured, shares, pinned, late>>
  BY DEF UploadFails, Done, Now
<1>2. at \in UploadsAt /\ at.job = Resting /\ at.step = "idle"
  BY DEF UploadsAt, At
<1> HIDE DEF at
<1>3. /\ queue \in [Threads -> Seq(AcquisitionJobs \union WorkerJobs)]
      /\ queue["uploads"] \in Seq(NetworkJobs)
  BY DEF Shaped
<1>4. /\ Issued \in Nat /\ Issued' = Issued
      /\ \A n : Open(n)' => Open(n) /\ n # doing["uploads"].job.turn
  BY <1>1, RetiredCloses
<1>5. \A n : Open(n)' => Open(n) /\ n # 0
  BY <1>4, Tickets DEF Open
<1>6. \A n : n = doing["uploads"].job.turn => ~Open(n)'
  BY <1>4
<1>7. \A j \in Jobs("uploads") : j \in Members(queue'["uploads"]) \/ ~Open(j.turn)'
  <2>1. ASSUME NEW j \in Jobs("uploads"), j \notin Members(queue'["uploads"]) PROVE ~Open(j.turn)'
    <3>1. j.turn = doing["uploads"].job.turn
      BY <1>1, <2>1, Hands
    <3> QED
      BY <1>6, <3>1
  <2> QED
    BY <2>1
<1>8. /\ Shaped' /\ Tracked' /\ Unpinning' /\ Linked' /\ Counted' /\ Once' /\ Gated'
      /\ Lagging' /\ InTurn'
      /\ doing'["uploads"] = at
      /\ doing'["worker"] = doing["worker"] /\ doing'["acquisition"] = doing["acquisition"]
  BY <1>1, <1>2, <1>3, <1>4, <1>5, <1>7, UploadsOnly
<1>9. Fenced'
  BY <1>1, <1>2, <1>8 DEF Fenced, Stopped, Cancelled
<1> QED
  BY <1>8, <1>9

LEMMA UploadsKeeps == ASSUME IInv, TurnsTypeOK, Uploads PROVE IInv'
<1> USE DEF IInv
<1> DEFINE mine == doing["uploads"].job
           n == mine.turn
           at == [job |-> mine, step |-> "turn"]
           job == [kind |-> "share", turn |-> 0, link |-> n]
<1>1. /\ doing["uploads"].step = "network" /\ doing' = [doing EXCEPT !["uploads"] = at]
      /\ \/ /\ shares' = [shares EXCEPT !.linked = @ \union {n}]
            /\ queue' = Sent("worker", job)
         \/ UNCHANGED <<shares, queue>>
      /\ UNCHANGED <<clipboard, main, captured, pinned, late>>
  BY StepIs DEF Uploads, Threads
<1>2. mine \in UploadJobs /\ n \in Nat \ {0}
  BY <1>1, Steps DEF UploadJobs, Resting
<1>3. /\ at \in UploadsAt /\ at.job = mine /\ at.step = "turn"
      /\ job \in WorkerJobs /\ job.kind = "share" /\ job.link = n /\ job.turn = 0
  BY <1>2 DEF UploadsAt, At, WorkerJobs, ShareJobs
<1>4. /\ Issued \in Nat /\ Issued' = Issued /\ fate' = fate /\ n \in 1..Issued
  BY <1>1, <1>2, Tickets, Hands DEF clipboard, Issued, Tracked, Threads
<1> HIDE DEF job, at
<1>5. /\ doing' \in [Threads -> AcquisitionAt \union WorkerAt \union UploadsAt]
      /\ doing'["acquisition"] \in AcquisitionAt
      /\ doing'["worker"] \in WorkerAt
      /\ doing'["uploads"] \in UploadsAt
      /\ doing'["uploads"] = at
      /\ \A u \in Threads : u # "uploads" => doing'[u] = doing[u]
  BY <1>1, <1>3, Moves DEF Threads
<1>6. /\ queue' \in [Threads -> Seq(AcquisitionJobs \union WorkerJobs)]
      /\ queue'["worker"] \in Seq(WorkerJobs)
      /\ queue'["acquisition"] = queue["acquisition"]
      /\ queue'["uploads"] = queue["uploads"]
      /\ Members(queue["worker"]) \subseteq Members(queue'["worker"])
      /\ Members(queue'["worker"]) \subseteq Members(queue["worker"]) \union {job}
      /\ \A a, b : Ahead(queue'["worker"], a, b) =>
           Ahead(queue["worker"], a, b) \/ (a \in Members(queue["worker"]) /\ b = job)
  <2>1. CASE queue' = queue
    BY <2>1, <1>1 DEF Shaped
  <2>2. CASE queue' = Sent("worker", job)
    BY <1>3, <2>2, WorkerGets
  <2> QED
    BY <1>1, <2>1, <2>2
<1>16. queue' = Sent("worker", job) => job \in Members(queue'["worker"])
  BY <1>3, WorkerGets
<1>7. /\ shares' \in [linked : SUBSET Nat, remembered : SUBSET Nat]
      /\ shares'.remembered = shares.remembered
      /\ \/ shares'.linked = shares.linked
         \/ shares'.linked = shares.linked \union {n} /\ job \in Members(queue'["worker"])
  <2>1. shares \in [linked : SUBSET Nat, remembered : SUBSET Nat]
    BY DEF Shaped
  <2>2. CASE shares' = [shares EXCEPT !.linked = @ \union {n}] /\ queue' = Sent("worker", job)
    BY <1>2, <1>16, <2>1, <2>2
  <2>3. CASE shares' = shares
    BY <2>1, <2>3
  <2> QED
    BY <1>1, <2>2, <2>3
<1>8. Shaped'
  BY <1>1, <1>5, <1>6, <1>7 DEF Shaped, captured, pinned
<1>9. Same(OfPins \union CardKinds \union {"flush"})
  BY <1>3, <1>6 DEF Same, OfPins, CardKinds, Threads
<1>10. Unpinning' /\ Lagging' /\ InTurn'
  BY <1>1, <1>9, PinsAlone DEF Same
<1>11. doing'["worker"] = doing["worker"] /\ doing'["acquisition"] = doing["acquisition"]
  BY <1>5 DEF Threads
<1>12. Counted' /\ Once' /\ Gated'
  BY <1>1, <1>9, <1>11, CardsAlone DEF Same, HandAlone
<1>13. Linked'
  <2>1. shares'.linked \subseteq 1..Issued' /\ shares'.remembered \subseteq shares'.linked
    BY <1>4, <1>7 DEF Linked
  <2>2. \A j \in Members(queue'["worker"]) : j.kind = "share" => j.link \in shares'.linked
    <3>1. CASE queue' = queue
      BY <1>7, <3>1 DEF Linked
    <3>2. CASE shares' = [shares EXCEPT !.linked = @ \union {n}]
      <4>1. n \in shares'.linked
        BY <3>2 DEF Shaped
      <4> QED
        BY <1>3, <1>6, <1>7, <4>1 DEF Linked
    <3> QED
      BY <1>1, <3>1, <3>2
  <2>3. ASSUME NEW m \in shares'.linked
        PROVE  m \in shares'.remembered
                 \/ \E j \in Members(queue'["worker"]) : j.kind = "share" /\ j.link = m
    <3>1. CASE m \in shares.linked
      BY <1>6, <1>7, <3>1 DEF Linked
    <3>2. CASE m \notin shares.linked
      BY <1>3, <1>7, <2>3, <3>2
    <3> QED
      BY <3>1, <3>2
  <2> QED
    BY <2>1, <2>2, <2>3 DEF Linked
<1>14. Fenced'
  <2>1. doing["worker"].step \notin {"leaving", "stopped"}
    BY <1>1 DEF Fenced, Stopped
  <2>2. job # StopJob
    BY <1>3 DEF StopJob
  <2> QED
    BY <1>1, <1>3, <1>5, <1>6, <1>11, <2>1, <2>2 DEF Fenced, Stopped, Cancelled
<1>15. Tracked'
  <2>1. \A u \in Threads : \A j \in Jobs(u)' : j \in Jobs(u) \/ j.turn = 0
    BY <1>3, <1>5, <1>6, <1>11, Hands DEF Threads
  <2>2. \A u \in Threads : Jobs(u) \subseteq Jobs(u)'
    BY <1>3, <1>5, <1>6, <1>11, Hands DEF Threads
  <2>3. \A u \in Threads : \A j \in Jobs(u)' : j.turn <= Issued'
    BY <1>4, <2>1 DEF Tracked
  <2>4. \A m \in DOMAIN fate' : Open(m)' => Holds(m)'
    BY <1>1, <1>4, <2>2 DEF Tracked, Open, Holds
  <2>5. \A u \in Threads : doing'[u].step \in {"send", "publish"} => doing'[u] = doing[u]
    BY <1>3, <1>5
  <2> QED
    BY <1>1, <1>4, <2>3, <2>4, <2>5 DEF Tracked, Open
<1> QED
  BY <1>8, <1>10, <1>12, <1>13, <1>14, <1>15

-----------------------------------------------------------------------------
(* Every step keeps the invariant                                          *)

LEMMA InitKeeps == Init => IInv
<1> SUFFICES ASSUME Init PROVE IInv
  OBVIOUS
<1>1. /\ fate = <<>> /\ main = [at |-> "running", turn |-> 0]
      /\ queue = [t \in Threads |-> <<>>]
      /\ doing = [t \in Threads |-> [job |-> Resting, step |-> "idle"]]
      /\ frames = 0 /\ busy = FALSE /\ cards = <<>> /\ late = FALSE /\ failed = <<>>
      /\ shares = [linked |-> {}, remembered |-> {}]
  BY DEF Init, ClipboardInit
<1>2. PICK there \in SUBSET Captures : pins = [c \in Captures |-> Restored(c \in there)]
  BY DEF Init
<1>3. \A t \in Threads : /\ queue[t] = <<>> /\ Members(queue[t]) = {}
                         /\ \A a, b : ~Ahead(queue[t], a, b)
                         /\ doing[t].job = Resting /\ doing[t].step = "idle"
                         /\ Jobs(t) = {Resting}
  BY <1>1, NoJobs, Hands
<1>4. ASSUME NEW c \in Captures
      PROVE  /\ pins[c] \in PinStates
             /\ pins[c].gen = 0 /\ ~pins[c].visible /\ pins[c].newest = 0 /\ pins[c].pending = None
             /\ pins[c].settled = 0
             /\ pins[c].restoring => pins[c].stored = 0
  <2>1. CASE c \in there
    <3>1. pins[c] = Restored(TRUE)
      BY <1>2, <2>1 DEF Restored
    <3> QED
      BY <3>1 DEF Restored, PinStates
  <2>2. CASE c \notin there
    <3>1. pins[c] = Restored(FALSE)
      <4>1. (c \in there) = FALSE
        BY <2>2
      <4>2. pins[c] = Restored(c \in there)
        BY <1>2, Zenon
      <4> QED
        BY <4>1, <4>2, Zenon
    <3> QED
      BY <3>1 DEF Restored, PinStates
  <2> QED
    BY <2>1, <2>2
<1>5. Shaped
  <2>1. /\ [job |-> Resting, step |-> "idle"] \in AcquisitionAt
        /\ [job |-> Resting, step |-> "idle"] \in WorkerAt
        /\ [job |-> Resting, step |-> "idle"] \in UploadsAt
    BY DEF AcquisitionAt, WorkerAt, UploadsAt, At
  <2>2. pins \in [Captures -> PinStates]
    BY <1>2, <1>4
  <2>3. /\ queue \in [Threads -> Seq(AcquisitionJobs \union WorkerJobs)]
        /\ queue["acquisition"] \in Seq(AcquisitionJobs)
        /\ queue["worker"] \in Seq(WorkerJobs)
        /\ queue["uploads"] \in Seq(NetworkJobs)
    BY <1>1 DEF Threads
  <2>4. /\ doing \in [Threads -> AcquisitionAt \union WorkerAt \union UploadsAt]
        /\ doing["acquisition"] \in AcquisitionAt
        /\ doing["worker"] \in WorkerAt
        /\ doing["uploads"] \in UploadsAt
    BY <1>1, <2>1 DEF Threads
  <2>5. main \in [at : Stages, turn : Nat]
    BY <1>1 DEF Stages
  <2>6. /\ shares \in [linked : SUBSET Nat, remembered : SUBSET Nat]
        /\ frames \in Nat /\ busy \in BOOLEAN /\ late \in BOOLEAN
    BY <1>1
  <2>7. cards \in Seq(CardStates) /\ failed \in Seq(Refusals)
    BY <1>1
  <2> QED
    BY <2>2, <2>3, <2>4, <2>5, <2>6, <2>7 DEF Shaped
<1>6. Tracked
  <2>1. Len(<<>>) = 0 /\ DOMAIN <<>> = {}
    BY EmptySeq
  <2> QED
    BY <1>1, <1>3, <2>1 DEF Tracked, Issued, Resting, Open
<1>7. Fenced
  BY <1>1, <1>3 DEF Fenced, Stopped, Threads
<1>8. Unpinning /\ Once /\ InTurn
  BY <1>3 DEF Unpinning, Once, InTurn, Threads, Resting
<1>9. Linked
  BY <1>1 DEF Linked, Threads, Members
<1>10. Counted
  <2>1. Flight = {} /\ DOMAIN cards = {}
    BY <1>1 DEF Flight
  <2> QED
    BY <1>1, <1>3, <2>1, FS_EmptySet DEF Counted, Threads, Resting, PipelineAssumption
<1>11. Gated
  BY <1>1, <1>3 DEF Gated, Threads, Resting
<1>12. Lagging
  <2>1. \A c \in Captures : Asked(c) = {}
    BY <1>3 DEF Asked, Threads
  <2> QED
    BY <1>4, <2>1 DEF Lagging, Woken, Untouched, Latest, Promising, Keeping
<1> QED
  BY <1>5, <1>6, <1>7, <1>8, <1>9, <1>10, <1>11, <1>12 DEF IInv

LEMMA StillKeeps == ASSUME IInv, UNCHANGED vars PROVE IInv'
<1>1. /\ fate' = fate /\ main' = main /\ queue' = queue /\ doing' = doing
      /\ frames' = frames /\ busy' = busy /\ cards' = cards /\ shares' = shares
      /\ pins' = pins /\ failed' = failed /\ late' = late
  BY DEF vars
<1>2. Flight' = Flight
  BY <1>1 DEF Flight
<1>3. Shaped' /\ Fenced'
  BY <1>1 DEF IInv, Shaped, Fenced, Stopped, Cancelled
<1>4. Tracked'
  BY <1>1 DEF IInv, Tracked, Issued, Open, Holds, Jobs
<1>5. Unpinning' /\ Linked' /\ InTurn' /\ Once' /\ Gated'
  BY <1>1 DEF IInv, Unpinning, Linked, InTurn, Once, Gated, Issued, Jobs
<1>6. Counted'
  BY <1>1, <1>2 DEF IInv, Counted, Taking, Finalizing, Jobs
<1>7. Lagging'
  BY <1>1 DEF IInv, Lagging, Woken, Untouched, Latest, Promising, Keeping, Asked, Kept, Promised
<1> QED
  BY <1>3, <1>4, <1>5, <1>6, <1>7 DEF IInv

LEMMA MainKeeps == ASSUME IInv, TurnsTypeOK, TurnsTypeOK', Main PROVE IInv'
  BY PostCaptureKeeps, PostScrollingKeeps, AdmitScrollingKeeps, AcceptCaptureKeeps, PostsKeep,
    PinCardKeeps, PinChangedKeeps, UnpinsKeep, PinReadyKeeps, PinCreationFailedKeeps,
    PinPersistenceFailedKeeps, StopKeeps, StopAcquisitionKeeps, StopWorkerKeeps, DownKeeps DEF Main

LEMMA ThreadsKeep ==
  ASSUME IInv, TurnsTypeOK, TurnsTypeOK', Acquisition \/ Pixels \/ Worker \/ Uploading PROVE IInv'
<1>1. ASSUME NEW t \in Threads, TakesTurn(t) \/ Writes(t) PROVE IInv'
  BY <1>1, TakesTurnKeeps, WritesKeeps
<1>2. ASSUME Acquisition \/ Pixels PROVE IInv'
  BY <1>1, <1>2, AcquiresKeeps, SendsFinalizationKeeps, PublishesKeeps, TakesPixelsKeeps,
    AcquisitionFailsKeeps DEF Acquisition, Pixels, Threads
<1>3. ASSUME Worker PROVE IInv'
  BY <1>1, <1>3, StartsKeeps, StartFailsKeeps, AcceptsKeeps, FinalizesKeeps, HandsOnUploadKeeps,
    RemembersShareKeeps, SetsPinKeeps, PinFailsKeeps, FlushesKeeps, WorkerStopsKeeps,
    WorkerLeavesKeeps, WorkerGoneKeeps DEF Worker, Threads
<1>4. ASSUME Uploading PROVE IInv'
  BY <1>1, <1>4, UploadsNextKeeps, UploadsKeeps, UploadFailsKeeps DEF Uploading, Threads
<1> QED
  BY <1>2, <1>3, <1>4

LEMMA StepKeeps == IInv /\ TurnsTypeOK /\ TurnsTypeOK' /\ [Next]_vars => IInv'
  BY MainKeeps, ThreadsKeep, StillKeeps DEF Next, Finished

-----------------------------------------------------------------------------
(* What the invariant says                                                 *)

LEMMA KeepsTypes == IInv /\ TurnsTypeOK => TypeOK
<1> SUFFICES ASSUME IInv, TurnsTypeOK PROVE TypeOK
  OBVIOUS
<1> USE DEF IInv
<1>1. Issued \in Nat /\ main.turn \in 0..Issued /\ main.at \in Stages
  BY Tickets DEF Shaped, Tracked
<1>2. \A t \in Threads : \A job \in Jobs(t) : job.turn \in 0..Issued
  BY <1>1, TurnsCount DEF Tracked
<1>3. \A t \in Threads : doing[t].step \in
        {"idle", "taking", "network", "turn", "writing", "send", "publish", "finalize",
         "leaving", "stopped"}
  BY DEF Shaped, AcquisitionAt, WorkerAt, UploadsAt, At, Threads
<1>4. \A n \in DOMAIN cards : cards[n] \in CardStates
  BY ElementOfSeq DEF Shaped
<1>5. frames \in 0..MaxFrames /\ busy \in BOOLEAN /\ late \in BOOLEAN
  BY DEF Shaped, Counted
<1> QED
  BY <1>1, <1>2, <1>3, <1>4, <1>5 DEF TypeOK, Stages, CardStates, Linked, Lagging, Untouched

LEMMA CountsFrames == IInv => Accounted
<1> SUFFICES ASSUME IInv PROVE Accounted
  OBVIOUS
<1> USE DEF IInv
<1>1. \A n : n \in InHand <=> \E t \in Threads : \E j \in Jobs(t) : j.kind \in CardKinds /\ j.card = n
  BY DEF InHand, CardKinds
<1>2. ASSUME NEW n \in Flight PROVE n \in InHand
  BY <1>1 DEF Flight, Counted, Taking, Finalizing, Capturing, CardKinds, Threads
<1>3. ASSUME NEW n \in InHand PROVE n \in DOMAIN cards /\ cards[n] \in {"admitted", "queued", "ready", "lost"}
  <2>1. PICK t \in Threads : \E j \in Jobs(t) : j.kind \in CardKinds /\ j.card = n
    BY <1>1
  <2>2. PICK j \in Jobs(t) : j.kind \in CardKinds /\ j.card = n
    BY <2>1
  <2>3. CASE j \in Members(queue[t])
    BY <2>2, <2>3 DEF Counted, Capturing, CardKinds
  <2>4. CASE j = doing[t].job
    <3>1. t = "acquisition" => j.kind = "capture"
      BY <2>2, <2>4, Steps DEF CaptureJobs, Resting, CardKinds
    <3>2. t = "worker" => j.kind \in {"captured", "finalize"}
      BY <2>2, <2>4, Steps DEF CapturedJobs, CopyJobs, Finalizations, Resting, CardKinds
    <3>3. t # "uploads"
      BY <2>2, <2>4, Steps DEF UploadJobs, Resting, CardKinds
    <3> QED
      BY <2>2, <2>4, <3>1, <3>2, <3>3 DEF Counted, Threads
  <2> QED
    BY <2>2, <2>3, <2>4, Hands
<1>4. {n \in InHand : cards[n] # "final" /\ cards[n] # "lost"} = Flight
  BY <1>2, <1>3 DEF Flight
<1>5. \A n \in DOMAIN cards : cards[n] \in {"admitted", "queued", "ready"} => n \in InHand
  BY <1>2 DEF Flight
<1>6. frames = Cardinality({n \in InHand : cards[n] # "final" /\ cards[n] # "lost"})
  BY <1>4 DEF Counted
<1> QED
  BY <1>5, <1>6 DEF Accounted, Gated

LEMMA SettlesPins == IInv => PinsSettle
<1> SUFFICES ASSUME IInv, NEW c \in Captures, pins[c].gen > 0, Quiet(c), ~pins[c].told
    PROVE  IF pins[c].visible
             THEN pins[c].stored # None /\ pins[c].stored \in {pins[c].newest, pins[c].behind}
             ELSE pins[c].stored = None
  BY DEF PinsSettle
<1>1. Asked(c) = {} /\ FlushPins \notin Members(queue["worker"])
  BY Hands DEF Quiet, Asked, OfPins, FlushPins
<1>2. pins[c].pending = None /\ Kept(c, pins[c])
  BY <1>1 DEF IInv, Lagging, Woken, Keeping
<1>3. ~Hearing(Members(failed), c, pins[c])
  BY DEF Quiet, Hearing, Members
<1> QED
  BY <1>2, <1>3 DEF Kept, Shows

LEMMA FencesWork == IInv /\ TurnsTypeOK => FencedByStop
<1> SUFFICES ASSUME IInv, TurnsTypeOK, main.at = "down", ~late
    PROVE  /\ \A n \in DOMAIN cards : cards[n] \in {"final", "failed"}
           /\ shares.remembered = shares.linked
           /\ \A n \in DOMAIN fate : fate[n] \in {"written", "refused", "dropped"}
  BY DEF FencedByStop
<1> USE DEF IInv
<1>1. \A t \in Threads : Stopped(t) /\ queue[t] = <<>>
  BY DEF Fenced, Threads
<1>2. \A t \in Threads : Members(queue[t]) = {} /\ doing[t].job = Resting
  BY <1>1, NoJobs, Steps DEF Stopped, Threads, UploadsAt, At, Shaped
<1>3. \A t \in Threads : Jobs(t) = {Resting}
  BY <1>2, Hands
<1>4. Resting.kind = "none" /\ Resting.turn = 0
  BY DEF Resting
<1>5. \A n \in DOMAIN cards : cards[n] \in {"final", "failed"}
  <2>1. \A n \in DOMAIN cards : cards[n] \in CardStates
    BY ElementOfSeq DEF Shaped
  <2>2. \A n : ~Taking(n) /\ ~Finalizing(n)
    BY <1>3, <1>4 DEF Taking, Finalizing, Capturing, Threads
  <2> QED
    BY <2>1, <2>2 DEF Counted, CardStates
<1>6. shares.remembered = shares.linked
  BY <1>2 DEF Linked, Threads
<1>7. \A n \in DOMAIN fate : fate[n] \in {"written", "refused", "dropped"}
  <2>1. \A n \in DOMAIN fate : n # 0 /\ fate[n] \in Fates
    BY Tickets
  <2>2. main.turn = 0 /\ \A n : Holds(n) => n = 0
    BY <1>3, <1>4 DEF Tracked, Holds
  <2> QED
    BY <2>1, <2>2 DEF Tracked, Open, Fates
<1> QED
  BY <1>5, <1>6, <1>7

LEMMA Invariant == Spec => [](IInv /\ OrderInv)
<1>1. Init => IInv /\ OrderInv
  BY InitKeeps, InitOrder DEF Init
<1>2. IInv /\ OrderInv /\ [Next]_vars => (IInv /\ OrderInv)'
  BY StepTurns, StepOrder, StepKeeps DEF OrderInv
<1> QED
  BY <1>1, <1>2, PTL DEF Spec

-----------------------------------------------------------------------------
(* Theorems                                                                *)

\* The clipboard shows the newest copy that was made, whether a capture, a
\* picture or a link (post_capture, post_scrolling, post, complete_acquisition,
\* finish_upload).
THEOREM PipelineShowsNewest == Spec => []NewestShows
  BY PipelineTurns, NewestIsShown

\* The pipeline's threads implement ClipboardRegister, however they are timed.
THEOREM PipelineKeepsOrder == Spec => TurnsKeepOrder
  BY PipelineTurns, TurnsImplementRegister

\* Every variable keeps to its type, no frame is admitted beyond the budget
\* (CaptureBudget::try_acquire), and no job carries a turn that was not issued.
THEOREM PipelineTypeOK == Spec => []TypeOK
<1>1. IInv /\ OrderInv => TypeOK
  BY KeepsTypes DEF OrderInv
<1> QED
  BY <1>1, Invariant, PTL

\* Each permit is held for exactly one frame that some thread still has, from
\* its admission until its finalization or failure, and the acquisition gate is
\* shut for exactly as long as a capture is to be taken (CapturePermit::drop,
\* AcquisitionLease).
THEOREM PipelineAccounts == Spec => []Accounted
<1>1. IInv /\ OrderInv => Accounted
  BY CountsFrames
<1> QED
  BY <1>1, Invariant, PTL

\* When nothing more is on its way about a pin, either the user has heard that
\* what he last asked of it could not be stored (PinPersistenceFailed, the error
\* of a forwarded unpin), or history shows it where he last put it, and shows
\* none that was closed (PendingPinUpdates, claim_pin_generation), whatever was
\* created, moved, closed or refused before.  A pin made while a wake-up was
\* queued may also be back where it was made (behind).
THEOREM PipelinePinsSettle == Spec => []PinsSettle
<1>1. IInv /\ OrderInv => PinsSettle
  BY SettlesPins
<1> QED
  BY <1>1, Invariant, PTL

\* A stop that gave up no thread leaves no frame unfinished, no link unknown to
\* history and no turn at the clipboard undecided (Pipeline::stop).
THEOREM PipelineFenced == Spec => []FencedByStop
<1>1. IInv /\ OrderInv => FencedByStop
  BY FencesWork DEF OrderInv
<1> QED
  BY <1>1, Invariant, PTL
=============================================================================

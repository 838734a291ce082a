-------------------------- MODULE CardOutputProofs --------------------------
(***************************************************************************)
(* What the main thread, the workers' queues and the vault tell of each    *)
(* other is preserved by every step, for every number of sessions and      *)
(* edits and everything the user may do; hence everything keeps its shape, *)
(* and what an output of an overtaken edit proves never counts for the     *)
(* card.  CardPixelsProofs goes on from here to who owns the pixels.       *)
(***************************************************************************)
EXTENDS CardOutput, TLAPS

-----------------------------------------------------------------------------
(* The shapes of messages and of the main thread's record                  *)

EditVersions == [gen : Gens, rev : 0..MaxRev]

Ends == {Open, Cancelled} \union {Committed(r) : r \in 0..MaxRev}

Doings == {"output", "upload", "open", "commit", "persist", "release", "releaseIfRetained", "finalize"}

JobShape == {j \in [do : Doings, action : Nat, export : BOOLEAN, version : Versions] :
               j.do \in {"commit", "persist"} => j.version \in EditVersions}

\* what is told once the card, or its editor, is there
Whats == {"finalized", "opened", "refused", "done", "output refused", "upload done",
          "upload refused", "retention", "committed", "commit failed", "persist"}

OutcomeShape ==
  {o \in [what : Whats, action : Nat, export : BOOLEAN, version : Versions,
          filed : BOOLEAN, elsewhere : BOOLEAN, ok : BOOLEAN] :
     /\ o.what \in {"committed", "commit failed", "persist"} => o.version \in EditVersions
     /\ o.what = "finalized" /\ o.export => o.elsewhere
     /\ o.what = "opened" => ~o.ok}

Outs == [id : Nat \ {0}, kind : {"card", "editor", "upload"}, close : BOOLEAN]

Closes == [only : BOOLEAN, commit : Answered, persist : Answered, version : EditVersions,
           unsaved : BOOLEAN]

Dialogs == [id : Nat, version : Versions]

Apps ==
  [visible : BOOLEAN, shown : BOOLEAN, retention : [elsewhere : BOOLEAN, exported : BOOLEAN],
   filed : BOOLEAN, finalizing : BOOLEAN, opening : BOOLEAN,
   editor : [phase : {"none", "asked", "open"}, version : Versions],
   close : Closes \union {None}, closed : {None, "committed", "failed"}, editorOnly : BOOLEAN,
   outstanding : SUBSET Outs, current : Nat, fates : [Gens -> Ends],
   deferredSave : BOOLEAN, deferredClose : {None, "hide", "save"}, deferredOverflow : BOOLEAN,
   checkClose : BOOLEAN, checkOverflow : BOOLEAN, recovery : Nat, inFlight : BOOLEAN,
   dialog : Dialogs \union {None}, nextGen : Nat, nextAction : Nat \ {0}, posted : Seq(JobShape)]

Editing(a) == a.editor.phase # "none"

-----------------------------------------------------------------------------
(* The main thread by itself                                               *)

\* an action is registered once, under the kind it was dispatched for
Counted(a) ==
  /\ \A x \in a.outstanding : x.id < a.nextAction
  /\ \A x, y \in a.outstanding : x.id = y.id => x = y
  /\ \A x \in a.outstanding : /\ x.kind = "card" => x.close
                              /\ x.kind = "editor" => ~x.close
  /\ a.current # 0 => \E x \in a.outstanding : x.id = a.current /\ x.kind = "upload"
  /\ a.dialog # None => \E x \in a.outstanding : x.id = a.dialog.id /\ x.kind = "card"
  /\ a.recovery # 0 => a.recovery < a.nextAction /\ a.recovery \notin Ids(a)

\* a card that is gone leaves nothing behind
Withdrawn(a) ==
  ~a.visible =>
    /\ ~a.shown /\ a.retention = NoRetention /\ a.deferredClose = None /\ ~a.deferredSave
    /\ ~a.checkClose /\ ~a.checkOverflow /\ a.recovery = 0
    /\ \A x \in a.outstanding : x.kind # "upload"

\* the overlay forgot a card that overflows
Displayed(a) ==
  a.shown => ~a.inFlight /\ ~a.deferredOverflow /\ ~a.checkOverflow /\ a.recovery = 0

Filing(a) ==
  /\ a.deferredSave => a.finalizing
  /\ a.filed => ~a.finalizing
  /\ a.retention.exported => a.retention.elsewhere

Sessions(a) ==
  /\ a.nextGen \in 1..(MaxGen + 1)
  /\ Active(a) => ~a.opening
  /\ a.editor.phase = "asked" /\ ~a.opening => a.editorOnly
  /\ Editing(a) => a.editor.version.gen \in 1..(a.nextGen - 1)
  /\ ~Editing(a) /\ a.opening => a.nextGen \in Gens

\* pixels that only an editor keeps
Adopted(a) ==
  a.editorOnly => /\ ~a.visible /\ ~CardOutputPending(a) /\ ~a.inFlight /\ ~a.deferredOverflow
                  /\ a.opening \/ Editing(a)

Freezing(a) ==
  /\ a.close # None => /\ Active(a) /\ a.close.version = a.editor.version /\ a.closed = None
                       /\ a.visible => ~a.close.only /\ a.close.commit = "waits"
  /\ a.closed # None => Active(a)

Steady(a) ==
  /\ a \in Apps /\ Counted(a) /\ Withdrawn(a) /\ Displayed(a) /\ Filing(a) /\ Sessions(a)
  /\ Adopted(a) /\ Freezing(a)

\* Who still waits for what.  This holds between handlers: a handler that ends
\* a wait starts the next one before it is done.
Waiting(a) ==
  /\ ~a.visible /\ CardOutputPending(a) => a.inFlight \/ a.deferredOverflow
  /\ a.visible /\ (a.inFlight \/ a.checkOverflow) => ~a.opening /\ ~Editing(a)
  /\ ~a.visible /\ a.deferredOverflow => Active(a)
  /\ (a.opening \/ Editing(a)) /\ ~a.editorOnly /\ ~a.visible
       => CardOutputPending(a) \/ a.deferredOverflow

-----------------------------------------------------------------------------
(* The main thread and the queues                                          *)

Opens(q) == {i \in DOMAIN q : q[i].do = "open"}
OpenAnswers(os) == {i \in DOMAIN os : os[i].what \in {"opened", "refused"}}

Checks(q) == {i \in DOMAIN q : q[i].do = "releaseIfRetained"}
CheckAnswers(os) == {i \in DOMAIN os : os[i].what = "retention"}

Commits(q) == {i \in DOMAIN q : q[i].do = "commit"}
CommitAnswers(os) == {i \in DOMAIN os : os[i].what \in {"committed", "commit failed"}}

AtMostOne(S) == \A i, k \in S : i = k

\* one at most in both: a question is asked again only once it was answered
OneOf(S, T) == AtMostOne(S) /\ AtMostOne(T) /\ (S = {} \/ T = {})

\* A message is of an action that was numbered before, and is not about to be
\* registered again.
Numbered(a, m) ==
  /\ m.action < a.nextAction
  /\ a.dialog # None => m.action # a.dialog.id
  /\ a.recovery # 0 => m.action # a.recovery

\* The main thread knows how the session an image is from ended, or the image
\* is what that session came to.
Judges(a, e, id, version) ==
  a.visible /\ id \in Ids(a) /\ version # Plain =>
    /\ version.gen < a.nextGen
    /\ \/ e[version.gen] \in {Open, Committed(version.rev)}
       \/ a.fates[version.gen] = e[version.gen]

\* what every message is
ToldOf(a, e, m) == Numbered(a, m) /\ Judges(a, e, m.action, m.version)

Messages(a, q, us, os, e) ==
  /\ q \in Seq(JobShape) /\ us \in Seq(JobShape) /\ os \in Seq(OutcomeShape)
  /\ \A i \in DOMAIN q : ToldOf(a, e, q[i])
  /\ \A i \in DOMAIN us : ToldOf(a, e, us[i])
  /\ \A i \in DOMAIN os : ToldOf(a, e, os[i])
  /\ a.dialog # None => Judges(a, e, a.dialog.id, a.dialog.version)

\* an upload is registered as one, and an output is not
Uploading(a, id) == \A x \in a.outstanding : x.id = id => x.kind = "upload"
Exporting(a, id) == \A x \in a.outstanding : x.id = id => x.kind # "upload"

Uploaded == {"upload done", "upload refused"}
Exported == {"done", "output refused"}

Uploads(a, q, us, os) ==
  /\ \A i \in DOMAIN q : /\ q[i].do = "upload" => Uploading(a, q[i].action)
                         /\ q[i].do = "output" => Exporting(a, q[i].action)
  /\ \A i \in DOMAIN us : Uploading(a, us[i].action)
  /\ \A i \in DOMAIN os : /\ os[i].what \in Uploaded => Uploading(a, os[i].action)
                          /\ os[i].what \in Exported => Exporting(a, os[i].action)

Opening(a, q, os) ==
  /\ OneOf(Opens(q), OpenAnswers(os))
  /\ Opens(q) \union OpenAnswers(os) # {} => ~Editing(a) /\ a.opening

Releasable(a, q) ==
  \A i \in DOMAIN q : q[i].do = "release" => ~a.visible /\ ~a.opening /\ ~Editing(a)

\* stage: "closing" within a handler that is about to end an editing session
Checking(a, q, os, stage) ==
  /\ Checks(q) # {} => /\ stage = "closing" \/ ~Editing(a)
                       /\ \A i \in DOMAIN os : os[i].what # "opened"
  /\ \A i \in Checks(q), k \in Opens(q) : i < k
  /\ Checks(q) \union CheckAnswers(os) # {} => ~a.finalizing
  /\ a.shown => /\ OneOf(Checks(q), CheckAnswers(os))
                /\ Checks(q) \union CheckAnswers(os) # {} => a.checkClose

Committing(a, q, os) ==
  a.visible =>
    /\ OneOf(Commits(q), CommitAnswers(os))
    /\ \A i \in Commits(q) : a.close # None /\ a.close.version = q[i].version
    /\ \A i \in CommitAnswers(os) : a.close # None /\ a.close.version = os[i].version

Ended(a, e, stage) ==
  /\ e \in [Gens -> Ends]
  /\ \A g \in Gens : g >= a.nextGen => e[g] = Open
  /\ stage = "handling" /\ a.visible /\ Editing(a) =>
       /\ e[a.editor.version.gen] \in {Open, Committed(a.editor.version.rev)}
       /\ a.close = None /\ a.closed # "committed" => e[a.editor.version.gen] = Open

Agreed(a, q, us, os, e, stage) ==
  /\ Messages(a, q, us, os, e) /\ Uploads(a, q, us, os) /\ Opening(a, q, os) /\ Releasable(a, q)
  /\ Checking(a, q, os, stage) /\ Committing(a, q, os) /\ Ended(a, e, stage)

-----------------------------------------------------------------------------
(* The vault                                                               *)

Vaults == [version : Versions \union {None}, filed : BOOLEAN]

Keeps(a, v, os) ==
  /\ v \in Vaults
  /\ Editing(a) => v.version # None
  /\ \A i \in DOMAIN os : /\ os[i].what = "opened" => v.version # None
                          /\ os[i].what = "retention" /\ os[i].ok => v.version = None

Shows(a, v, os) ==
  a.shown /\ v.version = None => \E i \in DOMAIN os : os[i].what = "retention" /\ os[i].ok

\* the pixels of a card are of a session that ended with them
Shelved(a, e, v, os) ==
  a.visible /\ v.version \notin {None, Plain} =>
    /\ v.version.gen < a.nextGen
    /\ e[v.version.gen] \in {Open, Committed(v.version.rev)}
    /\ Editing(a) /\ a.editor.version.gen = v.version.gen =>
         \/ a.closed = "committed"
         \/ \E i \in DOMAIN os : os[i].what = "committed"

Owns(a) == a.visible \/ a.opening \/ Editing(a) \/ a.finalizing \/ CardOutputPending(a)

Claimed(a, q, v) ==
  v.version # None => Owns(a) \/ \E i \in DOMAIN q : q[i].do = "release"

-----------------------------------------------------------------------------
(* The inductive invariant                                                 *)

\* nothing was taken yet: the capture is announced, restored or reopened
Beginning ==
  /\ app = NewApp /\ uploads = <<>> /\ ended = NoFates
  /\ vault \in [version : {Plain}, filed : BOOLEAN]
  /\ \E f \in [what : {"ready", "restored", "opened"}, action : {0}, export : BOOLEAN, version : {Plain},
               filed : {FALSE}, elsewhere : {FALSE}, ok : BOOLEAN] :
       /\ f.what = "opened" => f.ok
       /\ \/ outcomes = <<f>> /\ jobs = <<>> /\ f.what # "ready"
          \/ outcomes = <<f>> /\ jobs = <<Job("finalize")>> /\ f.what = "ready"
          \/ /\ jobs = <<>> /\ f.what = "ready"
             /\ Len(outcomes) = 2 /\ outcomes = <<f, outcomes[2]>> /\ outcomes[2] \in OutcomeShape
             /\ outcomes[2].what = "finalized" /\ outcomes[2].action = 0

Going ==
  /\ Steady(app) /\ Waiting(app) /\ app.posted = <<>>
  /\ Agreed(app, jobs, uploads, outcomes, ended, "handling")
  /\ Keeps(app, vault, outcomes) /\ Shows(app, vault, outcomes)
  /\ Shelved(app, ended, vault, outcomes) /\ Claimed(app, jobs, vault)

IInv ==
  (Beginning \/ Going) /\ user \in [start : Starts, may : SUBSET Happenings, events : Nat]

-----------------------------------------------------------------------------
(* Facts about constants, messages and queues                              *)

LEMMA NoneIsApart ==
  /\ None # "hide" /\ None # "save" /\ None # "committed" /\ None # "failed"
  /\ None \notin Versions /\ None \notin Closes
  /\ Plain \in Versions /\ Plain \notin EditVersions /\ EditVersions \subseteq Versions
  /\ \A v \in Versions : v # Plain => v \in EditVersions
  /\ \A v \in EditVersions : v # Plain /\ v.gen \in Gens /\ v.rev \in 0..MaxRev
  BY CardAssumption DEF Versions, Closes, EditVersions, Plain, Version, Gens, Answered

LEMMA JobShapes ==
  ASSUME NEW do \in Doings \ {"commit", "persist"}
  PROVE  Job(do) \in JobShape /\ Job(do).do = do /\ Job(do).action = 0 /\ Job(do).version = Plain
  BY NoneIsApart DEF Job, JobShape

\* what a queue holds after one more message, and after its first was taken
LEMMA Appended ==
  ASSUME NEW S, NEW q \in Seq(S), NEW j \in S
  PROVE  /\ Append(q, j) \in Seq(S) /\ DOMAIN Append(q, j) = DOMAIN q \union {Len(q) + 1}
         /\ Len(q) + 1 \notin DOMAIN q /\ Append(q, j)[Len(q) + 1] = j
         /\ \A i \in DOMAIN q : Append(q, j)[i] = q[i] /\ i < Len(q) + 1
  OBVIOUS

LEMMA Taken ==
  ASSUME NEW S, NEW q \in Seq(S), q # <<>>
  PROVE  /\ Tail(q) \in Seq(S) /\ 1 \in DOMAIN q /\ Head(q) = q[1] /\ Head(q) \in S
         /\ \A i \in DOMAIN Tail(q) : i \in Nat /\ i + 1 \in DOMAIN q /\ i + 1 # 1 /\ Tail(q)[i] = q[i+1]
         /\ \A i \in DOMAIN q : i # 1 => i - 1 \in DOMAIN Tail(q) /\ Tail(q)[i-1] = q[i]
  OBVIOUS

LEMMA OneMore ==
  ASSUME NEW q \in Seq(JobShape), NEW j \in JobShape
  PROVE  /\ Opens(Append(q, j)) = IF j.do = "open" THEN Opens(q) \union {Len(q) + 1} ELSE Opens(q)
         /\ Checks(Append(q, j)) = IF j.do = "releaseIfRetained" THEN Checks(q) \union {Len(q) + 1}
                                   ELSE Checks(q)
         /\ Commits(Append(q, j)) = IF j.do = "commit" THEN Commits(q) \union {Len(q) + 1}
                                    ELSE Commits(q)
  BY Appended DEF Opens, Checks, Commits

LEMMA PostIs ==
  ASSUME NEW a \in Apps, NEW j \in JobShape, NEW b, b = Post(a, j)
  PROVE  /\ b \in Apps /\ b.posted = Append(a.posted, j)
         /\ b = [a EXCEPT !.posted = Append(a.posted, j)]
<1> DEFINE p == Append(a.posted, j)
<1>1. p \in Seq(JobShape) BY DEF Apps
<1>2. b = [a EXCEPT !.posted = p] BY DEF Post
<1> HIDE DEF p
<1>3. b \in Apps /\ b.posted = p BY <1>1, <1>2, ZenonT(60) DEF Apps
<1> QED BY <1>2, <1>3 DEF p

-----------------------------------------------------------------------------
(* What keeps the main thread and the queues in agreement                  *)

\* the image is what its session came to so far
Fresh(a, e, version) ==
  a.visible /\ version # Plain =>
    version.gen < a.nextGen /\ e[version.gen] \in {Open, Committed(version.rev)}

\* a job that may be posted
Admits(a, q, os, e, stage, j) ==
  /\ j \in JobShape /\ Numbered(a, j) /\ Judges(a, e, j.action, j.version)
  /\ j.do = "upload" => Uploading(a, j.action)
  /\ j.do = "output" => Exporting(a, j.action)
  /\ j.do = "release" => ~a.visible /\ ~a.opening /\ ~Editing(a)
  /\ j.do = "releaseIfRetained" =>
       /\ stage = "closing" \/ ~Editing(a)
       /\ ~a.opening /\ ~a.finalizing
       /\ a.shown => a.checkClose /\ Checks(q) \union CheckAnswers(os) = {}
  /\ j.do = "open" => ~Editing(a) /\ a.opening /\ Opens(q) \union OpenAnswers(os) = {}
  /\ j.do = "commit" /\ a.visible =>
       /\ Commits(q) \union CommitAnswers(os) = {}
       /\ a.close # None /\ a.close.version = j.version

\* The parts of Agreed read nothing of the main thread but these.
SameView(a, b) ==
  /\ b.editor = a.editor /\ b.opening = a.opening /\ b.close = a.close /\ b.closed = a.closed
  /\ b.finalizing = a.finalizing /\ b.dialog = a.dialog /\ b.nextGen = a.nextGen

\* a change that nothing in the queues notices
Quiet(a, b) ==
  /\ SameView(a, b) /\ b.posted = a.posted /\ b.nextAction >= a.nextAction
  /\ b.recovery \in {0, a.recovery} \/ b.recovery >= a.nextAction
  /\ b.visible => a.visible /\ (b.fates = a.fates \/ Ids(b) = {})
  /\ \A x \in b.outstanding : x \in a.outstanding \/ x.id >= a.nextAction \/ x.id = a.recovery
  /\ b.shown => a.shown /\ (a.checkClose => b.checkClose)

LEMMA IdTypes == ASSUME NEW a \in Apps PROVE Ids(a) \subseteq Nat \ {0} BY DEF Apps, Ids, Outs

LEMMA QuietTold ==
  ASSUME NEW a \in Apps, NEW b \in Apps, Counted(a), Quiet(a, b), NEW e, NEW m, m.action \in Nat,
         ToldOf(a, e, m)
  PROVE  ToldOf(b, e, m)
<1> USE DEF Quiet, SameView
<1>1. Numbered(b, m)
  <2>1. a.nextAction \in Nat /\ b.nextAction \in Nat /\ b.recovery \in Nat BY DEF Apps
  <2> QED BY <2>1 DEF ToldOf, Numbered
<1>2. Judges(b, e, m.action, m.version)
  <2> SUFFICES ASSUME b.visible, m.action \in Ids(b), m.version # Plain
               PROVE  /\ m.version.gen < b.nextGen
                      /\ \/ e[m.version.gen] \in {Open, Committed(m.version.rev)}
                         \/ b.fates[m.version.gen] = e[m.version.gen]
    BY DEF Judges
  <2>1. m.action # 0 /\ a.nextAction \in Nat BY IdTypes DEF Apps
  <2>2. m.action \in Ids(a) BY <2>1 DEF ToldOf, Numbered, Ids
  <2>3. b.fates = a.fates /\ a.visible OBVIOUS
  <2> QED BY <2>2, <2>3 DEF ToldOf, Judges
<1> QED BY <1>1, <1>2 DEF ToldOf

LEMMA QuietUploading ==
  ASSUME NEW a \in Apps, NEW b \in Apps, Quiet(a, b), NEW m, m.action \in Nat, Numbered(a, m)
  PROVE  /\ Uploading(a, m.action) => Uploading(b, m.action)
         /\ Exporting(a, m.action) => Exporting(b, m.action)
<1>1. \A x \in b.outstanding : x.id # 0 /\ x.id \in Nat BY DEF Apps, Outs
<1>2. a.nextAction \in Nat BY DEF Apps
<1> QED BY <1>1, <1>2 DEF Uploading, Exporting, Quiet, Numbered

LEMMA QuietAgreed ==
  ASSUME NEW a \in Apps, NEW b \in Apps, Counted(a), Quiet(a, b),
         NEW q, NEW us, NEW os, NEW e, NEW stage, Agreed(a, q, us, os, e, stage)
  PROVE  Agreed(b, q, us, os, e, stage)
<1> USE DEF Quiet, SameView
<1>0. q \in Seq(JobShape) /\ us \in Seq(JobShape) /\ os \in Seq(OutcomeShape) BY DEF Agreed, Messages
<1>1. Messages(b, q, us, os, e)
  <2>1. ASSUME NEW i \in DOMAIN q PROVE ToldOf(b, e, q[i])
    <3>1. q[i].action \in Nat BY <1>0 DEF JobShape
    <3>2. ToldOf(a, e, q[i]) BY DEF Agreed, Messages
    <3> QED BY <3>1, <3>2, QuietTold
  <2>2. ASSUME NEW i \in DOMAIN us PROVE ToldOf(b, e, us[i])
    <3>1. us[i].action \in Nat BY <1>0 DEF JobShape
    <3>2. ToldOf(a, e, us[i]) BY DEF Agreed, Messages
    <3> QED BY <3>1, <3>2, QuietTold
  <2>3. ASSUME NEW i \in DOMAIN os PROVE ToldOf(b, e, os[i])
    <3>1. os[i] \in OutcomeShape BY <1>0
    <3>2. os[i].action \in Nat BY <3>1, Zenon DEF OutcomeShape
    <3>3. ToldOf(a, e, os[i]) BY DEF Agreed, Messages
    <3> QED BY <3>2, <3>3, QuietTold
  <2>4. ASSUME b.dialog # None PROVE Judges(b, e, b.dialog.id, b.dialog.version)
    <3>1. a.dialog.id \in Ids(a) BY <2>4 DEF Counted, Ids
    <3>2. b.visible => b.fates = a.fates \/ a.dialog.id \notin Ids(b) OBVIOUS
    <3>3. Judges(a, e, a.dialog.id, a.dialog.version) BY <2>4 DEF Agreed, Messages
    <3> QED BY <3>1, <3>2, <3>3 DEF Judges
  <2> QED BY <1>0, <2>1, <2>2, <2>3, <2>4 DEF Messages
<1>7. Uploads(b, q, us, os)
  <2>1. ASSUME NEW i \in DOMAIN q
        PROVE  /\ q[i].do = "upload" => Uploading(b, q[i].action)
               /\ q[i].do = "output" => Exporting(b, q[i].action)
    <3>1. q[i].action \in Nat BY <1>0 DEF JobShape
    <3>2. Numbered(a, q[i]) BY DEF Agreed, Messages, ToldOf
    <3>3. /\ q[i].do = "upload" => Uploading(a, q[i].action)
          /\ q[i].do = "output" => Exporting(a, q[i].action)
      BY <2>1, Zenon DEF Agreed, Uploads
    <3> QED BY <3>1, <3>2, <3>3, QuietUploading
  <2>2. ASSUME NEW i \in DOMAIN us PROVE Uploading(b, us[i].action)
    <3>1. us[i].action \in Nat BY <1>0 DEF JobShape
    <3>2. Numbered(a, us[i]) BY DEF Agreed, Messages, ToldOf
    <3>3. Uploading(a, us[i].action) BY <2>2, Zenon DEF Agreed, Uploads
    <3> QED BY <3>1, <3>2, <3>3, QuietUploading
  <2>3. ASSUME NEW i \in DOMAIN os
        PROVE  /\ os[i].what \in Uploaded => Uploading(b, os[i].action)
               /\ os[i].what \in Exported => Exporting(b, os[i].action)
    <3>1. os[i] \in OutcomeShape BY <1>0
    <3>2. os[i].action \in Nat BY <3>1 DEF OutcomeShape
    <3>3. Numbered(a, os[i]) BY DEF Agreed, Messages, ToldOf
    <3>4. /\ os[i].what \in Uploaded => Uploading(a, os[i].action)
          /\ os[i].what \in Exported => Exporting(a, os[i].action)
      BY <2>3, Zenon DEF Agreed, Uploads
    <3> QED BY <3>2, <3>3, <3>4, QuietUploading
  <2> QED BY <2>1, <2>2, <2>3, Zenon DEF Uploads
<1>2. Opening(b, q, os) BY DEF Agreed, Opening, Editing
<1>3. Releasable(b, q) BY DEF Agreed, Releasable, Editing
<1>4. Checking(b, q, os, stage) BY DEF Agreed, Checking, Editing
<1>5. Committing(b, q, os) BY DEF Agreed, Committing
<1>6. Ended(b, e, stage) BY DEF Agreed, Ended, Editing
<1> QED BY <1>1, <1>2, <1>3, <1>4, <1>5, <1>6, <1>7 DEF Agreed

LEMMA PostAgreed ==
  ASSUME NEW a \in Apps, NEW b \in Apps, NEW q, NEW us, NEW os, NEW e, NEW stage,
         NEW j, Agreed(a, q, us, os, e, stage), Admits(a, q, os, e, stage, j),
         b = [a EXCEPT !.posted = b.posted]
  PROVE  Agreed(b, Append(q, j), us, os, e, stage)
<1> DEFINE r == Append(q, j)
<1>0. q \in Seq(JobShape) /\ j \in JobShape BY DEF Agreed, Messages, Admits
<1>1. SameView(a, b) /\ b.visible = a.visible /\ b.shown = a.shown /\ b.checkClose = a.checkClose
      /\ b.fates = a.fates /\ b.outstanding = a.outstanding /\ b.nextAction = a.nextAction
      /\ b.recovery = a.recovery
  BY DEF Apps, SameView
<1>2. /\ r \in Seq(JobShape) /\ DOMAIN r = DOMAIN q \union {Len(q) + 1}
      /\ Len(q) + 1 \notin DOMAIN q /\ r[Len(q) + 1] = j
      /\ \A i \in DOMAIN q : r[i] = q[i] /\ i < Len(q) + 1
  BY <1>0, Appended
<1>3. /\ Opens(r) = IF j.do = "open" THEN Opens(q) \union {Len(q) + 1} ELSE Opens(q)
      /\ Checks(r) = IF j.do = "releaseIfRetained" THEN Checks(q) \union {Len(q) + 1} ELSE Checks(q)
      /\ Commits(r) = IF j.do = "commit" THEN Commits(q) \union {Len(q) + 1} ELSE Commits(q)
  BY <1>0, OneMore
<1>4. Opens(q) \subseteq DOMAIN q /\ Checks(q) \subseteq DOMAIN q /\ Commits(q) \subseteq DOMAIN q
  BY DEF Opens, Checks, Commits
<1> HIDE DEF r
<1>5. \A m : ToldOf(b, e, m) <=> ToldOf(a, e, m)
  BY <1>1 DEF ToldOf, Numbered, Judges, SameView, Ids
<1>6. ToldOf(a, e, j) BY DEF Admits, ToldOf
<1>7. Messages(b, r, us, os, e)
  <2>1. \A i \in DOMAIN r : ToldOf(b, e, r[i]) BY <1>2, <1>5, <1>6 DEF Agreed, Messages
  <2>2. a.dialog # None => Judges(b, e, a.dialog.id, a.dialog.version)
    BY <1>1 DEF Agreed, Messages, Judges, SameView, Ids
  <2> QED BY <1>1, <1>2, <1>5, <2>1, <2>2 DEF Agreed, Messages, SameView
<1>8. Opening(b, r, os)
  BY <1>1, <1>3, <1>4 DEF Agreed, Opening, Editing, SameView, OneOf, AtMostOne, Admits
<1>9. Releasable(b, r) BY <1>1, <1>2 DEF Agreed, Releasable, Editing, SameView, Admits
<1>10. Checking(b, r, os, stage)
  <2>1. CASE j.do # "releaseIfRetained"
    <3>1. Checks(r) = Checks(q) /\ \A k \in Opens(r) : k \in Opens(q) \/ k = Len(q) + 1
      BY <1>3, <2>1
    <3>2. \A i \in Checks(r), k \in Opens(r) : i < k
      BY <1>2, <1>4, <3>1 DEF Agreed, Checking
    <3> QED BY <1>1, <3>1, <3>2 DEF Agreed, Checking, Editing, SameView
  <2>2. CASE j.do = "releaseIfRetained"
    <3>1. ~a.opening /\ Opens(r) = Opens(q) /\ Opens(q) = {} /\ OpenAnswers(os) = {}
      BY <1>3, <2>2 DEF Agreed, Opening, Admits
    <3>2. \A i \in DOMAIN os : os[i].what # "opened" BY <3>1 DEF OpenAnswers
    <3>3. a.shown => Checks(r) = {Len(q) + 1} /\ CheckAnswers(os) = {} /\ a.checkClose
      BY <1>3, <2>2 DEF Admits
    <3> QED BY <1>1, <2>2, <3>1, <3>2, <3>3 DEF Checking, Editing, SameView, Admits, OneOf, AtMostOne
  <2> QED BY <2>1, <2>2
<1>11. Committing(b, r, os)
  <2>1. CASE j.do # "commit"
    BY <1>1, <1>2, <1>3, <1>4, <2>1 DEF Agreed, Committing, SameView
  <2>2. CASE j.do = "commit"
    BY <1>1, <1>2, <1>3, <2>2 DEF Committing, SameView, Admits, OneOf, AtMostOne
  <2> QED BY <2>1, <2>2
<1>12. Ended(b, e, stage) BY <1>1 DEF Agreed, Ended, SameView, Editing
<1>13. Uploads(b, r, us, os)
  <2>1. \A i \in DOMAIN r : /\ r[i].do = "upload" => Uploading(a, r[i].action)
                            /\ r[i].do = "output" => Exporting(a, r[i].action)
    BY <1>2, Zenon DEF Agreed, Uploads, Admits
  <2>2. \A id : (Uploading(b, id) <=> Uploading(a, id)) /\ (Exporting(b, id) <=> Exporting(a, id))
    BY <1>1 DEF Uploading, Exporting
  <2>3. Uploads(a, q, us, os) BY DEF Agreed
  <2> QED BY <2>1, <2>2, <2>3 DEF Uploads
<1> QED BY <1>7, <1>8, <1>9, <1>10, <1>11, <1>12, <1>13 DEF Agreed, r

-----------------------------------------------------------------------------
(* Retiring a card                                                         *)

\* what Dismiss does but for the release
Leave(a) ==
  [a EXCEPT
     !.outstanding = {x \in @ : x.kind = "editor" \/ (a.dialog # None /\ x.kind = "card")},
     !.current = 0, !.visible = FALSE, !.shown = FALSE, !.retention = NoRetention,
     !.fates = NoFates, !.filed = FALSE, !.checkClose = FALSE, !.checkOverflow = FALSE,
     !.deferredClose = None, !.deferredOverflow = FALSE, !.recovery = 0,
     !.inFlight = a.dialog # None,
     !.editorOnly = @ \/ (EditorOwns(a) /\ ~(a.dialog # None))]

LEMMA DismissLeaves ==
  ASSUME NEW a
  PROVE  Dismiss(a) = IF a.deferredSave THEN a
                      ELSE IF a.dialog # None \/ EditorOwns(a) THEN Leave(a)
                      ELSE Post(Leave(a), Job("release"))
  BY DEF Dismiss, Leave

LEMMA LeaveType ==
  ASSUME NEW c \in Apps, NEW d \in BOOLEAN, NEW k \in BOOLEAN
  PROVE  [c EXCEPT !.checkClose = FALSE, !.checkOverflow = FALSE,
                   !.deferredClose = None, !.deferredOverflow = FALSE, !.recovery = 0,
                   !.inFlight = d, !.editorOnly = k] \in Apps
<1>1. [c EXCEPT !.checkClose = FALSE, !.checkOverflow = FALSE, !.deferredClose = None] \in Apps
  BY DEF Apps
<1> DEFINE g == [c EXCEPT !.checkClose = FALSE, !.checkOverflow = FALSE, !.deferredClose = None]
<1> HIDE DEF g
<1>2. g \in Apps BY <1>1 DEF g
<1>3. [g EXCEPT !.deferredOverflow = FALSE, !.recovery = 0, !.inFlight = d, !.editorOnly = k] \in Apps
  BY <1>2, ZenonT(60) DEF Apps
<1> QED BY <1>3 DEF g

LEMMA LeaveIs ==
  ASSUME NEW a \in Apps, NEW b, b = Leave(a)
  PROVE  /\ b \in Apps /\ SameView(a, b)
         /\ b.outstanding = {x \in a.outstanding : x.kind = "editor" \/ (a.dialog # None /\ x.kind = "card")}
         /\ b.current = 0 /\ ~b.visible /\ ~b.shown /\ b.retention = NoRetention /\ ~b.filed
         /\ ~b.checkClose /\ ~b.checkOverflow /\ b.deferredClose = None /\ ~b.deferredOverflow
         /\ b.recovery = 0 /\ b.inFlight = (a.dialog # None)
         /\ b.editorOnly = (a.editorOnly \/ (EditorOwns(a) /\ a.dialog = None))
         /\ b.deferredSave = a.deferredSave /\ b.nextAction = a.nextAction /\ b.posted = a.posted
<1> DEFINE o == {x \in a.outstanding : x.kind = "editor" \/ (a.dialog # None /\ x.kind = "card")}
           d == a.dialog # None
           k == a.editorOnly \/ (EditorOwns(a) /\ ~d)
<1>1. o \in SUBSET Outs /\ NoRetention \in [elsewhere : BOOLEAN, exported : BOOLEAN]
      /\ NoFates \in [Gens -> Ends]
  BY DEF Apps, NoRetention, NoFates, Ends
<1>2. b = [a EXCEPT
             !.outstanding = o,
             !.current = 0, !.visible = FALSE, !.shown = FALSE, !.retention = NoRetention,
             !.fates = NoFates, !.filed = FALSE, !.checkClose = FALSE, !.checkOverflow = FALSE,
             !.deferredClose = None, !.deferredOverflow = FALSE, !.recovery = 0,
             !.inFlight = d, !.editorOnly = k]
  BY DEF Leave
<1>3. d \in BOOLEAN /\ k \in BOOLEAN BY DEF Apps, EditorOwns, Active
<1> HIDE DEF o, k
<1> DEFINE c == [a EXCEPT !.outstanding = o, !.current = 0, !.visible = FALSE, !.shown = FALSE,
                          !.retention = NoRetention, !.fates = NoFates, !.filed = FALSE]
<1>4. c \in Apps BY <1>1, ZenonT(60) DEF Apps
<1>5. b = [c EXCEPT !.checkClose = FALSE, !.checkOverflow = FALSE,
             !.deferredClose = None, !.deferredOverflow = FALSE, !.recovery = 0,
             !.inFlight = d, !.editorOnly = k]
  BY <1>2
<1>6. /\ c.outstanding = o /\ c.current = 0 /\ ~c.visible /\ ~c.shown /\ c.retention = NoRetention
      /\ ~c.filed /\ c.deferredSave = a.deferredSave /\ c.nextAction = a.nextAction
      /\ c.posted = a.posted /\ SameView(a, c)
  BY DEF Apps, SameView
<1> HIDE DEF c, d
<1>7. b \in Apps
  <2>1. [c EXCEPT !.checkClose = FALSE, !.checkOverflow = FALSE,
                  !.deferredClose = None, !.deferredOverflow = FALSE, !.recovery = 0,
                  !.inFlight = d, !.editorOnly = k] \in Apps
    BY <1>3, <1>4, LeaveType, Zenon
  <2> QED BY <1>5, <2>1
<1>8. /\ ~b.checkClose /\ ~b.checkOverflow /\ b.deferredClose = None /\ ~b.deferredOverflow
      /\ b.recovery = 0 /\ b.inFlight = d /\ b.editorOnly = k
  BY <1>4, <1>5 DEF Apps
<1>9. /\ b.outstanding = c.outstanding /\ b.current = c.current /\ b.visible = c.visible
      /\ b.shown = c.shown /\ b.retention = c.retention /\ b.filed = c.filed
      /\ b.deferredSave = c.deferredSave /\ b.nextAction = c.nextAction /\ b.posted = c.posted
      /\ SameView(c, b)
  BY <1>4, <1>5 DEF Apps, SameView
<1> QED BY <1>6, <1>7, <1>8, <1>9 DEF SameView, o, k, d

LEMMA LeaveSteady ==
  ASSUME NEW a, Steady(a), ~a.deferredSave, NEW b, b = Leave(a)
  PROVE  Steady(b) /\ Quiet(a, b) /\ Waiting(b) /\ Ids(b) \subseteq Ids(a)
<1>0. a \in Apps BY DEF Steady
<1>1. /\ b \in Apps /\ SameView(a, b)
      /\ b.outstanding = {x \in a.outstanding : x.kind = "editor" \/ (a.dialog # None /\ x.kind = "card")}
      /\ b.current = 0 /\ ~b.visible /\ ~b.shown /\ b.retention = NoRetention /\ ~b.filed
      /\ ~b.checkClose /\ ~b.checkOverflow /\ b.deferredClose = None /\ ~b.deferredOverflow
      /\ b.recovery = 0 /\ b.inFlight = (a.dialog # None)
      /\ b.editorOnly = (a.editorOnly \/ (EditorOwns(a) /\ a.dialog = None))
      /\ b.deferredSave = a.deferredSave /\ b.nextAction = a.nextAction /\ b.posted = a.posted
  BY <1>0, LeaveIs
<1>2. a.dialog # None => CardOutputPending(a) /\ CardOutputPending(b)
  BY <1>1 DEF Steady, Counted, CardOutputPending
<1>3. a.dialog = None => ~CardOutputPending(b) BY <1>1 DEF CardOutputPending
<1>4. Counted(b)
  <2>1. \A x \in b.outstanding : x \in a.outstanding BY <1>1
  <2>2. a.dialog # None => \E x \in b.outstanding : x.id = a.dialog.id /\ x.kind = "card"
    BY <1>1 DEF Steady, Counted
  <2> QED BY <1>1, <2>1, <2>2 DEF Steady, Counted, SameView
<1>5. Withdrawn(b) /\ Displayed(b) /\ Filing(b) BY <1>1 DEF Withdrawn, Displayed, Filing, NoRetention
<1>6. Sessions(b) BY <1>1 DEF Steady, Sessions, SameView, Editing, Active
<1>7. Adopted(b) BY <1>1, <1>2, <1>3 DEF Steady, Adopted, SameView, Editing, EditorOwns, Active
<1>8. Freezing(b) BY <1>1 DEF Steady, Freezing, SameView, Active
<1>9. Ids(b) \subseteq Ids(a) BY <1>1 DEF Ids
<1>10. Quiet(a, b)
  <2>1. a.nextAction \in Nat /\ b.recovery = 0 BY <1>0, <1>1 DEF Apps
  <2> QED BY <1>1, <1>9, <2>1 DEF Quiet
<1>11. Waiting(b)
  <2>1. a.editor.phase = "asked" /\ ~a.opening => a.editorOnly BY DEF Steady, Sessions
  <2>2. a.editor.phase \in {"none", "asked", "open"} BY <1>0 DEF Apps
  <2> QED BY <1>1, <1>2, <1>3, <2>1, <2>2 DEF Waiting, SameView, Editing, EditorOwns, Active
<1> QED BY <1>1, <1>4, <1>5, <1>6, <1>7, <1>8, <1>9, <1>10, <1>11 DEF Steady

\* who is to use the pixels after a handler, or to release them
Left(b) == Owns(b) \/ \E i \in DOMAIN b.posted : b.posted[i].do = "release"

\* what the card's own handlers may do to the rest of the main thread
Moves(a, b) ==
  /\ SameView(a, b)
  /\ b.visible => a.visible
  /\ b.shown => a.shown
  /\ a.editorOnly => b.editorOnly
  /\ b.deferredSave = a.deferredSave

\* the queue of jobs once a handler has run
Queued(js, a) == js \o a.posted

LEMMA QueuedPost ==
  ASSUME NEW js \in Seq(JobShape), NEW a \in Apps, NEW j \in JobShape, NEW b, b = Post(a, j)
  PROVE  Queued(js, b) = Append(Queued(js, a), j)
<1>1. b.posted = Append(a.posted, j) BY PostIs
<1>2. a.posted \in Seq(JobShape) BY DEF Apps
<1> QED BY <1>1, <1>2, SMTT(30) DEF Queued

LEMMA PostSteady ==
  ASSUME NEW a, Steady(a), NEW j \in JobShape, NEW b, b = Post(a, j)
  PROVE  /\ Steady(b) /\ b = [a EXCEPT !.posted = b.posted]
         /\ SameView(a, b) /\ b.visible = a.visible /\ b.shown = a.shown /\ b.editorOnly = a.editorOnly
         /\ b.deferredSave = a.deferredSave /\ b.outstanding = a.outstanding /\ b.inFlight = a.inFlight
         /\ b.deferredOverflow = a.deferredOverflow /\ b.retention = a.retention
         /\ b.deferredClose = a.deferredClose /\ b.recovery = a.recovery
         /\ (Waiting(b) <=> Waiting(a)) /\ (Owns(b) <=> Owns(a)) /\ (CardOutputPending(b) <=> CardOutputPending(a))
<1>0. a \in Apps BY DEF Steady
<1>1. b \in Apps /\ b = [a EXCEPT !.posted = Append(a.posted, j)] /\ b.posted = Append(a.posted, j)
  BY <1>0, PostIs
<1> DEFINE p == Append(a.posted, j)
<1>2. b = [a EXCEPT !.posted = p] BY <1>1
<1> HIDE DEF p
<1>3. /\ b.visible = a.visible /\ b.shown = a.shown /\ b.retention = a.retention
      /\ b.filed = a.filed /\ b.finalizing = a.finalizing /\ b.opening = a.opening
      /\ b.editor = a.editor /\ b.close = a.close /\ b.closed = a.closed
      /\ b.editorOnly = a.editorOnly
      /\ b.outstanding = a.outstanding /\ b.current = a.current /\ b.fates = a.fates
      /\ b.deferredSave = a.deferredSave /\ b.deferredClose = a.deferredClose
      /\ b.deferredOverflow = a.deferredOverflow /\ b.checkClose = a.checkClose
      /\ b.checkOverflow = a.checkOverflow /\ b.recovery = a.recovery /\ b.inFlight = a.inFlight
      /\ b.dialog = a.dialog /\ b.nextGen = a.nextGen /\ b.nextAction = a.nextAction
  BY <1>0, <1>2 DEF Apps
<1>4. Counted(b) BY <1>3 DEF Steady, Counted, Ids
<1>5. Withdrawn(b) /\ Displayed(b) /\ Filing(b)
  BY <1>3 DEF Steady, Withdrawn, Displayed, Filing
<1>6. Sessions(b) /\ Adopted(b) /\ Freezing(b)
  BY <1>3 DEF Steady, Sessions, Adopted, Freezing, Editing, Active, CardOutputPending
<1>7. (Waiting(b) <=> Waiting(a)) /\ (Owns(b) <=> Owns(a))
  BY <1>3 DEF Waiting, Owns, Editing, Active, CardOutputPending
<1>8. (CardOutputPending(b) <=> CardOutputPending(a)) BY <1>3 DEF CardOutputPending
<1>9. b = [a EXCEPT !.posted = b.posted] BY <1>1
<1> QED BY <1>1, <1>3, <1>4, <1>5, <1>6, <1>7, <1>8, <1>9 DEF Steady, SameView

\* every job but a commit's comes with the card it is posted for in view
LEMMA Posting ==
  ASSUME NEW js \in Seq(JobShape), NEW us, NEW os, NEW e, NEW stage,
         NEW a, Steady(a), Agreed(a, Queued(js, a), us, os, e, stage),
         NEW j, Admits(a, Queued(js, a), os, e, stage, j), NEW b, b = Post(a, j)
  PROVE  Steady(b) /\ Agreed(b, Queued(js, b), us, os, e, stage)
<1>1. j \in JobShape /\ a \in Apps BY DEF Admits, Steady
<1>2. Steady(b) /\ b = [a EXCEPT !.posted = b.posted] BY <1>1, PostSteady
<1>3. b \in Apps BY <1>2 DEF Steady
<1>4. Agreed(b, Append(Queued(js, a), j), us, os, e, stage)
  BY <1>1, <1>2, <1>3, PostAgreed
<1>5. Queued(js, b) = Append(Queued(js, a), j) BY <1>1, QueuedPost
<1> QED BY <1>2, <1>4, <1>5

LEMMA DismissMoves ==
  ASSUME NEW js \in Seq(JobShape), NEW us, NEW os, NEW e, NEW stage,
         NEW a, Steady(a), Agreed(a, Queued(js, a), us, os, e, stage), ~a.editorOnly,
         NEW b, b = Dismiss(a)
  PROVE  /\ Steady(b) /\ Agreed(b, Queued(js, b), us, os, e, stage) /\ Moves(a, b)
         /\ a.deferredSave => b = a
         /\ ~a.deferredSave => ~b.visible /\ ~b.shown /\ ~b.deferredOverflow /\ Waiting(b) /\ Left(b)
         /\ Ids(b) \subseteq Ids(a)
<1>1. CASE a.deferredSave BY <1>1, DismissLeaves DEF Moves, SameView
<1>2. CASE ~a.deferredSave
  <2> DEFINE c == Leave(a)
  <2>0. a \in Apps BY DEF Steady
  <2>1. Steady(c) /\ Quiet(a, c) /\ Waiting(c) /\ Ids(c) \subseteq Ids(a) BY <1>2, LeaveSteady
  <2>2. /\ c \in Apps /\ SameView(a, c) /\ ~c.visible /\ ~c.shown /\ ~c.deferredOverflow
        /\ c.outstanding = {x \in a.outstanding : x.kind = "editor" \/ (a.dialog # None /\ x.kind = "card")}
        /\ c.editorOnly = (a.editorOnly \/ (EditorOwns(a) /\ a.dialog = None))
        /\ c.deferredSave = a.deferredSave /\ c.posted = a.posted
    BY <2>0, LeaveIs
  <2> HIDE DEF c
  <2>3. Queued(js, c) = Queued(js, a) BY <2>2 DEF Queued
  <2>4. Agreed(c, Queued(js, c), us, os, e, stage)
    BY <2>0, <2>1, <2>2, <2>3, QuietAgreed DEF Steady
  <2>5. Moves(a, c) BY <2>2 DEF Moves
  <2>6. CASE a.dialog # None \/ EditorOwns(a)
    <3>1. b = c BY <1>2, <2>6, DismissLeaves DEF c
    <3>2. Owns(c)
      <4>1. CASE a.dialog # None
        <5>1. PICK x \in a.outstanding : x.id = a.dialog.id /\ x.kind = "card"
          BY <4>1 DEF Steady, Counted
        <5>2. x \in c.outstanding BY <2>2, <4>1, <5>1
        <5> QED BY <5>1, <5>2 DEF Owns, CardOutputPending
      <4>2. CASE EditorOwns(a) BY <4>2, <2>2 DEF Owns, EditorOwns, Editing, Active, SameView
      <4> QED BY <2>6, <4>1, <4>2
    <3> QED BY <1>2, <2>1, <2>2, <2>4, <2>5, <3>1, <3>2 DEF Left
  <2>7. CASE a.dialog = None /\ ~EditorOwns(a)
    <3> DEFINE j == Job("release")
    <3>1. b = Post(c, j) BY <1>2, <2>7, DismissLeaves DEF c
    <3>2. j \in JobShape /\ j.do = "release" /\ j.action = 0 /\ j.version = Plain
      BY JobShapes DEF Doings
    <3> HIDE DEF j
    <3>3. ~c.opening /\ ~Editing(c)
      <4>1. a.editor.phase \in {"none", "asked", "open"} BY <2>0 DEF Apps
      <4> QED BY <2>2, <2>7, <4>1 DEF EditorOwns, Steady, Sessions, Editing, Active, SameView
    <3>4. Numbered(c, j)
      <4>1. c.nextAction \in Nat \ {0} BY <2>2 DEF Apps
      <4>2. c.dialog = None BY <2>2, <2>7 DEF SameView
      <4> QED BY <3>2, <4>1, <4>2 DEF Numbered
    <3>5. Admits(c, Queued(js, c), os, e, stage, j) BY <2>2, <3>2, <3>3, <3>4 DEF Admits, Judges
    <3>6. Steady(b) /\ Agreed(b, Queued(js, b), us, os, e, stage)
      BY <2>1, <2>4, <3>1, <3>5, Posting
    <3>7. /\ SameView(c, b) /\ b.visible = c.visible /\ b.shown = c.shown /\ b.editorOnly = c.editorOnly
          /\ b.deferredSave = c.deferredSave /\ b.outstanding = c.outstanding
          /\ b.deferredOverflow = c.deferredOverflow /\ (Waiting(b) <=> Waiting(c))
      BY <2>1, <3>1, <3>2, PostSteady
    <3>8. b.posted = Append(c.posted, j) /\ c.posted \in Seq(JobShape)
      <4>1. c.posted \in Seq(JobShape) BY <2>2 DEF Apps
      <4> QED BY <2>2, <3>1, <3>2, <4>1, PostIs
    <3>9. Left(b) BY <3>2, <3>8, Appended DEF Left
    <3> QED BY <1>2, <2>1, <2>2, <2>5, <3>6, <3>7, <3>9 DEF Moves, SameView, Ids
  <2> QED BY <2>6, <2>7
<1> QED BY <1>1, <1>2

-----------------------------------------------------------------------------
(* Dispatching outputs                                                     *)

SameOutputs(a, b) ==
  /\ b.outstanding = a.outstanding /\ b.current = a.current /\ b.fates = a.fates
  /\ b.nextAction = a.nextAction

SameCard(a, b) ==
  /\ b.visible = a.visible /\ b.shown = a.shown /\ b.retention = a.retention /\ b.filed = a.filed

SameWaits(a, b) ==
  /\ b.deferredSave = a.deferredSave /\ b.deferredClose = a.deferredClose
  /\ b.deferredOverflow = a.deferredOverflow /\ b.inFlight = a.inFlight
  /\ b.checkClose = a.checkClose /\ b.checkOverflow = a.checkOverflow
  /\ b.recovery = a.recovery /\ b.editorOnly = a.editorOnly

\* how an output is dispatched: card outputs close the card, an editor's never
Ways == [kind : {"card", "editor", "upload"}, close : BOOLEAN]

Suits(a, way) ==
  /\ way.kind = "card" => way.close /\ ~a.editorOnly
  /\ way.kind = "editor" => ~way.close
  /\ way.kind = "upload" => a.visible

LEMMA RegisterIs ==
  ASSUME NEW a \in Apps, NEW id \in Nat \ {0}, NEW way \in Ways,
         NEW b, b = Register(a, id, way.kind, way.close)
  PROVE  /\ b \in Apps /\ SameView(a, b) /\ SameCard(a, b) /\ SameWaits(a, b)
         /\ b.outstanding = a.outstanding \union {[id |-> id, kind |-> way.kind, close |-> way.close]}
         /\ b.current = (IF way.kind = "upload" THEN id ELSE a.current)
         /\ b.fates = a.fates /\ b.nextAction = a.nextAction /\ b.posted = a.posted
         /\ Ids(b) = Ids(a) \union {id}
<1> DEFINE x == [id |-> id, kind |-> way.kind, close |-> way.close]
           o == a.outstanding \union {x}
           c == IF way.kind = "upload" THEN id ELSE a.current
<1>1. x \in Outs BY DEF Outs, Ways
<1>2. o \in SUBSET Outs /\ c \in Nat BY <1>1 DEF Apps
<1>3. b = [a EXCEPT !.outstanding = o, !.current = c] BY DEF Register
<1>4. x.id = id OBVIOUS
<1> HIDE DEF x
<1>5. o = a.outstanding \union {x} OBVIOUS
<1> HIDE DEF o, c
<1>6. b \in Apps BY <1>2, <1>3, ZenonT(60) DEF Apps
<1>7. /\ b.outstanding = o /\ b.current = c /\ b.fates = a.fates /\ b.nextAction = a.nextAction
      /\ b.posted = a.posted /\ SameView(a, b) /\ SameCard(a, b) /\ SameWaits(a, b)
  BY <1>3 DEF Apps, SameView, SameCard, SameWaits
<1>8. Ids(b) = Ids(a) \union {id} BY <1>4, <1>5, <1>7 DEF Ids
<1> QED BY <1>6, <1>7, <1>8 DEF o, c, x

LEMMA RegisterSteady ==
  ASSUME NEW a, Steady(a), NEW id \in Nat \ {0}, NEW way \in Ways,
         NEW b, b = Register(a, id, way.kind, way.close),
         id < a.nextAction, id \notin Ids(a), id # a.recovery, Suits(a, way)
  PROVE  /\ Steady(b)
         /\ CardOutputPending(b) <=> CardOutputPending(a) \/ way.kind = "card"
<1>0. a \in Apps BY DEF Steady
<1> DEFINE x == [id |-> id, kind |-> way.kind, close |-> way.close]
<1>1. /\ b \in Apps /\ SameView(a, b) /\ SameCard(a, b) /\ SameWaits(a, b)
      /\ b.outstanding = a.outstanding \union {x}
      /\ b.current = (IF way.kind = "upload" THEN id ELSE a.current)
      /\ b.fates = a.fates /\ b.nextAction = a.nextAction /\ b.posted = a.posted
      /\ Ids(b) = Ids(a) \union {id}
  BY <1>0, RegisterIs
<1>2. x.id = id /\ x.kind = way.kind /\ x.close = way.close OBVIOUS
<1> HIDE DEF x
<1>3. CardOutputPending(b) <=> CardOutputPending(a) \/ way.kind = "card"
  BY <1>1, <1>2 DEF CardOutputPending
<1>4. Counted(b)
  <2>1. \A y \in b.outstanding : y.id < b.nextAction BY <1>1, <1>2 DEF Steady, Counted
  <2>2. \A y \in a.outstanding : y.id # id BY DEF Ids
  <2>3. \A y, z \in b.outstanding : y.id = z.id => y = z BY <1>1, <1>2, <2>2 DEF Steady, Counted
  <2>4. \A y \in b.outstanding : (y.kind = "card" => y.close) /\ (y.kind = "editor" => ~y.close)
    BY <1>1, <1>2 DEF Steady, Counted, Suits
  <2>5. b.current # 0 => \E y \in b.outstanding : y.id = b.current /\ y.kind = "upload"
    BY <1>1, <1>2 DEF Steady, Counted
  <2>6. b.dialog # None => \E y \in b.outstanding : y.id = b.dialog.id /\ y.kind = "card"
    BY <1>1 DEF Steady, Counted, SameView
  <2>7. b.recovery # 0 => b.recovery < b.nextAction /\ b.recovery \notin Ids(b)
    BY <1>1 DEF Steady, Counted, SameWaits
  <2> QED BY <2>1, <2>3, <2>4, <2>5, <2>6, <2>7 DEF Counted
<1>5. Withdrawn(b) BY <1>1, <1>2 DEF Steady, Withdrawn, SameCard, SameWaits, Suits
<1>6. Displayed(b) /\ Filing(b)
  BY <1>1 DEF Steady, Displayed, Filing, SameCard, SameWaits, SameView
<1>7. Sessions(b) BY <1>1 DEF Steady, Sessions, SameWaits, SameView, Editing, Active
<1>8. Adopted(b) BY <1>1, <1>3 DEF Steady, Suits, Adopted, SameCard, SameWaits, SameView, Editing
<1>9. Freezing(b) BY <1>1 DEF Steady, Freezing, SameCard, SameView, Active
<1> QED BY <1>1, <1>3, <1>4, <1>5, <1>6, <1>7, <1>8, <1>9 DEF Steady

\* what Dispatch does but for the job
Book(a, kind, close) ==
  Register([a EXCEPT !.nextAction = @ + 1], a.nextAction, kind, close)

LEMMA NextActionIs ==
  ASSUME NEW a, Steady(a), NEW b, b = [a EXCEPT !.nextAction = @ + 1]
  PROVE  /\ Steady(b) /\ SameView(a, b) /\ SameCard(a, b) /\ SameWaits(a, b)
         /\ b.outstanding = a.outstanding /\ b.current = a.current /\ b.fates = a.fates
         /\ b.nextAction = a.nextAction + 1 /\ b.posted = a.posted /\ Ids(b) = Ids(a)
         /\ a.nextAction \in Nat \ {0} /\ a.nextAction \notin Ids(b)
         /\ a.recovery < a.nextAction
<1>0. a \in Apps /\ a.nextAction \in Nat \ {0} /\ a.recovery \in Nat BY DEF Steady, Apps
<1>1. b \in Apps
  <2> DEFINE n == a.nextAction + 1
  <2>1. n \in Nat \ {0} /\ b = [a EXCEPT !.nextAction = n] BY <1>0
  <2> HIDE DEF n
  <2> QED BY <1>0, <2>1, SMTT(30) DEF Apps
<1>2. /\ SameView(a, b) /\ SameCard(a, b) /\ SameWaits(a, b)
      /\ b.outstanding = a.outstanding /\ b.current = a.current /\ b.fates = a.fates
      /\ b.nextAction = a.nextAction + 1 /\ b.posted = a.posted
  BY <1>0 DEF Apps, SameView, SameCard, SameWaits
<1>3. Ids(b) = Ids(a) BY <1>2 DEF Ids
<1>4. a.nextAction \notin Ids(b) /\ a.recovery < a.nextAction
  BY <1>0, <1>3 DEF Steady, Counted, Ids
<1>5. Counted(b)
  <2>1. \A x \in a.outstanding : x.id \in Nat BY <1>0 DEF Apps, Outs
  <2> QED BY <1>0, <1>2, <1>3, <2>1 DEF Steady, Counted, SameView, SameWaits
<1>6. Withdrawn(b) /\ Displayed(b) /\ Filing(b)
  BY <1>2 DEF Steady, Withdrawn, Displayed, Filing, SameCard, SameWaits, SameView
<1>7. Sessions(b) /\ Adopted(b) /\ Freezing(b)
  BY <1>2 DEF Steady, Sessions, Adopted, Freezing, SameCard, SameWaits, SameView, Editing, Active,
              CardOutputPending
<1> QED BY <1>0, <1>1, <1>2, <1>3, <1>4, <1>5, <1>6, <1>7 DEF Steady

LEMMA BookSteady ==
  ASSUME NEW a, Steady(a), NEW way \in Ways, Suits(a, way), NEW b, b = Book(a, way.kind, way.close)
  PROVE  /\ Steady(b) /\ Quiet(a, b) /\ SameView(a, b) /\ SameCard(a, b) /\ SameWaits(a, b)
         /\ CardOutputPending(b) <=> CardOutputPending(a) \/ way.kind = "card"
         /\ b.posted = a.posted /\ b.nextAction = a.nextAction + 1
         /\ Ids(b) = Ids(a) \union {a.nextAction}
         /\ IF way.kind = "upload" THEN Uploading(b, a.nextAction) ELSE Exporting(b, a.nextAction)
<1> DEFINE c == [a EXCEPT !.nextAction = @ + 1]
<1>1. /\ Steady(c) /\ SameView(a, c) /\ SameCard(a, c) /\ SameWaits(a, c)
      /\ c.outstanding = a.outstanding /\ c.fates = a.fates
      /\ c.nextAction = a.nextAction + 1 /\ c.posted = a.posted /\ Ids(c) = Ids(a)
      /\ a.nextAction \in Nat \ {0} /\ a.nextAction \notin Ids(c)
      /\ a.recovery < a.nextAction
  BY NextActionIs
<1>2. b = Register(c, a.nextAction, way.kind, way.close) BY DEF Book
<1> HIDE DEF c
<1>3. c \in Apps BY <1>1 DEF Steady
<1>4. a.nextAction < c.nextAction /\ a.nextAction # c.recovery /\ c.recovery = a.recovery
  BY <1>1 DEF SameWaits
<1>5. Suits(c, way) BY <1>1 DEF SameWaits, SameCard, Suits
<1>6. /\ SameView(c, b) /\ SameCard(c, b) /\ SameWaits(c, b)
      /\ b.fates = c.fates /\ b.nextAction = c.nextAction /\ b.posted = c.posted
      /\ b.outstanding = c.outstanding
           \union {[id |-> a.nextAction, kind |-> way.kind, close |-> way.close]}
      /\ Ids(b) = Ids(c) \union {a.nextAction}
  BY <1>1, <1>2, <1>3, RegisterIs
<1>7. Steady(b) /\ (CardOutputPending(b) <=> CardOutputPending(c) \/ way.kind = "card")
  BY <1>1, <1>2, <1>4, <1>5, RegisterSteady
<1>8. CardOutputPending(c) <=> CardOutputPending(a) BY <1>1 DEF CardOutputPending
<1>9. SameView(a, b) /\ SameCard(a, b) /\ SameWaits(a, b)
  BY <1>1, <1>6 DEF SameView, SameCard, SameWaits
<1>10. Quiet(a, b) BY <1>1, <1>6, <1>9 DEF Quiet, SameCard, SameWaits
<1>11. IF way.kind = "upload" THEN Uploading(b, a.nextAction) ELSE Exporting(b, a.nextAction)
  BY <1>1, <1>6 DEF Uploading, Exporting, Ids
<1> QED BY <1>1, <1>6, <1>7, <1>8, <1>9, <1>10, <1>11

LEMMA DispatchBooks ==
  ASSUME NEW a \in Apps, NEW kind, NEW close, NEW job
  PROVE  Dispatch(a, kind, close, job)
           = Post(Book(a, kind, close), [job EXCEPT !.action = a.nextAction])
  BY ZenonT(60) DEF Dispatch, Book, Post, Register, Apps

LEMMA DispatchMoves ==
  ASSUME NEW js \in Seq(JobShape), NEW us, NEW os, NEW e, NEW stage,
         NEW a, Steady(a), Agreed(a, Queued(js, a), us, os, e, stage),
         NEW way \in Ways, Suits(a, way),
         NEW job \in JobShape, job.do \in {"output", "upload"}, Fresh(a, e, job.version),
         job.do = "upload" <=> way.kind = "upload",
         NEW b, b = Dispatch(a, way.kind, way.close, job)
  PROVE  /\ Steady(b) /\ Agreed(b, Queued(js, b), us, os, e, stage)
         /\ SameView(a, b) /\ SameCard(a, b) /\ SameWaits(a, b)
         /\ CardOutputPending(b) <=> CardOutputPending(a) \/ way.kind = "card"
<1> DEFINE c == Book(a, way.kind, way.close)
           j == [job EXCEPT !.action = a.nextAction]
<1>0. a \in Apps /\ a.nextAction \in Nat \ {0} /\ a.recovery \in Nat BY DEF Steady, Apps
<1>1. /\ Steady(c) /\ Quiet(a, c) /\ SameView(a, c) /\ SameCard(a, c) /\ SameWaits(a, c)
      /\ CardOutputPending(c) <=> CardOutputPending(a) \/ way.kind = "card"
      /\ c.posted = a.posted /\ c.nextAction = a.nextAction + 1
      /\ IF way.kind = "upload" THEN Uploading(c, a.nextAction) ELSE Exporting(c, a.nextAction)
  BY BookSteady
<1>2. j \in JobShape /\ j.do = job.do /\ j.action = a.nextAction /\ j.version = job.version
  BY <1>0 DEF JobShape
<1>3. b = Post(c, j) BY <1>0, DispatchBooks
<1> HIDE DEF c, j
<1>4. c \in Apps /\ Queued(js, c) = Queued(js, a) BY <1>1 DEF Steady, Queued
<1>5. Agreed(c, Queued(js, c), us, os, e, stage)
  BY <1>0, <1>1, <1>4, QuietAgreed DEF Steady
<1>6. Numbered(c, j)
  <2>1. a.dialog # None => a.dialog.id < a.nextAction BY DEF Steady, Counted
  <2>2. a.recovery # 0 => a.recovery < a.nextAction BY DEF Steady, Counted
  <2> QED BY <1>0, <1>1, <1>2, <2>1, <2>2 DEF Numbered, SameView, SameWaits
<1>7. Fresh(c, e, j.version) BY <1>1, <1>2 DEF Fresh, SameCard, SameView
<1>8. Admits(c, Queued(js, c), os, e, stage, j) BY <1>1, <1>2, <1>6, <1>7 DEF Admits, Fresh, Judges
<1>9. Steady(b) /\ Agreed(b, Queued(js, b), us, os, e, stage)
  BY <1>1, <1>3, <1>5, <1>8, Posting
<1>10. /\ b = [c EXCEPT !.posted = b.posted]
       /\ CardOutputPending(b) <=> CardOutputPending(c)
  BY <1>1, <1>2, <1>3, PostSteady
<1>11. SameView(c, b) /\ SameCard(c, b) /\ SameWaits(c, b)
  BY <1>4, <1>10 DEF SameView, SameCard, SameWaits, Apps
<1> QED BY <1>1, <1>9, <1>10, <1>11 DEF SameView, SameCard, SameWaits

-----------------------------------------------------------------------------
(* Automatic closes and overflows                                          *)

\* a change to what the card waits for only
LEMMA WaitsSteady ==
  ASSUME NEW a, Steady(a), NEW b \in Apps, SameView(a, b), SameOutputs(a, b), SameCard(a, b),
         b.posted = a.posted, b.editorOnly = a.editorOnly, b.deferredSave = a.deferredSave,
         b.recovery \in {0, a.recovery}, a.checkClose => b.checkClose,
         ~b.visible => b.deferredClose = None /\ ~b.checkClose /\ ~b.checkOverflow,
         Displayed(b), b.editorOnly => ~b.inFlight /\ ~b.deferredOverflow
  PROVE  Steady(b) /\ Quiet(a, b) /\ Queued(<<>>, b) = Queued(<<>>, a)
<1>0. a \in Apps /\ a.nextAction \in Nat BY DEF Steady, Apps
<1>1. Counted(b)
  BY DEF Steady, Counted, SameOutputs, SameView, Ids
<1>2. Withdrawn(b) /\ Filing(b) BY DEF Steady, Withdrawn, Filing, SameCard, SameView, SameOutputs
<1>3. Sessions(b) /\ Adopted(b) /\ Freezing(b)
  BY DEF Steady, Sessions, Adopted, Freezing, SameCard, SameOutputs, SameView, Editing, Active,
         CardOutputPending
<1>4. Quiet(a, b) BY <1>0 DEF Quiet, SameCard, SameOutputs, Ids
<1> QED BY <1>1, <1>2, <1>3, <1>4 DEF Steady, Queued

LEMMA ClearsDeferredClose ==
  ASSUME NEW a, Steady(a), NEW b, b = [a EXCEPT !.deferredClose = None]
  PROVE  /\ Steady(b) /\ Quiet(a, b) /\ SameView(a, b) /\ SameOutputs(a, b) /\ SameCard(a, b)
         /\ b.posted = a.posted /\ b.editorOnly = a.editorOnly /\ b.deferredSave = a.deferredSave
         /\ b.deferredOverflow = a.deferredOverflow /\ b.inFlight = a.inFlight
<1>0. a \in Apps BY DEF Steady
<1>1. b \in Apps BY <1>0, ZenonT(60) DEF Apps
<1>2. /\ SameView(a, b) /\ SameOutputs(a, b) /\ SameCard(a, b) /\ b.posted = a.posted
      /\ b.editorOnly = a.editorOnly /\ b.deferredSave = a.deferredSave /\ b.recovery = a.recovery
      /\ b.checkClose = a.checkClose /\ b.checkOverflow = a.checkOverflow /\ b.inFlight = a.inFlight
      /\ b.deferredOverflow = a.deferredOverflow /\ b.deferredClose = None
  BY <1>0 DEF Apps, SameView, SameOutputs, SameCard
<1>3. Steady(b) /\ Quiet(a, b)
  BY <1>1, <1>2, WaitsSteady, ZenonT(60) DEF Steady, Withdrawn, Displayed, Adopted, SameCard
<1> QED BY <1>2, <1>3

LEMMA ClearsDeferredOverflow ==
  ASSUME NEW a, Steady(a), NEW b, b = [a EXCEPT !.deferredOverflow = FALSE]
  PROVE  /\ Steady(b) /\ Quiet(a, b) /\ SameView(a, b) /\ SameOutputs(a, b) /\ SameCard(a, b)
         /\ b.posted = a.posted /\ b.editorOnly = a.editorOnly /\ b.deferredSave = a.deferredSave
         /\ ~b.deferredOverflow /\ b.inFlight = a.inFlight
<1>0. a \in Apps BY DEF Steady
<1>1. b \in Apps BY <1>0, ZenonT(60) DEF Apps
<1>2. /\ SameView(a, b) /\ SameOutputs(a, b) /\ SameCard(a, b) /\ b.posted = a.posted
      /\ b.editorOnly = a.editorOnly /\ b.deferredSave = a.deferredSave /\ b.recovery = a.recovery
      /\ b.checkClose = a.checkClose /\ b.checkOverflow = a.checkOverflow /\ b.inFlight = a.inFlight
      /\ ~b.deferredOverflow /\ b.deferredClose = a.deferredClose
  BY <1>0 DEF Apps, SameView, SameOutputs, SameCard
<1>3. Steady(b) /\ Quiet(a, b)
  BY <1>1, <1>2, WaitsSteady, ZenonT(60) DEF Steady, Withdrawn, Displayed, Adopted, SameCard
<1> QED BY <1>2, <1>3

LEMMA SetsInFlight ==
  ASSUME NEW a, Steady(a), ~a.shown, ~a.editorOnly, NEW b, b = [a EXCEPT !.inFlight = TRUE]
  PROVE  /\ Steady(b) /\ Quiet(a, b) /\ SameView(a, b) /\ SameOutputs(a, b) /\ SameCard(a, b)
         /\ b.posted = a.posted /\ b.editorOnly = a.editorOnly /\ b.deferredSave = a.deferredSave
         /\ b.deferredOverflow = a.deferredOverflow /\ b.inFlight
<1>0. a \in Apps BY DEF Steady
<1>1. b \in Apps BY <1>0, ZenonT(30) DEF Apps
<1>2. /\ SameView(a, b) /\ SameOutputs(a, b) /\ SameCard(a, b) /\ b.posted = a.posted
      /\ b.editorOnly = a.editorOnly /\ b.deferredSave = a.deferredSave /\ b.recovery = a.recovery
      /\ b.checkClose = a.checkClose /\ b.checkOverflow = a.checkOverflow
      /\ b.deferredOverflow = a.deferredOverflow /\ b.deferredClose = a.deferredClose
      /\ b.inFlight
  BY <1>0 DEF Apps, SameView, SameOutputs, SameCard
<1>3. Steady(b) /\ Quiet(a, b)
  BY <1>1, <1>2, WaitsSteady DEF Steady, Withdrawn, Displayed, Adopted, SameCard
<1> QED BY <1>2, <1>3

LEMMA ClearsInFlight ==
  ASSUME NEW a, Steady(a), NEW b, b = [a EXCEPT !.inFlight = FALSE]
  PROVE  /\ Steady(b) /\ Quiet(a, b) /\ SameView(a, b) /\ SameOutputs(a, b) /\ SameCard(a, b)
         /\ b.posted = a.posted /\ b.editorOnly = a.editorOnly /\ b.deferredSave = a.deferredSave
         /\ b.deferredOverflow = a.deferredOverflow /\ ~b.inFlight
<1>0. a \in Apps BY DEF Steady
<1>1. b \in Apps BY <1>0, ZenonT(60) DEF Apps
<1>2. /\ SameView(a, b) /\ SameOutputs(a, b) /\ SameCard(a, b) /\ b.posted = a.posted
      /\ b.editorOnly = a.editorOnly /\ b.deferredSave = a.deferredSave /\ b.recovery = a.recovery
      /\ b.checkClose = a.checkClose /\ b.checkOverflow = a.checkOverflow
      /\ b.deferredOverflow = a.deferredOverflow /\ b.deferredClose = a.deferredClose
      /\ ~b.inFlight
  BY <1>0 DEF Apps, SameView, SameOutputs, SameCard
<1>3. Steady(b) /\ Quiet(a, b)
  BY <1>1, <1>2, WaitsSteady, ZenonT(60) DEF Steady, Withdrawn, Displayed, Adopted, SameCard
<1> QED BY <1>2, <1>3

LEMMA ChecksClose ==
  ASSUME NEW a, Steady(a), a.visible, NEW b, b = [a EXCEPT !.checkClose = TRUE]
  PROVE  /\ Steady(b) /\ Quiet(a, b) /\ SameView(a, b) /\ SameOutputs(a, b) /\ SameCard(a, b)
         /\ b.posted = a.posted /\ b.editorOnly = a.editorOnly /\ b.deferredSave = a.deferredSave
         /\ b.deferredOverflow = a.deferredOverflow /\ b.inFlight = a.inFlight
         /\ b.checkClose /\ b.recovery = a.recovery
<1>0. a \in Apps BY DEF Steady
<1>1. b \in Apps BY <1>0, ZenonT(60) DEF Apps
<1>2. /\ SameView(a, b) /\ SameOutputs(a, b) /\ SameCard(a, b) /\ b.posted = a.posted
      /\ b.editorOnly = a.editorOnly /\ b.deferredSave = a.deferredSave /\ b.recovery = a.recovery
      /\ b.checkClose /\ b.checkOverflow = a.checkOverflow /\ b.inFlight = a.inFlight
      /\ b.deferredOverflow = a.deferredOverflow /\ b.deferredClose = a.deferredClose
  BY <1>0 DEF Apps, SameView, SameOutputs, SameCard
<1>3. Steady(b) /\ Quiet(a, b)
  BY <1>1, <1>2, WaitsSteady DEF Steady, Withdrawn, Displayed, Adopted, SameCard
<1> QED BY <1>2, <1>3

LEMMA PlainFresh == ASSUME NEW a, NEW e PROVE Fresh(a, e, Plain)
  BY DEF Fresh

LEMMA OutputShape ==
  ASSUME NEW export \in BOOLEAN, NEW version \in Versions
  PROVE  /\ Output(export, version) \in JobShape /\ Output(export, version).do = "output"
         /\ Output(export, version).version = version
  BY NoneIsApart DEF Output, Job, JobShape, Doings

LEMMA SavesMoves ==
  ASSUME NEW js \in Seq(JobShape), NEW us, NEW os, NEW e, NEW stage,
         NEW a, Steady(a), Agreed(a, Queued(js, a), us, os, e, stage), ~a.editorOnly,
         NEW version \in Versions, Fresh(a, e, version),
         NEW b, b = SavesAndCloses(a, version)
  PROVE  /\ Steady(b) /\ Agreed(b, Queued(js, b), us, os, e, stage)
         /\ SameView(a, b) /\ SameCard(a, b) /\ SameWaits(a, b) /\ CardOutputPending(b)
<1> DEFINE job == Output(TRUE, version)
<1>1. job \in JobShape /\ job.do = "output" /\ job.version = version BY OutputShape
<1>2. b = Dispatch(a, "card", TRUE, job) BY DEF SavesAndCloses
<1> HIDE DEF job
<1> DEFINE way == [kind |-> "card", close |-> TRUE]
<1>3. way \in Ways /\ Suits(a, way) /\ way.kind = "card" BY DEF Ways, Suits
<1>4. b = Dispatch(a, way.kind, way.close, job) BY <1>2
<1> HIDE DEF way
<1> QED BY <1>1, <1>3, <1>4, DispatchMoves

LEMMA CheckShape ==
  /\ Job("releaseIfRetained") \in JobShape /\ Job("releaseIfRetained").do = "releaseIfRetained"
  /\ Job("releaseIfRetained").action = 0 /\ Job("releaseIfRetained").version = Plain
  BY JobShapes DEF Doings

LEMMA ZeroNumbered ==
  ASSUME NEW a, Steady(a), NEW m, m.action = 0 PROVE Numbered(a, m)
<1>1. a \in Apps /\ a.nextAction \in Nat \ {0} BY DEF Steady, Apps
<1>2. a.dialog # None => a.dialog.id \in Ids(a) BY DEF Steady, Counted, Ids
<1>3. Ids(a) \subseteq Nat \ {0} BY <1>1, IdTypes
<1> QED BY <1>1, <1>2, <1>3 DEF Numbered

LEMMA DismissEither ==
  ASSUME NEW js \in Seq(JobShape), NEW us, NEW os, NEW e, NEW stage,
         NEW a, Steady(a), Agreed(a, Queued(js, a), us, os, e, stage), ~a.editorOnly,
         NEW b, b = Dismiss(a)
  PROVE  /\ Steady(b) /\ Agreed(b, Queued(js, b), us, os, e, stage) /\ Moves(a, b)
         /\ b = a \/ (~b.visible /\ ~b.shown /\ ~b.deferredOverflow /\ Waiting(b) /\ Left(b))
  BY DismissMoves

LEMMA AutoCloseMoves ==
  ASSUME NEW js \in Seq(JobShape), NEW us, NEW os, NEW e, NEW stage,
         NEW a, Steady(a), Agreed(a, Queued(js, a), us, os, e, stage),
         a.visible, ~a.opening, stage = "closing" \/ ~Editing(a),
         NEW how \in {"hide", "save"}, NEW version \in Versions, Fresh(a, e, version),
         NEW b, b = AutoClose(a, how, version)
  PROVE  /\ Steady(b) /\ Agreed(b, Queued(js, b), us, os, e, stage) /\ Moves(a, b)
         /\ \/ b.visible /\ b.inFlight = a.inFlight /\ b.deferredOverflow = a.deferredOverflow
            \/ ~b.visible /\ ~b.shown /\ ~b.deferredOverflow /\ Waiting(b) /\ Left(b)
<1>0. ~a.editorOnly /\ a \in Apps BY DEF Steady, Adopted
<1>1. CASE b = a BY <1>1 DEF Moves, SameView
<1>2. CASE b = Dismiss(a)
  <2>1. /\ Steady(b) /\ Agreed(b, Queued(js, b), us, os, e, stage) /\ Moves(a, b)
        /\ b = a \/ (~b.visible /\ ~b.shown /\ ~b.deferredOverflow /\ Waiting(b) /\ Left(b))
    BY <1>0, <1>2, DismissEither
  <2> QED BY <2>1
<1>3. CASE b = SavesAndCloses(a, version)
  <2>1. /\ Steady(b) /\ Agreed(b, Queued(js, b), us, os, e, stage)
        /\ SameView(a, b) /\ SameCard(a, b) /\ SameWaits(a, b)
    BY <1>0, <1>3, SavesMoves
  <2> QED BY <2>1 DEF Moves, SameCard, SameWaits
<1>4. CASE /\ a.filed /\ ~a.checkClose
           /\ b = Post([a EXCEPT !.checkClose = TRUE], Job("releaseIfRetained"))
  <2> DEFINE c == [a EXCEPT !.checkClose = TRUE]
             j == Job("releaseIfRetained")
  <2>1. /\ Steady(c) /\ Quiet(a, c) /\ SameView(a, c) /\ SameOutputs(a, c) /\ SameCard(a, c)
        /\ c.posted = a.posted /\ c.editorOnly = a.editorOnly /\ c.deferredSave = a.deferredSave
        /\ c.deferredOverflow = a.deferredOverflow /\ c.inFlight = a.inFlight
        /\ c.checkClose /\ c.recovery = a.recovery
    BY ChecksClose
  <2>2. /\ j \in JobShape /\ j.do = "releaseIfRetained" /\ j.action = 0 /\ j.version = Plain
    BY CheckShape
  <2>3. b = Post(c, j) BY <1>4
  <2> HIDE DEF c, j
  <2>4. c \in Apps /\ Queued(js, c) = Queued(js, a) BY <2>1 DEF Steady, Queued
  <2>5. Agreed(c, Queued(js, c), us, os, e, stage)
    BY <1>0, <2>1, <2>4, QuietAgreed DEF Steady
  <2>6. a.shown => Checks(Queued(js, a)) \union CheckAnswers(os) = {}
    BY <1>4 DEF Agreed, Checking
  <2>7. ~a.finalizing BY <1>4 DEF Steady, Filing
  <2>8. Numbered(c, j) BY <2>1, <2>2, ZeroNumbered
  <2>9. Admits(c, Queued(js, c), os, e, stage, j)
    BY <2>1, <2>2, <2>4, <2>6, <2>7, <2>8 DEF Admits, Judges, SameView, SameCard, Editing
  <2>10. Steady(b) /\ Agreed(b, Queued(js, b), us, os, e, stage)
    BY <2>1, <2>3, <2>5, <2>9, Posting
  <2>11. /\ SameView(c, b) /\ b.visible = c.visible /\ b.shown = c.shown /\ b.editorOnly = c.editorOnly
         /\ b.deferredSave = c.deferredSave /\ b.inFlight = c.inFlight
         /\ b.deferredOverflow = c.deferredOverflow
    BY <2>1, <2>2, <2>3, PostSteady
  <2> QED BY <2>1, <2>10, <2>11 DEF Moves, SameView, SameCard
<1>5. \/ b = a \/ b = Dismiss(a) \/ b = SavesAndCloses(a, version)
      \/ /\ a.filed /\ ~a.checkClose
         /\ b = Post([a EXCEPT !.checkClose = TRUE], Job("releaseIfRetained"))
  BY DEF AutoClose
<1> QED BY <1>1, <1>2, <1>3, <1>4, <1>5

LEMMA AsksMoves ==
  ASSUME NEW js \in Seq(JobShape), NEW us, NEW os, NEW e, NEW stage,
         NEW a, Steady(a), Agreed(a, Queued(js, a), us, os, e, stage),
         a.visible, ~a.shown, ~a.opening, a.filed, stage = "closing" \/ ~Editing(a),
         NEW b, b = AsksHistory(a)
  PROVE  /\ Steady(b) /\ Agreed(b, Queued(js, b), us, os, e, stage) /\ Moves(a, b)
         /\ b.visible /\ b.retention = a.retention /\ b.deferredOverflow = a.deferredOverflow
<1> DEFINE c == [a EXCEPT !.nextAction = @ + 1]
           d == [c EXCEPT !.recovery = a.nextAction, !.checkOverflow = TRUE]
           j == Job("releaseIfRetained")
<1>0. a \in Apps BY DEF Steady
<1>1. /\ Steady(c) /\ SameView(a, c) /\ SameCard(a, c) /\ SameWaits(a, c)
      /\ c.outstanding = a.outstanding /\ c.current = a.current /\ c.fates = a.fates
      /\ c.nextAction = a.nextAction + 1 /\ c.posted = a.posted /\ Ids(c) = Ids(a)
      /\ a.nextAction \in Nat \ {0} /\ a.nextAction \notin Ids(c)
      /\ a.recovery < a.nextAction
  BY NextActionIs
<1>2. [a EXCEPT !.recovery = a.nextAction, !.nextAction = @ + 1, !.checkOverflow = TRUE] = d
  BY <1>0 DEF Apps
<1>3. b = IF a.checkOverflow THEN d ELSE Post(d, j) BY <1>2 DEF AsksHistory
<1> HIDE DEF c
<1>4. c \in Apps BY <1>1 DEF Steady
<1>5. d \in Apps BY <1>1, <1>4 DEF Apps
<1>6. /\ SameView(c, d) /\ SameCard(c, d) /\ SameOutputs(c, d) /\ d.posted = c.posted
      /\ d.deferredSave = c.deferredSave /\ d.deferredClose = c.deferredClose
      /\ d.deferredOverflow = c.deferredOverflow /\ d.inFlight = c.inFlight
      /\ d.checkClose = c.checkClose /\ d.checkOverflow /\ d.editorOnly = c.editorOnly
      /\ d.recovery = a.nextAction
  BY <1>1, <1>4 DEF Apps, SameView, SameCard, SameOutputs
<1> HIDE DEF d
<1>7. Steady(d)
  <2>1. Counted(d) BY <1>1, <1>6 DEF Steady, Counted, SameOutputs, SameView, Ids
  <2>2. Withdrawn(d) /\ Displayed(d) /\ Filing(d)
    BY <1>1, <1>6 DEF Steady, Withdrawn, Displayed, Filing, SameCard, SameView, SameOutputs
  <2>3. Sessions(d) /\ Adopted(d) /\ Freezing(d)
    BY <1>1, <1>6 DEF Steady, Sessions, Adopted, Freezing, SameCard, SameOutputs, SameView, Editing,
                      Active, CardOutputPending
  <2> QED BY <1>5, <2>1, <2>2, <2>3 DEF Steady
<1>8. Ids(d) = Ids(a) BY <1>1, <1>6 DEF Ids, SameOutputs
<1>9. Quiet(a, d)
  BY <1>1, <1>6, <1>8 DEF Quiet, SameView, SameCard, SameOutputs, SameWaits
<1>10. Queued(js, d) = Queued(js, a) BY <1>1, <1>6 DEF Queued
<1>11. Agreed(d, Queued(js, d), us, os, e, stage)
  BY <1>0, <1>5, <1>9, <1>10, QuietAgreed DEF Steady
<1>12. Moves(a, d) /\ d.visible /\ d.retention = a.retention /\ d.deferredOverflow = a.deferredOverflow
  BY <1>1, <1>6 DEF Moves, SameView, SameCard, SameWaits
<1>13. CASE a.checkOverflow BY <1>3, <1>7, <1>11, <1>12, <1>13
<1>14. CASE ~a.checkOverflow
  <2>1. b = Post(d, j) BY <1>3, <1>14
  <2>2. /\ j \in JobShape /\ j.do = "releaseIfRetained" /\ j.action = 0 /\ j.version = Plain
    BY CheckShape
  <2> HIDE DEF j
  <2>3. Numbered(d, j) BY <1>7, <2>2, ZeroNumbered
  <2>4. ~d.shown /\ ~d.opening /\ ~d.finalizing /\ (stage = "closing" \/ ~Editing(d))
    BY <1>1, <1>6 DEF Steady, Filing, SameView, SameCard, Editing
  <2>5. Admits(d, Queued(js, d), os, e, stage, j) BY <2>2, <2>3, <2>4 DEF Admits, Judges
  <2>6. Steady(b) /\ Agreed(b, Queued(js, b), us, os, e, stage)
    BY <1>7, <1>11, <2>1, <2>5, Posting
  <2>7. /\ SameView(d, b) /\ b.visible = d.visible /\ b.shown = d.shown /\ b.editorOnly = d.editorOnly
        /\ b.deferredSave = d.deferredSave /\ b.retention = d.retention
        /\ b.deferredOverflow = d.deferredOverflow
    BY <1>7, <2>1, <2>2, PostSteady
  <2> QED BY <1>12, <2>6, <2>7 DEF Moves, SameView
<1> QED BY <1>13, <1>14

LEMMA OverflowMoves ==
  ASSUME NEW js \in Seq(JobShape), NEW us, NEW os, NEW e, NEW stage,
         NEW a, Steady(a), Agreed(a, Queued(js, a), us, os, e, stage),
         ~a.editorOnly, ~a.shown,
         a.visible => ~a.opening /\ (stage = "closing" \/ ~Editing(a)),
         NEW version \in Versions, Fresh(a, e, version),
         NEW b, b = Overflow(a, version)
  PROVE  /\ Steady(b) /\ Agreed(b, Queued(js, b), us, os, e, stage) /\ Moves(a, b)
         /\ Left(b) /\ (b.deferredOverflow => a.deferredOverflow)
         /\ ~b.visible => \/ ~a.visible /\ CardOutputPending(b) /\ b.inFlight
                          \/ Waiting(b) /\ ~b.deferredOverflow
         /\ a.visible /\ version = Plain =>
              IF b.visible THEN b.retention = a.retention ELSE a.retention.elsewhere
<1>0. a \in Apps BY DEF Steady
<1>1. CASE (CardOutputPending(a) \/ UploadCloses(a)) /\ b = [a EXCEPT !.inFlight = TRUE]
  <2>1. /\ Steady(b) /\ Quiet(a, b) /\ SameView(a, b) /\ SameOutputs(a, b) /\ SameCard(a, b)
        /\ b.posted = a.posted /\ b.editorOnly = a.editorOnly /\ b.deferredSave = a.deferredSave
        /\ b.deferredOverflow = a.deferredOverflow /\ b.inFlight
    BY <1>1, SetsInFlight
  <2>2. Queued(js, b) = Queued(js, a) /\ b \in Apps BY <2>1 DEF Queued, Steady
  <2>3. Agreed(b, Queued(js, b), us, os, e, stage)
    BY <1>0, <2>1, <2>2, QuietAgreed DEF Steady
  <2>4. ~b.visible => CardOutputPending(b)
    <3> SUFFICES ASSUME ~b.visible PROVE CardOutputPending(b) OBVIOUS
    <3>1. \A x \in a.outstanding : x.kind # "upload" /\ x.id # 0
      BY <1>0, <2>1 DEF Steady, Withdrawn, SameCard, Apps, Outs
    <3>2. a.current = 0 BY <3>1 DEF Steady, Counted
    <3>3. ~UploadCloses(a) BY <3>1, <3>2 DEF UploadCloses
    <3> QED BY <1>1, <2>1, <3>3 DEF SameOutputs, CardOutputPending
  <2>5. Moves(a, b) BY <2>1 DEF Moves, SameCard
  <2>6. Left(b) BY <2>4 DEF Left, Owns
  <2> QED BY <2>1, <2>3, <2>4, <2>5, <2>6 DEF SameCard
<1>2. CASE b = Dismiss(a) /\ (version = Plain => a.retention.elsewhere)
  <2>1. /\ Steady(b) /\ Agreed(b, Queued(js, b), us, os, e, stage) /\ Moves(a, b)
        /\ a.deferredSave => b = a
        /\ ~a.deferredSave => ~b.visible /\ ~b.deferredOverflow /\ Waiting(b) /\ Left(b)
    BY <1>2, DismissMoves, SMTT(30)
  <2>2. CASE a.deferredSave
    <3>1. a.visible /\ b = a BY <2>1, <2>2 DEF Steady, Withdrawn
    <3> QED BY <2>1, <3>1 DEF Left, Owns
  <2>3. CASE ~a.deferredSave BY <1>2, <2>1, <2>3
  <2> QED BY <2>2, <2>3
<1>3. CASE a.filed /\ a.retention.elsewhere /\ b = AsksHistory(a)
  <2>1. a.visible BY <1>3 DEF Steady, Withdrawn, NoRetention
  <2>2. /\ Steady(b) /\ Agreed(b, Queued(js, b), us, os, e, stage) /\ Moves(a, b)
        /\ b.visible /\ b.retention = a.retention /\ b.deferredOverflow = a.deferredOverflow
    BY <1>3, <2>1, AsksMoves
  <2> QED BY <2>2 DEF Left, Owns
<1>4. CASE b = [SavesAndCloses(a, version) EXCEPT !.inFlight = TRUE]
  <2> DEFINE c == SavesAndCloses(a, version)
  <2>1. /\ Steady(c) /\ Agreed(c, Queued(js, c), us, os, e, stage)
        /\ SameView(a, c) /\ SameCard(a, c) /\ SameWaits(a, c) /\ CardOutputPending(c)
    BY SavesMoves
  <2>2. b = [c EXCEPT !.inFlight = TRUE] BY <1>4
  <2> HIDE DEF c
  <2>3. ~c.shown /\ ~c.editorOnly BY <2>1 DEF SameCard, SameWaits
  <2>4. /\ Steady(b) /\ Quiet(c, b) /\ SameView(c, b) /\ SameOutputs(c, b) /\ SameCard(c, b)
        /\ b.posted = c.posted /\ b.editorOnly = c.editorOnly /\ b.deferredSave = c.deferredSave
        /\ b.deferredOverflow = c.deferredOverflow /\ b.inFlight
    BY <2>1, <2>2, <2>3, SetsInFlight
  <2>5. Queued(js, b) = Queued(js, c) /\ b \in Apps /\ c \in Apps BY <2>1, <2>4 DEF Queued, Steady
  <2>6. Agreed(b, Queued(js, b), us, os, e, stage)
    BY <2>1, <2>4, <2>5, QuietAgreed DEF Steady
  <2>7. CardOutputPending(b) BY <2>1, <2>4 DEF CardOutputPending, SameOutputs
  <2>8. Moves(a, b) BY <2>1, <2>4 DEF Moves, SameCard, SameWaits, SameView
  <2>9. Left(b) BY <2>7 DEF Left, Owns
  <2> QED BY <2>1, <2>4, <2>6, <2>7, <2>8, <2>9 DEF SameCard, SameWaits
<1>5. \/ (CardOutputPending(a) \/ UploadCloses(a)) /\ b = [a EXCEPT !.inFlight = TRUE]
      \/ b = Dismiss(a) /\ (version = Plain => a.retention.elsewhere)
      \/ a.filed /\ a.retention.elsewhere /\ b = AsksHistory(a)
      \/ b = [SavesAndCloses(a, version) EXCEPT !.inFlight = TRUE]
  <2>1. a.retention.exported => a.retention.elsewhere BY DEF Steady, Filing
  <2> QED BY <2>1 DEF Overflow
<1> QED BY <1>1, <1>2, <1>3, <1>4, <1>5

\* an overflow that waited for an output goes on, or waits for the editor
LEMMA ResumesMoves ==
  ASSUME NEW js \in Seq(JobShape), NEW us, NEW os, NEW e,
         NEW a, Steady(a), Agreed(a, Queued(js, a), us, os, e, "handling"),
         ~a.editorOnly, ~a.shown, a.inFlight,
         a.visible => ~a.opening /\ ~Editing(a),
         ~a.visible /\ a.deferredOverflow => Active(a),
         NEW b, b = ResumesOverflow(a)
  PROVE  /\ Steady(b) /\ Agreed(b, Queued(js, b), us, os, e, "handling") /\ Moves(a, b)
         /\ Left(b) /\ Waiting(b)
         /\ a.visible => IF b.visible THEN b.retention = a.retention ELSE a.retention.elsewhere
<1>0. a \in Apps BY DEF Steady
<1> DEFINE c == [a EXCEPT !.inFlight = FALSE]
<1>1. /\ Steady(c) /\ Quiet(a, c) /\ SameView(a, c) /\ SameOutputs(a, c) /\ SameCard(a, c)
      /\ c.posted = a.posted /\ c.editorOnly = a.editorOnly /\ c.deferredSave = a.deferredSave
      /\ c.deferredOverflow = a.deferredOverflow /\ ~c.inFlight
  BY ClearsInFlight
<1>2. Queued(js, c) = Queued(js, a) /\ c \in Apps BY <1>1 DEF Queued, Steady
<1>3. Agreed(c, Queued(js, c), us, os, e, "handling")
  BY <1>0, <1>1, <1>2, QuietAgreed DEF Steady
<1>4. CASE Active(a)
  <2>1. b = [c EXCEPT !.deferredOverflow = TRUE] BY <1>0, <1>4 DEF ResumesOverflow, Apps
  <2> HIDE DEF c
  <2>2. b \in Apps BY <1>2, <2>1, ZenonT(60) DEF Apps
  <2>3. /\ SameView(c, b) /\ SameOutputs(c, b) /\ SameCard(c, b) /\ b.posted = c.posted
        /\ b.editorOnly = c.editorOnly /\ b.deferredSave = c.deferredSave /\ b.recovery = c.recovery
        /\ b.checkClose = c.checkClose /\ b.checkOverflow = c.checkOverflow /\ b.inFlight = c.inFlight
        /\ b.deferredOverflow /\ b.deferredClose = c.deferredClose
    BY <1>2, <2>1 DEF Apps, SameView, SameOutputs, SameCard
  <2>4. Steady(b) /\ Quiet(c, b)
    BY <1>1, <2>2, <2>3, WaitsSteady DEF Steady, Withdrawn, Displayed, SameCard
  <2>5. Queued(js, b) = Queued(js, c) BY <2>3 DEF Queued
  <2>6. Agreed(b, Queued(js, b), us, os, e, "handling")
    BY <1>1, <1>2, <1>3, <2>2, <2>4, <2>5, QuietAgreed DEF Steady
  <2>7. Active(b) /\ ~b.inFlight BY <1>1, <1>4, <2>3 DEF Active, SameView
  <2>10. ~b.visible BY <1>1, <1>4, <2>3 DEF SameCard, Active, Editing
  <2>8. Left(b) /\ Waiting(b) BY <2>3, <2>7, <2>10 DEF Left, Owns, Waiting, Active, Editing
  <2>9. Moves(a, b) BY <1>1, <2>3 DEF Moves, SameView, SameCard
  <2> QED BY <1>1, <2>3, <2>4, <2>6, <2>8, <2>9 DEF SameCard
<1>5. CASE ~Active(a)
  <2>1. b = Overflow(c, Plain) BY <1>5 DEF ResumesOverflow
  <2> HIDE DEF c
  <2>2. ~c.editorOnly /\ ~c.shown /\ (c.visible => ~c.opening /\ ~Editing(c))
    BY <1>1 DEF SameCard, SameView, Editing
  <2>3. /\ Steady(b) /\ Agreed(b, Queued(js, b), us, os, e, "handling") /\ Moves(c, b)
        /\ Left(b) /\ (b.deferredOverflow => c.deferredOverflow)
        /\ ~b.visible => \/ ~c.visible /\ CardOutputPending(b) /\ b.inFlight
                         \/ Waiting(b) /\ ~b.deferredOverflow
        /\ c.visible => IF b.visible THEN b.retention = c.retention ELSE c.retention.elsewhere
    BY <1>1, <1>3, <2>1, <2>2, NoneIsApart, PlainFresh, OverflowMoves
  <2>4. Moves(a, b) BY <1>1, <2>3 DEF Moves, SameView, SameCard
  <2>5. Waiting(b)
    <3>1. CASE b.visible BY <1>1, <2>2, <2>3, <3>1 DEF Waiting, Moves, SameView, Editing
    <3>2. CASE ~b.visible /\ ~c.visible /\ CardOutputPending(b) /\ b.inFlight
      <4>1. ~b.deferredOverflow BY <1>1, <1>5, <2>3, <3>2 DEF SameCard
      <4> QED BY <3>2, <4>1 DEF Waiting
    <3>3. CASE Waiting(b) BY <3>3
    <3> QED BY <2>3, <3>1, <3>2, <3>3
  <2> QED BY <1>1, <2>3, <2>4, <2>5 DEF SameCard
<1> QED BY <1>4, <1>5

-----------------------------------------------------------------------------
(* What waited for an editor or for finalization                           *)

\* what EditorClosed, OpenRefused and Finalized end with
Settles(a, version) == RunsDeferredOverflow(RunsDeferredClose(a, version), version)

LEMMA Unchanged ==
  ASSUME NEW a PROVE Moves(a, a) BY DEF Moves, SameView

\* an editor that closes leaves the pixels to somebody
Cared(a) == Editing(a) /\ ~a.editorOnly /\ ~a.visible => CardOutputPending(a) \/ a.deferredOverflow

LEMMA DeferredOverflowMoves ==
  ASSUME NEW js \in Seq(JobShape), NEW us, NEW os, NEW e, NEW stage,
         NEW a, Steady(a), Agreed(a, Queued(js, a), us, os, e, stage),
         a.visible => ~a.opening /\ (stage = "closing" \/ ~Editing(a)),
         ~a.visible /\ CardOutputPending(a) => a.inFlight \/ a.deferredOverflow,
         NEW version \in Versions, Fresh(a, e, version),
         NEW b, b = RunsDeferredOverflow(a, version)
  PROVE  /\ Steady(b) /\ Agreed(b, Queued(js, b), us, os, e, stage) /\ Moves(a, b)
         /\ ~b.deferredOverflow
         /\ ~b.visible /\ CardOutputPending(b) => b.inFlight
         /\ Left(a) \/ a.deferredOverflow => Left(b)
         /\ Cared(a) => Cared(b)
<1>1. CASE ~a.deferredOverflow
  <2>1. b = a BY <1>1 DEF RunsDeferredOverflow
  <2> QED BY <1>1, <2>1, Unchanged
<1>2. CASE a.deferredOverflow
  <2> DEFINE d == [a EXCEPT !.deferredOverflow = FALSE]
  <2>1. b = Overflow(d, version) BY <1>2 DEF RunsDeferredOverflow
  <2>2. /\ Steady(d) /\ Quiet(a, d) /\ SameView(a, d) /\ SameOutputs(a, d) /\ SameCard(a, d)
        /\ d.posted = a.posted /\ d.editorOnly = a.editorOnly /\ d.deferredSave = a.deferredSave
        /\ ~d.deferredOverflow /\ d.inFlight = a.inFlight
    BY ClearsDeferredOverflow
  <2> HIDE DEF d
  <2>3. ~d.editorOnly /\ ~d.shown BY <1>2, <2>2 DEF Steady, Adopted, Displayed, SameCard
  <2>4. d.visible => ~d.opening /\ (stage = "closing" \/ ~Editing(d))
    BY <2>2 DEF SameCard, SameView, Editing
  <2>5. Fresh(d, e, version) BY <2>2 DEF Fresh, SameCard, SameView
  <2>6. Queued(js, d) = Queued(js, a) /\ d \in Apps /\ a \in Apps BY <2>2 DEF Queued, Steady
  <2>7. Agreed(d, Queued(js, d), us, os, e, stage)
    BY <2>2, <2>6, QuietAgreed DEF Steady
  <2>8. /\ Steady(b) /\ Agreed(b, Queued(js, b), us, os, e, stage) /\ Moves(d, b)
        /\ Left(b) /\ (b.deferredOverflow => d.deferredOverflow)
        /\ ~b.visible => \/ ~d.visible /\ CardOutputPending(b) /\ b.inFlight
                         \/ Waiting(b) /\ ~b.deferredOverflow
    BY <2>1, <2>2, <2>3, <2>4, <2>5, <2>7, OverflowMoves
  <2>9. Moves(a, b) BY <2>2, <2>8 DEF Moves, SameView, SameCard
  <2>10. ~b.visible /\ CardOutputPending(b) => b.inFlight BY <2>8 DEF Waiting
  <2>11. Cared(b) BY <2>8 DEF Cared, Waiting
  <2> QED BY <2>2, <2>8, <2>9, <2>10, <2>11
<1> QED BY <1>1, <1>2

LEMMA SettlesMoves ==
  ASSUME NEW js \in Seq(JobShape), NEW us, NEW os, NEW e, NEW stage,
         NEW a, Steady(a), Agreed(a, Queued(js, a), us, os, e, stage),
         a.visible => ~a.opening /\ (stage = "closing" \/ ~Editing(a)),
         ~a.visible /\ CardOutputPending(a) => a.inFlight \/ a.deferredOverflow,
         NEW version \in Versions, Fresh(a, e, version),
         NEW b, b = Settles(a, version)
  PROVE  /\ Steady(b) /\ Agreed(b, Queued(js, b), us, os, e, stage) /\ Moves(a, b)
         /\ ~b.deferredOverflow
         /\ ~b.visible /\ CardOutputPending(b) => b.inFlight
         /\ Left(a) \/ a.deferredOverflow => Left(b)
         /\ Cared(a) => Cared(b)
<1> DEFINE c == RunsDeferredClose(a, version)
<1>0. a \in Apps BY DEF Steady
<1>1. /\ Steady(c) /\ Agreed(c, Queued(js, c), us, os, e, stage) /\ Moves(a, c)
      /\ \/ c = a
         \/ c.visible /\ c.inFlight = a.inFlight /\ c.deferredOverflow = a.deferredOverflow
         \/ ~c.visible /\ ~c.deferredOverflow /\ Waiting(c) /\ Left(c)
  <2>1. CASE a.deferredClose = None
    <3>1. c = a BY <2>1 DEF RunsDeferredClose
    <3> QED BY <3>1 DEF Moves, SameView
  <2>2. CASE a.deferredClose # None
    <3> DEFINE d == [a EXCEPT !.deferredClose = None]
               how == a.deferredClose
    <3>1. c = AutoClose(d, how, version) BY <2>2 DEF RunsDeferredClose
    <3>2. /\ Steady(d) /\ Quiet(a, d) /\ SameView(a, d) /\ SameOutputs(a, d) /\ SameCard(a, d)
          /\ d.posted = a.posted /\ d.editorOnly = a.editorOnly /\ d.deferredSave = a.deferredSave
          /\ d.deferredOverflow = a.deferredOverflow /\ d.inFlight = a.inFlight
      BY ClearsDeferredClose
    <3>3. how \in {"hide", "save"} BY <1>0, <2>2 DEF Apps
    <3> HIDE DEF c, d, how
    <3>4. a.visible BY <2>2 DEF Steady, Withdrawn
    <3>5. d.visible /\ ~d.opening /\ (stage = "closing" \/ ~Editing(d)) /\ Fresh(d, e, version)
      BY <3>2, <3>4 DEF SameCard, SameView, Editing, Fresh
    <3>6. Queued(js, d) = Queued(js, a) /\ d \in Apps BY <3>2 DEF Queued, Steady
    <3>7. Agreed(d, Queued(js, d), us, os, e, stage)
      BY <1>0, <3>2, <3>6, QuietAgreed DEF Steady
    <3>8. /\ Steady(c) /\ Agreed(c, Queued(js, c), us, os, e, stage) /\ Moves(d, c)
          /\ \/ c.visible /\ c.inFlight = d.inFlight /\ c.deferredOverflow = d.deferredOverflow
             \/ ~c.visible /\ ~c.shown /\ ~c.deferredOverflow /\ Waiting(c) /\ Left(c)
      BY <3>1, <3>2, <3>3, <3>5, <3>7, AutoCloseMoves
    <3>9. Moves(a, c) BY <3>2, <3>8 DEF Moves, SameView, SameCard
    <3> QED BY <3>2, <3>8, <3>9
  <2> QED BY <2>1, <2>2
<1>2. b = RunsDeferredOverflow(c, version) BY DEF Settles
<1> HIDE DEF c
<1>3. Left(a) \/ a.deferredOverflow => Left(c) \/ c.deferredOverflow BY <1>1 DEF Left, Owns
<1>4. ~c.visible /\ CardOutputPending(c) => c.inFlight \/ c.deferredOverflow
  BY <1>1 DEF Waiting
<1>5. c.visible => ~c.opening /\ (stage = "closing" \/ ~Editing(c))
  BY <1>1 DEF Moves, SameView, Editing
<1>6. Fresh(c, e, version) BY <1>1 DEF Fresh, SameView, Moves
<1>7. /\ Steady(b) /\ Agreed(b, Queued(js, b), us, os, e, stage) /\ Moves(c, b)
      /\ ~b.deferredOverflow
      /\ ~b.visible /\ CardOutputPending(b) => b.inFlight
      /\ Left(c) \/ c.deferredOverflow => Left(b)
      /\ Cared(c) => Cared(b)
  BY <1>1, <1>2, <1>4, <1>5, <1>6, DeferredOverflowMoves
<1>8. Moves(a, b) BY <1>1, <1>7 DEF Moves, SameView
<1>9. Cared(a) => Cared(c) BY <1>1 DEF Cared, Waiting
<1> QED BY <1>3, <1>7, <1>8, <1>9

-----------------------------------------------------------------------------
(* Outcomes of outputs                                                     *)

\* the main thread once a handler has run
Handled(b, js, us, os, e) ==
  Steady(b) /\ Waiting(b) /\ Agreed(b, Queued(js, b), us, os, e, "handling")

\* a change to what is outstanding, and to the retention, only
SameRest(a, b) ==
  /\ SameView(a, b) /\ SameWaits(a, b) /\ b.visible = a.visible /\ b.shown = a.shown
  /\ b.filed = a.filed /\ b.nextAction = a.nextAction /\ b.posted = a.posted

LEMMA PruneIs ==
  ASSUME NEW a \in Apps, NEW b, b = PruneFates(a)
  PROVE  /\ b \in Apps /\ SameView(a, b) /\ SameCard(a, b) /\ SameWaits(a, b)
         /\ b.outstanding = a.outstanding /\ b.current = a.current
         /\ b.nextAction = a.nextAction /\ b.posted = a.posted
         /\ b.fates = a.fates \/ b.outstanding = {}
<1>1. CASE a.outstanding # {}
  <2>1. b = a BY <1>1 DEF PruneFates
  <2> QED BY <2>1 DEF SameView, SameCard, SameWaits
<1>2. CASE a.outstanding = {}
  <2>1. b = [a EXCEPT !.fates = NoFates] BY <1>2 DEF PruneFates
  <2>2. NoFates \in [Gens -> Ends] BY DEF NoFates, Ends
  <2> HIDE DEF NoFates
  <2>3. b \in Apps BY <2>1, <2>2 DEF Apps
  <2> QED BY <1>2, <2>1, <2>3, ZenonT(60) DEF Apps, SameView, SameCard, SameWaits
<1> QED BY <1>1, <1>2

LEMMA ResolveIs ==
  ASSUME NEW a \in Apps, NEW id \in Nat, NEW b, b = Resolve(a, id)
  PROVE  /\ b \in Apps /\ SameRest(a, b) /\ SameCard(a, b)
         /\ b.outstanding = {x \in a.outstanding : x.id # id}
         /\ b.current # 0 => b.current = a.current /\ (a.current # id \/ id \notin Ids(a))
         /\ b.fates = a.fates \/ b.outstanding = {}
<1> DEFINE o == {x \in a.outstanding : x.id # id}
           c == IF a.current = id THEN 0 ELSE a.current
           d == [a EXCEPT !.outstanding = o, !.current = c]
<1>1. CASE id \notin Ids(a)
  <2>1. b = a BY <1>1 DEF Resolve
  <2>2. o = a.outstanding BY <1>1 DEF Ids
  <2> QED BY <1>1, <2>1, <2>2 DEF SameCard, SameRest, SameView, SameWaits
<1>2. CASE id \in Ids(a)
  <2>1. b = PruneFates(d) BY <1>2 DEF Resolve
  <2>2. o \in SUBSET Outs /\ c \in Nat BY DEF Apps
  <2>3. c = 0 \/ (c = a.current /\ a.current # id) OBVIOUS
  <2> HIDE DEF o, c
  <2>4. d \in Apps BY <2>2, ZenonT(30) DEF Apps
  <2>5. /\ d.outstanding = o /\ d.current = c /\ SameView(a, d) /\ SameCard(a, d) /\ SameWaits(a, d)
        /\ d.fates = a.fates /\ d.nextAction = a.nextAction /\ d.posted = a.posted
    BY DEF Apps, SameView, SameCard, SameWaits
  <2> HIDE DEF d
  <2>6. /\ b \in Apps /\ SameView(d, b) /\ SameCard(d, b) /\ SameWaits(d, b)
        /\ b.outstanding = d.outstanding /\ b.current = d.current
        /\ b.nextAction = d.nextAction /\ b.posted = d.posted
        /\ b.fates = d.fates \/ b.outstanding = {}
    BY <2>1, <2>4, PruneIs
  <2> QED BY <2>3, <2>5, <2>6 DEF SameRest, SameView, SameCard, SameWaits, o
<1> QED BY <1>1, <1>2

LEMMA ResolveSteady ==
  ASSUME NEW a, Steady(a), NEW id \in Nat, a.dialog # None => id # a.dialog.id,
         NEW b, b = Resolve(a, id)
  PROVE  Steady(b) /\ Quiet(a, b)
<1>0. a \in Apps /\ a.nextAction \in Nat BY DEF Steady, Apps
<1>1. /\ b \in Apps /\ SameRest(a, b) /\ SameCard(a, b)
      /\ b.outstanding = {x \in a.outstanding : x.id # id}
      /\ b.fates = a.fates \/ b.outstanding = {}
  BY <1>0, ResolveIs
<1>9. b.current # 0 => b.current = a.current /\ (a.current # id \/ id \notin Ids(a))
  BY <1>0, ResolveIs, SMTT(30)
<1>2. \A x \in b.outstanding : x \in a.outstanding BY <1>1
<1>3. Counted(b)
  <2>1. b.current # 0 => \E x \in b.outstanding : x.id = b.current /\ x.kind = "upload"
    BY <1>1, <1>9 DEF Steady, Counted, Ids
  <2>2. a.dialog # None => \E x \in b.outstanding : x.id = a.dialog.id /\ x.kind = "card"
    BY <1>1 DEF Steady, Counted
  <2>3. Ids(b) \subseteq Ids(a) BY <1>2 DEF Ids
  <2> QED BY <1>1, <1>2, <2>1, <2>2, <2>3 DEF Steady, Counted, SameRest, SameView, SameWaits
<1>4. Withdrawn(b) /\ Displayed(b) /\ Filing(b)
  BY <1>1, <1>2 DEF Steady, Withdrawn, Displayed, Filing, SameRest, SameCard, SameView, SameWaits
<1>5. Sessions(b) BY <1>1 DEF Steady, Sessions, SameRest, SameView, SameWaits, Editing, Active
<1>6. Adopted(b)
  BY <1>1, <1>2 DEF Steady, Adopted, SameRest, SameView, SameWaits, Editing, CardOutputPending
<1>7. Freezing(b) BY <1>1 DEF Steady, Freezing, SameRest, SameView, Active
<1>8. Quiet(a, b)
  <2>1. b.fates = a.fates \/ Ids(b) = {} BY <1>1 DEF Ids
  <2> QED BY <1>0, <1>1, <1>2, <2>1 DEF Quiet, SameRest, SameWaits
<1> QED BY <1>1, <1>3, <1>4, <1>5, <1>6, <1>7, <1>8 DEF Steady

\* the output was no card's, or the card is there: nobody waits for it
LEMMA ResolveHandled ==
  ASSUME NEW js \in Seq(JobShape), NEW us, NEW os, NEW e,
         NEW a, Handled(a, js, us, os, e), NEW id \in Nat, a.dialog # None => id # a.dialog.id,
         a.visible \/ (\A x \in a.outstanding : x.id = id => x.kind # "card")
                   \/ (a.deferredOverflow /\ ~a.inFlight),
         NEW b, b = Resolve(a, id)
  PROVE  Handled(b, js, us, os, e) /\ Moves(a, b) /\ (Left(a) => Left(b))
<1>0. a \in Apps /\ Steady(a) BY DEF Handled, Steady
<1>1. /\ b \in Apps /\ SameRest(a, b) /\ b.outstanding = {x \in a.outstanding : x.id # id}
  BY <1>0, ResolveIs
<1>2. Steady(b) /\ Quiet(a, b) BY <1>0, ResolveSteady
<1>3. Queued(js, b) = Queued(js, a) BY <1>1 DEF Queued, SameRest
<1>4. Agreed(b, Queued(js, b), us, os, e, "handling")
  BY <1>0, <1>1, <1>2, <1>3, QuietAgreed DEF Steady, Handled
<1>5. Moves(a, b) BY <1>1 DEF Moves, SameRest, SameWaits
<1>6. CardOutputPending(b) => CardOutputPending(a) BY <1>1 DEF CardOutputPending
<1>7. (\A x \in a.outstanding : x.id = id => x.kind # "card")
        => (CardOutputPending(a) => CardOutputPending(b))
  BY <1>1 DEF CardOutputPending
<1>8. Waiting(b) /\ (Left(a) => Left(b))
  <2>1. CASE a.visible
    BY <1>1, <2>1 DEF Handled, Waiting, SameRest, SameView, SameWaits, Editing, Left, Owns
  <2>2. CASE \A x \in a.outstanding : x.id = id => x.kind # "card"
    BY <1>1, <1>6, <1>7, <2>2
       DEF Handled, Waiting, SameRest, SameView, SameWaits, Editing, Active, Left, Owns
  <2>3. CASE a.deferredOverflow /\ ~a.visible
    BY <1>1, <1>6, <2>3
       DEF Handled, Waiting, SameRest, SameView, SameWaits, Editing, Active, Left, Owns
  <2> QED BY <2>1, <2>2, <2>3
<1> QED BY <1>2, <1>4, <1>5, <1>8 DEF Handled

LEMMA RetentionIs ==
  ASSUME NEW a, Steady(a), a.visible, NEW r \in [elsewhere : BOOLEAN, exported : BOOLEAN],
         r.exported => r.elsewhere, NEW b, b = [a EXCEPT !.retention = r]
  PROVE  /\ Steady(b) /\ Quiet(a, b) /\ SameRest(a, b) /\ SameOutputs(a, b) /\ b.retention = r
<1>0. a \in Apps /\ a.nextAction \in Nat BY DEF Steady, Apps
<1>1. b \in Apps BY <1>0, SMTT(30) DEF Apps
<1>2. SameRest(a, b) /\ SameOutputs(a, b) /\ b.retention = r
  BY <1>0 DEF Apps, SameRest, SameOutputs, SameView, SameWaits
<1>3. Counted(b) /\ Withdrawn(b) /\ Displayed(b) /\ Filing(b)
  BY <1>2 DEF Steady, Counted, Withdrawn, Displayed, Filing, SameRest, SameOutputs, SameView, SameWaits, Ids
<1>4. Sessions(b) /\ Adopted(b) /\ Freezing(b)
  BY <1>2 DEF Steady, Sessions, Adopted, Freezing, SameRest, SameOutputs, SameView, SameWaits,
              Editing, Active, CardOutputPending
<1>5. Quiet(a, b) BY <1>0, <1>2 DEF Quiet, SameRest, SameOutputs, SameWaits
<1> QED BY <1>1, <1>2, <1>3, <1>4, <1>5 DEF Steady

LEMMA RetentionHandled ==
  ASSUME NEW js \in Seq(JobShape), NEW us, NEW os, NEW e,
         NEW a, Handled(a, js, us, os, e), a.visible,
         NEW r \in [elsewhere : BOOLEAN, exported : BOOLEAN],
         r.exported => r.elsewhere, NEW b, b = [a EXCEPT !.retention = r]
  PROVE  Handled(b, js, us, os, e) /\ Moves(a, b) /\ SameRest(a, b) /\ SameOutputs(a, b) /\ Left(b)
<1>1. /\ Steady(b) /\ Quiet(a, b) /\ SameRest(a, b) /\ SameOutputs(a, b)
  BY RetentionIs DEF Handled
<1>2. Queued(js, b) = Queued(js, a) /\ a \in Apps /\ b \in Apps
  BY <1>1 DEF Queued, SameRest, Handled, Steady
<1>3. Agreed(b, Queued(js, b), us, os, e, "handling")
  BY <1>1, <1>2, QuietAgreed DEF Steady, Handled
<1>4. Waiting(b)
  BY <1>1 DEF Handled, Waiting, SameRest, SameView, SameWaits, SameOutputs, Editing, Active
<1> QED BY <1>1, <1>3, <1>4 DEF Handled, Moves, SameRest, SameWaits, Left, Owns

LEMMA RegisteredIs ==
  ASSUME NEW a, NEW id \in Ids(a)
  PROVE  Registered(a, id) \in a.outstanding /\ Registered(a, id).id = id
<1>1. \E x \in a.outstanding : x.id = id BY DEF Ids
<1> QED BY <1>1 DEF Registered

\* a card, or an upload of one, is dismissed with its output, and the editor
\* or a dialog takes over what it still needs
LEMMA DismissHandled ==
  ASSUME NEW js \in Seq(JobShape), NEW us, NEW os, NEW e,
         NEW a, Steady(a), Agreed(a, Queued(js, a), us, os, e, "handling"),
         ~a.editorOnly, a.visible => ~(a.inFlight \/ a.checkOverflow) \/ (~a.opening /\ ~Editing(a)),
         NEW b, b = Dismiss(a)
  PROVE  Handled(b, js, us, os, e) /\ Moves(a, b) /\ Left(b)
<1>1. /\ Steady(b) /\ Agreed(b, Queued(js, b), us, os, e, "handling") /\ Moves(a, b)
      /\ (b = a /\ a.deferredSave) \/ (~b.visible /\ ~b.shown /\ ~b.deferredOverflow /\ Waiting(b) /\ Left(b))
  BY DismissMoves
<1>2. a.deferredSave => a.visible BY DEF Steady, Withdrawn
<1>3. CASE b = a /\ a.visible BY <1>1, <1>3 DEF Handled, Waiting, Left, Owns
<1>4. CASE Waiting(b) /\ Left(b) BY <1>1, <1>4 DEF Handled
<1> QED BY <1>1, <1>2, <1>3, <1>4

LEMMA GoneUploads == ASSUME NEW a, Steady(a), ~a.visible PROVE ~UploadCloses(a)
<1>0. a \in Apps BY DEF Steady
<1>1. \A x \in a.outstanding : x.kind # "upload" /\ x.id # 0
  BY <1>0 DEF Steady, Withdrawn, Apps, Outs
<1>2. a.current = 0 BY <1>1 DEF Steady, Counted
<1> QED BY <1>1, <1>2 DEF UploadCloses

\* only the outputs of a card close it
LEMMA ClosesCard ==
  ASSUME NEW a, Steady(a), NEW x \in a.outstanding, x.close
  PROVE  ~a.editorOnly /\ (~a.visible => x.kind = "card")
<1>1. a \in Apps BY DEF Steady
<1>2. x.kind \in {"card", "upload"} BY <1>1 DEF Steady, Counted, Apps, Outs
<1> QED BY <1>2 DEF Steady, Withdrawn, Adopted, CardOutputPending

LEMMA CompletesHandled ==
  ASSUME NEW js \in Seq(JobShape), NEW us, NEW os, NEW e,
         NEW a, Handled(a, js, us, os, e), NEW o \in OutcomeShape, Numbered(a, o),
         o.action \in Ids(a), NEW b, b = Completes(a, o)
  PROVE  Handled(b, js, us, os, e) /\ Moves(a, b) /\ (Left(a) => Left(b))
<1> DEFINE r == [elsewhere |-> TRUE, exported |-> TRUE]
           kept == IF a.visible /\ o.export THEN [a EXCEPT !.retention = r] ELSE a
           done == Resolve(kept, o.action)
           x == Registered(a, o.action)
<1>1. b = IF x.close /\ ~UploadCloses(done) THEN Dismiss(done) ELSE done BY DEF Completes
<1>2. o.action \in Nat BY Zenon DEF OutcomeShape
<1>3. x \in a.outstanding /\ x.id = o.action BY RegisteredIs
<1>4. /\ Handled(kept, js, us, os, e) /\ Moves(a, kept) /\ SameRest(a, kept) /\ SameOutputs(a, kept)
      /\ Left(a) => Left(kept)
  <2>1. CASE a.visible /\ o.export
    <3>1. kept = [a EXCEPT !.retention = r] BY <2>1
    <3>2. r \in [elsewhere : BOOLEAN, exported : BOOLEAN] /\ (r.exported => r.elsewhere) OBVIOUS
    <3> HIDE DEF kept, r
    <3> QED BY <2>1, <3>1, <3>2, RetentionHandled
  <2>2. CASE ~(a.visible /\ o.export)
    <3>1. kept = a BY <2>2
    <3> QED BY <3>1 DEF Moves, SameRest, SameOutputs, SameView, SameWaits
  <2> QED BY <2>1, <2>2
<1>5. done = Resolve(kept, o.action) OBVIOUS
<1> HIDE DEF r, kept, x, done
<1>6. kept.dialog # None => o.action # kept.dialog.id
  BY <1>4 DEF Numbered, SameRest, SameView
<1>7. Steady(kept) /\ kept \in Apps BY <1>4 DEF Handled, Steady
<1>8. Steady(done) /\ Quiet(kept, done) BY <1>2, <1>5, <1>6, <1>7, ResolveSteady
<1>9. SameRest(kept, done) /\ done \in Apps BY <1>2, <1>5, <1>7, ResolveIs
<1>10. Moves(kept, done) BY <1>9 DEF Moves, SameRest, SameWaits
<1>11. x \in kept.outstanding BY <1>3, <1>4 DEF SameOutputs
<1>12. CASE x.close /\ ~UploadCloses(done)
  <2>1. b = Dismiss(done) BY <1>1, <1>12
  <2>2. Queued(js, done) = Queued(js, kept) BY <1>9 DEF Queued, SameRest
  <2>3. Agreed(done, Queued(js, done), us, os, e, "handling")
    BY <1>4, <1>7, <1>8, <1>9, <2>2, QuietAgreed DEF Steady, Handled
  <2>4. ~done.editorOnly BY <1>7, <1>9, <1>11, <1>12, ClosesCard DEF SameRest, SameWaits
  <2>5. done.visible => ~(done.inFlight \/ done.checkOverflow) \/ (~done.opening /\ ~Editing(done))
    BY <1>4, <1>9 DEF Handled, Waiting, SameRest, SameView, SameWaits, Editing
  <2>6. Handled(b, js, us, os, e) /\ Moves(done, b) /\ Left(b)
    BY <1>8, <2>1, <2>3, <2>4, <2>5, DismissHandled
  <2>7. Moves(a, b) BY <1>4, <1>10, <2>6 DEF Moves, SameView
  <2> QED BY <2>6, <2>7
<1>13. CASE ~(x.close /\ ~UploadCloses(done))
  <2>1. b = done BY <1>1, <1>13
  <2>2. kept.visible \/ (\A y \in kept.outstanding : y.id = o.action => y.kind # "card")
    <3> SUFFICES ASSUME ~kept.visible, NEW y \in kept.outstanding, y.id = o.action, y.kind = "card"
                 PROVE  FALSE
      OBVIOUS
    <3>1. y = x /\ x.close BY <1>3, <1>7, <1>11 DEF Steady, Counted
    <3>2. ~done.visible BY <1>9 DEF SameRest
    <3>3. ~UploadCloses(done) BY <1>8, <3>2, GoneUploads
    <3> QED BY <1>13, <3>1, <3>3
  <2>3. Handled(b, js, us, os, e) /\ Moves(kept, b) /\ (Left(kept) => Left(b))
    BY <1>2, <1>4, <1>5, <1>6, <2>1, <2>2, ResolveHandled
  <2>4. Moves(a, b) BY <1>4, <2>3 DEF Moves, SameView
  <2> QED BY <1>4, <2>3, <2>4
<1> QED BY <1>12, <1>13

\* what is true of an output that was resolved, whoever waited for it
LEMMA Resolving ==
  ASSUME NEW js \in Seq(JobShape), NEW us, NEW os, NEW e,
         NEW a, Handled(a, js, us, os, e), NEW o \in OutcomeShape, Numbered(a, o),
         NEW d, d = Resolve(a, o.action)
  PROVE  /\ Steady(d) /\ Agreed(d, Queued(js, d), us, os, e, "handling")
         /\ SameRest(a, d) /\ SameCard(a, d) /\ Moves(a, d)
         /\ d.outstanding = {x \in a.outstanding : x.id # o.action}
<1>1. o.action \in Nat BY Zenon DEF OutcomeShape
<1>2. a.dialog # None => o.action # a.dialog.id BY DEF Numbered
<1>3. Steady(a) /\ a \in Apps BY DEF Handled, Steady
<1>4. Steady(d) /\ Quiet(a, d) BY <1>1, <1>2, <1>3, ResolveSteady
<1>5. /\ SameRest(a, d) /\ SameCard(a, d) /\ d \in Apps
      /\ d.outstanding = {x \in a.outstanding : x.id # o.action}
  BY <1>1, <1>3, ResolveIs
<1>6. Queued(js, d) = Queued(js, a) BY <1>5 DEF Queued, SameRest
<1>7. Agreed(d, Queued(js, d), us, os, e, "handling")
  BY <1>3, <1>4, <1>5, <1>6, QuietAgreed DEF Steady, Handled
<1>8. Moves(a, d) BY <1>5 DEF Moves, SameRest, SameWaits
<1> QED BY <1>4, <1>5, <1>7, <1>8

\* an overflow waited for the output
LEMMA ResumesHandled ==
  ASSUME NEW js \in Seq(JobShape), NEW us, NEW os, NEW e,
         NEW a, Handled(a, js, us, os, e), a.inFlight, NEW o \in OutcomeShape, Numbered(a, o),
         NEW d, d = Resolve(a, o.action), NEW b, b = ResumesOverflow(d)
  PROVE  /\ Handled(b, js, us, os, e) /\ Moves(a, b) /\ Left(b)
         /\ a.visible => IF b.visible THEN b.retention = a.retention ELSE a.retention.elsewhere
<1>1. /\ Steady(d) /\ Agreed(d, Queued(js, d), us, os, e, "handling")
      /\ SameRest(a, d) /\ SameCard(a, d) /\ Moves(a, d)
  BY Resolving
<1>2. ~d.editorOnly /\ ~d.shown /\ d.inFlight
  BY <1>1 DEF Handled, Steady, Adopted, Displayed, SameRest, SameWaits
<1>3. d.visible => ~d.opening /\ ~Editing(d)
  BY <1>1 DEF Handled, Waiting, SameRest, SameView, Editing
<1>4. ~d.visible /\ d.deferredOverflow => Active(d)
  BY <1>1 DEF Handled, Waiting, SameRest, SameView, SameWaits, Active
<1>5. /\ Steady(b) /\ Agreed(b, Queued(js, b), us, os, e, "handling") /\ Moves(d, b)
      /\ Left(b) /\ Waiting(b)
      /\ d.visible => IF b.visible THEN b.retention = d.retention ELSE d.retention.elsewhere
  BY <1>1, <1>2, <1>3, <1>4, ResumesMoves
<1>6. Moves(a, b) BY <1>1, <1>5 DEF Moves, SameView
<1> QED BY <1>1, <1>5, <1>6 DEF Handled, SameCard

\* nobody waits for the output of a card that an editor keeps from its overflow
LEMMA DeferredHandled ==
  ASSUME NEW a, Steady(a), Waiting(a), ~a.inFlight, NEW x \in a.outstanding,
         NEW id, x.id = id
  PROVE  \/ a.visible \/ (\A y \in a.outstanding : y.id = id => y.kind # "card")
         \/ (a.deferredOverflow /\ ~a.inFlight)
<1>1. \A y \in a.outstanding : y.id = id => y = x BY DEF Steady, Counted
<1>2. x.kind = "card" => CardOutputPending(a) BY DEF CardOutputPending
<1> QED BY <1>1, <1>2 DEF Waiting

LEMMA OutdatedHandled ==
  ASSUME NEW js \in Seq(JobShape), NEW us, NEW os, NEW e,
         NEW a, Handled(a, js, us, os, e), NEW o \in OutcomeShape, Numbered(a, o),
         o.action \in Ids(a), NEW b, b = Outdated(a, o)
  PROVE  /\ Handled(b, js, us, os, e) /\ Moves(a, b) /\ (Left(a) => Left(b))
         /\ a.visible => IF b.visible THEN b.retention = a.retention ELSE a.retention.elsewhere
<1> DEFINE d == Resolve(a, o.action)
           x == Registered(a, o.action)
<1>1. b = IF x.close /\ a.inFlight /\ ~UploadCloses(d) THEN ResumesOverflow(d) ELSE d
  BY DEF Outdated
<1>2. x \in a.outstanding /\ x.id = o.action BY RegisteredIs
<1>3. d = Resolve(a, o.action) OBVIOUS
<1> HIDE DEF d, x
<1>4. /\ Steady(d) /\ SameRest(a, d) /\ SameCard(a, d) BY <1>3, Resolving
<1>5. CASE x.close /\ a.inFlight /\ ~UploadCloses(d)
  BY <1>1, <1>3, <1>5, ResumesHandled
<1>6. CASE ~(x.close /\ a.inFlight /\ ~UploadCloses(d))
  <2>1. b = d BY <1>1, <1>6
  <2>2. \/ a.visible \/ (\A y \in a.outstanding : y.id = o.action => y.kind # "card")
        \/ (a.deferredOverflow /\ ~a.inFlight)
    <3>1. CASE ~a.inFlight BY <1>2, <3>1, DeferredHandled DEF Handled
    <3>2. CASE a.inFlight /\ ~a.visible
      <4>1. ~UploadCloses(d) BY <1>4, <3>2, GoneUploads DEF SameRest
      <4>2. x.kind # "card" BY <1>2, <1>6, <3>2, <4>1 DEF Handled, Steady, Counted
      <4>3. \A y \in a.outstanding : y.id = o.action => y = x BY <1>2 DEF Handled, Steady, Counted
      <4> QED BY <4>2, <4>3
    <3> QED BY <3>1, <3>2
  <2>3. o.action \in Nat /\ (a.dialog # None => o.action # a.dialog.id)
    BY Zenon DEF OutcomeShape, Numbered
  <2>4. Handled(b, js, us, os, e) /\ Moves(a, b) /\ (Left(a) => Left(b))
    BY <1>3, <2>1, <2>2, <2>3, ResolveHandled
  <2> QED BY <1>4, <2>1, <2>4 DEF SameCard
<1> QED BY <1>5, <1>6

LEMMA DoneHandled ==
  ASSUME NEW js \in Seq(JobShape), NEW us, NEW os, NEW e,
         NEW a, Handled(a, js, us, os, e), NEW o \in OutcomeShape, Numbered(a, o),
         NEW b, b = Done(a, o)
  PROVE  Handled(b, js, us, os, e) /\ Moves(a, b) /\ (Left(a) => Left(b))
<1>1. CASE o.action \notin Ids(a) BY <1>1, Unchanged DEF Done
<1>2. CASE o.action \in Ids(a) /\ b = Outdated(a, o) BY <1>2, OutdatedHandled
<1>3. CASE o.action \in Ids(a) /\ b = Completes(a, o) BY <1>3, CompletesHandled
<1> QED BY <1>1, <1>2, <1>3 DEF Done

LEMMA OutputRefusedHandled ==
  ASSUME NEW js \in Seq(JobShape), NEW us, NEW os, NEW e,
         NEW a, Handled(a, js, us, os, e), NEW o \in OutcomeShape, Numbered(a, o),
         NEW b, b = OutputRefused(a, o)
  PROVE  Handled(b, js, us, os, e) /\ Moves(a, b) /\ (Left(a) => Left(b))
<1> DEFINE d == Resolve(a, o.action)
           x == Registered(a, o.action)
           c == [d EXCEPT !.inFlight = FALSE]
<1>1. b = IF o.action \in Ids(a) /\ x.kind = "card" /\ a.inFlight THEN Dismiss(c) ELSE d
  BY DEF OutputRefused
<1>2. o.action \in Ids(a) => x \in a.outstanding /\ x.id = o.action BY RegisteredIs
<1>3. d = Resolve(a, o.action) OBVIOUS
<1> HIDE DEF d, x
<1>4. /\ Steady(d) /\ Agreed(d, Queued(js, d), us, os, e, "handling")
      /\ SameRest(a, d) /\ SameCard(a, d) /\ Moves(a, d)
  BY <1>3, Resolving
<1>5. CASE a.inFlight /\ b = Dismiss(c)
  <2>1. /\ Steady(c) /\ Quiet(d, c) /\ SameView(d, c) /\ SameOutputs(d, c) /\ SameCard(d, c)
        /\ c.posted = d.posted /\ c.editorOnly = d.editorOnly /\ c.deferredSave = d.deferredSave
    BY <1>4, ClearsInFlight
  <2> HIDE DEF c
  <2>2. Queued(js, c) = Queued(js, d) /\ c \in Apps /\ d \in Apps BY <1>4, <2>1 DEF Queued, Steady
  <2>3. Agreed(c, Queued(js, c), us, os, e, "handling")
    BY <1>4, <2>1, <2>2, QuietAgreed DEF Steady
  <2>4. ~c.editorOnly BY <1>4, <1>5, <2>1 DEF Handled, Steady, Adopted, SameRest, SameWaits
  <2>5. c.visible => ~c.opening /\ ~Editing(c)
    BY <1>4, <1>5, <2>1 DEF Handled, Waiting, SameRest, SameCard, SameView, Editing
  <2>6. Handled(b, js, us, os, e) /\ Moves(c, b) /\ Left(b)
    BY <1>5, <2>1, <2>3, <2>4, <2>5, DismissHandled
  <2>7. Moves(a, b) BY <1>4, <2>1, <2>6 DEF Moves, SameView, SameCard
  <2> QED BY <2>6, <2>7
<1>6. CASE ~(o.action \in Ids(a) /\ x.kind = "card" /\ a.inFlight) /\ b = d
  <2>1. \/ a.visible \/ (\A y \in a.outstanding : y.id = o.action => y.kind # "card")
        \/ (a.deferredOverflow /\ ~a.inFlight)
    <3>1. CASE o.action \notin Ids(a) BY <3>1 DEF Ids
    <3>2. CASE o.action \in Ids(a) /\ ~a.inFlight BY <1>2, <3>2, DeferredHandled DEF Handled
    <3>3. CASE o.action \in Ids(a) /\ x.kind # "card"
      <4>1. \A y \in a.outstanding : y.id = o.action => y = x
        BY <1>2, <3>3 DEF Handled, Steady, Counted
      <4> QED BY <3>3, <4>1
    <3> QED BY <1>6, <3>1, <3>2, <3>3
  <2>2. o.action \in Nat /\ (a.dialog # None => o.action # a.dialog.id)
    BY Zenon DEF OutcomeShape, Numbered
  <2> QED BY <1>3, <1>6, <2>1, <2>2, ResolveHandled
<1> QED BY <1>1, <1>5, <1>6

\* an upload closes the card it was of
LEMMA UploadDoneHandled ==
  ASSUME NEW js \in Seq(JobShape), NEW us, NEW os, NEW e,
         NEW a, Handled(a, js, us, os, e), NEW o \in OutcomeShape, Numbered(a, o),
         Uploading(a, o.action), NEW b, b = UploadDone(a, o)
  PROVE  Handled(b, js, us, os, e) /\ Moves(a, b) /\ (Left(a) => Left(b))
<1> DEFINE d == Resolve(a, o.action)
           r == [d.retention EXCEPT !.elsewhere = TRUE]
           kept == IF a.visible THEN [d EXCEPT !.retention = r] ELSE d
           x == Registered(a, o.action)
<1>1. o.action \in Nat /\ (a.dialog # None => o.action # a.dialog.id)
  BY Zenon DEF OutcomeShape, Numbered
<1>2. \A y \in a.outstanding : y.id = o.action => y.kind # "card" BY DEF Uploading
<1>3. d = Resolve(a, o.action) OBVIOUS
<1>4. kept = IF a.visible THEN [d EXCEPT !.retention.elsewhere = TRUE] ELSE d OBVIOUS
<1>5. b \in {d, Dismiss(kept), kept}
  /\ (b # d => o.action \in Ids(a))
  BY <1>4 DEF UploadDone
<1> HIDE DEF d
<1>6. Handled(d, js, us, os, e) /\ Moves(a, d) /\ (Left(a) => Left(d))
  BY <1>1, <1>2, <1>3, ResolveHandled
<1>7. SameRest(a, d) BY <1>3, Resolving
<1>8. /\ Handled(kept, js, us, os, e) /\ Moves(d, kept) /\ (Left(d) => Left(kept))
      /\ SameRest(d, kept)
  <2>1. CASE a.visible
    <3>1. d.retention \in [elsewhere : BOOLEAN, exported : BOOLEAN] BY <1>6 DEF Handled, Steady, Apps
    <3>2. r \in [elsewhere : BOOLEAN, exported : BOOLEAN] /\ r.elsewhere BY <3>1
    <3>3. kept = [d EXCEPT !.retention = r] BY <2>1
    <3>4. d.visible BY <1>7, <2>1 DEF SameRest
    <3> HIDE DEF kept, r
    <3> QED BY <1>6, <3>2, <3>3, <3>4, RetentionHandled
  <2>2. CASE ~a.visible
    <3>1. kept = d BY <2>2
    <3> QED BY <1>6, <3>1 DEF Moves, SameView, SameRest, SameWaits
  <2> QED BY <2>1, <2>2
<1> HIDE DEF kept
<1>9. Moves(a, kept) /\ (Left(a) => Left(kept)) BY <1>6, <1>8 DEF Moves, SameView
<1>10. CASE b = Dismiss(kept) /\ o.action \in Ids(a)
  <2>1. PICK y \in a.outstanding : y.id = o.action BY <1>10 DEF Ids
  <2>2. y.kind = "upload" BY <2>1 DEF Uploading
  <2>3. a.visible BY <2>2 DEF Handled, Steady, Withdrawn
  <2>4. ~a.editorOnly BY <2>3 DEF Handled, Steady, Adopted
  <2>5. ~kept.editorOnly BY <1>7, <1>8, <2>4 DEF SameRest, SameWaits
  <2>6. kept.visible => ~(kept.inFlight \/ kept.checkOverflow) \/ (~kept.opening /\ ~Editing(kept))
    BY <1>8 DEF Handled, Waiting
  <2>7. Steady(kept) /\ Agreed(kept, Queued(js, kept), us, os, e, "handling") BY <1>8 DEF Handled
  <2>8. Handled(b, js, us, os, e) /\ Moves(kept, b) /\ Left(b)
    BY <1>10, <2>5, <2>6, <2>7, DismissHandled
  <2>9. Moves(a, b) BY <1>9, <2>8 DEF Moves, SameView
  <2> QED BY <2>8, <2>9
<1> QED BY <1>5, <1>6, <1>8, <1>9, <1>10

LEMMA UploadRefusedHandled ==
  ASSUME NEW js \in Seq(JobShape), NEW us, NEW os, NEW e,
         NEW a, Handled(a, js, us, os, e), NEW o \in OutcomeShape, Numbered(a, o),
         Uploading(a, o.action), NEW b, b = UploadRefused(a, o)
  PROVE  Handled(b, js, us, os, e) /\ Moves(a, b) /\ (Left(a) => Left(b))
<1> DEFINE d == Resolve(a, o.action)
<1>1. o.action \in Nat /\ (a.dialog # None => o.action # a.dialog.id)
  BY DEF OutcomeShape, Numbered
<1>2. \A y \in a.outstanding : y.id = o.action => y.kind # "card" BY DEF Uploading
<1>3. b = d \/ (b = ResumesOverflow(d) /\ d.inFlight) BY DEF UploadRefused
<1>4. d = Resolve(a, o.action) OBVIOUS
<1> HIDE DEF d
<1>5. CASE b = d BY <1>1, <1>2, <1>4, <1>5, ResolveHandled
<1>6. CASE b = ResumesOverflow(d) /\ d.inFlight
  <2>1. SameRest(a, d) BY <1>4, Resolving
  <2>2. a.inFlight BY <1>6, <2>1 DEF SameRest, SameWaits
  <2> QED BY <1>4, <1>6, <2>2, ResumesHandled
<1> QED BY <1>3, <1>5, <1>6

-----------------------------------------------------------------------------
(* What history said of a card                                             *)

SameDeferrals(a, b) ==
  /\ b.editorOnly = a.editorOnly /\ b.deferredSave = a.deferredSave /\ b.recovery = a.recovery
  /\ b.deferredOverflow = a.deferredOverflow /\ b.inFlight = a.inFlight

LEMMA ChecksAnswered ==
  ASSUME NEW q, NEW us, NEW os, NEW e,
         NEW a, Steady(a), Agreed(a, q, us, os, e, "handling"),
         a.shown => Checks(q) \union CheckAnswers(os) = {},
         NEW b, b = [a EXCEPT !.checkClose = FALSE, !.checkOverflow = FALSE]
  PROVE  /\ Steady(b) /\ Agreed(b, q, us, os, e, "handling")
         /\ SameView(a, b) /\ SameOutputs(a, b) /\ SameCard(a, b) /\ b.posted = a.posted
         /\ SameDeferrals(a, b) /\ ~b.checkClose /\ ~b.checkOverflow
<1>0. a \in Apps BY DEF Steady
<1>1. b \in Apps BY <1>0, ZenonT(60) DEF Apps
<1>2. /\ SameView(a, b) /\ SameOutputs(a, b) /\ SameCard(a, b) /\ b.posted = a.posted
      /\ b.editorOnly = a.editorOnly /\ b.deferredSave = a.deferredSave
      /\ b.deferredOverflow = a.deferredOverflow /\ b.deferredClose = a.deferredClose
      /\ b.inFlight = a.inFlight /\ b.recovery = a.recovery /\ ~b.checkClose /\ ~b.checkOverflow
  BY <1>0 DEF Apps, SameView, SameOutputs, SameCard
<1>3. Counted(b) BY <1>2 DEF Steady, Counted, SameOutputs, SameView, Ids
<1>4. Withdrawn(b) /\ Displayed(b) /\ Filing(b)
  BY <1>2 DEF Steady, Withdrawn, Displayed, Filing, SameCard, SameView, SameOutputs
<1>5. Sessions(b) /\ Adopted(b) /\ Freezing(b)
  BY <1>2 DEF Steady, Sessions, Adopted, Freezing, SameCard, SameOutputs, SameView, Editing, Active,
              CardOutputPending
<1>6. \A m : ToldOf(b, e, m) <=> ToldOf(a, e, m)
  BY <1>2 DEF ToldOf, Numbered, Judges, SameView, SameOutputs, SameCard, Ids
<1>7. Messages(b, q, us, os, e)
  BY <1>2, <1>6 DEF Agreed, Messages, Judges, SameView, SameOutputs, SameCard, Ids
<1>8. Uploads(b, q, us, os) BY <1>2, Zenon DEF Agreed, Uploads, Uploading, Exporting, SameOutputs
<1>9. Opening(b, q, os) /\ Releasable(b, q) /\ Committing(b, q, os) /\ Ended(b, e, "handling")
  BY <1>2 DEF Agreed, Opening, Releasable, Committing, Ended, SameView, SameCard, SameOutputs, Editing
<1>10. Checking(b, q, os, "handling")
  <2>1. b.shown => Checks(q) = {} /\ CheckAnswers(os) = {} BY <1>2 DEF SameCard
  <2> QED BY <1>2, <2>1 DEF Agreed, Checking, SameView, Editing, OneOf, AtMostOne
<1> QED BY <1>1, <1>2, <1>3, <1>4, <1>5, <1>7, <1>8, <1>9, <1>10 DEF Steady, Agreed, SameDeferrals

\* what stays as it was when a job is posted
LEMMA PostKeeps ==
  ASSUME NEW a, Steady(a), NEW j \in JobShape, NEW b, b = Post(a, j)
  PROVE  /\ SameView(a, b) /\ SameCard(a, b) /\ SameWaits(a, b) /\ SameOutputs(a, b)
         /\ Waiting(b) <=> Waiting(a)
         /\ Left(a) => Left(b)
<1>0. a \in Apps BY DEF Steady
<1>1. b = [a EXCEPT !.posted = b.posted] /\ (Waiting(b) <=> Waiting(a)) /\ (Owns(b) <=> Owns(a))
  BY PostSteady
<1>2. SameView(a, b) /\ SameCard(a, b) /\ SameWaits(a, b) /\ SameOutputs(a, b)
  BY <1>0, <1>1 DEF Apps, SameView, SameCard, SameWaits, SameOutputs
<1>3. a.posted \in Seq(JobShape) BY <1>0 DEF Apps
<1>4. b.posted = Append(a.posted, j) BY <1>0, PostIs
<1>5. DOMAIN b.posted = DOMAIN a.posted \union {Len(a.posted) + 1}
      /\ \A i \in DOMAIN a.posted : b.posted[i] = a.posted[i]
  BY <1>3, <1>4, Appended
<1>6. Left(a) => Left(b) BY <1>1, <1>5 DEF Left
<1> QED BY <1>1, <1>2, <1>6

LEMMA ClearsRecovery ==
  ASSUME NEW a, Steady(a), NEW b, b = [a EXCEPT !.recovery = 0]
  PROVE  /\ Steady(b) /\ Quiet(a, b) /\ SameView(a, b) /\ SameOutputs(a, b) /\ SameCard(a, b)
         /\ b.posted = a.posted /\ b.editorOnly = a.editorOnly /\ b.deferredSave = a.deferredSave
         /\ b.deferredOverflow = a.deferredOverflow /\ b.inFlight = a.inFlight
         /\ b.recovery = 0 /\ b.checkOverflow = a.checkOverflow
<1>0. a \in Apps BY DEF Steady
<1>1. b \in Apps BY <1>0 DEF Apps
<1>2. /\ SameView(a, b) /\ SameOutputs(a, b) /\ SameCard(a, b) /\ b.posted = a.posted
      /\ b.editorOnly = a.editorOnly /\ b.deferredSave = a.deferredSave /\ b.recovery = 0
      /\ b.checkClose = a.checkClose /\ b.checkOverflow = a.checkOverflow /\ b.inFlight = a.inFlight
      /\ b.deferredOverflow = a.deferredOverflow /\ b.deferredClose = a.deferredClose
  BY <1>0 DEF Apps, SameView, SameOutputs, SameCard
<1>3. Steady(b) /\ Quiet(a, b)
  BY <1>1, <1>2, WaitsSteady, ZenonT(60) DEF Steady, Withdrawn, Displayed, Adopted, SameCard
<1> QED BY <1>2, <1>3

\* history kept nothing: the overflow saves the card under the number that was
\* set aside for it
LEMMA RecoversHandled ==
  ASSUME NEW js \in Seq(JobShape), NEW us, NEW os, NEW e,
         NEW a, Handled(a, js, us, os, e), a.visible, ~a.shown, a.recovery # 0,
         ~a.opening, ~Editing(a),
         NEW b, b = Register(Post([a EXCEPT !.recovery = 0, !.inFlight = TRUE],
                                  [Output(TRUE, Plain) EXCEPT !.action = a.recovery]),
                             a.recovery, "card", TRUE)
  PROVE  Handled(b, js, us, os, e) /\ Moves(a, b) /\ Left(b)
<1> DEFINE c == [a EXCEPT !.recovery = 0]
           d == [c EXCEPT !.inFlight = TRUE]
           way == [kind |-> "card", close |-> TRUE]
           f == Register(d, a.recovery, way.kind, way.close)
           j == [Output(TRUE, Plain) EXCEPT !.action = a.recovery]
<1>0. a \in Apps /\ Steady(a) /\ a.recovery \in Nat \ {0} BY DEF Handled, Steady, Apps
<1>1. b = Post(f, j) BY <1>0, ZenonT(60) DEF Register, Post, Apps
<1>2. j \in JobShape /\ j.do = "output" /\ j.action = a.recovery /\ j.version = Plain
  BY <1>0, NoneIsApart DEF Output, Job, JobShape, Doings
<1>3. /\ Steady(c) /\ Quiet(a, c) /\ SameView(a, c) /\ SameOutputs(a, c) /\ SameCard(a, c)
      /\ c.posted = a.posted /\ c.editorOnly = a.editorOnly /\ c.deferredSave = a.deferredSave
      /\ c.deferredOverflow = a.deferredOverflow /\ c.recovery = 0
  BY <1>0, ClearsRecovery
<1>4. ~a.editorOnly BY <1>0 DEF Steady, Adopted
<1> HIDE DEF c
<1>5. ~c.shown /\ ~c.editorOnly BY <1>3, <1>4 DEF SameCard
<1>6. /\ Steady(d) /\ Quiet(c, d) /\ SameView(c, d) /\ SameOutputs(c, d) /\ SameCard(c, d)
      /\ d.posted = c.posted /\ d.editorOnly = c.editorOnly /\ d.deferredSave = c.deferredSave
      /\ d.deferredOverflow = c.deferredOverflow /\ d.inFlight
  BY <1>3, <1>5, SetsInFlight
<1>7. d.recovery = 0 /\ d \in Apps
  <2>1. c \in Apps BY <1>3 DEF Steady
  <2> QED BY <1>3, <1>6, <2>1 DEF Steady, Apps
<1> HIDE DEF d, j
<1>8. way \in Ways /\ way.kind = "card" /\ Suits(d, way) BY <1>5, <1>6 DEF Ways, Suits
<1> HIDE DEF way
<1>9. a.recovery < d.nextAction /\ a.recovery \notin Ids(d) /\ a.recovery # d.recovery
  BY <1>0, <1>3, <1>6, <1>7 DEF Steady, Counted, SameOutputs, Ids
<1>10. /\ f \in Apps /\ SameView(d, f) /\ SameCard(d, f) /\ SameWaits(d, f)
       /\ f.outstanding = d.outstanding
                            \union {[id |-> a.recovery, kind |-> way.kind, close |-> way.close]}
       /\ f.fates = d.fates /\ f.nextAction = d.nextAction /\ f.posted = d.posted
  BY <1>0, <1>7, <1>8, RegisterIs
<1>11. Steady(f) /\ CardOutputPending(f) BY <1>0, <1>6, <1>8, <1>9, RegisterSteady
<1> HIDE DEF f
<1>12. Quiet(a, f)
  <2>1. \A x \in f.outstanding : x \in a.outstanding \/ x.id = a.recovery
    BY <1>3, <1>6, <1>10 DEF SameOutputs
  <2>2. a.nextAction \in Nat BY <1>0 DEF Apps
  <2>3. SameView(a, f) /\ f.posted = a.posted /\ f.nextAction = a.nextAction /\ f.fates = a.fates
    BY <1>3, <1>6, <1>10 DEF SameView, SameOutputs
  <2>4. f.visible = a.visible /\ ~f.shown /\ f.recovery = 0
    BY <1>3, <1>6, <1>7, <1>10 DEF SameCard, SameWaits
  <2> QED BY <2>1, <2>2, <2>3, <2>4 DEF Quiet
<1>13. Queued(js, f) = Queued(js, a) BY <1>12 DEF Queued, Quiet
<1>14. Agreed(f, Queued(js, f), us, os, e, "handling")
  BY <1>0, <1>10, <1>12, <1>13, QuietAgreed DEF Steady, Handled
<1>15. Numbered(f, j)
  <2>1. a.dialog # None => a.dialog.id \in Ids(a) BY <1>0 DEF Steady, Counted, Ids
  <2>2. f.dialog = a.dialog /\ f.recovery = 0 BY <1>7, <1>10, <1>12 DEF Quiet, SameView, SameWaits
  <2>3. a.recovery \notin Ids(a) /\ a.recovery < a.nextAction BY <1>0 DEF Steady, Counted
  <2>4. f.nextAction = a.nextAction BY <1>3, <1>6, <1>10 DEF SameOutputs
  <2> QED BY <1>2, <2>1, <2>2, <2>3, <2>4 DEF Numbered
<1>16. Admits(f, Queued(js, f), os, e, "handling", j)
  <2>1. Exporting(f, j.action) BY <1>2, <1>8, <1>9, <1>10 DEF Exporting, Ids
  <2> QED BY <1>2, <1>15, <2>1 DEF Admits, Judges
<1>17. Steady(b) /\ Agreed(b, Queued(js, b), us, os, e, "handling")
  BY <1>1, <1>11, <1>14, <1>16, Posting
<1>24. Steady(f) /\ j \in JobShape /\ b = Post(f, j) BY <1>1, <1>2, <1>11
<1>18. SameView(f, b) /\ SameCard(f, b) /\ SameWaits(f, b) BY <1>24, PostKeeps
<1>22. f.visible = a.visible /\ f.shown = a.shown BY <1>3, <1>6, <1>10 DEF SameCard
<1>23. SameView(a, f) BY <1>12 DEF Quiet
<1>19. SameView(a, b) /\ b.visible /\ ~b.shown BY <1>18, <1>22, <1>23 DEF SameView, SameCard
<1>20. Waiting(b) BY <1>19 DEF Waiting, SameView, Editing
<1>21. Moves(a, b) BY <1>3, <1>4, <1>6, <1>10, <1>18, <1>19 DEF Moves, SameWaits
<1> QED BY <1>17, <1>19, <1>20, <1>21 DEF Handled, Left, Owns

LEMMA RetentionReleaseHandled ==
  ASSUME NEW js \in Seq(JobShape), NEW us, NEW os, NEW e,
         NEW a, Handled(a, js, us, os, e), NEW o \in OutcomeShape,
         a.shown => Checks(Queued(js, a)) \union CheckAnswers(os) = {},
         NEW b, b = RetentionRelease(a, o)
  PROVE  Handled(b, js, us, os, e) /\ Moves(a, b) /\ (Left(a) => Left(b))
<1> DEFINE checked == [a EXCEPT !.checkClose = FALSE, !.checkOverflow = FALSE]
           r == [checked.retention EXCEPT !.elsewhere = a.retention.exported]
           unkept == IF a.visible THEN [checked EXCEPT !.retention = r] ELSE checked
           closed == [checked EXCEPT !.recovery = 0]
           saved == Register(Post([unkept EXCEPT !.recovery = 0, !.inFlight = TRUE],
                                  [Output(TRUE, Plain) EXCEPT !.action = a.recovery]),
                             a.recovery, "card", TRUE)
<1>0. Steady(a) /\ a \in Apps BY DEF Handled, Steady
<1>1. \/ b = a
      \/ (a.checkClose \/ a.checkOverflow) /\ b = Dismiss(closed)
      \/ (a.checkClose \/ a.checkOverflow) /\ b = unkept
      \/ a.checkOverflow /\ a.recovery # 0 /\ b = saved
  <2>1. unkept = IF a.visible THEN [checked EXCEPT !.retention.elsewhere = a.retention.exported]
                              ELSE checked
    OBVIOUS
  <2> HIDE DEF unkept, checked
  <2> QED BY <2>1 DEF RetentionRelease, checked
<1>8. checked = [a EXCEPT !.checkClose = FALSE, !.checkOverflow = FALSE] OBVIOUS
<1>9. Agreed(a, Queued(js, a), us, os, e, "handling") BY DEF Handled
<1> HIDE DEF checked
<1> DEFINE q == Queued(js, a)
<1>10. Agreed(a, q, us, os, e, "handling") /\ (a.shown => Checks(q) \union CheckAnswers(os) = {})
  BY <1>9
<1> HIDE DEF q
<1>2. /\ Steady(checked) /\ Agreed(checked, q, us, os, e, "handling")
      /\ SameView(a, checked) /\ SameOutputs(a, checked) /\ SameCard(a, checked)
      /\ checked.posted = a.posted
      /\ SameDeferrals(a, checked) /\ ~checked.checkClose /\ ~checked.checkOverflow
  <2>1. Steady(checked) /\ Agreed(checked, q, us, os, e, "handling")
    BY <1>0, <1>8, <1>10, ChecksAnswered, Zenon
  <2>3. SameView(a, checked) /\ SameOutputs(a, checked) /\ SameCard(a, checked)
    BY <1>0, <1>8, <1>10, ChecksAnswered, Zenon
  <2>4. checked.posted = a.posted BY <1>0, <1>8 DEF Apps
  <2>5. SameDeferrals(a, checked) BY <1>0, <1>8, <1>10, ChecksAnswered, Zenon
  <2>6. ~checked.checkClose /\ ~checked.checkOverflow BY <1>0, <1>8, <1>10, ChecksAnswered, Zenon
  <2> QED BY <2>1, <2>3, <2>4, <2>5, <2>6
<1>3. Queued(js, checked) = q BY <1>2 DEF Queued, q
<1>4. Waiting(checked)
  BY <1>2 DEF Handled, Waiting, SameView, SameCard, SameOutputs, SameDeferrals, Editing, Active,
              CardOutputPending
<1>5. Handled(checked, js, us, os, e) BY <1>2, <1>3, <1>4 DEF Handled
<1>6. CASE b = a BY <1>6, Unchanged
<1>7. CASE a.checkClose \/ a.checkOverflow
  <2>1. a.visible /\ ~a.editorOnly /\ checked.visible BY <1>0, <1>2, <1>7 DEF Steady, Withdrawn, Adopted, SameCard
  <2>2. CASE b = Dismiss(closed)
    <3>1. /\ Steady(closed) /\ Quiet(checked, closed) /\ SameView(checked, closed)
          /\ SameOutputs(checked, closed) /\ SameCard(checked, closed)
          /\ closed.posted = checked.posted /\ closed.editorOnly = checked.editorOnly
          /\ closed.deferredSave = checked.deferredSave
          /\ closed.inFlight = checked.inFlight /\ closed.checkOverflow = checked.checkOverflow
      BY <1>2, ClearsRecovery
    <3> HIDE DEF closed
    <3>2. Queued(js, closed) = Queued(js, checked) /\ closed \in Apps /\ checked \in Apps
      BY <1>2, <3>1 DEF Queued, Steady
    <3>3. Agreed(closed, Queued(js, closed), us, os, e, "handling")
      BY <1>2, <1>3, <3>1, <3>2, QuietAgreed DEF Steady
    <3>4. ~closed.editorOnly BY <1>2, <2>1, <3>1 DEF SameDeferrals
    <3>5. closed.visible => \/ ~(closed.inFlight \/ closed.checkOverflow)
                            \/ ~closed.opening /\ ~Editing(closed)
      BY <1>4, <2>1, <3>1 DEF Waiting, SameView, SameCard, Editing
    <3>6. Handled(b, js, us, os, e) /\ Moves(closed, b) /\ Left(b)
      BY <2>2, <3>1, <3>3, <3>4, <3>5, DismissHandled
    <3>7. Moves(a, b) BY <1>2, <3>1, <3>6 DEF Moves, SameView, SameCard, SameDeferrals
    <3> QED BY <3>6, <3>7
  <2>3. /\ Handled(unkept, js, us, os, e) /\ Moves(checked, unkept) /\ SameRest(checked, unkept)
        /\ Left(unkept)
    <3>1. unkept = [checked EXCEPT !.retention = r] BY <2>1
    <3>2. /\ r \in [elsewhere : BOOLEAN, exported : BOOLEAN]
          /\ (r.exported => r.elsewhere)
      <4>1. checked.retention = a.retention BY <1>2 DEF SameCard
      <4>2. a.retention \in [elsewhere : BOOLEAN, exported : BOOLEAN] BY <1>0 DEF Apps
      <4> QED BY <4>1, <4>2
    <3> HIDE DEF unkept, r
    <3> QED BY <1>5, <2>1, <3>1, <3>2, RetentionHandled
  <2> HIDE DEF unkept
  <2>4. Moves(a, unkept) BY <1>2, <2>3 DEF Moves, SameView, SameCard, SameDeferrals
  <2>5. CASE b = unkept BY <2>3, <2>4, <2>5
  <2>6. CASE a.checkOverflow /\ a.recovery # 0 /\ b = saved
    <3>1. ~a.shown /\ ~a.opening /\ ~Editing(a)
      BY <1>0, <2>1, <2>6 DEF Steady, Displayed, Handled, Waiting
    <3>2. /\ unkept.visible /\ ~unkept.shown /\ unkept.recovery = a.recovery /\ ~unkept.opening
          /\ ~Editing(unkept)
      BY <1>2, <2>1, <2>3, <3>1 DEF SameDeferrals, SameRest, SameWaits, SameView, SameCard, Editing
    <3>3. Handled(b, js, us, os, e) /\ Moves(unkept, b) /\ Left(b)
      BY <2>3, <2>6, <3>2, RecoversHandled, Zenon
    <3>4. Moves(a, b) BY <2>4, <3>3 DEF Moves, SameView
    <3> QED BY <3>3, <3>4
  <2> QED BY <1>1, <1>6, <2>2, <2>5, <2>6
<1> QED BY <1>1, <1>6, <1>7

-----------------------------------------------------------------------------
(* Outcomes of editors                                                     *)

\* what no handler of an outcome does: bring a card or an editor back
Follows(a, b) ==
  /\ b.visible => a.visible
  /\ b.shown => a.shown
  /\ b.nextGen = a.nextGen
  /\ Editing(b) => b.editor = a.editor
  /\ a.closed = "committed" /\ Editing(b) => b.closed = "committed"

LEMMA MovesFollows ==
  ASSUME NEW a, NEW b, Moves(a, b) PROVE Follows(a, b)
  BY DEF Moves, Follows, SameView

\* the editor that was asked for does not open
LEMMA OpeningEnds ==
  ASSUME NEW q, NEW us, NEW os, NEW e, NEW a, Steady(a), Agreed(a, q, us, os, e, "handling"),
         ~Editing(a), Opens(q) \union OpenAnswers(os) = {},
         NEW b, b = [a EXCEPT !.editorOnly = FALSE, !.opening = FALSE]
  PROVE  Steady(b) /\ Agreed(b, q, us, os, e, "handling")
<1>0. a \in Apps BY DEF Steady
<1>1. b \in Apps BY <1>0, ZenonT(60) DEF Apps
<1>2. /\ SameCard(a, b) /\ SameOutputs(a, b) /\ b.posted = a.posted
      /\ b.editor = a.editor /\ ~b.opening /\ ~b.editorOnly
      /\ b.inFlight = a.inFlight /\ b.deferredOverflow = a.deferredOverflow
      /\ b.nextGen = a.nextGen /\ b.closed = a.closed /\ b.close = a.close /\ b.dialog = a.dialog
      /\ b.finalizing = a.finalizing /\ b.recovery = a.recovery /\ b.checkClose = a.checkClose
      /\ b.checkOverflow = a.checkOverflow /\ b.deferredSave = a.deferredSave
      /\ b.deferredClose = a.deferredClose
  BY <1>0 DEF Apps, SameCard, SameOutputs
<1>3. Counted(b) BY <1>2 DEF Steady, Counted, SameOutputs, Ids
<1>4. Withdrawn(b) /\ Displayed(b) /\ Filing(b)
  BY <1>2 DEF Steady, Withdrawn, Displayed, Filing, SameCard, SameOutputs
<1>5. Sessions(b) /\ Adopted(b) /\ Freezing(b)
  BY <1>2 DEF Steady, Sessions, Adopted, Freezing, Editing, Active
<1>6. \A m : ToldOf(b, e, m) <=> ToldOf(a, e, m)
  BY <1>2 DEF ToldOf, Numbered, Judges, SameOutputs, SameCard, Ids
<1>7. Messages(b, q, us, os, e)
  BY <1>2, <1>6 DEF Agreed, Messages, Judges, SameOutputs, SameCard, Ids
<1>8. Uploads(b, q, us, os) BY <1>2, Zenon DEF Agreed, Uploads, Uploading, Exporting, SameOutputs
<1>9. Opening(b, q, os) /\ Releasable(b, q)
  BY <1>2 DEF Agreed, Opening, Releasable, SameCard, Editing
<1>10. Checking(b, q, os, "handling") /\ Committing(b, q, os) /\ Ended(b, e, "handling")
  BY <1>2 DEF Agreed, Checking, Committing, Ended, SameCard, Editing
<1> QED BY <1>1, <1>2, <1>3, <1>4, <1>5, <1>7, <1>8, <1>9, <1>10 DEF Steady, Agreed

LEMMA ReleaseShape ==
  /\ Job("release") \in JobShape /\ Job("release").do = "release"
  /\ Job("release").action = 0 /\ Job("release").version = Plain
  BY JobShapes DEF Doings

\* nobody is left who needs the pixels
LEMMA ReleasesPosts ==
  ASSUME NEW js \in Seq(JobShape), NEW us, NEW os, NEW e, NEW stage,
         NEW a, Steady(a), Agreed(a, Queued(js, a), us, os, e, stage),
         ~a.visible, ~a.opening, ~Editing(a),
         NEW b, b = Post(a, Job("release"))
  PROVE  /\ Steady(b) /\ Agreed(b, Queued(js, b), us, os, e, stage) /\ Left(b)
         /\ SameView(a, b) /\ SameCard(a, b) /\ SameWaits(a, b) /\ SameOutputs(a, b)
         /\ Waiting(b) <=> Waiting(a)
<1> DEFINE j == Job("release")
<1>1. j \in JobShape /\ j.do = "release" /\ j.action = 0 /\ j.version = Plain BY ReleaseShape
<1>2. b = Post(a, j) OBVIOUS
<1> HIDE DEF j
<1>3. Numbered(a, j) BY <1>1, ZeroNumbered
<1>4. Admits(a, Queued(js, a), os, e, stage, j) BY <1>1, <1>3 DEF Admits, Judges
<1>5. Steady(b) /\ Agreed(b, Queued(js, b), us, os, e, stage) BY <1>2, <1>4, Posting
<1>6. /\ SameView(a, b) /\ SameCard(a, b) /\ SameWaits(a, b) /\ SameOutputs(a, b)
      /\ Waiting(b) <=> Waiting(a)
  BY <1>1, <1>2, PostKeeps
<1>7. a \in Apps /\ a.posted \in Seq(JobShape) BY DEF Steady, Apps
<1>8. b.posted = Append(a.posted, j) BY <1>1, <1>2, <1>7, PostIs
<1>9. Left(b) BY <1>1, <1>7, <1>8, Appended DEF Left
<1> QED BY <1>5, <1>6, <1>9

LEMMA OpenRefusedHandled ==
  ASSUME NEW js \in Seq(JobShape), NEW us, NEW os, NEW e,
         NEW a, Handled(a, js, us, os, e), ~Editing(a), a.opening,
         Opens(Queued(js, a)) \union OpenAnswers(os) = {},
         NEW b, b = OpenRefused(a)
  PROVE  Handled(b, js, us, os, e) /\ Follows(a, b) /\ Left(b)
<1> DEFINE c == [a EXCEPT !.editorOnly = FALSE, !.opening = FALSE]
           d == IF a.editorOnly THEN Post(c, Job("release")) ELSE c
           q == Queued(js, a)
<1>0. a \in Apps /\ Steady(a) /\ Agreed(a, q, us, os, e, "handling") BY DEF Handled, Steady
<1>1. b = Settles(d, Plain)
  <2>1. CASE a.editorOnly
    <3>1. [Post([a EXCEPT !.editorOnly = FALSE], Job("release")) EXCEPT !.opening = FALSE] = d
      BY <1>0, <2>1 DEF Apps, Post
    <3> HIDE DEF d
    <3> QED BY <2>1, <3>1 DEF OpenRefused, Settles
  <2>2. CASE ~a.editorOnly
    <3>1. [a EXCEPT !.opening = FALSE] = c BY <1>0, <2>2, Zenon DEF Apps
    <3>2. [a EXCEPT !.opening = FALSE] = d BY <2>2, <3>1
    <3> HIDE DEF d
    <3> QED BY <2>2, <3>2 DEF OpenRefused, Settles
  <2> QED BY <2>1, <2>2
<1> HIDE DEF q
<1>14. Opens(q) \union OpenAnswers(os) = {} BY DEF q
<1>15. c = [a EXCEPT !.editorOnly = FALSE, !.opening = FALSE] OBVIOUS
<1> HIDE DEF c
<1>2. /\ Steady(c) /\ Agreed(c, q, us, os, e, "handling") /\ SameCard(a, c) /\ SameOutputs(a, c)
      /\ c.posted = a.posted /\ c.editor = a.editor /\ ~c.opening /\ ~c.editorOnly
      /\ c.inFlight = a.inFlight /\ c.deferredOverflow = a.deferredOverflow
      /\ c.nextGen = a.nextGen /\ c.closed = a.closed
  <2>1. Steady(c) /\ Agreed(c, q, us, os, e, "handling") BY <1>0, <1>14, <1>15, OpeningEnds, Zenon
  <2>2. /\ SameCard(a, c) /\ SameOutputs(a, c)
        /\ c.posted = a.posted /\ c.editor = a.editor /\ ~c.opening /\ ~c.editorOnly
        /\ c.inFlight = a.inFlight /\ c.deferredOverflow = a.deferredOverflow
        /\ c.nextGen = a.nextGen /\ c.closed = a.closed
    BY <1>0, <1>15 DEF Apps, SameCard, SameOutputs
  <2> QED BY <2>1, <2>2
<1>3. Queued(js, c) = q BY <1>2 DEF Queued, q
<1>4. ~Editing(c) BY <1>2 DEF Editing
<1>5. a.editorOnly => ~c.visible BY <1>0, <1>2 DEF Steady, Adopted, SameCard
<1>6. ~a.visible /\ ~a.editorOnly => CardOutputPending(a) \/ a.deferredOverflow
  BY DEF Handled, Waiting
<1>7. /\ Steady(d) /\ Agreed(d, Queued(js, d), us, os, e, "handling") /\ (Left(d) \/ d.deferredOverflow)
      /\ SameView(c, d) /\ SameCard(c, d) /\ SameWaits(c, d) /\ SameOutputs(c, d)
  <2>1. CASE a.editorOnly
    <3>1. d = Post(c, Job("release")) BY <2>1
    <3> HIDE DEF d
    <3> QED BY <1>2, <1>3, <1>4, <1>5, <2>1, <3>1, ReleasesPosts
  <2>2. CASE ~a.editorOnly
    <3>1. d = c BY <2>2
    <3>2. Left(c) \/ c.deferredOverflow
      BY <1>2, <1>6, <2>2 DEF Left, Owns, SameCard, SameOutputs, CardOutputPending
    <3> HIDE DEF d
    <3> QED BY <1>2, <1>3, <3>1, <3>2 DEF SameView, SameCard, SameWaits, SameOutputs
  <2> QED BY <2>1, <2>2
<1> HIDE DEF d
<1>8. ~d.opening /\ ~Editing(d) BY <1>2, <1>4, <1>7 DEF SameView, Editing
<1>9. ~d.visible /\ CardOutputPending(d) => d.inFlight \/ d.deferredOverflow
  BY <1>2, <1>7 DEF Handled, Waiting, SameCard, SameOutputs, SameWaits, CardOutputPending
<1>10. /\ Steady(b) /\ Agreed(b, Queued(js, b), us, os, e, "handling") /\ Moves(d, b)
       /\ ~b.deferredOverflow
       /\ ~b.visible /\ CardOutputPending(b) => b.inFlight
       /\ Left(d) \/ d.deferredOverflow => Left(b)
  BY <1>1, <1>7, <1>8, <1>9, NoneIsApart, PlainFresh, SettlesMoves
<1>11. ~b.opening /\ ~Editing(b) BY <1>8, <1>10 DEF Moves, SameView, Editing
<1>12. Waiting(b) BY <1>10, <1>11 DEF Waiting
<1>13. Follows(a, b)
  BY <1>2, <1>7, <1>10, <1>11 DEF Moves, Follows, SameView, SameCard
<1> QED BY <1>7, <1>10, <1>12, <1>13 DEF Handled

\* the editor that was asked for is there, with a session of its own
LEMMA OpenedHandled ==
  ASSUME NEW js \in Seq(JobShape), NEW us, NEW os, NEW e,
         NEW a, Handled(a, js, us, os, e), ~Editing(a), a.opening,
         Opens(Queued(js, a)) \union OpenAnswers(os) = {}, Checks(Queued(js, a)) = {},
         NEW o, ~o.ok, NEW b, b = Opened(a, o)
  PROVE  /\ Handled(b, js, us, os, e) /\ Left(b) /\ Editing(b)
         /\ b.visible = a.visible /\ b.shown = a.shown
         /\ b.editor.version = Version(a.nextGen, 0) /\ b.nextGen = a.nextGen + 1
<1> DEFINE q == Queued(js, a)
           n == a.nextGen + 1
           v == Version(a.nextGen, 0)
           w == [phase |-> "asked", version |-> v]
<1>0. a \in Apps /\ Steady(a) /\ Agreed(a, q, us, os, e, "handling") BY DEF Handled, Steady
<1>1. a.nextGen \in Gens /\ a.nextGen \in 1..MaxGen /\ MaxGen \in Nat
  BY <1>0, CardAssumption DEF Steady, Sessions, Gens
<1>2. n \in Nat /\ n \in 1..(MaxGen + 1) BY <1>1
<1>3. v \in EditVersions /\ v.gen = a.nextGen
  BY <1>1, CardAssumption DEF EditVersions, Version
<1>4. w \in [phase : {"none", "asked", "open"}, version : Versions] /\ w.phase = "asked" /\ w.version = v
  BY <1>3, NoneIsApart
<1> DEFINE k == a.editorOnly \/ o.ok
<1>5. b = [a EXCEPT !.editor = w, !.nextGen = n, !.editorOnly = k] BY DEF Opened
<1>6. k \in BOOLEAN /\ (k <=> a.editorOnly) BY <1>0 DEF Apps
<1> HIDE DEF q, n, v, w, k
<1>7. b \in Apps
  <2> DEFINE f == [a EXCEPT !.editor = w, !.nextGen = n]
  <2>1. f \in Apps BY <1>0, <1>2, <1>4 DEF Apps
  <2>2. b = [f EXCEPT !.editorOnly = k] BY <1>5
  <2> HIDE DEF f
  <2> QED BY <1>6, <2>1, <2>2, ZenonT(60) DEF Apps
<1>8. /\ SameCard(a, b) /\ SameOutputs(a, b) /\ b.posted = a.posted
      /\ b.editor = w /\ b.opening = a.opening /\ (b.editorOnly <=> a.editorOnly)
      /\ b.inFlight = a.inFlight /\ b.deferredOverflow = a.deferredOverflow
      /\ b.nextGen = n /\ b.closed = a.closed /\ b.close = a.close /\ b.dialog = a.dialog
      /\ b.finalizing = a.finalizing /\ b.recovery = a.recovery /\ b.checkClose = a.checkClose
      /\ b.checkOverflow = a.checkOverflow /\ b.deferredSave = a.deferredSave
      /\ b.deferredClose = a.deferredClose
  BY <1>0, <1>5, <1>6, ZenonT(60) DEF Apps, SameCard, SameOutputs
<1>9. Editing(b) /\ ~Active(b) /\ ~Active(a) BY <1>4, <1>8 DEF Editing, Active
<1>10. n = a.nextGen + 1 BY DEF n
<1>11. Counted(b) BY <1>8 DEF Steady, Handled, Counted, SameOutputs, Ids
<1>12. Withdrawn(b) /\ Displayed(b) /\ Filing(b)
  BY <1>0, <1>8 DEF Steady, Withdrawn, Displayed, Filing, SameCard, SameOutputs
<1>13. Sessions(b)
  <2>1. b.editor.version.gen = a.nextGen BY <1>3, <1>4, <1>8
  <2>2. b.nextGen \in 1..(MaxGen + 1) /\ a.nextGen \in 1..(b.nextGen - 1) BY <1>1, <1>2, <1>8, <1>10
  <2> QED BY <1>8, <1>9, <2>1, <2>2 DEF Sessions
<1>14. Adopted(b) BY <1>0, <1>8, <1>9 DEF Steady, Adopted, SameCard, SameOutputs, CardOutputPending
<1>15. Freezing(b) BY <1>0, <1>8, <1>9 DEF Steady, Freezing
<1>16. a.nextGen < b.nextGen BY <1>1, <1>8, <1>10
<1>17. ASSUME NEW m, ToldOf(a, e, m), m.version \in Versions PROVE ToldOf(b, e, m)
  <2>1. m.version.gen \in Nat
    BY <1>17, NoneIsApart, CardAssumption DEF Versions, EditVersions, Plain, Version, Gens
  <2>2. Judges(b, e, m.action, m.version)
    BY <1>1, <1>8, <1>10, <1>17, <2>1 DEF ToldOf, Judges, SameOutputs, SameCard, Ids
  <2> QED BY <1>8, <1>17, <2>2 DEF ToldOf, Numbered, SameOutputs
<1>18. Messages(b, q, us, os, e)
  <2>1. q \in Seq(JobShape) /\ us \in Seq(JobShape) /\ os \in Seq(OutcomeShape)
    BY <1>0 DEF Agreed, Messages
  <2>2. ASSUME NEW i \in DOMAIN q PROVE ToldOf(b, e, q[i])
    <3>1. q[i].version \in Versions BY <2>1 DEF JobShape
    <3> QED BY <1>0, <1>17, <3>1 DEF Agreed, Messages
  <2>3. ASSUME NEW i \in DOMAIN us PROVE ToldOf(b, e, us[i])
    <3>1. us[i].version \in Versions BY <2>1 DEF JobShape
    <3> QED BY <1>0, <1>17, <3>1 DEF Agreed, Messages
  <2>4. ASSUME NEW i \in DOMAIN os PROVE ToldOf(b, e, os[i])
    <3>0. os[i] \in OutcomeShape BY <2>1
    <3>1. os[i].version \in Versions BY <3>0, Zenon DEF OutcomeShape
    <3> QED BY <1>0, <1>17, <3>1 DEF Agreed, Messages
  <2>5. ASSUME b.dialog # None PROVE Judges(b, e, b.dialog.id, b.dialog.version)
    <3>1. b.dialog = a.dialog /\ a.dialog.version \in Versions
      BY <1>0, <1>8, <2>5 DEF Apps, Dialogs
    <3>2. Judges(a, e, a.dialog.id, a.dialog.version) BY <1>0, <2>5, <3>1 DEF Agreed, Messages
    <3>3. a.dialog.version.gen \in Nat
      BY <3>1, NoneIsApart, CardAssumption DEF Versions, EditVersions, Plain, Version, Gens
    <3> QED BY <1>1, <1>8, <1>10, <3>1, <3>2, <3>3 DEF Judges, SameOutputs, SameCard, Ids
  <2> QED BY <2>1, <2>2, <2>3, <2>4, <2>5 DEF Messages
<1>19. Uploads(b, q, us, os) BY <1>0, <1>8, ZenonT(30) DEF Agreed, Uploads, Uploading, Exporting, SameOutputs
<1>20. Opening(b, q, os) BY <1>0, <1>8 DEF Agreed, Opening, q
<1>21. Releasable(b, q) BY <1>0 DEF Agreed, Releasable
<1>22. Checking(b, q, os, "handling")
  BY <1>0, <1>8 DEF Agreed, Checking, SameCard, q
<1>23. Committing(b, q, os) BY <1>0, <1>8 DEF Agreed, Committing, SameCard
<1>24. Ended(b, e, "handling")
  <2>1. \A g \in Gens : g >= b.nextGen => g >= a.nextGen BY <1>1, <1>8, <1>10 DEF Gens
  <2>2. b.editor.version.gen = a.nextGen BY <1>3, <1>4, <1>8
  <2>3. e[a.nextGen] = Open BY <1>0, <1>1 DEF Agreed, Ended, Gens
  <2> QED BY <1>0, <1>8, <2>1, <2>2, <2>3 DEF Agreed, Ended
<1>25. Waiting(b)
  BY <1>8, <1>9
     DEF Handled, Waiting, SameCard, SameOutputs, CardOutputPending
<1>26. Queued(js, b) = q BY <1>8 DEF Queued, q
<1>27. Left(b) BY <1>9 DEF Left, Owns
<1>28. b.editor.version = Version(a.nextGen, 0) /\ b.nextGen = a.nextGen + 1
  BY <1>4, <1>8, <1>10 DEF v
<1> QED BY <1>0, <1>7, <1>8, <1>9, <1>11, <1>12, <1>13, <1>14, <1>15, <1>18, <1>19, <1>20, <1>21, <1>22,
           <1>23, <1>24, <1>25, <1>26, <1>27, <1>28 DEF Handled, Steady, Agreed, SameCard

-----------------------------------------------------------------------------
(* Finalization                                                            *)

\* what Finalized makes of the card before it sees to what was deferred
Files(a, o) ==
  [a EXCEPT !.finalizing = FALSE, !.deferredSave = FALSE,
            !.filed = IF a.visible \/ a.opening \/ Active(a) \/ a.editorOnly \/ a.deferredSave
                      THEN a.filed \/ o.filed ELSE a.filed,
            !.retention = IF a.visible THEN [elsewhere |-> o.elsewhere, exported |-> o.export]
                          ELSE a.retention]

LEMMA FilesSteady ==
  ASSUME NEW q, NEW us, NEW os, NEW e, NEW a, Steady(a), Agreed(a, q, us, os, e, "handling"),
         Waiting(a), NEW o \in OutcomeShape, o.what = "finalized", NEW b, b = Files(a, o)
  PROVE  /\ Steady(b) /\ Agreed(b, q, us, os, e, "handling") /\ Waiting(b) /\ ~b.finalizing
         /\ SameOutputs(a, b) /\ b.visible = a.visible /\ b.shown = a.shown
         /\ b.editor = a.editor /\ b.opening = a.opening /\ (b.editorOnly <=> a.editorOnly)
         /\ b.nextGen = a.nextGen /\ b.closed = a.closed /\ ~b.deferredSave
<1> DEFINE f == IF a.visible \/ a.opening \/ Active(a) \/ a.editorOnly \/ a.deferredSave
                THEN a.filed \/ o.filed ELSE a.filed
           r == IF a.visible THEN [elsewhere |-> o.elsewhere, exported |-> o.export] ELSE a.retention
           c == [a EXCEPT !.finalizing = FALSE, !.deferredSave = FALSE, !.retention = r]
<1>0. a \in Apps BY DEF Steady
<1>1. f \in BOOLEAN BY <1>0, Zenon DEF Apps, OutcomeShape
<1>2. /\ r \in [elsewhere : BOOLEAN, exported : BOOLEAN]
      /\ r.exported => r.elsewhere
      /\ ~a.visible => r = NoRetention
  BY <1>0, Zenon DEF Apps, OutcomeShape, Steady, Withdrawn, Filing
<1>3. b = [c EXCEPT !.filed = f] BY DEF Files
<1> HIDE DEF f, r
<1>4. c \in Apps BY <1>0, <1>2 DEF Apps
<1>5. /\ SameOutputs(a, c) /\ c.visible = a.visible /\ c.shown = a.shown /\ c.posted = a.posted
      /\ c.retention = r /\ ~c.finalizing /\ ~c.deferredSave
      /\ c.editor = a.editor /\ c.opening = a.opening /\ c.close = a.close /\ c.closed = a.closed
      /\ c.dialog = a.dialog /\ c.nextGen = a.nextGen /\ c.checkClose = a.checkClose
      /\ c.checkOverflow = a.checkOverflow /\ c.deferredClose = a.deferredClose
  BY <1>0 DEF Apps, SameOutputs
<1>6. /\ (c.editorOnly <=> a.editorOnly) /\ c.recovery = a.recovery
      /\ (c.deferredOverflow <=> a.deferredOverflow) /\ (c.inFlight <=> a.inFlight)
  BY <1>0 DEF Apps
<1> HIDE DEF c
<1>7. b \in Apps BY <1>1, <1>3, <1>4, ZenonT(60) DEF Apps
<1>8. /\ SameOutputs(a, b) /\ b.visible = a.visible /\ b.shown = a.shown /\ b.posted = a.posted
      /\ b.retention = r /\ ~b.finalizing /\ ~b.deferredSave
      /\ b.editor = a.editor /\ b.opening = a.opening /\ b.close = a.close /\ b.closed = a.closed
      /\ b.dialog = a.dialog /\ b.nextGen = a.nextGen /\ b.checkClose = a.checkClose
      /\ b.checkOverflow = a.checkOverflow /\ b.deferredClose = a.deferredClose
      /\ (b.editorOnly <=> a.editorOnly) /\ b.recovery = a.recovery
      /\ (b.deferredOverflow <=> a.deferredOverflow) /\ (b.inFlight <=> a.inFlight)
  BY <1>3, <1>4, <1>5, <1>6 DEF Apps, SameOutputs
<1>9. Counted(b) BY <1>8 DEF Steady, Counted, SameOutputs, Ids
<1>10. Withdrawn(b) /\ Displayed(b) /\ Filing(b)
  BY <1>2, <1>8 DEF Steady, Withdrawn, Displayed, Filing, SameOutputs
<1>11. Sessions(b) /\ Adopted(b) /\ Freezing(b)
  BY <1>8 DEF Steady, Sessions, Adopted, Freezing, Editing, Active, CardOutputPending, SameOutputs
<1>12. \A m : ToldOf(b, e, m) <=> ToldOf(a, e, m)
  BY <1>8 DEF ToldOf, Numbered, Judges, SameOutputs, Ids
<1>13. Messages(b, q, us, os, e)
  BY <1>8, <1>12 DEF Agreed, Messages, Judges, SameOutputs, Ids
<1>14. Uploads(b, q, us, os) BY <1>8, ZenonT(30) DEF Agreed, Uploads, Uploading, Exporting, SameOutputs
<1>15. Opening(b, q, os) /\ Releasable(b, q)
  BY <1>8 DEF Agreed, Opening, Releasable, Editing
<1>16. Checking(b, q, os, "handling") /\ Committing(b, q, os) /\ Ended(b, e, "handling")
  BY <1>8 DEF Agreed, Checking, Committing, Ended, Editing
<1>17. Waiting(b) BY <1>8 DEF Waiting, Editing, Active, CardOutputPending, SameOutputs
<1> QED BY <1>7, <1>8, <1>9, <1>10, <1>11, <1>13, <1>14, <1>15, <1>16, <1>17 DEF Steady, Agreed

\* how the card stands once the deferred save was seen to
LEMMA FinalizedSaves ==
  ASSUME NEW a \in Apps, NEW o \in OutcomeShape, NEW b, b = Finalized(a, o)
  PROVE  \E saved :
           /\ \/ saved = Files(a, o)
                 /\ (a.visible \/ a.opening \/ Active(a) \/ a.editorOnly)
              \/ a.deferredSave /\ saved \in {Dismiss(Files(a, o)), SavesAndCloses(Files(a, o), Plain)}
              \/ /\ ~(a.visible \/ a.opening \/ Active(a) \/ a.editorOnly)
                 /\ saved = Post(Files(a, o), Job("release"))
           /\ b = IF Active(a) \/ a.opening THEN saved
                  ELSE RunsDeferredOverflow(IF CardOutputPending(saved) THEN saved
                                            ELSE RunsDeferredClose(saved, Plain), Plain)
<1> DEFINE owned == a.visible \/ a.opening \/ Active(a) \/ a.editorOnly \/ a.deferredSave
           f == a.filed \/ o.filed
           r == [elsewhere |-> o.elsewhere, exported |-> o.export]
           settled == [a EXCEPT !.finalizing = FALSE]
           filed == IF owned THEN [settled EXCEPT !.filed = @ \/ o.filed] ELSE Post(settled, Job("release"))
           kept == IF a.visible THEN [filed EXCEPT !.retention = r] ELSE filed
           saved == RunsDeferredSave(kept, o.export)
           c == Files(a, o)
<1>1. b = IF Active(a) \/ a.opening THEN saved
          ELSE RunsDeferredOverflow(IF CardOutputPending(saved) THEN saved
                                    ELSE RunsDeferredClose(saved, Plain), Plain)
  BY DEF Finalized
<1>4. ~a.deferredSave => a = [a EXCEPT !.deferredSave = FALSE]
  <2>1. a = [a EXCEPT !.deferredSave = a.deferredSave] BY DEF Apps
  <2>2. ~a.deferredSave => a.deferredSave = FALSE BY Zenon DEF Apps
  <2> QED BY <2>1, <2>2
<1>2. CASE owned
  <2>1. filed = [settled EXCEPT !.filed = f]
    <3>1. settled.filed = a.filed OBVIOUS
    <3> QED BY <1>2, <3>1
  <2>2. CASE a.visible
    <3>1. c = [a EXCEPT !.finalizing = FALSE, !.deferredSave = FALSE, !.filed = f, !.retention = r]
      BY <1>2, <2>2 DEF Files
    <3>2. kept = [[settled EXCEPT !.filed = f] EXCEPT !.retention = r] BY <2>1, <2>2
    <3> HIDE DEF f, r, c, kept, saved
    <3>3. [kept EXCEPT !.deferredSave = FALSE] = c BY <3>1, <3>2 DEF Apps
    <3>4. kept.deferredSave = a.deferredSave BY <3>2 DEF Apps
    <3>5. ~a.deferredSave => kept = c
      <4>1. [[[[a EXCEPT !.deferredSave = FALSE] EXCEPT !.finalizing = FALSE]
               EXCEPT !.filed = f] EXCEPT !.retention = r] = c
        BY <3>1 DEF Apps
      <4> QED BY <1>4, <3>2, <4>1
    <3>6. saved = IF ~a.deferredSave THEN kept
                  ELSE IF o.export THEN Dismiss(c) ELSE SavesAndCloses(c, Plain)
      BY <3>3, <3>4 DEF RunsDeferredSave, saved
    <3>7. \/ saved = c
          \/ a.deferredSave /\ saved \in {Dismiss(c), SavesAndCloses(c, Plain)}
      BY <3>5, <3>6
    <3> QED BY <1>1, <2>2, <3>7 DEF c
  <2>3. CASE ~a.visible
    <3>1. c = [a EXCEPT !.finalizing = FALSE, !.deferredSave = FALSE, !.filed = f, !.retention = a.retention]
      BY <1>2, <2>3 DEF Files
    <3>2. kept = [settled EXCEPT !.filed = f] BY <2>1, <2>3
    <3> HIDE DEF f, r, c, kept, saved
    <3>3. [kept EXCEPT !.deferredSave = FALSE] = c BY <3>1, <3>2 DEF Apps
    <3>4. kept.deferredSave = a.deferredSave BY <3>2 DEF Apps
    <3>5. ~a.deferredSave => kept = c
      <4>1. [[[a EXCEPT !.deferredSave = FALSE] EXCEPT !.finalizing = FALSE] EXCEPT !.filed = f] = c
        BY <3>1 DEF Apps
      <4> QED BY <1>4, <3>2, <4>1
    <3>6. saved = IF ~a.deferredSave THEN kept
                  ELSE IF o.export THEN Dismiss(c) ELSE SavesAndCloses(c, Plain)
      BY <3>3, <3>4 DEF RunsDeferredSave, saved
    <3>7. \/ saved = c /\ ~a.deferredSave
          \/ a.deferredSave /\ saved \in {Dismiss(c), SavesAndCloses(c, Plain)}
      BY <3>5, <3>6
    <3> QED BY <1>1, <1>2, <2>3, <3>7 DEF c
  <2> QED BY <2>2, <2>3
<1>3. CASE ~owned
  <2>1. kept = Post(settled, Job("release")) BY <1>3
  <2>2. c = [a EXCEPT !.finalizing = FALSE, !.deferredSave = FALSE, !.filed = a.filed,
                      !.retention = a.retention]
    BY <1>3 DEF Files
  <2> DEFINE p == Append(a.posted, Job("release"))
  <2>3. Post(settled, Job("release")) = [settled EXCEPT !.posted = p] BY DEF Post
  <2> HIDE DEF c, p
  <2>4. settled = c BY <1>3, <2>2 DEF Apps
  <2> HIDE DEF kept, saved
  <2>5. ~kept.deferredSave BY <1>3, <2>1, <2>3 DEF Apps
  <2>6. saved = kept BY <2>5 DEF RunsDeferredSave, saved
  <2>7. saved = Post(c, Job("release")) BY <2>1, <2>4, <2>6
  <2> QED BY <1>1, <1>3, <2>7 DEF c
<1> QED BY <1>2, <1>3

LEMMA FinalizedHandled ==
  ASSUME NEW js \in Seq(JobShape), NEW us, NEW os, NEW e,
         NEW a, Handled(a, js, us, os, e), NEW o \in OutcomeShape, o.what = "finalized",
         NEW b, b = Finalized(a, o)
  PROVE  Handled(b, js, us, os, e) /\ Follows(a, b) /\ Left(b)
<1> DEFINE c == Files(a, o)
           q == Queued(js, a)
<1>0. a \in Apps /\ Steady(a) /\ Waiting(a) /\ Agreed(a, q, us, os, e, "handling")
  BY DEF Handled, Steady
<1>1. c = Files(a, o) OBVIOUS
<1> HIDE DEF c, q
<1>2. /\ Steady(c) /\ Agreed(c, q, us, os, e, "handling") /\ Waiting(c) /\ ~c.finalizing
      /\ SameOutputs(a, c) /\ c.visible = a.visible /\ c.shown = a.shown
      /\ c.editor = a.editor /\ c.opening = a.opening /\ (c.editorOnly <=> a.editorOnly)
      /\ c.nextGen = a.nextGen /\ c.closed = a.closed /\ ~c.deferredSave
  BY <1>0, <1>1, FilesSteady
<1>3. c.posted = a.posted BY <1>0, <1>1 DEF Files, Apps
<1>4. Queued(js, c) = q BY <1>3 DEF Queued, q
<1>5. Handled(c, js, us, os, e) BY <1>2, <1>4 DEF Handled
<1>6. PICK saved :
        /\ \/ saved = Files(a, o)
              /\ (a.visible \/ a.opening \/ Active(a) \/ a.editorOnly)
           \/ a.deferredSave /\ saved \in {Dismiss(Files(a, o)), SavesAndCloses(Files(a, o), Plain)}
           \/ /\ ~(a.visible \/ a.opening \/ Active(a) \/ a.editorOnly)
              /\ saved = Post(Files(a, o), Job("release"))
        /\ b = IF Active(a) \/ a.opening THEN saved
               ELSE RunsDeferredOverflow(IF CardOutputPending(saved) THEN saved
                                         ELSE RunsDeferredClose(saved, Plain), Plain)
  BY <1>0, FinalizedSaves
<1>10. \/ saved = c /\ (a.visible \/ a.opening \/ Active(a) \/ a.editorOnly)
       \/ a.deferredSave /\ saved \in {Dismiss(c), SavesAndCloses(c, Plain)}
       \/ /\ ~(a.visible \/ a.opening \/ Active(a) \/ a.editorOnly)
          /\ saved = Post(c, Job("release"))
  BY <1>1, <1>6
<1>7. Handled(saved, js, us, os, e) /\ Moves(c, saved) /\ Left(saved)
  <2>1. CASE saved = c /\ (a.visible \/ a.opening \/ Active(a) \/ a.editorOnly)
    <3>1. c.visible \/ c.opening \/ Editing(c)
      BY <1>2, <2>1 DEF Steady, Adopted, Active, Editing
    <3> QED BY <1>5, <2>1, <3>1, Unchanged DEF Left, Owns
  <2>2. CASE a.deferredSave /\ saved = Dismiss(c)
    <3>1. c.visible BY <1>0, <1>2, <2>2 DEF Steady, Withdrawn
    <3>2. ~c.editorOnly BY <1>2, <3>1 DEF Steady, Adopted
    <3>3. c.visible => ~(c.inFlight \/ c.checkOverflow) \/ (~c.opening /\ ~Editing(c))
      BY <1>2 DEF Waiting
    <3>4. Agreed(c, Queued(js, c), us, os, e, "handling") BY <1>2, <1>4
    <3> QED BY <1>2, <2>2, <3>2, <3>3, <3>4, DismissHandled
  <2>3. CASE a.deferredSave /\ saved = SavesAndCloses(c, Plain)
    <3>1. c.visible BY <1>0, <1>2, <2>3 DEF Steady, Withdrawn
    <3>2. ~c.editorOnly BY <1>2, <3>1 DEF Steady, Adopted
    <3>3. /\ Steady(saved) /\ Agreed(saved, Queued(js, saved), us, os, e, "handling")
          /\ SameView(c, saved) /\ SameCard(c, saved) /\ SameWaits(c, saved)
      BY <1>2, <1>4, <2>3, <3>2, NoneIsApart, PlainFresh, SavesMoves
    <3>4. saved.visible BY <3>1, <3>3 DEF SameCard
    <3>5. Waiting(saved) BY <1>2, <3>3, <3>4 DEF Waiting, SameView, SameCard, SameWaits, Editing
    <3> QED BY <3>3, <3>4, <3>5 DEF Handled, Moves, SameCard, SameWaits, Left, Owns
  <2>4. CASE /\ ~(a.visible \/ a.opening \/ Active(a) \/ a.editorOnly)
             /\ saved = Post(c, Job("release"))
    <3>1. ~c.visible /\ ~c.opening /\ ~Editing(c)
      <4>1. a.editor.phase \in {"none", "asked", "open"} BY <1>0 DEF Apps
      <4> QED BY <1>0, <1>2, <2>4, <4>1 DEF Steady, Sessions, Active, Editing
    <3>2. /\ Steady(saved) /\ Agreed(saved, Queued(js, saved), us, os, e, "handling") /\ Left(saved)
          /\ SameView(c, saved) /\ SameCard(c, saved) /\ SameWaits(c, saved)
          /\ Waiting(saved) <=> Waiting(c)
      BY <1>2, <1>4, <2>4, <3>1, ReleasesPosts
    <3> QED BY <1>2, <3>2 DEF Handled, Moves, SameCard, SameWaits
  <2> QED BY <1>10, <2>1, <2>2, <2>3, <2>4
<1>8. CASE Active(a) \/ a.opening
  <2>1. b = saved BY <1>6, <1>8
  <2>2. Follows(a, b) BY <1>2, <1>7, <2>1 DEF Moves, Follows, SameView
  <2> QED BY <1>7, <2>1, <2>2
<1>9. CASE ~(Active(a) \/ a.opening)
  <2>1. saved.visible => ~saved.opening /\ ~Editing(saved)
    <3>1. a.editor.phase \in {"none", "asked", "open"} BY <1>0 DEF Apps
    <3>2. c.visible => ~c.opening /\ ~Editing(c)
      BY <1>2, <1>9, <3>1 DEF Steady, Sessions, Adopted, Active, Editing
    <3> QED BY <1>7, <3>2 DEF Moves, SameView, Editing
  <2>2. ~saved.visible /\ CardOutputPending(saved) => saved.inFlight \/ saved.deferredOverflow
    BY <1>7 DEF Handled, Waiting
  <2>3. Steady(saved) /\ Agreed(saved, Queued(js, saved), us, os, e, "handling") BY <1>7 DEF Handled
  <2>4. /\ Steady(b) /\ Agreed(b, Queued(js, b), us, os, e, "handling") /\ Moves(saved, b)
        /\ ~b.deferredOverflow
        /\ ~b.visible /\ CardOutputPending(b) => b.inFlight
        /\ Left(saved) \/ saved.deferredOverflow => Left(b)
    <3>1. CASE CardOutputPending(saved)
      <4>1. b = RunsDeferredOverflow(saved, Plain) BY <1>6, <1>9, <3>1
      <4> QED BY <2>1, <2>2, <2>3, <4>1, NoneIsApart, PlainFresh, DeferredOverflowMoves
    <3>2. CASE ~CardOutputPending(saved)
      <4>1. b = Settles(saved, Plain) BY <1>6, <1>9, <3>2 DEF Settles
      <4> QED BY <2>1, <2>2, <2>3, <4>1, NoneIsApart, PlainFresh, SettlesMoves
    <3> QED BY <3>1, <3>2
  <2>5. b.visible => ~b.opening /\ ~Editing(b) BY <2>1, <2>4 DEF Moves, SameView, Editing
  <2>6. ~b.opening /\ (Editing(b) => b.editorOnly)
    <3>1. ~b.opening /\ ~Active(b) /\ b.editor.phase \in {"none", "asked", "open"}
      <4>1. b.editor = a.editor /\ b.opening = a.opening
        BY <1>2, <1>7, <2>4 DEF Moves, SameView
      <4> QED BY <1>0, <1>9, <4>1 DEF Apps, Active
    <3> QED BY <2>4, <3>1 DEF Steady, Sessions, Active, Editing
  <2>7. Waiting(b) BY <2>4, <2>5, <2>6 DEF Waiting
  <2>8. Follows(a, b) BY <1>2, <1>7, <2>4 DEF Moves, Follows, SameView
  <2> QED BY <1>7, <2>4, <2>7, <2>8 DEF Handled
<1> QED BY <1>8, <1>9

-----------------------------------------------------------------------------
(* The commit of an edit                                                   *)

\* how the close of an editor stands once one more answer is in
Remains(m) == IF Failed(m) \/ Filed(m) THEN None ELSE m

Verdict(m) == IF Failed(m) THEN "failed" ELSE IF Filed(m) THEN "committed" ELSE None

LEMMA RemainsShape ==
  ASSUME NEW m \in Closes
  PROVE  /\ Remains(m) \in Closes \union {None} /\ Verdict(m) \in {None, "committed", "failed"}
         /\ Remains(m) # None => Remains(m) = m /\ Verdict(m) = None
  BY NoneIsApart DEF Remains, Verdict

LEMMA ResolveCloseIs ==
  ASSUME NEW a \in Apps, NEW m \in Closes, a.closed = None, NEW b, b = ResolveClose([a EXCEPT !.close = m])
  PROVE  b = [a EXCEPT !.close = Remains(m), !.closed = Verdict(m)]
<1>1. [a EXCEPT !.close = m].close = m BY DEF Apps
<1>2. CASE Failed(m) BY <1>1, <1>2 DEF ResolveClose, Remains, Verdict, Apps
<1>3. CASE ~Failed(m) /\ Filed(m) BY <1>1, <1>3 DEF ResolveClose, Remains, Verdict, Apps
<1>4. CASE ~Failed(m) /\ ~Filed(m)
  <2>1. b = [a EXCEPT !.close = m] BY <1>1, <1>4 DEF ResolveClose
  <2>2. Remains(m) = m /\ Verdict(m) = None BY <1>4 DEF Remains, Verdict
  <2>3. a = [a EXCEPT !.closed = None] BY DEF Apps
  <2>4. [[a EXCEPT !.closed = None] EXCEPT !.close = m] = [a EXCEPT !.close = m, !.closed = None]
    BY DEF Apps
  <2> QED BY <2>1, <2>2, <2>3, <2>4
<1> QED BY <1>2, <1>3, <1>4

\* what an answer makes of the close of an editor
AnswersClose(a, b, q, os, e) ==
  /\ b = [a EXCEPT !.close = b.close, !.closed = b.closed]
  /\ b.close \in Closes \union {None} /\ b.closed \in {None, "committed", "failed"}
  /\ b.close # None => b.close.version = a.close.version /\ b.closed = None
  /\ a.visible => \/ b.close # None /\ ~b.close.only /\ b.close.commit = "waits"
                  \/ /\ b.close = None /\ Commits(q) \union CommitAnswers(os) = {}
                     /\ b.closed # "committed" => e[a.editor.version.gen] = Open

LEMMA CloseAnswered ==
  ASSUME NEW q, NEW us, NEW os, NEW e,
         NEW a, Steady(a), Waiting(a), Agreed(a, q, us, os, e, "handling"), a.close # None,
         NEW b, AnswersClose(a, b, q, os, e)
  PROVE  Steady(b) /\ Waiting(b) /\ Agreed(b, q, us, os, e, "handling")
<1> DEFINE c == b.close
           k == b.closed
<1>15. b = [a EXCEPT !.close = c, !.closed = k] /\ b.close = c /\ b.closed = k BY DEF AnswersClose
<1>16. /\ c \in Closes \union {None} /\ k \in {None, "committed", "failed"}
       /\ c # None => c.version = a.close.version /\ k = None
       /\ a.visible => \/ c # None /\ ~c.only /\ c.commit = "waits"
                       \/ /\ c = None /\ Commits(q) \union CommitAnswers(os) = {}
                          /\ k # "committed" => e[a.editor.version.gen] = Open
  BY DEF AnswersClose
<1> HIDE DEF c, k
<1>0. a \in Apps /\ Active(a) /\ a.close.version = a.editor.version BY DEF Steady, Freezing
<1>1. b \in Apps BY <1>0, <1>15, <1>16, ZenonT(60) DEF Apps
<1>2. /\ b.close = c /\ b.closed = k
      /\ SameCard(a, b) /\ SameOutputs(a, b) /\ SameWaits(a, b) /\ b.posted = a.posted
      /\ b.editor = a.editor /\ b.opening = a.opening
      /\ b.nextGen = a.nextGen /\ b.dialog = a.dialog /\ b.finalizing = a.finalizing
  BY <1>0, <1>15 DEF Apps, SameCard, SameOutputs, SameWaits
<1>3. Counted(b) BY <1>2 DEF Steady, Counted, SameOutputs, SameWaits, Ids
<1>4. Withdrawn(b) /\ Displayed(b) /\ Filing(b)
  BY <1>2 DEF Steady, Withdrawn, Displayed, Filing, SameCard, SameOutputs, SameWaits
<1>5. Sessions(b) /\ Adopted(b)
  BY <1>2 DEF Steady, Sessions, Adopted, Editing, Active, CardOutputPending, SameCard, SameOutputs, SameWaits
<1>6. Freezing(b)
  <2>1. Active(b) BY <1>0, <1>2 DEF Active
  <2>2. c # None => c.version = b.editor.version /\ k = None BY <1>0, <1>2, <1>16
  <2>3. c # None /\ b.visible => ~c.only /\ c.commit = "waits" BY <1>2, <1>16 DEF SameCard
  <2> QED BY <1>2, <2>1, <2>2, <2>3 DEF Freezing
<1>7. \A m : ToldOf(b, e, m) <=> ToldOf(a, e, m)
  BY <1>2 DEF ToldOf, Numbered, Judges, SameOutputs, SameCard, SameWaits, Ids
<1>8. Messages(b, q, us, os, e)
  BY <1>2, <1>7 DEF Agreed, Messages, Judges, SameOutputs, SameCard, Ids
<1>9. Uploads(b, q, us, os) BY <1>2, Zenon DEF Agreed, Uploads, Uploading, Exporting, SameOutputs
<1>10. Opening(b, q, os) /\ Releasable(b, q)
  BY <1>2 DEF Agreed, Opening, Releasable, SameCard, Editing
<1>11. Checking(b, q, os, "handling")
  BY <1>2 DEF Agreed, Checking, SameCard, SameWaits, Editing
<1>12. Committing(b, q, os)
  <2>1. CASE ~a.visible BY <1>2, <2>1 DEF Committing, SameCard
  <2>2. CASE c # None BY <1>2, <1>16, <2>2 DEF Agreed, Committing, SameCard
  <2>3. CASE Commits(q) \union CommitAnswers(os) = {}
    <3>1. Commits(q) = {} /\ CommitAnswers(os) = {} BY <2>3
    <3> QED BY <3>1 DEF Committing, OneOf, AtMostOne
  <2> QED BY <1>16, <2>1, <2>2, <2>3
<1>13. Ended(b, e, "handling")
  <2>1. a.visible /\ c = None /\ k # "committed" => e[a.editor.version.gen] = Open
    BY <1>16
  <2> QED BY <1>2, <2>1 DEF Agreed, Ended, Editing, SameCard
<1>14. Waiting(b)
  BY <1>2 DEF Waiting, SameCard, SameOutputs, SameWaits, Editing, Active, CardOutputPending
<1> QED BY <1>1, <1>3, <1>4, <1>5, <1>6, <1>8, <1>9, <1>10, <1>11, <1>12, <1>13, <1>14
        DEF Steady, Agreed

\* one more answer for the close of an editor
Suffices(a, m, q, os, e) ==
  /\ m \in Closes /\ m.version = a.close.version
  /\ a.visible => /\ ~m.only
                  /\ \/ m.commit = "waits"
                     \/ /\ Commits(q) \union CommitAnswers(os) = {}
                        /\ m.commit = "failed" => e[a.editor.version.gen] = Open

\* a card's editor is to close once its pixels hold the edit
Confirms(a, m, b) ==
  /\ b.editor = a.editor
  /\ a.visible /\ m.commit = "ok" => b.closed = "committed"

LEMMA ClosesHandled ==
  ASSUME NEW js \in Seq(JobShape), NEW us, NEW os, NEW e,
         NEW a, Handled(a, js, us, os, e), a.close # None,
         NEW m, Suffices(a, m, Queued(js, a), os, e),
         NEW b, b = ResolveClose([a EXCEPT !.close = m])
  PROVE  /\ Handled(b, js, us, os, e) /\ Follows(a, b) /\ Left(b)
         /\ SameCard(a, b) /\ SameOutputs(a, b) /\ SameWaits(a, b)
         /\ Confirms(a, m, b)
<1> DEFINE c == Remains(m)
           k == Verdict(m)
           q == Queued(js, a)
<1> USE DEF Suffices
<1>0. /\ a \in Apps /\ Steady(a) /\ Waiting(a) /\ Agreed(a, q, us, os, e, "handling")
      /\ Active(a) /\ a.closed = None
  BY DEF Handled, Steady, Freezing
<1>1. /\ c \in Closes \union {None} /\ k \in {None, "committed", "failed"}
      /\ c # None => c = m /\ k = None
  BY RemainsShape
<1>2. b = [a EXCEPT !.close = c, !.closed = k] BY <1>0, ResolveCloseIs, Zenon
<1>3. ~m.only /\ m.commit = "waits" => c = m BY DEF Remains, Failed, Filed
<1>4. ~m.only /\ m.commit = "failed" => c = None /\ k = "failed" BY DEF Remains, Verdict, Failed
<1>5. ~m.only /\ m.commit = "ok" => c = None /\ k = "committed" BY DEF Remains, Verdict, Failed, Filed
<1>6. m.commit \in {"waits", "ok", "failed"} BY DEF Closes, Answered
<1>7. m # None BY NoneIsApart
<1>8. a.visible => Commits(q) \union CommitAnswers(os) = {} \/ m.commit = "waits" OBVIOUS
<1> HIDE DEF c, k, q
<1>9. a.visible => \/ c # None /\ ~c.only /\ c.commit = "waits"
                   \/ /\ c = None /\ Commits(q) \union CommitAnswers(os) = {}
                      /\ k # "committed" => e[a.editor.version.gen] = Open
  BY <1>3, <1>4, <1>5, <1>6, <1>7, <1>8
<1>10. c # None => c.version = a.close.version /\ k = None BY <1>1
<1>11. Steady(b) /\ Waiting(b) /\ Agreed(b, q, us, os, e, "handling")
  <2>1. b.close = c /\ b.closed = k BY <1>0, <1>2 DEF Apps
  <2>2. b = [a EXCEPT !.close = b.close, !.closed = b.closed] BY <1>2, <2>1
  <2>3. b.close \in Closes \union {None} /\ b.closed \in {None, "committed", "failed"} BY <1>1, <2>1
  <2>4. b.close # None => b.close.version = a.close.version /\ b.closed = None BY <1>10, <2>1
  <2>5. a.visible => \/ b.close # None /\ ~b.close.only /\ b.close.commit = "waits"
                     \/ /\ b.close = None /\ Commits(q) \union CommitAnswers(os) = {}
                        /\ b.closed # "committed" => e[a.editor.version.gen] = Open
    BY <1>9, <2>1
  <2>6. a.close # None OBVIOUS
  <2>7. AnswersClose(a, b, q, os, e) BY <2>2, <2>3, <2>4, <2>5 DEF AnswersClose
  <2> QED BY <1>0, <2>6, <2>7, CloseAnswered
<1>12. /\ b.closed = k /\ SameCard(a, b) /\ SameOutputs(a, b) /\ SameWaits(a, b) /\ b.posted = a.posted
       /\ b.editor = a.editor /\ b.nextGen = a.nextGen
  BY <1>0, <1>2, ZenonT(60) DEF Apps, SameCard, SameOutputs, SameWaits
<1>13. Queued(js, b) = q BY <1>12 DEF Queued, q
<1>14. Follows(a, b) BY <1>0, <1>12, NoneIsApart DEF Follows, SameCard
<1>15. Left(b) BY <1>0, <1>12 DEF Left, Owns, Active, Editing
<1> QED BY <1>5, <1>11, <1>12, <1>13, <1>14, <1>15 DEF Handled, Confirms

\* the answer is of the commit that the editor waits for
Expected(a, q, os, o) ==
  a.visible => a.close # None /\ a.close.version = o.version /\ Commits(q) \union CommitAnswers(os) = {}

Confirmed(a, b) == a.visible => b.closed = "committed"

LEMMA CommitDoneHandled ==
  ASSUME NEW js \in Seq(JobShape), NEW us, NEW os, NEW e,
         NEW a, Handled(a, js, us, os, e), NEW o \in OutcomeShape, o.version \in EditVersions,
         Expected(a, Queued(js, a), os, o),
         NEW b, b = CommitDone(a, o)
  PROVE  Handled(b, js, us, os, e) /\ Follows(a, b) /\ (Left(a) => Left(b))
         /\ Confirmed(a, b)
<1>0. a \in Apps /\ Steady(a) BY DEF Handled, Steady
<1>1. CASE ~Closing(a, o)
  <2>1. b = a BY <1>1 DEF CommitDone
  <2>2. ~a.visible BY <1>1 DEF Closing, Expected
  <2> QED BY <2>1, <2>2 DEF Follows, Confirmed
<1>2. CASE Closing(a, o)
  <2> DEFINE m == [a.close EXCEPT !.commit = "ok", !.unsaved = FALSE]
             acked == [a EXCEPT !.close = m]
             f == ResolveClose(acked)
             j == [Job("persist") EXCEPT !.version = o.version]
  <2>1. a.close # None /\ a.close.version = o.version BY <1>2 DEF Closing
  <2>2. a.close \in Closes /\ a.close.version = a.editor.version /\ Active(a)
        /\ (a.visible => ~a.close.only)
    BY <1>0, <2>1 DEF Steady, Apps, Freezing
  <2>3. m \in Closes /\ m.version = a.close.version /\ m.commit = "ok" /\ (a.visible => ~m.only)
    BY <2>2 DEF Closes, Answered
  <2>4. b = ResolveClose(IF a.close.unsaved THEN Post(acked, j) ELSE acked)
    <3>1. acked = [a EXCEPT !.close.commit = "ok", !.close.unsaved = FALSE] BY <1>0 DEF Apps
    <3> HIDE DEF acked
    <3> QED BY <1>2, <3>1 DEF CommitDone
  <2>5. f = ResolveClose([a EXCEPT !.close = m]) OBVIOUS
  <2>6. j \in JobShape /\ j.do = "persist" /\ j.action = 0 /\ j.version = o.version
    BY NoneIsApart DEF Job, JobShape, Doings
  <2> HIDE DEF m
  <2>7. acked \in Apps /\ acked.close = m BY <1>0, <2>3 DEF Apps
  <2> HIDE DEF acked
  <2>8. f = ResolveClose(acked) OBVIOUS
  <2> HIDE DEF f, j
  <2>9. /\ Handled(f, js, us, os, e) /\ Follows(a, f) /\ Left(f)
        /\ SameCard(a, f) /\ SameOutputs(a, f) /\ SameWaits(a, f)
        /\ Confirms(a, m, f)
    <3>1. Suffices(a, m, Queued(js, a), os, e) BY <2>3 DEF Suffices, Expected
    <3> QED BY <2>1, <2>5, <3>1, ClosesHandled
  <2>12. f.editor = a.editor /\ (a.visible => f.closed = "committed") BY <2>3, <2>9 DEF Confirms
  <2>10. CASE ~a.close.unsaved
    <3>1. b = f BY <2>4, <2>8, <2>10
    <3> QED BY <2>9, <2>12, <3>1 DEF Confirmed
  <2>11. CASE a.close.unsaved
    <3>1. b = Post(f, j)
      <4>1. b = ResolveClose(Post(acked, j)) BY <2>4, <2>11
      <4>2. Post(acked, j).close = m BY <2>7 DEF Post, Apps
      <4>3. Post([acked EXCEPT !.close = None, !.closed = "failed"], j)
              = [Post(acked, j) EXCEPT !.close = None, !.closed = "failed"]
        BY <2>7 DEF Post, Apps
      <4>4. Post([acked EXCEPT !.close = None, !.closed = "committed"], j)
              = [Post(acked, j) EXCEPT !.close = None, !.closed = "committed"]
        BY <2>7 DEF Post, Apps
      <4> QED BY <2>7, <2>8, <4>1, <4>2, <4>3, <4>4 DEF ResolveClose
    <3>2. Steady(f) /\ Agreed(f, Queued(js, f), us, os, e, "handling") /\ Waiting(f)
      BY <2>9 DEF Handled
    <3>3. Numbered(f, j) BY <2>6, <3>2, ZeroNumbered
    <3>4. Fresh(f, e, j.version)
      <4>1. f.editor.version = o.version /\ Editing(f) BY <2>1, <2>2, <2>12 DEF Active, Editing
      <4>2. f.visible => e[o.version.gen] \in {Open, Committed(o.version.rev)}
        BY <3>2, <4>1 DEF Agreed, Ended
      <4>3. f.nextGen \in Nat /\ o.version.gen \in 1..(f.nextGen - 1)
        BY <3>2, <4>1 DEF Steady, Sessions, Apps
      <4>4. o.version.gen < f.nextGen BY <4>3
      <4> QED BY <2>6, <4>2, <4>4 DEF Fresh
    <3>5. Admits(f, Queued(js, f), os, e, "handling", j) BY <2>6, <3>3, <3>4 DEF Admits, Fresh, Judges
    <3>6. Steady(b) /\ Agreed(b, Queued(js, b), us, os, e, "handling")
      BY <3>1, <3>2, <3>5, Posting
    <3>7. /\ SameView(f, b) /\ SameCard(f, b)
          /\ Waiting(b) <=> Waiting(f)
          /\ Left(f) => Left(b)
      BY <2>6, <3>1, <3>2, PostKeeps
    <3>8. Follows(a, b) BY <2>9, <3>7 DEF Follows, SameView, SameCard, Editing
    <3> QED BY <2>9, <2>12, <3>2, <3>6, <3>7, <3>8 DEF Handled, SameView, Confirmed
  <2> QED BY <2>10, <2>11
<1> QED BY <1>1, <1>2

LEMMA PersistedHandled ==
  ASSUME NEW js \in Seq(JobShape), NEW us, NEW os, NEW e,
         NEW a, Handled(a, js, us, os, e), NEW o \in OutcomeShape,
         NEW b, b = Persisted(a, o)
  PROVE  Handled(b, js, us, os, e) /\ Follows(a, b) /\ (Left(a) => Left(b))
<1>0. a \in Apps /\ Steady(a) BY DEF Handled, Steady
<1>1. CASE ~Closing(a, o)
  <2>1. b = a BY <1>1 DEF Persisted
  <2> QED BY <2>1 DEF Follows
<1>2. CASE Closing(a, o)
  <2> DEFINE w == IF o.ok THEN "ok" ELSE "failed"
             m == [a.close EXCEPT !.persist = w]
  <2>1. a.close # None BY <1>2 DEF Closing
  <2>2. a.close \in Closes /\ (a.visible => ~a.close.only /\ a.close.commit = "waits")
    BY <1>0, <2>1 DEF Steady, Apps, Freezing
  <2>3. w \in Answered BY DEF Answered
  <2>4. b = ResolveClose([a EXCEPT !.close = m])
    <3>1. [a EXCEPT !.close = m] = [a EXCEPT !.close.persist = w] BY <1>0 DEF Apps
    <3> QED BY <1>2, <3>1 DEF Persisted
  <2> HIDE DEF w
  <2>5. m \in Closes /\ m.version = a.close.version /\ (a.visible => ~m.only /\ m.commit = "waits")
    BY <2>2, <2>3 DEF Closes
  <2> HIDE DEF m
  <2>6. Suffices(a, m, Queued(js, a), os, e) BY <2>5 DEF Suffices
  <2> QED BY <2>1, <2>4, <2>6, ClosesHandled
<1> QED BY <1>1, <1>2

\* a commit that failed: its session is open again
Undone(a, v) ==
  IF a.fates[v.gen] = Committed(v.rev) THEN [a EXCEPT !.fates[v.gen] = Open] ELSE a

Undoes(a, b, e, f, v) ==
  /\ v \in EditVersions /\ b = Undone(a, v)
  /\ f = [e EXCEPT ![v.gen] = Open]

LEMMA UndoneHandled ==
  ASSUME NEW js \in Seq(JobShape), NEW us, NEW os, NEW e,
         NEW a, Handled(a, js, us, os, e), NEW v, NEW b, NEW f, Undoes(a, b, e, f, v)
  PROVE  Handled(b, js, us, os, f) /\ SameRest(a, b) /\ SameCard(a, b)
<1> DEFINE q == Queued(js, a)
           F == IF a.fates[v.gen] = Committed(v.rev) THEN [a.fates EXCEPT ![v.gen] = Open] ELSE a.fates
<1>0. a \in Apps /\ Steady(a) /\ Waiting(a) /\ Agreed(a, q, us, os, e, "handling") /\ e \in [Gens -> Ends]
  BY DEF Handled, Steady, Agreed, Ended
<1>20. v \in EditVersions /\ b = Undone(a, v) /\ f = [e EXCEPT ![v.gen] = Open] BY DEF Undoes
<1>1. v.gen \in Gens /\ Open \in Ends BY <1>20, NoneIsApart DEF Ends
<1>2. F \in [Gens -> Ends] /\ (\A g \in Gens : g # v.gen => F[g] = a.fates[g])
  BY <1>0, <1>1 DEF Apps
<1>3. b = [a EXCEPT !.fates = F]
  <2>1. CASE a.fates[v.gen] = Committed(v.rev) BY <1>0, <1>20, <2>1 DEF Undone, Apps
  <2>2. CASE a.fates[v.gen] # Committed(v.rev)
    <3>1. b = a /\ F = a.fates BY <1>20, <2>2 DEF Undone
    <3>2. a = [a EXCEPT !.fates = a.fates] BY <1>0 DEF Apps
    <3> QED BY <3>1, <3>2
  <2> QED BY <2>1, <2>2
<1> HIDE DEF F, q
<1>4. b \in Apps BY <1>0, <1>2, <1>3 DEF Apps
<1>5. /\ SameView(a, b) /\ SameCard(a, b) /\ SameWaits(a, b) /\ b.posted = a.posted
      /\ b.outstanding = a.outstanding /\ b.current = a.current /\ b.nextAction = a.nextAction
      /\ b.fates = F
  BY <1>0, <1>3 DEF Apps, SameView, SameCard, SameWaits
<1>6. /\ f \in [Gens -> Ends] /\ f[v.gen] = Open
      /\ \A g \in Gens : g # v.gen => f[g] = e[g]
  BY <1>0, <1>1, <1>20
<1>7. Counted(b) BY <1>0, <1>5 DEF Steady, Counted, SameView, SameWaits, Ids
<1>8. Withdrawn(b) /\ Displayed(b) /\ Filing(b)
  BY <1>0, <1>5 DEF Steady, Withdrawn, Displayed, Filing, SameCard, SameView, SameWaits
<1>9. Sessions(b) /\ Adopted(b) /\ Freezing(b)
  BY <1>0, <1>5 DEF Steady, Sessions, Adopted, Freezing, Editing, Active, CardOutputPending, SameCard,
                    SameView, SameWaits
<1>10. ASSUME NEW id, NEW w \in Versions, Judges(a, e, id, w) PROVE Judges(b, f, id, w)
  <2> SUFFICES ASSUME b.visible, id \in Ids(b), w # Plain
               PROVE  /\ w.gen < b.nextGen
                      /\ \/ f[w.gen] \in {Open, Committed(w.rev)}
                         \/ b.fates[w.gen] = f[w.gen]
    BY DEF Judges
  <2>1. w.gen \in Gens BY NoneIsApart
  <2>2. /\ w.gen < a.nextGen
        /\ \/ e[w.gen] \in {Open, Committed(w.rev)}
           \/ a.fates[w.gen] = e[w.gen]
    BY <1>5, <1>10 DEF Judges, SameCard, Ids
  <2> QED BY <1>2, <1>5, <1>6, <2>1, <2>2 DEF SameView
<1>11. Messages(b, q, us, os, f)
  <2>1. q \in Seq(JobShape) /\ us \in Seq(JobShape) /\ os \in Seq(OutcomeShape)
    BY <1>0 DEF Agreed, Messages
  <2>2. \A m : Numbered(b, m) <=> Numbered(a, m) BY <1>5 DEF Numbered, SameView, SameWaits
  <2>3. ASSUME NEW i \in DOMAIN q PROVE ToldOf(b, f, q[i])
    <3>1. q[i].version \in Versions BY <2>1 DEF JobShape
    <3> QED BY <1>0, <1>10, <2>2, <3>1 DEF Agreed, Messages, ToldOf
  <2>4. ASSUME NEW i \in DOMAIN us PROVE ToldOf(b, f, us[i])
    <3>1. us[i].version \in Versions BY <2>1 DEF JobShape
    <3> QED BY <1>0, <1>10, <2>2, <3>1 DEF Agreed, Messages, ToldOf
  <2>5. ASSUME NEW i \in DOMAIN os PROVE ToldOf(b, f, os[i])
    <3>0. os[i] \in OutcomeShape BY <2>1
    <3>1. os[i].version \in Versions BY <3>0, Zenon DEF OutcomeShape
    <3> QED BY <1>0, <1>10, <2>2, <3>1 DEF Agreed, Messages, ToldOf
  <2>6. ASSUME b.dialog # None PROVE Judges(b, f, b.dialog.id, b.dialog.version)
    <3>1. b.dialog = a.dialog /\ a.dialog.version \in Versions
      BY <1>0, <1>5, <2>6 DEF Apps, Dialogs, SameView
    <3> QED BY <1>0, <1>10, <2>6, <3>1 DEF Agreed, Messages
  <2> QED BY <2>1, <2>3, <2>4, <2>5, <2>6 DEF Messages
<1>12. Uploads(b, q, us, os) BY <1>0, <1>5, Zenon DEF Agreed, Uploads, Uploading, Exporting
<1>13. Opening(b, q, os) /\ Releasable(b, q)
  BY <1>0, <1>5 DEF Agreed, Opening, Releasable, SameCard, SameView, Editing
<1>14. Checking(b, q, os, "handling") /\ Committing(b, q, os)
  BY <1>0, <1>5 DEF Agreed, Checking, Committing, SameCard, SameView, SameWaits, Editing
<1>15. Ended(b, f, "handling")
  <2>1. \A g \in Gens : g >= b.nextGen => f[g] = Open
    BY <1>0, <1>1, <1>5, <1>6 DEF Agreed, Ended, SameView
  <2>2. b.visible /\ Editing(b) => b.editor.version.gen \in Gens
    <3>1. a.editor.version \in Versions BY <1>0 DEF Apps
    <3>2. a.nextGen \in 1..(MaxGen + 1) BY <1>0 DEF Steady, Sessions
    <3> QED BY <1>0, <1>5, <3>2, CardAssumption DEF Steady, Sessions, SameView, Editing, Gens
  <2> QED BY <1>0, <1>1, <1>5, <1>6, <2>1, <2>2 DEF Agreed, Ended, SameCard, SameView, Editing
<1>16. Waiting(b)
  BY <1>0, <1>5 DEF Waiting, SameCard, SameView, SameWaits, Editing, Active, CardOutputPending
<1>17. Queued(js, b) = q BY <1>5 DEF Queued, q
<1> QED BY <1>4, <1>5, <1>6, <1>7, <1>8, <1>9, <1>11, <1>12, <1>13, <1>14, <1>15, <1>16, <1>17
        DEF Handled, Steady, Agreed, SameRest, SameCard

LEMMA CommitFailedHandled ==
  ASSUME NEW js \in Seq(JobShape), NEW us, NEW os, NEW e,
         NEW a, Handled(a, js, us, os, e), NEW o \in OutcomeShape, o.version \in EditVersions,
         Expected(a, Queued(js, a), os, o),
         NEW b, b = CommitFailed(a, o), NEW f, f = [e EXCEPT ![o.version.gen] = Open]
  PROVE  Handled(b, js, us, os, f) /\ Follows(a, b) /\ (Left(a) => Left(b))
<1> DEFINE c == Undone(a, o.version)
           m == [a.close EXCEPT !.commit = "failed"]
           v == o.version
<1>0. a \in Apps /\ Steady(a) BY DEF Handled, Steady
<1>6. Undoes(a, c, e, f, v) BY DEF Undoes
<1> HIDE DEF c, v
<1>1. Handled(c, js, us, os, f) /\ SameRest(a, c) /\ SameCard(a, c) BY <1>6, UndoneHandled
<1>7. f[o.version.gen] = Open
  <2>1. e \in [Gens -> Ends] BY DEF Handled, Agreed, Ended
  <2> QED BY <2>1, NoneIsApart
<1>2. b = IF Closing(a, o) THEN ResolveClose([c EXCEPT !.close.commit = "failed"]) ELSE c
  BY DEF CommitFailed, Undone, c
<1>3. c \in Apps BY <1>1 DEF Handled, Steady
<1>4. CASE ~Closing(a, o)
  <2>1. b = c /\ ~a.visible BY <1>2, <1>4 DEF Closing, Expected
  <2>2. Follows(a, c) BY <1>1 DEF Follows, SameRest, SameView, SameCard
  <2>3. Left(a) => Left(c)
    <3>1. CardOutputPending(a) => CardOutputPending(c)
      <4>1. c.outstanding = a.outstanding
        <5>1. Undone(a, o.version).outstanding = a.outstanding BY <1>0 DEF Undone, Apps
        <5> QED BY <5>1 DEF c
      <4> QED BY <4>1 DEF CardOutputPending
    <3> QED BY <1>1, <3>1 DEF Left, Owns, SameRest, SameView, SameCard, Editing
  <2> QED BY <1>1, <2>1, <2>2, <2>3
<1>5. CASE Closing(a, o)
  <2>1. a.close # None /\ a.close.version = o.version BY <1>5 DEF Closing
  <2>2. a.close \in Closes /\ a.close.version = a.editor.version /\ (a.visible => ~a.close.only)
    BY <1>0, <2>1 DEF Steady, Apps, Freezing
  <2>3. m \in Closes /\ m.version = a.close.version /\ m.commit = "failed" /\ (a.visible => ~m.only)
    BY <2>2 DEF Closes, Answered
  <2>4. [c EXCEPT !.close.commit = "failed"] = [c EXCEPT !.close = m]
    BY <1>1, <1>3 DEF Apps, SameRest, SameView
  <2> HIDE DEF m
  <2>5. b = ResolveClose([c EXCEPT !.close = m]) BY <1>2, <1>5, <2>4
  <2>6. c.visible => /\ ~m.only
                     /\ Commits(Queued(js, c)) \union CommitAnswers(os) = {}
                     /\ m.commit = "failed" => f[c.editor.version.gen] = Open
    BY <1>1, <1>7, <2>1, <2>2, <2>3 DEF SameCard, SameRest, SameView, Queued, Expected
  <2>7. c.close # None /\ m.version = c.close.version BY <1>1, <2>1, <2>3 DEF SameRest, SameView
  <2>8. Handled(b, js, us, os, f) /\ Follows(c, b) /\ Left(b)
    <3>1. Suffices(c, m, Queued(js, c), os, f) BY <2>3, <2>6, <2>7 DEF Suffices
    <3> QED BY <1>1, <2>5, <2>7, <3>1, ClosesHandled
  <2>9. Follows(a, b) BY <1>1, <2>8 DEF Follows, SameRest, SameView, SameCard
  <2> QED BY <2>8, <2>9
<1> QED BY <1>4, <1>5

-----------------------------------------------------------------------------
(* What the user does to the card                                          *)

\* what happens to a card leaves it, or what is left of it, to somebody
Asked(a, b, js, us, os, e) ==
  Handled(b, js, us, os, e) /\ Follows(a, b) /\ (Left(a) => Left(b))

LEMMA SameFollows ==
  ASSUME NEW a, NEW b, SameView(a, b), SameCard(a, b) PROVE Follows(a, b)
  BY DEF Follows, SameView, SameCard

\* the image of an output is of the edit the card shows
LEMMA EditedFresh ==
  ASSUME NEW q, NEW us, NEW os, NEW e, NEW a, Steady(a), Agreed(a, q, us, os, e, "handling")
  PROVE  Edited(a) \in Versions /\ Fresh(a, e, Edited(a))
<1>1. a \in Apps BY DEF Steady
<1>2. CASE a.editor.phase = "open"
  <2>1. Edited(a) = a.editor.version /\ Editing(a) BY <1>2 DEF Edited, Editing
  <2>2. Edited(a) \in Versions BY <1>1, <2>1 DEF Apps
  <2>3. a.editor.version.gen < a.nextGen
    <3>1. a.nextGen \in Nat /\ a.editor.version.gen \in 1..(a.nextGen - 1)
      BY <2>1, <1>1 DEF Steady, Sessions, Apps
    <3> QED BY <3>1
  <2>4. a.visible => e[a.editor.version.gen] \in {Open, Committed(a.editor.version.rev)}
    BY <2>1 DEF Agreed, Ended
  <2> QED BY <2>1, <2>2, <2>3, <2>4 DEF Fresh
<1>3. CASE a.editor.phase # "open"
  BY <1>3, NoneIsApart, PlainFresh DEF Edited
<1> QED BY <1>2, <1>3

\* an output whose waiting nobody minds: the card is there
LEMMA DispatchHandled ==
  ASSUME NEW js \in Seq(JobShape), NEW us, NEW os, NEW e,
         NEW a, Handled(a, js, us, os, e), NEW way \in Ways, Suits(a, way),
         way.kind = "card" => a.visible,
         NEW job \in JobShape, job.do \in {"output", "upload"}, Fresh(a, e, job.version),
         job.do = "upload" <=> way.kind = "upload",
         NEW b, b = Dispatch(a, way.kind, way.close, job)
  PROVE  Asked(a, b, js, us, os, e)
<1>1. Steady(a) /\ Waiting(a) /\ Agreed(a, Queued(js, a), us, os, e, "handling") BY DEF Handled
<1>2. /\ Steady(b) /\ Agreed(b, Queued(js, b), us, os, e, "handling")
      /\ SameView(a, b) /\ SameCard(a, b) /\ SameWaits(a, b)
      /\ CardOutputPending(b) <=> (CardOutputPending(a) \/ way.kind = "card")
  BY <1>1, DispatchMoves
<1>3. Waiting(b) BY <1>1, <1>2 DEF Waiting, SameView, SameCard, SameWaits, Editing, Active
<1>4. Follows(a, b) BY <1>2, SameFollows
<1>5. Left(a) => Left(b)
  <2>1. Owns(a) => Owns(b) BY <1>2 DEF Owns, SameView, SameCard, Editing
  <2>2. (\E i \in DOMAIN a.posted : a.posted[i].do = "release")
          => \E i \in DOMAIN b.posted : b.posted[i].do = "release"
    <3>1. b = Post(Book(a, way.kind, way.close), [job EXCEPT !.action = a.nextAction])
      BY <1>1, DispatchBooks DEF Steady
    <3> DEFINE c == Book(a, way.kind, way.close)
               j == [job EXCEPT !.action = a.nextAction]
    <3>2. Steady(c) /\ c.posted = a.posted BY <1>1, BookSteady
    <3>3. j \in JobShape
      <4>1. a.nextAction \in Nat BY <1>1 DEF Steady, Apps
      <4> QED BY <4>1 DEF JobShape
    <3> HIDE DEF c, j
    <3>4. b.posted = Append(c.posted, j) /\ c.posted \in Seq(JobShape)
      <4>1. c \in Apps /\ b = Post(c, j) BY <3>1, <3>2 DEF Steady, c, j
      <4>2. b.posted = Append(c.posted, j) BY <3>3, <4>1, PostIs
      <4> QED BY <4>1, <4>2 DEF Apps
    <3> QED BY <3>2, <3>3, <3>4, Appended
  <2> QED BY <2>1, <2>2 DEF Left
<1> QED BY <1>1, <1>2, <1>3, <1>4, <1>5 DEF Handled, Asked

LEMMA CardOutputHandled ==
  ASSUME NEW js \in Seq(JobShape), NEW us, NEW os, NEW e,
         NEW a, Handled(a, js, us, os, e), a.visible,
         NEW export \in BOOLEAN, NEW version \in Versions, Fresh(a, e, version),
         NEW b, b = Dispatch(a, "card", TRUE, Output(export, version))
  PROVE  Asked(a, b, js, us, os, e)
<1> DEFINE way == [kind |-> "card", close |-> TRUE]
           job == Output(export, version)
<1>1. way \in Ways /\ way.kind = "card" /\ way.close BY DEF Ways
<1>2. Suits(a, way) BY <1>1 DEF Suits, Handled, Steady, Adopted
<1>3. job \in JobShape /\ job.do = "output" /\ job.version = version BY OutputShape
<1>4. b = Dispatch(a, way.kind, way.close, job) OBVIOUS
<1> HIDE DEF way, job
<1> QED BY <1>1, <1>2, <1>3, <1>4, DispatchHandled

\* a card that is in view keeps its pixels to itself
LEMMA ShownIs ==
  ASSUME NEW a, Steady(a), a.shown
  PROVE  /\ a.visible /\ ~a.editorOnly /\ ~a.inFlight /\ ~a.checkOverflow /\ ~a.deferredOverflow
         /\ a.recovery = 0
  BY DEF Steady, Withdrawn, Displayed, Adopted

\* no editor is about to open over a card but one that was asked for
LEMMA NotEditing ==
  ASSUME NEW a, Steady(a), a.visible, ~Active(a), ~a.opening PROVE ~Editing(a)
<1>1. a.editor.phase \in {"none", "asked", "open"} BY DEF Steady, Apps
<1> QED BY <1>1 DEF Steady, Sessions, Adopted, Editing, Active

LEMMA ShownDismissHandled ==
  ASSUME NEW js \in Seq(JobShape), NEW us, NEW os, NEW e,
         NEW a, Handled(a, js, us, os, e), a.visible, ~a.inFlight, ~a.checkOverflow,
         NEW b, b = Dismiss(a)
  PROVE  Asked(a, b, js, us, os, e)
<1>1. Steady(a) /\ Agreed(a, Queued(js, a), us, os, e, "handling") /\ ~a.editorOnly
  BY DEF Handled, Steady, Adopted
<1>2. Handled(b, js, us, os, e) /\ Moves(a, b) /\ Left(b) BY <1>1, DismissHandled
<1> QED BY <1>2, MovesFollows DEF Asked

\* the overlay forgets the card
LEMMA HidesHandled ==
  ASSUME NEW js \in Seq(JobShape), NEW us, NEW os, NEW e,
         NEW a, Handled(a, js, us, os, e), a.shown, NEW b, b = [a EXCEPT !.shown = FALSE]
  PROVE  /\ Asked(a, b, js, us, os, e) /\ SameView(a, b) /\ SameWaits(a, b) /\ b.visible /\ ~b.shown
         /\ b.finalizing = a.finalizing /\ Edited(b) = Edited(a)
<1>1. Steady(a) /\ a \in Apps /\ a.visible BY ShownIs DEF Handled, Steady
<1>2. b \in Apps BY <1>1, ZenonT(60) DEF Apps
<1>3. /\ SameView(a, b) /\ SameWaits(a, b) /\ b.visible = a.visible /\ ~b.shown
      /\ b.retention = a.retention /\ SameOutputs(a, b) /\ b.posted = a.posted /\ b.filed = a.filed
  BY <1>1 DEF Apps, SameView, SameWaits, SameOutputs
<1>4. Counted(b) BY <1>1, <1>3 DEF Steady, Counted, SameView, SameWaits, SameOutputs, Ids
<1>5. Withdrawn(b) /\ Displayed(b) /\ Filing(b)
  BY <1>1, <1>3 DEF Steady, Withdrawn, Displayed, Filing, SameView, SameWaits, SameOutputs
<1>6. Sessions(b) /\ Adopted(b) /\ Freezing(b)
  BY <1>1, <1>3 DEF Steady, Sessions, Adopted, Freezing, Editing, Active, CardOutputPending,
                    SameView, SameWaits, SameOutputs
<1>7. Steady(b) BY <1>2, <1>4, <1>5, <1>6 DEF Steady
<1>8. Waiting(b)
  BY <1>3 DEF Handled, Waiting, Editing, Active, CardOutputPending, SameView, SameWaits, SameOutputs
<1>9. Quiet(a, b)
  <2>1. a.nextAction \in Nat BY <1>1 DEF Apps
  <2> QED BY <1>1, <1>3, <2>1 DEF Quiet, SameWaits, SameOutputs
<1>10. Queued(js, b) = Queued(js, a) BY <1>3 DEF Queued
<1>11. Agreed(b, Queued(js, b), us, os, e, "handling")
  BY <1>1, <1>2, <1>9, <1>10, QuietAgreed DEF Handled, Steady
<1>12. Follows(a, b) BY <1>1, <1>3 DEF Follows, SameView
<1>13. Left(b) BY <1>1, <1>3 DEF Left, Owns
<1>14. Edited(b) = Edited(a) BY <1>3 DEF Edited, SameView
<1> QED BY <1>1, <1>3, <1>7, <1>8, <1>11, <1>12, <1>13, <1>14 DEF Asked, Handled, SameView

\* something is put off until an editor is closed, or finalization is done
Defers(a, b) ==
  \/ b = [a EXCEPT !.deferredSave = TRUE] /\ a.finalizing
  \/ \E how \in {"hide", "save"} : b = [a EXCEPT !.deferredClose = how]
  \/ b = [a EXCEPT !.deferredOverflow = TRUE] /\ ~a.shown

LEMMA DefersHandled ==
  ASSUME NEW js \in Seq(JobShape), NEW us, NEW os, NEW e,
         NEW a, Handled(a, js, us, os, e), a.visible,
         NEW b, Defers(a, b)
  PROVE  Asked(a, b, js, us, os, e)
<1>1. Steady(a) /\ a \in Apps BY DEF Handled, Steady
<1> DEFINE Deferred == /\ b \in Apps
                       /\ SameView(a, b) /\ SameCard(a, b) /\ SameOutputs(a, b) /\ b.posted = a.posted
                       /\ b.inFlight = a.inFlight /\ b.recovery = a.recovery
                       /\ b.checkClose = a.checkClose /\ b.checkOverflow = a.checkOverflow
                       /\ b.editorOnly = a.editorOnly
                       /\ b.deferredSave => a.deferredSave \/ a.finalizing
                       /\ b.deferredOverflow => a.deferredOverflow \/ ~a.shown
<1>2. Deferred
  <2>1. CASE b = [a EXCEPT !.deferredSave = TRUE] /\ a.finalizing
    BY <1>1, <2>1, ZenonT(60) DEF Apps, SameView, SameCard, SameOutputs
  <2>2. ASSUME NEW how \in {"hide", "save"}, b = [a EXCEPT !.deferredClose = how] PROVE Deferred
    BY <1>1, <2>2, ZenonT(60) DEF Apps, SameView, SameCard, SameOutputs
  <2>3. CASE b = [a EXCEPT !.deferredOverflow = TRUE] /\ ~a.shown
    BY <1>1, <2>3, ZenonT(60) DEF Apps, SameView, SameCard, SameOutputs
  <2> HIDE DEF Deferred
  <2> QED BY <2>1, <2>2, <2>3 DEF Defers
<1>3. /\ SameView(a, b) /\ SameCard(a, b) /\ SameOutputs(a, b) /\ b.posted = a.posted
      /\ b.inFlight = a.inFlight /\ b.recovery = a.recovery
      /\ b.checkClose = a.checkClose /\ b.checkOverflow = a.checkOverflow
  BY <1>2
<1>30. /\ b.editorOnly = a.editorOnly
       /\ b.deferredSave => a.deferredSave \/ a.finalizing
       /\ b.deferredOverflow => a.deferredOverflow \/ ~a.shown
  BY <1>2
<1>4. Counted(b) BY <1>1, <1>3 DEF Steady, Counted, SameView, SameOutputs, Ids
<1>5. Withdrawn(b) /\ Displayed(b) /\ Filing(b)
  BY <1>1, <1>3, <1>30 DEF Steady, Withdrawn, Displayed, Filing, SameView, SameCard, SameOutputs
<1>6. Sessions(b) /\ Adopted(b) /\ Freezing(b)
  BY <1>1, <1>3, <1>30 DEF Steady, Sessions, Adopted, Freezing, Editing, Active, CardOutputPending,
                    SameView, SameCard, SameOutputs
<1>7. Steady(b) BY <1>2, <1>4, <1>5, <1>6 DEF Steady
<1>8. Waiting(b)
  BY <1>3 DEF Handled, Waiting, Editing, Active, CardOutputPending, SameView, SameCard, SameOutputs
<1>9. Quiet(a, b)
  <2>1. a.nextAction \in Nat BY <1>1 DEF Apps
  <2> QED BY <1>1, <1>3, <2>1 DEF Quiet, SameCard, SameOutputs
<1>10. Queued(js, b) = Queued(js, a) BY <1>3 DEF Queued
<1>11. Agreed(b, Queued(js, b), us, os, e, "handling")
  BY <1>1, <1>2, <1>9, <1>10, QuietAgreed DEF Handled, Steady
<1>12. Follows(a, b) BY <1>3, SameFollows
<1>13. Left(b) BY <1>3 DEF Left, Owns, SameCard
<1> QED BY <1>7, <1>8, <1>11, <1>12, <1>13 DEF Asked, Handled

LEMMA AutoCloseHandled ==
  ASSUME NEW js \in Seq(JobShape), NEW us, NEW os, NEW e,
         NEW a, Handled(a, js, us, os, e), a.visible, ~Active(a), ~a.opening,
         NEW how \in {"hide", "save"}, NEW b, b = AutoClose(a, how, Edited(a))
  PROVE  Asked(a, b, js, us, os, e)
<1>1. Steady(a) /\ Agreed(a, Queued(js, a), us, os, e, "handling") BY DEF Handled
<1>2. ~Editing(a) BY <1>1, NotEditing
<1>3. Edited(a) \in Versions /\ Fresh(a, e, Edited(a)) BY <1>1, EditedFresh
<1>4. /\ Steady(b) /\ Agreed(b, Queued(js, b), us, os, e, "handling") /\ Moves(a, b)
      /\ \/ b.visible /\ b.inFlight = a.inFlight /\ b.deferredOverflow = a.deferredOverflow
         \/ ~b.visible /\ ~b.shown /\ ~b.deferredOverflow /\ Waiting(b) /\ Left(b)
  BY <1>1, <1>2, <1>3, AutoCloseMoves
<1>5. Waiting(b) /\ Left(b)
  <2>1. CASE b.visible
    <3>1. Waiting(b) BY <1>2, <1>4, <2>1 DEF Waiting, Moves, SameView, Editing
    <3> QED BY <2>1, <3>1 DEF Left, Owns
  <2> QED BY <1>4, <2>1
<1> QED BY <1>4, <1>5, MovesFollows DEF Asked, Handled

LEMMA OverflowHandled ==
  ASSUME NEW js \in Seq(JobShape), NEW us, NEW os, NEW e,
         NEW a, Handled(a, js, us, os, e), a.visible, ~a.shown, ~Active(a), ~a.opening,
         NEW b, b = Overflow(a, Edited(a))
  PROVE  Asked(a, b, js, us, os, e)
<1>1. Steady(a) /\ Agreed(a, Queued(js, a), us, os, e, "handling") /\ ~a.editorOnly
  BY DEF Handled, Steady, Adopted
<1>2. ~Editing(a) BY <1>1, NotEditing
<1>3. Edited(a) \in Versions /\ Fresh(a, e, Edited(a)) BY <1>1, EditedFresh
<1>4. /\ Steady(b) /\ Agreed(b, Queued(js, b), us, os, e, "handling") /\ Moves(a, b) /\ Left(b)
      /\ ~b.visible => Waiting(b)
  <2> DEFINE v == Edited(a)
  <2>1. b = Overflow(a, v) /\ v \in Versions /\ Fresh(a, e, v) BY <1>3
  <2> HIDE DEF v
  <2> QED BY <1>1, <1>2, <2>1, OverflowMoves
<1>5. Waiting(b)
  <2>1. CASE b.visible BY <1>2, <1>4, <2>1 DEF Waiting, Moves, SameView, Editing
  <2> QED BY <1>4, <2>1
<1> QED BY <1>4, <1>5, MovesFollows DEF Asked, Handled

\* the upload of before is forgotten
LEMMA ForgetsUpload ==
  ASSUME NEW js \in Seq(JobShape), NEW us, NEW os, NEW e,
         NEW a, Handled(a, js, us, os, e), NEW b, b = [a EXCEPT !.current = 0]
  PROVE  /\ Handled(b, js, us, os, e) /\ SameView(a, b) /\ SameCard(a, b)
         /\ Left(a) => Left(b)
<1>1. Steady(a) /\ a \in Apps BY DEF Handled, Steady
<1>2. b \in Apps BY <1>1 DEF Apps
<1>3. /\ SameView(a, b) /\ SameCard(a, b) /\ SameWaits(a, b) /\ b.posted = a.posted
      /\ b.outstanding = a.outstanding /\ b.current = 0 /\ b.fates = a.fates
      /\ b.nextAction = a.nextAction
  BY <1>1 DEF Apps, SameView, SameCard, SameWaits
<1>4. Counted(b) BY <1>1, <1>3 DEF Steady, Counted, SameView, SameWaits, Ids
<1>5. Withdrawn(b) /\ Displayed(b) /\ Filing(b)
  BY <1>1, <1>3 DEF Steady, Withdrawn, Displayed, Filing, SameView, SameCard, SameWaits
<1>6. Sessions(b) /\ Adopted(b) /\ Freezing(b)
  BY <1>1, <1>3 DEF Steady, Sessions, Adopted, Freezing, Editing, Active, CardOutputPending,
                    SameView, SameCard, SameWaits
<1>7. Steady(b) BY <1>2, <1>4, <1>5, <1>6 DEF Steady
<1>8. Waiting(b)
  BY <1>3 DEF Handled, Waiting, Editing, Active, CardOutputPending, SameView, SameCard, SameWaits
<1>9. Quiet(a, b)
  <2>1. a.nextAction \in Nat BY <1>1 DEF Apps
  <2> QED BY <1>1, <1>3, <2>1 DEF Quiet, SameCard, SameWaits
<1>10. Queued(js, b) = Queued(js, a) BY <1>3 DEF Queued
<1>11. Agreed(b, Queued(js, b), us, os, e, "handling")
  BY <1>1, <1>2, <1>9, <1>10, QuietAgreed DEF Handled, Steady
<1>12. Left(a) => Left(b)
  BY <1>3 DEF Left, Owns, SameCard, SameView, Editing, CardOutputPending
<1> QED BY <1>3, <1>7, <1>8, <1>11, <1>12 DEF Handled

LEMMA UploadCardHandled ==
  ASSUME NEW js \in Seq(JobShape), NEW us, NEW os, NEW e,
         NEW a, Handled(a, js, us, os, e), a.visible, NEW close \in {TRUE, FALSE},
         NEW b, b = Dispatch([a EXCEPT !.current = 0], "upload", close, Upload(Edited(a)))
  PROVE  Asked(a, b, js, us, os, e)
<1> DEFINE c == [a EXCEPT !.current = 0]
           way == [kind |-> "upload", close |-> close]
           job == Upload(Edited(a))
<1>1. Handled(c, js, us, os, e) /\ SameView(a, c) /\ SameCard(a, c) /\ (Left(a) => Left(c))
  BY ForgetsUpload
<1>2. Edited(a) \in Versions /\ Fresh(a, e, Edited(a)) BY EditedFresh DEF Handled
<1>3. job \in JobShape /\ job.do = "upload" /\ job.version = Edited(a)
  <2>1. /\ Job("upload") \in JobShape /\ Job("upload").do = "upload" BY JobShapes DEF Doings
  <2> QED BY <1>2, <2>1 DEF Upload, JobShape
<1>4. way \in Ways /\ way.kind = "upload" BY DEF Ways
<1>5. c.visible /\ Suits(c, way) BY <1>1, <1>4 DEF Suits, SameCard
<1>6. Fresh(c, e, job.version) BY <1>1, <1>2, <1>3 DEF Fresh, SameCard, SameView
<1>7. b = Dispatch(c, way.kind, way.close, job) OBVIOUS
<1> HIDE DEF c, way, job
<1>8. Asked(c, b, js, us, os, e) BY <1>1, <1>3, <1>4, <1>5, <1>6, <1>7, DispatchHandled
<1>9. Follows(a, b) BY <1>1, <1>8 DEF Asked, Follows, SameCard, SameView
<1> QED BY <1>1, <1>8, <1>9 DEF Asked

\* an editor of the card is asked for
LEMMA OpenCardHandled ==
  ASSUME NEW js \in Seq(JobShape), NEW us, NEW os, NEW e,
         NEW a, Handled(a, js, us, os, e), a.shown, a.nextGen \in Gens, ~Active(a), ~a.opening,
         NEW b, b = Post([a EXCEPT !.opening = TRUE], Job("open"))
  PROVE  Asked(a, b, js, us, os, e)
<1> DEFINE c == [a EXCEPT !.opening = TRUE]
           q == Queued(js, a)
           j == Job("open")
<1>1. Steady(a) /\ a \in Apps /\ Waiting(a) /\ Agreed(a, q, us, os, e, "handling") BY DEF Handled, Steady
<1>2. a.visible /\ ~a.editorOnly /\ ~a.inFlight /\ ~a.checkOverflow BY <1>1, ShownIs
<1>3. ~Editing(a) BY <1>1, <1>2, NotEditing
<1>4. c \in Apps BY <1>1 DEF Apps
<1>5. /\ SameCard(a, c) /\ SameWaits(a, c) /\ SameOutputs(a, c) /\ c.posted = a.posted /\ c.opening
      /\ c.editor = a.editor /\ c.close = a.close /\ c.closed = a.closed /\ c.nextGen = a.nextGen
      /\ c.finalizing = a.finalizing /\ c.dialog = a.dialog
  BY <1>1 DEF Apps, SameCard, SameWaits, SameOutputs
<1>6. Opens(q) \union OpenAnswers(os) = {} BY <1>1 DEF Agreed, Opening
<1>7. Counted(c) BY <1>1, <1>5 DEF Steady, Counted, SameWaits, SameOutputs, Ids
<1>8. Withdrawn(c) /\ Displayed(c) /\ Filing(c)
  BY <1>1, <1>5 DEF Steady, Withdrawn, Displayed, Filing, SameWaits, SameCard, SameOutputs
<1>9. Sessions(c) /\ Freezing(c) /\ Adopted(c)
  BY <1>1, <1>2, <1>5 DEF Steady, Sessions, Adopted, Freezing, Editing, Active, SameWaits, SameCard
<1>10. Steady(c) BY <1>4, <1>7, <1>8, <1>9 DEF Steady
<1>11. Waiting(c) BY <1>1, <1>2, <1>5 DEF Waiting, SameWaits, SameCard
<1>12. Messages(c, q, us, os, e)
  <2>1. \A m : ToldOf(c, e, m) <=> ToldOf(a, e, m)
    BY <1>5 DEF ToldOf, Numbered, Judges, SameOutputs, SameWaits, SameCard, Ids
  <2> QED BY <1>1, <1>5, <2>1 DEF Agreed, Messages, Judges, SameOutputs, SameCard, Ids
<1>13. Uploads(c, q, us, os) BY <1>1, <1>5, Zenon DEF Agreed, Uploads, Uploading, Exporting, SameOutputs
<1>14. Opening(c, q, os) BY <1>1, <1>6 DEF Agreed, Opening
<1>15. Releasable(c, q) BY <1>1, <1>2 DEF Agreed, Releasable
<1>16. Checking(c, q, os, "handling") /\ Committing(c, q, os) /\ Ended(c, e, "handling")
  BY <1>1, <1>5 DEF Agreed, Checking, Committing, Ended, Editing, SameCard, SameWaits
<1>17. Queued(js, c) = q BY <1>5 DEF Queued
<1>18. Agreed(c, Queued(js, c), us, os, e, "handling")
  BY <1>12, <1>13, <1>14, <1>15, <1>16, <1>17 DEF Agreed
<1>19. j \in JobShape /\ j.do = "open" /\ j.action = 0 /\ j.version = Plain BY JobShapes DEF Doings
<1>20. b = Post(c, j) OBVIOUS
<1> HIDE DEF c, q, j
<1>21. Admits(c, Queued(js, c), os, e, "handling", j)
  <2>1. Numbered(c, j) BY <1>10, <1>19, ZeroNumbered
  <2> QED BY <1>3, <1>5, <1>6, <1>17, <1>19, <2>1 DEF Admits, Judges, Editing
<1>22. Steady(b) /\ Agreed(b, Queued(js, b), us, os, e, "handling") BY <1>10, <1>18, <1>20, <1>21, Posting
<1>23. SameView(c, b) /\ SameCard(c, b) /\ (Waiting(b) <=> Waiting(c))
  BY <1>10, <1>19, <1>20, PostKeeps
<1>24. Follows(a, b) BY <1>5, <1>23 DEF Follows, SameView, SameCard
<1>25. Left(b) BY <1>5, <1>23 DEF Left, Owns, SameView
<1> QED BY <1>11, <1>22, <1>23, <1>24, <1>25 DEF Asked, Handled

-----------------------------------------------------------------------------
(* The save dialog                                                         *)

\* a card output was given a number and registered
Booked(a, c) ==
  /\ Steady(c) /\ Quiet(a, c) /\ SameView(a, c) /\ SameCard(a, c) /\ SameWaits(a, c)
  /\ c.posted = a.posted /\ c.nextAction = a.nextAction + 1
  /\ [id |-> a.nextAction, kind |-> "card", close |-> TRUE] \in c.outstanding

LEMMA BookHolds ==
  ASSUME NEW a \in Apps, NEW way, NEW c, c = Book(a, way.kind, way.close)
  PROVE  [id |-> a.nextAction, kind |-> way.kind, close |-> way.close] \in c.outstanding
<1>1. c.outstanding = a.outstanding
                        \union {[id |-> a.nextAction, kind |-> way.kind, close |-> way.close]}
  BY DEF Book, Register, Apps
<1> QED BY <1>1

LEMMA WayBooked ==
  ASSUME NEW a, Steady(a), NEW way \in Ways, way.kind = "card", way.close = TRUE, Suits(a, way),
         NEW c, c = Book(a, way.kind, way.close)
  PROVE  Booked(a, c)
<1>1. [id |-> a.nextAction, kind |-> way.kind, close |-> way.close] \in c.outstanding
  BY BookHolds DEF Steady
<1>2. /\ Steady(c) /\ Quiet(a, c) /\ SameView(a, c) /\ SameCard(a, c) /\ SameWaits(a, c)
      /\ c.posted = a.posted /\ c.nextAction = a.nextAction + 1
  BY BookSteady
<1>3. [id |-> a.nextAction, kind |-> "card", close |-> TRUE] \in c.outstanding BY <1>1
<1> QED BY <1>2, <1>3 DEF Booked

LEMMA CardBooked ==
  ASSUME NEW a, Steady(a), a.visible PROVE Booked(a, Book(a, "card", TRUE))
<1> DEFINE way == [kind |-> "card", close |-> TRUE]
           c == Book(a, "card", TRUE)
<1>1. way \in Ways /\ way.kind = "card" /\ way.close = TRUE BY DEF Ways
<1>2. Suits(a, way) BY <1>1 DEF Suits, Steady, Adopted
<1>3. c = Book(a, way.kind, way.close) BY <1>1
<1> HIDE DEF way, c
<1>4. Booked(a, c) BY <1>1, <1>2, <1>3, WayBooked
<1> QED BY <1>4 DEF c

\* a dialog asks where the card is to go, and the card waits for the answer
LEMMA DialogOpens ==
  ASSUME NEW js \in Seq(JobShape), NEW us, NEW os, NEW e,
         NEW a, Handled(a, js, us, os, e), a.visible, NEW c, Booked(a, c),
         NEW d \in Dialogs, d.id = a.nextAction, Fresh(a, e, d.version),
         NEW b, b = [c EXCEPT !.dialog = d]
  PROVE  Asked(a, b, js, us, os, e)
<1> DEFINE q == Queued(js, a)
           x == [id |-> a.nextAction, kind |-> "card", close |-> TRUE]
<1>1. Steady(a) /\ a \in Apps /\ Waiting(a) /\ Agreed(a, q, us, os, e, "handling") BY DEF Handled, Steady
<1>2. a.nextAction \in Nat BY <1>1 DEF Apps
<1>5. x \in c.outstanding /\ x.id = a.nextAction /\ x.kind = "card" BY DEF Booked
<1> HIDE DEF q, x
<1>6. /\ Steady(c) /\ Quiet(a, c) /\ SameView(a, c) /\ SameCard(a, c) /\ SameWaits(a, c)
      /\ c.posted = a.posted /\ c.nextAction = a.nextAction + 1
  BY DEF Booked
<1>7. a.nextAction < c.nextAction /\ c \in Apps
  <2>1. c \in Apps BY <1>6 DEF Steady
  <2> QED BY <1>2, <1>6, <2>1
<1>8. b \in Apps BY <1>7, ZenonT(30) DEF Apps
<1>9. /\ SameCard(c, b) /\ SameWaits(c, b) /\ SameOutputs(c, b) /\ b.posted = c.posted /\ b.dialog = d
      /\ b.editor = c.editor /\ b.opening = c.opening /\ b.close = c.close /\ b.closed = c.closed
      /\ b.finalizing = c.finalizing /\ b.nextGen = c.nextGen
  BY <1>7 DEF Apps, SameCard, SameWaits, SameOutputs
<1>10. Counted(b)
  <2>1. b.dialog.id = x.id /\ x \in b.outstanding BY <1>5, <1>9 DEF SameOutputs
  <2>2. /\ b.outstanding = c.outstanding /\ b.nextAction = c.nextAction /\ b.current = c.current
        /\ b.recovery = c.recovery /\ Ids(b) = Ids(c)
    BY <1>9 DEF SameWaits, SameOutputs, Ids
  <2>3. \E y \in b.outstanding : y.id = b.dialog.id /\ y.kind = "card" BY <1>5, <2>1
  <2>4. Counted(c) BY <1>6 DEF Steady
  <2> QED BY <2>2, <2>3, <2>4 DEF Counted
<1>11. Withdrawn(b) /\ Displayed(b) /\ Filing(b)
  BY <1>6, <1>9 DEF Steady, Withdrawn, Displayed, Filing, SameWaits, SameCard, SameOutputs
<1>12. b.visible /\ ~b.editorOnly
  BY <1>1, <1>6, <1>9 DEF SameCard, SameWaits, Steady, Adopted
<1>13. Sessions(b) /\ Freezing(b) /\ Adopted(b)
  <2>1. Sessions(c) /\ Freezing(c) BY <1>6 DEF Steady
  <2>2. b.visible = c.visible /\ b.editorOnly = c.editorOnly BY <1>9 DEF SameCard, SameWaits
  <2>3. Sessions(b) BY <1>9, <2>1, <2>2 DEF Sessions, Editing, Active
  <2>4. Freezing(b) BY <1>9, <2>1, <2>2 DEF Freezing, Active
  <2> QED BY <1>12, <2>3, <2>4 DEF Adopted
<1>14. Steady(b) BY <1>8, <1>10, <1>11, <1>13 DEF Steady
<1>15. Waiting(b)
  BY <1>1, <1>6, <1>9, <1>12 DEF Waiting, SameWaits, SameCard, SameView, Editing
<1>16. Agreed(c, q, us, os, e, "handling")
  BY <1>1, <1>6, <1>7, QuietAgreed DEF Steady
<1>17. ASSUME NEW m, m.action \in Nat, ToldOf(a, e, m), ToldOf(c, e, m) PROVE ToldOf(b, e, m)
  <2>1. m.action # d.id BY <1>2, <1>17 DEF ToldOf, Numbered
  <2>2. Numbered(b, m) BY <1>9, <1>17, <2>1 DEF ToldOf, Numbered, SameOutputs, SameWaits
  <2>3. Judges(b, e, m.action, m.version)
    BY <1>9, <1>17 DEF ToldOf, Judges, SameOutputs, SameCard, Ids
  <2> QED BY <2>2, <2>3 DEF ToldOf
<1>18. Messages(b, q, us, os, e)
  <2>1. q \in Seq(JobShape) /\ us \in Seq(JobShape) /\ os \in Seq(OutcomeShape)
    BY <1>1 DEF Agreed, Messages
  <2>2. ASSUME NEW i \in DOMAIN q PROVE ToldOf(b, e, q[i])
    <3>1. q[i].action \in Nat BY <2>1 DEF JobShape
    <3> QED BY <1>1, <1>16, <1>17, <3>1 DEF Agreed, Messages
  <2>3. ASSUME NEW i \in DOMAIN us PROVE ToldOf(b, e, us[i])
    <3>1. us[i].action \in Nat BY <2>1 DEF JobShape
    <3> QED BY <1>1, <1>16, <1>17, <3>1 DEF Agreed, Messages
  <2>4. ASSUME NEW i \in DOMAIN os PROVE ToldOf(b, e, os[i])
    <3>0. os[i] \in OutcomeShape BY <2>1
    <3>1. os[i].action \in Nat BY <3>0, Zenon DEF OutcomeShape
    <3> QED BY <1>1, <1>16, <1>17, <3>1 DEF Agreed, Messages
  <2>5. Judges(b, e, b.dialog.id, b.dialog.version)
    BY <1>6, <1>9 DEF Judges, Fresh, SameCard, SameView
  <2> QED BY <2>1, <2>2, <2>3, <2>4, <2>5 DEF Messages
<1>19. Uploads(b, q, us, os) BY <1>9, <1>16, Zenon DEF Agreed, Uploads, Uploading, Exporting, SameOutputs
<1>20. Opening(b, q, os) /\ Releasable(b, q)
  BY <1>9, <1>16 DEF Agreed, Opening, Releasable, Editing, SameCard
<1>21. Checking(b, q, os, "handling") BY <1>9, <1>16 DEF Agreed, Checking, Editing, SameCard, SameWaits
<1>22. Committing(b, q, os) /\ Ended(b, e, "handling")
  BY <1>9, <1>16 DEF Agreed, Committing, Ended, Editing, SameCard
<1>23. Queued(js, b) = q BY <1>6, <1>9 DEF Queued, q
<1>24. Follows(a, b) BY <1>6, <1>9 DEF Follows, SameCard, SameView
<1>25. Left(b) BY <1>12 DEF Left, Owns
<1> QED BY <1>14, <1>15, <1>18, <1>19, <1>20, <1>21, <1>22, <1>23, <1>24, <1>25 DEF Asked, Handled, Agreed

LEMMA SaveCardAsHandled ==
  ASSUME NEW js \in Seq(JobShape), NEW us, NEW os, NEW e,
         NEW a, Handled(a, js, us, os, e), a.visible,
         NEW b, b = [Register(a, a.nextAction, "card", TRUE) EXCEPT
                       !.nextAction = @ + 1,
                       !.dialog = [id |-> a.nextAction, version |-> Edited(a)]]
  PROVE  Asked(a, b, js, us, os, e)
<1> DEFINE c == Book(a, "card", TRUE)
           d == [id |-> a.nextAction, version |-> Edited(a)]
<1>1. Steady(a) /\ a \in Apps /\ a.nextAction \in Nat BY DEF Handled, Steady, Apps
<1>2. Edited(a) \in Versions /\ Fresh(a, e, Edited(a)) BY <1>1, EditedFresh DEF Handled
<1>3. d \in Dialogs /\ d.id = a.nextAction /\ d.version = Edited(a) BY <1>1, <1>2 DEF Dialogs
<1>4. b = [Register(a, a.nextAction, "card", TRUE) EXCEPT !.nextAction = @ + 1, !.dialog = d] OBVIOUS
<1> HIDE DEF d
<1>5. b = [c EXCEPT !.dialog = d] BY <1>1, <1>4 DEF Book, Register, Apps
<1>6. Booked(a, c) BY <1>1, CardBooked
<1>7. Fresh(a, e, d.version) BY <1>2, <1>3
<1> HIDE DEF c
<1> QED BY <1>3, <1>5, <1>6, <1>7, DialogOpens

\* the dialog is gone, and what it was asked for still to come
LEMMA ShutsDialog ==
  ASSUME NEW js \in Seq(JobShape), NEW us, NEW os, NEW e,
         NEW a, Handled(a, js, us, os, e), NEW b, b = [a EXCEPT !.dialog = None]
  PROVE  /\ Handled(b, js, us, os, e) /\ SameCard(a, b) /\ SameWaits(a, b) /\ SameOutputs(a, b)
         /\ b.dialog = None /\ Follows(a, b) /\ (Left(a) => Left(b))
<1> DEFINE q == Queued(js, a)
<1>1. Steady(a) /\ a \in Apps /\ Waiting(a) /\ Agreed(a, q, us, os, e, "handling") BY DEF Handled, Steady
<1>2. b \in Apps BY <1>1, ZenonT(30) DEF Apps
<1>3. /\ SameCard(a, b) /\ SameWaits(a, b) /\ SameOutputs(a, b) /\ b.posted = a.posted /\ b.dialog = None
      /\ b.editor = a.editor /\ b.opening = a.opening /\ b.close = a.close /\ b.closed = a.closed
      /\ b.finalizing = a.finalizing /\ b.nextGen = a.nextGen
  BY <1>1 DEF Apps, SameCard, SameWaits, SameOutputs
<1> HIDE DEF q
<1>4. Counted(b) BY <1>1, <1>3 DEF Steady, Counted, SameWaits, SameOutputs, Ids
<1>5. Withdrawn(b) /\ Displayed(b) /\ Filing(b)
  BY <1>1, <1>3 DEF Steady, Withdrawn, Displayed, Filing, SameWaits, SameCard, SameOutputs
<1>6. Sessions(b) /\ Freezing(b) /\ Adopted(b)
  BY <1>1, <1>3 DEF Steady, Sessions, Adopted, Freezing, Editing, Active, CardOutputPending, SameWaits,
                     SameCard, SameOutputs
<1>7. Steady(b) BY <1>2, <1>4, <1>5, <1>6 DEF Steady
<1>8. Waiting(b)
  BY <1>1, <1>3 DEF Waiting, SameWaits, SameCard, SameOutputs, Editing, Active, CardOutputPending
<1>9. \A m : ToldOf(a, e, m) => ToldOf(b, e, m)
  BY <1>3 DEF ToldOf, Numbered, Judges, SameOutputs, SameWaits, SameCard, Ids
<1>10. Messages(b, q, us, os, e) BY <1>1, <1>3, <1>9 DEF Agreed, Messages
<1>11. Uploads(b, q, us, os) BY <1>1, <1>3, Zenon DEF Agreed, Uploads, Uploading, Exporting, SameOutputs
<1>12. Opening(b, q, os) /\ Releasable(b, q)
  BY <1>1, <1>3 DEF Agreed, Opening, Releasable, Editing, SameCard
<1>13. Checking(b, q, os, "handling") /\ Committing(b, q, os) /\ Ended(b, e, "handling")
  BY <1>1, <1>3 DEF Agreed, Checking, Committing, Ended, Editing, SameCard, SameWaits
<1>14. Queued(js, b) = q BY <1>3 DEF Queued, q
<1>15. Follows(a, b) BY <1>3 DEF Follows, SameCard
<1>16. Left(a) => Left(b)
  BY <1>3 DEF Left, Owns, Editing, CardOutputPending, SameCard, SameOutputs
<1> QED BY <1>3, <1>7, <1>8, <1>10, <1>11, <1>12, <1>13, <1>14, <1>15, <1>16 DEF Handled, Agreed

\* the user named a place: the card's output is on its way
LEMMA DialogSavesHandled ==
  ASSUME NEW js \in Seq(JobShape), NEW us, NEW os, NEW e,
         NEW a, Handled(a, js, us, os, e), a.dialog # None,
         NEW b, b = Post([a EXCEPT !.dialog = None],
                         [Output(TRUE, a.dialog.version) EXCEPT !.action = a.dialog.id])
  PROVE  Asked(a, b, js, us, os, e)
<1> DEFINE c == [a EXCEPT !.dialog = None]
           j == [Output(TRUE, a.dialog.version) EXCEPT !.action = a.dialog.id]
<1>1. /\ Handled(c, js, us, os, e) /\ SameCard(a, c) /\ SameWaits(a, c) /\ SameOutputs(a, c)
      /\ c.dialog = None /\ Follows(a, c) /\ (Left(a) => Left(c))
  BY ShutsDialog
<1>2. Steady(a) /\ a \in Apps /\ a.dialog \in Dialogs BY DEF Handled, Steady, Apps
<1>3. a.dialog.id \in Ids(a) /\ a.dialog.id < a.nextAction /\ a.dialog.id # a.recovery
      /\ a.dialog.id # 0
  BY <1>2, IdTypes DEF Steady, Counted, Ids
<1>4. a.dialog.id \in Nat /\ a.dialog.version \in Versions BY <1>2 DEF Dialogs
<1>5. j \in JobShape /\ j.do = "output" /\ j.action = a.dialog.id /\ j.version = a.dialog.version
  <2>1. Output(TRUE, a.dialog.version) \in JobShape /\ Output(TRUE, a.dialog.version).do = "output"
        /\ Output(TRUE, a.dialog.version).version = a.dialog.version
    BY <1>4, OutputShape
  <2> QED BY <1>4, <2>1 DEF JobShape
<1>6. b = Post(c, j) OBVIOUS
<1> HIDE DEF c, j
<1>7. Steady(c) /\ Waiting(c) /\ Agreed(c, Queued(js, c), us, os, e, "handling") BY <1>1 DEF Handled
<1>8. Judges(a, e, j.action, j.version) BY <1>5 DEF Handled, Agreed, Messages
<1>9. Judges(c, e, j.action, j.version)
  BY <1>1, <1>8 DEF Judges, SameCard, SameOutputs, Ids, Follows
<1>10. Numbered(c, j) BY <1>1, <1>3, <1>5 DEF Numbered, SameOutputs, SameWaits
<1>11. Admits(c, Queued(js, c), os, e, "handling", j)
  <2>1. Exporting(c, j.action) BY <1>1, <1>2, <1>5 DEF Exporting, SameOutputs, Steady, Counted
  <2> QED BY <1>5, <1>9, <1>10, <2>1 DEF Admits
<1>12. Steady(b) /\ Agreed(b, Queued(js, b), us, os, e, "handling") BY <1>6, <1>7, <1>11, Posting
<1>13. SameView(c, b) /\ SameCard(c, b) /\ (Waiting(b) <=> Waiting(c)) /\ (Left(c) => Left(b))
  BY <1>5, <1>6, <1>7, PostKeeps
<1>14. Follows(a, b)
  <2>1. /\ b.visible = c.visible /\ b.shown = c.shown /\ b.nextGen = c.nextGen
        /\ b.editor = c.editor /\ b.closed = c.closed
    BY <1>13 DEF SameView, SameCard
  <2> QED BY <1>1, <2>1 DEF Follows, Editing
<1> QED BY <1>1, <1>7, <1>12, <1>13, <1>14 DEF Asked, Handled

\* the user cancelled: an overflow that waited for the dialog gives up the card
LEMMA DialogCancelledHandled ==
  ASSUME NEW js \in Seq(JobShape), NEW us, NEW os, NEW e,
         NEW a, Handled(a, js, us, os, e), NEW id \in Nat, a.dialog = None,
         NEW d, d = Resolve(a, id),
         NEW b, b = IF a.inFlight THEN Dismiss([d EXCEPT !.inFlight = FALSE]) ELSE d
  PROVE  Handled(b, js, us, os, e) /\ Moves(a, b) /\ (Left(a) => Left(b))
<1>1. CASE a.inFlight
  <2> DEFINE c == [d EXCEPT !.inFlight = FALSE]
  <2>1. Steady(a) /\ a \in Apps BY DEF Handled, Steady
  <2>2. Steady(d) /\ Quiet(a, d) BY <2>1, ResolveSteady
  <2>3. SameRest(a, d) /\ SameCard(a, d) BY <2>1, ResolveIs
  <2>4. Queued(js, d) = Queued(js, a) BY <2>3 DEF Queued, SameRest
  <2>5. Agreed(d, Queued(js, d), us, os, e, "handling")
    BY <2>1, <2>2, <2>4, QuietAgreed DEF Handled, Steady
  <2>6. /\ Steady(c) /\ Quiet(d, c) /\ SameView(d, c) /\ SameOutputs(d, c) /\ SameCard(d, c)
        /\ c.posted = d.posted /\ c.editorOnly = d.editorOnly /\ c.deferredSave = d.deferredSave
    BY <2>2, ClearsInFlight
  <2>7. b = Dismiss(c) BY <1>1
  <2> HIDE DEF c
  <2>8. Queued(js, c) = Queued(js, d) /\ c \in Apps /\ d \in Apps BY <2>2, <2>6 DEF Queued, Steady
  <2>9. Agreed(c, Queued(js, c), us, os, e, "handling")
    BY <2>2, <2>5, <2>6, <2>8, QuietAgreed DEF Steady
  <2>10. ~c.editorOnly BY <1>1, <2>1, <2>3, <2>6 DEF Steady, Adopted, SameRest, SameWaits
  <2>11. c.visible => ~c.opening /\ ~Editing(c)
    BY <1>1, <2>3, <2>6 DEF Handled, Waiting, SameRest, SameCard, SameView, Editing
  <2>12. Handled(b, js, us, os, e) /\ Moves(c, b) /\ Left(b)
    BY <2>6, <2>7, <2>9, <2>10, <2>11, DismissHandled
  <2>13. Moves(a, b) BY <2>3, <2>6, <2>12 DEF Moves, SameView, SameCard, SameRest, SameWaits
  <2> QED BY <2>12, <2>13
<1>2. CASE ~a.inFlight
  <2>1. \/ a.visible \/ (\A y \in a.outstanding : y.id = id => y.kind # "card")
        \/ (a.deferredOverflow /\ ~a.inFlight)
    BY <1>2 DEF Handled, Waiting, CardOutputPending
  <2>2. b = d BY <1>2
  <2> QED BY <2>1, <2>2, ResolveHandled
<1> QED BY <1>1, <1>2

-----------------------------------------------------------------------------
(* Editors                                                                 *)

\* what no step of the main thread does: bring back a card that is gone, or
\* bring up an editing session; the session of an editor stays its own
Continues(a, b) ==
  /\ b.visible => a.visible
  /\ b.shown => a.shown
  /\ b.nextGen = a.nextGen
  /\ Editing(b) => Editing(a) /\ b.editor.version.gen = a.editor.version.gen
  /\ a.closed = "committed" /\ Editing(b) => b.closed = "committed"

LEMMA FollowsContinues ==
  ASSUME NEW a, NEW b, Follows(a, b) PROVE Continues(a, b)
  BY DEF Follows, Continues, Editing

\* what concerns the editor only
SameRemainder(a, b) ==
  /\ SameCard(a, b) /\ SameWaits(a, b) /\ SameOutputs(a, b) /\ b.posted = a.posted
  /\ b.dialog = a.dialog /\ b.nextGen = a.nextGen /\ b.finalizing = a.finalizing

LEMMA RemainderSteady ==
  ASSUME NEW a, Steady(a), NEW b \in Apps, SameRemainder(a, b)
  PROVE  Counted(b) /\ Withdrawn(b) /\ Displayed(b) /\ Filing(b)
<1>1. Counted(b)
  BY DEF Steady, Counted, SameRemainder, SameWaits, SameOutputs, Ids
<1>2. Withdrawn(b) /\ Displayed(b) /\ Filing(b)
  BY DEF Steady, Withdrawn, Displayed, Filing, SameRemainder, SameWaits, SameCard, SameOutputs
<1> QED BY <1>1, <1>2

LEMMA RemainderTold ==
  ASSUME NEW a, NEW b, SameRemainder(a, b), NEW q, NEW us, NEW os, NEW e, NEW stage,
         Agreed(a, q, us, os, e, stage)
  PROVE  Messages(b, q, us, os, e) /\ Uploads(b, q, us, os)
<1>1. \A m : ToldOf(b, e, m) <=> ToldOf(a, e, m)
  BY DEF ToldOf, Numbered, Judges, SameRemainder, SameOutputs, SameWaits, SameCard, Ids
<1>2. Messages(b, q, us, os, e)
  BY <1>1 DEF Agreed, Messages, Judges, SameRemainder, SameOutputs, SameCard, Ids
<1> QED BY <1>2, Zenon DEF Agreed, Uploads, Uploading, Exporting, SameRemainder, SameOutputs

\* the window is there
Shown(a, b, w) ==
  /\ w \in [phase : {"none", "asked", "open"}, version : Versions]
  /\ w.phase = "open" /\ w.version = a.editor.version
  /\ b = [a EXCEPT !.editor = w, !.opening = FALSE]

LEMMA ShowsHandled ==
  ASSUME NEW js \in Seq(JobShape), NEW us, NEW os, NEW e,
         NEW a, Handled(a, js, us, os, e), a.editor.phase = "asked",
         NEW w, NEW b, Shown(a, b, w)
  PROVE  Handled(b, js, us, os, e) /\ Continues(a, b) /\ Left(b)
<1> DEFINE q == Queued(js, a)
<1>1. Steady(a) /\ a \in Apps /\ Waiting(a) /\ Agreed(a, q, us, os, e, "handling") BY DEF Handled, Steady
<1> HIDE DEF q
<1>2. b \in Apps BY <1>1, ZenonT(60) DEF Apps, Shown
<1>3. /\ SameRemainder(a, b) /\ b.editor = w /\ ~b.opening /\ b.close = a.close /\ b.closed = a.closed
      /\ w.phase = "open" /\ w.version = a.editor.version
  BY <1>1 DEF Apps, SameRemainder, SameCard, SameWaits, SameOutputs, Shown
<1>4. Active(b) /\ Editing(b) /\ Editing(a) /\ ~Active(a) BY <1>3 DEF Active, Editing
<1>5. a.close = None /\ a.closed = None BY <1>1, <1>4 DEF Steady, Freezing
<1>6. Counted(b) /\ Withdrawn(b) /\ Displayed(b) /\ Filing(b) BY <1>1, <1>2, <1>3, RemainderSteady
<1>7. Sessions(b) BY <1>1, <1>3, <1>4 DEF Steady, Sessions, SameRemainder
<1>8. Adopted(b)
  BY <1>1, <1>3, <1>4 DEF Steady, Adopted, SameRemainder, SameWaits, SameCard, SameOutputs, CardOutputPending
<1>9. Freezing(b) BY <1>3, <1>5 DEF Freezing
<1>10. Steady(b) BY <1>2, <1>6, <1>7, <1>8, <1>9 DEF Steady
<1>11. Waiting(b)
  BY <1>1, <1>3, <1>4 DEF Waiting, SameRemainder, SameWaits, SameCard, SameOutputs, CardOutputPending
<1>12. Messages(b, q, us, os, e) /\ Uploads(b, q, us, os) BY <1>1, <1>3, RemainderTold
<1>13. Opening(b, q, os) /\ Releasable(b, q)
  BY <1>1, <1>4 DEF Agreed, Opening, Releasable
<1>14. Checking(b, q, os, "handling")
  BY <1>1, <1>3, <1>4 DEF Agreed, Checking, SameRemainder, SameCard, SameWaits
<1>15. Committing(b, q, os) /\ Ended(b, e, "handling")
  BY <1>1, <1>3, <1>4 DEF Agreed, Committing, Ended, SameRemainder, SameCard
<1>16. Queued(js, b) = q BY <1>3 DEF Queued, q, SameRemainder
<1>17. Continues(a, b) BY <1>3, <1>4, <1>5 DEF Continues, SameRemainder, SameCard
<1>18. Left(b) BY <1>4 DEF Left, Owns
<1> QED BY <1>10, <1>11, <1>12, <1>13, <1>14, <1>15, <1>16, <1>17, <1>18 DEF Handled, Agreed

LEMMA ShowsEditorHandled ==
  ASSUME NEW js \in Seq(JobShape), NEW us, NEW os, NEW e,
         NEW a, Handled(a, js, us, os, e), a.editor.phase = "asked",
         NEW b, b = [a EXCEPT !.editor.phase = "open", !.opening = FALSE]
  PROVE  Handled(b, js, us, os, e) /\ Continues(a, b) /\ Left(b)
<1> DEFINE w == [a.editor EXCEPT !.phase = "open"]
<1>1. a \in Apps /\ a.editor \in [phase : {"none", "asked", "open"}, version : Versions]
  BY DEF Handled, Steady, Apps
<1>2. w \in [phase : {"none", "asked", "open"}, version : Versions] /\ w.phase = "open"
      /\ w.version = a.editor.version
  BY <1>1
<1>3. b = [a EXCEPT !.editor = w, !.opening = FALSE] BY <1>1 DEF Apps
<1>4. Shown(a, b, w) BY <1>2, <1>3 DEF Shown
<1> HIDE DEF w
<1> QED BY <1>4, ShowsHandled

\* one more edit
LEMMA RevisesHandled ==
  ASSUME NEW js \in Seq(JobShape), NEW us, NEW os, NEW e,
         NEW a, Handled(a, js, us, os, e), Active(a), a.close = None, a.closed = None,
         NEW w \in [phase : {"none", "asked", "open"}, version : Versions],
         w.phase = "open", w.version.gen = a.editor.version.gen,
         NEW b, b = [a EXCEPT !.editor = w]
  PROVE  Handled(b, js, us, os, e) /\ Continues(a, b) /\ Left(b)
<1> DEFINE q == Queued(js, a)
<1>1. Steady(a) /\ a \in Apps /\ Waiting(a) /\ Agreed(a, q, us, os, e, "handling") BY DEF Handled, Steady
<1> HIDE DEF q
<1>2. b \in Apps BY <1>1, ZenonT(30) DEF Apps
<1>3. SameRemainder(a, b) /\ b.editor = w /\ b.opening = a.opening /\ b.close = a.close /\ b.closed = a.closed
  BY <1>1 DEF Apps, SameRemainder, SameCard, SameWaits, SameOutputs
<1>4. Active(b) /\ Editing(b) /\ Editing(a) BY <1>3 DEF Active, Editing
<1>6. Counted(b) /\ Withdrawn(b) /\ Displayed(b) /\ Filing(b) BY <1>1, <1>2, <1>3, RemainderSteady
<1>7. Sessions(b) BY <1>1, <1>3, <1>4 DEF Steady, Sessions, SameRemainder
<1>8. Adopted(b)
  BY <1>1, <1>3, <1>4 DEF Steady, Adopted, SameRemainder, SameWaits, SameCard, SameOutputs, CardOutputPending
<1>9. Freezing(b) BY <1>3 DEF Freezing
<1>10. Steady(b) BY <1>2, <1>6, <1>7, <1>8, <1>9 DEF Steady
<1>11. Waiting(b)
  BY <1>1, <1>3, <1>4 DEF Waiting, SameRemainder, SameWaits, SameCard, SameOutputs, CardOutputPending
<1>12. Messages(b, q, us, os, e) /\ Uploads(b, q, us, os) BY <1>1, <1>3, RemainderTold
<1>13. Opening(b, q, os) /\ Releasable(b, q)
  BY <1>1, <1>3, <1>4 DEF Agreed, Opening, Releasable, SameRemainder, SameCard
<1>14. Checking(b, q, os, "handling")
  BY <1>1, <1>3, <1>4 DEF Agreed, Checking, SameRemainder, SameCard, SameWaits
<1>15. Committing(b, q, os)
  BY <1>1, <1>3, <1>4 DEF Agreed, Committing, SameRemainder, SameCard
<1>19. Ended(b, e, "handling")
  <2>1. e \in [Gens -> Ends] /\ \A g \in Gens : g >= b.nextGen => e[g] = Open
    BY <1>1, <1>3 DEF Agreed, Ended, SameRemainder
  <2>2. b.visible => e[a.editor.version.gen] = Open
    BY <1>1, <1>3, <1>4, NoneIsApart DEF Agreed, Ended, SameRemainder, SameCard
  <2> QED BY <1>3, <2>1, <2>2 DEF Ended
<1>16. Queued(js, b) = q BY <1>3 DEF Queued, q, SameRemainder
<1>17. Continues(a, b) BY <1>3, <1>4, NoneIsApart DEF Continues, SameRemainder, SameCard
<1>18. Left(b) BY <1>4 DEF Left, Owns
<1> QED BY <1>10, <1>11, <1>12, <1>13, <1>14, <1>15, <1>16, <1>17, <1>18, <1>19 DEF Handled, Agreed

LEMMA EditsHandled ==
  ASSUME NEW js \in Seq(JobShape), NEW us, NEW os, NEW e,
         NEW a, Handled(a, js, us, os, e), Active(a), a.close = None, a.closed = None,
         a.editor.version.rev < MaxRev,
         NEW b, b = [a EXCEPT !.editor.version.rev = @ + 1]
  PROVE  Handled(b, js, us, os, e) /\ Continues(a, b) /\ Left(b)
<1> DEFINE v == [a.editor.version EXCEPT !.rev = a.editor.version.rev + 1]
           w == [a.editor EXCEPT !.version = v]
<1>1. /\ a \in Apps /\ a.editor \in [phase : {"none", "asked", "open"}, version : Versions]
      /\ a.nextGen \in Nat
  BY DEF Handled, Steady, Apps
<1>2. a.editor.version \in EditVersions
  <2>1. a.editor.version.gen \in 1..(a.nextGen - 1) BY DEF Handled, Steady, Sessions, Editing, Active
  <2>2. a.editor.version # Plain BY <1>1, <2>1 DEF Plain, Version
  <2> QED BY <1>1, <2>2, NoneIsApart
<1>3. v \in EditVersions /\ v.gen = a.editor.version.gen
  BY <1>2, CardAssumption DEF EditVersions
<1> HIDE DEF v
<1>4. w \in [phase : {"none", "asked", "open"}, version : Versions] /\ w.phase = "open" /\ w.version = v
  BY <1>1, <1>3, NoneIsApart DEF Active
<1>5. b = [a EXCEPT !.editor = w]
  BY <1>1 DEF Apps, v
<1> HIDE DEF w
<1> QED BY <1>3, <1>4, <1>5, RevisesHandled

LEMMA EditorOutputHandled ==
  ASSUME NEW js \in Seq(JobShape), NEW us, NEW os, NEW e,
         NEW a, Handled(a, js, us, os, e), NEW export \in BOOLEAN,
         NEW b, b = Dispatch(a, "editor", FALSE, Output(export, Edited(a)))
  PROVE  Asked(a, b, js, us, os, e)
<1> DEFINE way == [kind |-> "editor", close |-> FALSE]
           job == Output(export, Edited(a))
<1>1. Edited(a) \in Versions /\ Fresh(a, e, Edited(a)) BY EditedFresh DEF Handled
<1>2. way \in Ways /\ way.kind = "editor" /\ ~way.close BY DEF Ways
<1>3. Suits(a, way) BY <1>2 DEF Suits
<1>4. job \in JobShape /\ job.do = "output" /\ job.version = Edited(a) BY <1>1, OutputShape
<1>5. b = Dispatch(a, way.kind, way.close, job) OBVIOUS
<1> HIDE DEF way, job
<1>6. Fresh(a, e, job.version) BY <1>1, <1>4
<1> QED BY <1>2, <1>3, <1>4, <1>5, <1>6, DispatchHandled

\* an editor freezes, and its session has committed
Freezes(a, c, m) ==
  /\ m \in Closes /\ m.version = a.editor.version /\ m.commit = "waits" /\ (a.visible => ~m.only)
  /\ c = [a EXCEPT !.close = m, !.retention = NoRetention, !.fates = c.fates]
  /\ c.fates \in [Gens -> Ends]
  /\ \/ a.outstanding = {}
     \/ \A g \in Gens : c.fates[g] = IF g = a.editor.version.gen THEN Committed(a.editor.version.rev)
                                     ELSE a.fates[g]

Recorded(e, f, v) ==
  /\ v \in EditVersions /\ f \in [Gens -> Ends]
  /\ \A g \in Gens : f[g] = IF g = v.gen THEN Committed(v.rev) ELSE e[g]

Uncommitted(a, q, os) == a.visible => Commits(q) \union CommitAnswers(os) = {}

LEMMA FreezesHandled ==
  ASSUME NEW js \in Seq(JobShape), NEW us, NEW os, NEW e,
         NEW a, Handled(a, js, us, os, e), Active(a), a.close = None, a.closed = None,
         NEW m, NEW c, Freezes(a, c, m),
         NEW f, Recorded(e, f, a.editor.version)
  PROVE  Handled(c, js, us, os, f) /\ Follows(a, c) /\ Uncommitted(c, Queued(js, c), os)
<1> DEFINE q == Queued(js, a)
           v == a.editor.version
<1>1. Steady(a) /\ a \in Apps /\ Waiting(a) /\ Agreed(a, q, us, os, e, "handling") BY DEF Handled, Steady
<1>2. v \in EditVersions /\ f \in [Gens -> Ends] BY DEF Recorded
<1> HIDE DEF q
<1>3. NoRetention \in [elsewhere : BOOLEAN, exported : BOOLEAN] /\ ~NoRetention.exported BY DEF NoRetention
<1>4. c \in Apps
  <2> DEFINE F == c.fates
  <2>1. /\ c = [a EXCEPT !.close = m, !.retention = NoRetention, !.fates = F]
        /\ m \in Closes /\ F \in [Gens -> Ends]
    BY DEF Freezes
  <2> HIDE DEF F
  <2> QED BY <1>1, <1>3, <2>1, ZenonT(60) DEF Apps
<1>5. /\ SameWaits(a, c) /\ c.posted = a.posted /\ c.dialog = a.dialog /\ c.nextGen = a.nextGen
      /\ c.finalizing = a.finalizing /\ c.outstanding = a.outstanding /\ c.current = a.current
      /\ c.nextAction = a.nextAction /\ c.visible = a.visible /\ c.shown = a.shown /\ c.filed = a.filed
      /\ c.retention = NoRetention /\ c.editor = a.editor /\ c.opening = a.opening /\ c.closed = a.closed
      /\ c.close = m
  BY <1>1, ZenonT(60) DEF Apps, SameWaits, Freezes
<1>6. Counted(c) BY <1>1, <1>5 DEF Steady, Counted, SameWaits, Ids
<1>7. Withdrawn(c) /\ Displayed(c) /\ Filing(c)
  BY <1>1, <1>3, <1>5 DEF Steady, Withdrawn, Displayed, Filing, SameWaits
<1>8. Sessions(c) /\ Adopted(c)
  BY <1>1, <1>5 DEF Steady, Sessions, Adopted, Editing, Active, CardOutputPending, SameWaits
<1>9. Freezing(c) BY <1>1, <1>5 DEF Freezing, Active, Freezes
<1>10. Steady(c) BY <1>4, <1>6, <1>7, <1>8, <1>9 DEF Steady
<1>11. Waiting(c)
  BY <1>1, <1>5 DEF Waiting, SameWaits, Editing, Active, CardOutputPending
<1>12. ASSUME NEW id, NEW w \in Versions, Judges(a, e, id, w) PROVE Judges(c, f, id, w)
  <2> SUFFICES ASSUME c.visible, id \in Ids(c), w # Plain
               PROVE  /\ w.gen < c.nextGen
                      /\ \/ f[w.gen] \in {Open, Committed(w.rev)}
                         \/ c.fates[w.gen] = f[w.gen]
    BY DEF Judges
  <2>1. w.gen \in Gens BY NoneIsApart
  <2>2. /\ w.gen < a.nextGen
        /\ \/ e[w.gen] \in {Open, Committed(w.rev)}
           \/ a.fates[w.gen] = e[w.gen]
    BY <1>5, <1>12 DEF Judges, Ids
  <2>3. a.outstanding # {} BY <1>5 DEF Ids
  <2>4. c.fates[w.gen] = IF w.gen = v.gen THEN Committed(v.rev) ELSE a.fates[w.gen]
    BY <2>1, <2>3 DEF Freezes
  <2>5. f[w.gen] = IF w.gen = v.gen THEN Committed(v.rev) ELSE e[w.gen] BY <2>1 DEF Recorded
  <2> QED BY <1>5, <2>2, <2>4, <2>5
<1>13. Messages(c, q, us, os, f)
  <2>1. q \in Seq(JobShape) /\ us \in Seq(JobShape) /\ os \in Seq(OutcomeShape)
    BY <1>1 DEF Agreed, Messages
  <2>2. \A x : Numbered(c, x) <=> Numbered(a, x) BY <1>5 DEF Numbered, SameWaits
  <2>3. ASSUME NEW i \in DOMAIN q PROVE ToldOf(c, f, q[i])
    <3>1. q[i].version \in Versions BY <2>1 DEF JobShape
    <3> QED BY <1>1, <1>12, <2>2, <3>1 DEF Agreed, Messages, ToldOf
  <2>4. ASSUME NEW i \in DOMAIN us PROVE ToldOf(c, f, us[i])
    <3>1. us[i].version \in Versions BY <2>1 DEF JobShape
    <3> QED BY <1>1, <1>12, <2>2, <3>1 DEF Agreed, Messages, ToldOf
  <2>5. ASSUME NEW i \in DOMAIN os PROVE ToldOf(c, f, os[i])
    <3>0. os[i] \in OutcomeShape BY <2>1
    <3>1. os[i].version \in Versions BY <3>0, Zenon DEF OutcomeShape
    <3> QED BY <1>1, <1>12, <2>2, <3>1 DEF Agreed, Messages, ToldOf
  <2>6. ASSUME c.dialog # None PROVE Judges(c, f, c.dialog.id, c.dialog.version)
    <3>1. c.dialog = a.dialog /\ a.dialog.version \in Versions
      BY <1>1, <1>5, <2>6 DEF Apps, Dialogs
    <3> QED BY <1>1, <1>12, <2>6, <3>1 DEF Agreed, Messages
  <2> QED BY <2>1, <2>3, <2>4, <2>5, <2>6 DEF Messages
<1>14. Uploads(c, q, us, os) BY <1>1, <1>5, Zenon DEF Agreed, Uploads, Uploading, Exporting
<1>15. Opening(c, q, os) /\ Releasable(c, q)
  BY <1>1, <1>5 DEF Agreed, Opening, Releasable, Editing
<1>16. Checking(c, q, os, "handling") BY <1>1, <1>5 DEF Agreed, Checking, SameWaits, Editing
<1>17. c.visible => Commits(q) \union CommitAnswers(os) = {} BY <1>1, <1>5 DEF Agreed, Committing
<1>18. Committing(c, q, os) BY <1>17 DEF Committing, OneOf, AtMostOne
<1>19. Ended(c, f, "handling")
  <2>1. a.nextGen \in Nat /\ v.gen \in 1..(a.nextGen - 1)
    BY <1>1 DEF Steady, Sessions, Apps, Active, Editing
  <2>2. v.gen \in Gens /\ v.gen < a.nextGen BY <1>2, <2>1, NoneIsApart
  <2>3. \A g \in Gens : g >= c.nextGen => f[g] = Open
    <3>1. \A g \in Gens : g >= c.nextGen => g # v.gen
      <4>1. Gens \subseteq Nat BY DEF Gens
      <4> QED BY <1>5, <2>1, <2>2, <4>1
    <3> QED BY <1>1, <1>5, <3>1 DEF Agreed, Ended, Recorded
  <2>4. f[v.gen] = Committed(v.rev) BY <2>2 DEF Recorded
  <2>5. c.close # None BY <1>5, NoneIsApart DEF Freezes
  <2> QED BY <1>2, <1>5, <2>3, <2>4, <2>5 DEF Ended
<1>20. Queued(js, c) = q BY <1>5 DEF Queued, q
<1>21. Follows(a, c) BY <1>5, NoneIsApart DEF Follows
<1>22. Uncommitted(c, Queued(js, c), os) BY <1>17, <1>20 DEF Uncommitted
<1> QED BY <1>10, <1>11, <1>13, <1>14, <1>15, <1>16, <1>18, <1>19, <1>20, <1>21, <1>22
        DEF Handled, Agreed

LEMMA CommitsEditHandled ==
  ASSUME NEW js \in Seq(JobShape), NEW us, NEW os, NEW e,
         NEW a, Handled(a, js, us, os, e), Active(a), a.close = None, a.closed = None,
         NEW b, b = CommitsEdit(a),
         NEW f, f = [e EXCEPT ![a.editor.version.gen] = Committed(a.editor.version.rev)]
  PROVE  Handled(b, js, us, os, f) /\ Continues(a, b) /\ Left(b)
<1> DEFINE v == a.editor.version
           m == [only |-> a.editorOnly, commit |-> "waits", persist |-> "waits",
                 version |-> v, unsaved |-> TRUE]
           j == [Job("commit") EXCEPT !.version = v]
           F == IF a.outstanding = {} THEN NoFates ELSE [a.fates EXCEPT ![v.gen] = Committed(v.rev)]
           c == [a EXCEPT !.close = m, !.retention = NoRetention, !.fates = F]
<1>1. /\ Steady(a) /\ a \in Apps /\ a.nextGen \in Nat /\ a.fates \in [Gens -> Ends]
      /\ e \in [Gens -> Ends] /\ a.editorOnly \in BOOLEAN
  BY DEF Handled, Steady, Apps, Agreed, Ended
<1>2. v \in EditVersions
  <2>1. v.gen \in 1..(a.nextGen - 1) BY <1>1 DEF Steady, Sessions, Editing, Active
  <2>2. v # Plain BY <1>1, <2>1 DEF Plain, Version
  <2> QED BY <1>1, <2>2, NoneIsApart DEF Apps
<1>3. v.gen \in Gens /\ Committed(v.rev) \in Ends /\ NoFates \in [Gens -> Ends]
  BY <1>2, NoneIsApart DEF Ends, NoFates
<1>4. m \in Closes /\ m.version = v /\ m.commit = "waits" /\ (a.visible => ~m.only)
  BY <1>1, <1>2 DEF Closes, Answered, Steady, Adopted
<1>5. F \in [Gens -> Ends] BY <1>1, <1>3
<1>6. \/ a.outstanding = {}
      \/ \A g \in Gens : F[g] = IF g = v.gen THEN Committed(v.rev) ELSE a.fates[g]
  BY <1>1, <1>3
<1>7. j \in JobShape /\ j.do = "commit" /\ j.action = 0 /\ j.version = v
  <2>1. v \in Versions BY <1>2, NoneIsApart
  <2> QED BY <1>2, <2>1 DEF Job, JobShape, Doings
<1>8. b = Post(c, j)
  <2>1. CASE a.outstanding = {}
    BY <1>1, <2>1, ZenonT(60) DEF CommitsEdit, PruneFates, Post, Apps
  <2>2. CASE a.outstanding # {}
    BY <1>1, <2>2, ZenonT(60) DEF CommitsEdit, PruneFates, Post, Apps
  <2> QED BY <2>1, <2>2
<1>9. Recorded(e, f, v)
  <2>1. f \in [Gens -> Ends] /\ \A g \in Gens : f[g] = IF g = v.gen THEN Committed(v.rev) ELSE e[g]
    BY <1>1, <1>3
  <2> QED BY <1>2, <2>1 DEF Recorded
<1>10. Freezes(a, c, m)
  <2> HIDE DEF m, F
  <2>1. c.fates = F BY <1>1 DEF Apps
  <2> QED BY <1>4, <1>5, <1>6, <2>1 DEF Freezes
<1>18. c.close = m /\ c.editor = a.editor
  <2> HIDE DEF m, F
  <2> QED BY <1>1 DEF Apps
<1> HIDE DEF m, j, F, c
<1>11. Handled(c, js, us, os, f) /\ Follows(a, c) /\ Uncommitted(c, Queued(js, c), os)
  BY <1>9, <1>10, FreezesHandled
<1>12. Steady(c) /\ Waiting(c) /\ Agreed(c, Queued(js, c), us, os, f, "handling") BY <1>11 DEF Handled
<1>13. Admits(c, Queued(js, c), os, f, "handling", j)
  <2>1. Numbered(c, j) BY <1>7, <1>12, ZeroNumbered
  <2>2. Judges(c, f, j.action, j.version)
    <3>1. 0 \notin Ids(c) BY <1>12, IdTypes DEF Steady
    <3> QED BY <1>7, <3>1 DEF Judges
  <2>3. c.close # None BY <1>4, <1>18, NoneIsApart
  <2> QED BY <1>4, <1>7, <1>11, <1>18, <2>1, <2>2, <2>3 DEF Admits, Uncommitted
<1>14. Steady(b) /\ Agreed(b, Queued(js, b), us, os, f, "handling") BY <1>8, <1>12, <1>13, Posting
<1>15. SameView(c, b) /\ SameCard(c, b) /\ (Waiting(b) <=> Waiting(c)) BY <1>7, <1>8, <1>12, PostKeeps
<1>16. Follows(a, b)
  <2>1. /\ b.visible = c.visible /\ b.shown = c.shown /\ b.nextGen = c.nextGen
        /\ b.editor = c.editor /\ b.closed = c.closed
    BY <1>15 DEF SameView, SameCard
  <2> QED BY <1>11, <2>1 DEF Follows, Editing
<1>17. Left(b) BY <1>15, <1>18 DEF Left, Owns, Editing, Active, SameView
<1> QED BY <1>12, <1>14, <1>15, <1>16, <1>17, FollowsContinues DEF Handled

\* an editing session that may end
Closable(a, q, us, os, e) ==
  /\ Steady(a) /\ Waiting(a) /\ Agreed(a, q, us, os, e, "closing")
  /\ Active(a) /\ a.close = None /\ a.closed = None

\* no editor is left, and nothing is put off
AtRest(a) ==
  /\ Active(a) /\ a.close = None /\ a.closed = None /\ ~a.deferredOverflow
  /\ ~a.visible /\ CardOutputPending(a) => a.inFlight

Gone(a, b) ==
  /\ b.visible = a.visible /\ b.shown = a.shown /\ b.nextGen = a.nextGen
  /\ ~b.opening /\ ~Editing(b) /\ (CardOutputPending(a) => CardOutputPending(b))

LEMMA NoEditorHandled ==
  ASSUME NEW q, NEW us, NEW os, NEW e,
         NEW a, Steady(a), Agreed(a, q, us, os, e, "closing"), AtRest(a),
         NEW b, b = [a EXCEPT !.editorOnly = FALSE, !.opening = FALSE, !.editor = NoEditor]
  PROVE  /\ Steady(b) /\ Waiting(b) /\ Agreed(b, q, us, os, e, "handling")
         /\ Gone(a, b)
<1>1. a \in Apps BY DEF Steady
<1>20. /\ Active(a) /\ a.close = None /\ a.closed = None /\ ~a.deferredOverflow
       /\ ~a.visible /\ CardOutputPending(a) => a.inFlight
  BY DEF AtRest
<1>2. NoEditor \in [phase : {"none", "asked", "open"}, version : Versions] /\ NoEditor.phase = "none"
  BY NoneIsApart DEF NoEditor
<1>3. b \in Apps
  <2> HIDE DEF NoEditor
  <2> QED BY <1>1, <1>2, ZenonT(60) DEF Apps
<1>4. /\ SameCard(a, b) /\ SameOutputs(a, b) /\ b.posted = a.posted /\ b.dialog = a.dialog
      /\ b.nextGen = a.nextGen /\ b.finalizing = a.finalizing /\ ~b.editorOnly /\ ~b.opening
      /\ b.editor = NoEditor /\ b.close = None /\ b.closed = None
      /\ b.deferredSave = a.deferredSave /\ b.deferredClose = a.deferredClose
      /\ b.deferredOverflow = a.deferredOverflow /\ b.inFlight = a.inFlight
      /\ b.checkClose = a.checkClose /\ b.checkOverflow = a.checkOverflow /\ b.recovery = a.recovery
  BY <1>1, <1>20 DEF Apps, SameCard, SameOutputs
<1>5. ~Editing(b) /\ Editing(a) /\ ~Active(b) BY <1>2, <1>4, <1>20 DEF Editing, Active
<1>6. Counted(b) BY <1>4 DEF Steady, Counted, SameOutputs, Ids
<1>7. Withdrawn(b) /\ Displayed(b) /\ Filing(b)
  BY <1>4 DEF Steady, Withdrawn, Displayed, Filing, SameCard, SameOutputs
<1>8. Sessions(b) BY <1>4, <1>5 DEF Steady, Sessions, Editing
<1>9. Adopted(b) /\ Freezing(b) BY <1>4 DEF Adopted, Freezing
<1>10. Steady(b) BY <1>3, <1>6, <1>7, <1>8, <1>9 DEF Steady
<1>11. CardOutputPending(a) <=> CardOutputPending(b) BY <1>4 DEF CardOutputPending, SameOutputs
<1>12. Waiting(b) BY <1>4, <1>5, <1>11, <1>20 DEF Waiting, SameCard
<1>13. \A m : ToldOf(b, e, m) <=> ToldOf(a, e, m)
  BY <1>4 DEF ToldOf, Numbered, Judges, SameOutputs, SameCard, Ids
<1>14. Messages(b, q, us, os, e)
  BY <1>4, <1>13 DEF Agreed, Messages, Judges, SameOutputs, SameCard, Ids
<1>15. Uploads(b, q, us, os) BY <1>4, Zenon DEF Agreed, Uploads, Uploading, Exporting, SameOutputs
<1>16. Opening(b, q, os) /\ Releasable(b, q) BY <1>5 DEF Agreed, Opening, Releasable
<1>17. Checking(b, q, os, "handling") BY <1>4, <1>5 DEF Agreed, Checking, SameCard
<1>18. Committing(b, q, os) BY <1>4, <1>20 DEF Agreed, Committing, SameCard
<1>19. Ended(b, e, "handling") BY <1>4, <1>5 DEF Agreed, Ended
<1> QED BY <1>4, <1>5, <1>10, <1>11, <1>12, <1>14, <1>15, <1>16, <1>17, <1>18, <1>19 DEF Agreed, SameCard, Gone

Nobody(a) == ~a.visible /\ ~a.opening /\ ~Editing(a)

LEMMA ReleasedHandled ==
  ASSUME NEW js \in Seq(JobShape), NEW us, NEW os, NEW e,
         NEW a, Handled(a, js, us, os, e), Nobody(a)
  PROVE  Asked(a, Post(a, Job("release")), js, us, os, e) /\ Left(Post(a, Job("release")))
<1> DEFINE b == Post(a, Job("release"))
<1>1. Steady(a) /\ Waiting(a) /\ Agreed(a, Queued(js, a), us, os, e, "handling") BY DEF Handled
<1>2. ~a.visible /\ ~a.opening /\ ~Editing(a) BY DEF Nobody
<1>3. b = Post(a, Job("release")) OBVIOUS
<1> HIDE DEF b
<1>4. /\ Steady(b) /\ Agreed(b, Queued(js, b), us, os, e, "handling") /\ Left(b)
      /\ SameView(a, b) /\ SameCard(a, b) /\ (Waiting(b) <=> Waiting(a))
  BY <1>1, <1>2, <1>3, ReleasesPosts
<1>5. Follows(a, b) BY <1>4, SameFollows
<1> QED BY <1>1, <1>3, <1>4, <1>5 DEF Asked, Handled

LEMMA FollowsTwice ==
  ASSUME NEW a, NEW b, NEW c, Follows(a, b), Follows(b, c) PROVE Follows(a, c)
  BY DEF Follows, Editing

Ceases(a, b, js, us, os, e) ==
  Handled(b, js, us, os, e) /\ Follows(a, b) /\ Left(b) /\ ~Editing(b)

\* an editor closes, and with it goes what it alone needed
LEMMA EditorGone ==
  ASSUME NEW js \in Seq(JobShape), NEW us, NEW os, NEW e,
         NEW a, Closable(a, Queued(js, a), us, os, e), NEW version \in Versions, Fresh(a, e, version),
         NEW c, c = Settles(a, version),
         NEW d, d = [c EXCEPT !.editorOnly = FALSE, !.opening = FALSE, !.editor = NoEditor],
         NEW b, b = IF c.editorOnly THEN Post(d, Job("release")) ELSE d
  PROVE  Ceases(a, b, js, us, os, e)
<1>1. /\ Steady(a) /\ Waiting(a) /\ Agreed(a, Queued(js, a), us, os, e, "closing")
      /\ Active(a) /\ a.close = None /\ a.closed = None /\ Editing(a)
  BY DEF Closable, Active, Editing
<1>2. ~a.opening /\ Cared(a) BY <1>1 DEF Steady, Sessions, Waiting, Cared
<1>3. ~a.visible /\ CardOutputPending(a) => a.inFlight \/ a.deferredOverflow BY <1>1 DEF Waiting
<1>4. /\ Steady(c) /\ Agreed(c, Queued(js, c), us, os, e, "closing") /\ Moves(a, c)
      /\ ~c.deferredOverflow
      /\ ~c.visible /\ CardOutputPending(c) => c.inFlight
      /\ Cared(c)
  BY <1>1, <1>2, <1>3, SettlesMoves
<1>5. Active(c) /\ Editing(c) /\ c.close = None /\ c.closed = None
  BY <1>1, <1>4 DEF Moves, SameView, Active, Editing
<1>6. /\ Steady(d) /\ Waiting(d) /\ Agreed(d, Queued(js, c), us, os, e, "handling")
      /\ Gone(c, d)
  <2>1. AtRest(c) BY <1>4, <1>5 DEF AtRest
  <2> QED BY <1>4, <2>1, NoEditorHandled, Zenon
<1>7. Queued(js, d) = Queued(js, c)
  <2>1. d.posted = c.posted BY <1>4 DEF Steady, Apps
  <2> QED BY <2>1 DEF Queued
<1>8. Follows(a, d) BY <1>4, <1>6 DEF Follows, Moves, SameView, Gone
<1>9. CASE c.editorOnly
  <2>1. b = Post(d, Job("release")) BY <1>9
  <2>2. Handled(d, js, us, os, e) BY <1>6, <1>7 DEF Handled
  <2>3. Nobody(d) BY <1>4, <1>6, <1>9 DEF Steady, Adopted, Gone, Nobody
  <2>4. Asked(d, b, js, us, os, e) /\ Left(b)
    <3>1. Asked(d, Post(d, Job("release")), js, us, os, e) /\ Left(Post(d, Job("release")))
      BY <2>2, <2>3, ReleasedHandled
    <3> QED BY <2>1, <3>1
  <2>5. Follows(a, b) BY <1>8, <2>4, FollowsTwice DEF Asked
  <2>6. ~Editing(b) BY <2>3, <2>4 DEF Asked, Follows, Nobody, Editing
  <2> QED BY <2>4, <2>5, <2>6 DEF Asked, Ceases
<1>10. CASE ~c.editorOnly
  <2>1. b = d BY <1>10
  <2>2. d.visible \/ CardOutputPending(d) BY <1>4, <1>5, <1>6, <1>10 DEF Cared, Gone
  <2>3. Left(d) BY <2>2 DEF Left, Owns
  <2> QED BY <1>6, <1>7, <1>8, <2>1, <2>3 DEF Handled, Gone, Ceases
<1> QED BY <1>9, <1>10

\* what EditorClosed makes of a card whose session has ended
CloseOf(a, version) ==
  LET c == Settles(a, version)
      d == [c EXCEPT !.editorOnly = FALSE, !.opening = FALSE, !.editor = NoEditor]
  IN IF c.editorOnly THEN Post(d, Job("release")) ELSE d

LEMMA CloseOfIs ==
  ASSUME NEW c \in Apps,
         NEW b, b = [(IF c.editorOnly THEN Post([c EXCEPT !.editorOnly = FALSE], Job("release")) ELSE c)
                       EXCEPT !.opening = FALSE, !.editor = NoEditor]
  PROVE  b = IF c.editorOnly
               THEN Post([c EXCEPT !.editorOnly = FALSE, !.opening = FALSE, !.editor = NoEditor],
                         Job("release"))
               ELSE [c EXCEPT !.editorOnly = FALSE, !.opening = FALSE, !.editor = NoEditor]
<1>1. CASE c.editorOnly
  <2> DEFINE p == Append(c.posted, Job("release"))
             e == NoEditor
  <2>1. Post([c EXCEPT !.editorOnly = FALSE], Job("release")) = [c EXCEPT !.editorOnly = FALSE, !.posted = p]
    BY DEF Post, Apps
  <2>2. Post([c EXCEPT !.editorOnly = FALSE, !.opening = FALSE, !.editor = e], Job("release"))
          = [c EXCEPT !.editorOnly = FALSE, !.opening = FALSE, !.editor = e, !.posted = p]
    BY DEF Post, Apps
  <2>3. b = [Post([c EXCEPT !.editorOnly = FALSE], Job("release")) EXCEPT !.opening = FALSE, !.editor = e]
    BY <1>1
  <2> HIDE DEF p, e
  <2>4. [[c EXCEPT !.editorOnly = FALSE, !.posted = p] EXCEPT !.opening = FALSE, !.editor = e]
          = [c EXCEPT !.editorOnly = FALSE, !.opening = FALSE, !.editor = e, !.posted = p]
    BY DEF Apps
  <2>5. b = Post([c EXCEPT !.editorOnly = FALSE, !.opening = FALSE, !.editor = e], Job("release"))
    BY <2>1, <2>2, <2>3, <2>4
  <2> QED BY <1>1, <2>5 DEF e
<1>2. CASE ~c.editorOnly
  <2>1. c = [c EXCEPT !.editorOnly = FALSE]
    <3>1. c = [c EXCEPT !.editorOnly = c.editorOnly] BY DEF Apps
    <3>2. c.editorOnly \in BOOLEAN BY DEF Apps
    <3>3. c.editorOnly = FALSE BY <1>2, <3>2, Zenon
    <3> QED BY <3>1, <3>3
  <2>2. b = [c EXCEPT !.opening = FALSE, !.editor = NoEditor] BY <1>2
  <2>3. [c EXCEPT !.opening = FALSE, !.editor = NoEditor]
          = [c EXCEPT !.editorOnly = FALSE, !.opening = FALSE, !.editor = NoEditor]
    BY <2>1 DEF Apps
  <2> QED BY <1>2, <2>2, <2>3
<1> QED BY <1>1, <1>2

LEMMA SettlesTyped ==
  ASSUME NEW js \in Seq(JobShape), NEW us, NEW os, NEW e,
         NEW a, Closable(a, Queued(js, a), us, os, e), NEW version \in Versions, Fresh(a, e, version)
  PROVE  Settles(a, version) \in Apps
<1> DEFINE c == Settles(a, version)
<1>1. /\ Steady(a) /\ Agreed(a, Queued(js, a), us, os, e, "closing") BY DEF Closable
<1>2. ~a.opening BY DEF Closable, Steady, Sessions
<1>3. ~a.visible /\ CardOutputPending(a) => a.inFlight \/ a.deferredOverflow BY DEF Closable, Waiting
<1>4. c = Settles(a, version) OBVIOUS
<1> HIDE DEF c
<1>5. Steady(c) BY <1>1, <1>2, <1>3, <1>4, SettlesMoves
<1> QED BY <1>4, <1>5 DEF Steady

LEMMA CloseOfHandled ==
  ASSUME NEW js \in Seq(JobShape), NEW us, NEW os, NEW e,
         NEW a, Closable(a, Queued(js, a), us, os, e), NEW version \in Versions, Fresh(a, e, version)
  PROVE  /\ Settles(a, version) \in Apps
         /\ Ceases(a, CloseOf(a, version), js, us, os, e)
<1> DEFINE c == Settles(a, version)
           d == [c EXCEPT !.editorOnly = FALSE, !.opening = FALSE, !.editor = NoEditor]
           b == IF c.editorOnly THEN Post(d, Job("release")) ELSE d
<1>1. c \in Apps BY SettlesTyped
<1>2. c = Settles(a, version) OBVIOUS
<1>3. d = [c EXCEPT !.editorOnly = FALSE, !.opening = FALSE, !.editor = NoEditor] OBVIOUS
<1>4. b = IF c.editorOnly THEN Post(d, Job("release")) ELSE d OBVIOUS
<1>5. CloseOf(a, version) = b BY DEF CloseOf
<1> HIDE DEF c, d, b
<1>6. Ceases(a, b, js, us, os, e) BY <1>2, <1>3, <1>4, EditorGone, Zenon
<1> QED BY <1>1, <1>5, <1>6 DEF c

\* the editor closes as it is
LEMMA CommittedCloses ==
  ASSUME NEW js \in Seq(JobShape), NEW us, NEW os, NEW e,
         NEW a, Closable(a, Queued(js, a), us, os, e), Fresh(a, e, Edited(a)),
         NEW b, b = EditorClosed(a, TRUE)
  PROVE  Ceases(a, b, js, us, os, e)
<1> DEFINE version == Edited(a)
           c == Settles(a, version)
<1>1. version \in Versions BY NoneIsApart DEF Closable, Steady, Apps, Edited
<1>2. c \in Apps /\ Ceases(a, CloseOf(a, version), js, us, os, e)
  <2>1. Fresh(a, e, version) OBVIOUS
  <2> HIDE DEF version
  <2> QED BY <1>1, <2>1, CloseOfHandled
<1>3. b = [(IF c.editorOnly THEN Post([c EXCEPT !.editorOnly = FALSE], Job("release")) ELSE c)
             EXCEPT !.opening = FALSE, !.editor = NoEditor]
  BY DEF EditorClosed, Settles
<1>4. CloseOf(a, version)
        = IF c.editorOnly
            THEN Post([c EXCEPT !.editorOnly = FALSE, !.opening = FALSE, !.editor = NoEditor],
                      Job("release"))
            ELSE [c EXCEPT !.editorOnly = FALSE, !.opening = FALSE, !.editor = NoEditor]
  BY SMTT(30) DEF CloseOf
<1> HIDE DEF c
<1>5. b = CloseOf(a, version) BY <1>2, <1>3, <1>4, CloseOfIs, Zenon
<1> QED BY <1>2, <1>5

LEMMA ClosableIs ==
  ASSUME NEW js \in Seq(JobShape), NEW us, NEW os, NEW e,
         NEW a, Handled(a, js, us, os, e), Active(a), a.close = None, a.closed = None
  PROVE  Closable(a, Queued(js, a), us, os, e)
<1> DEFINE q == Queued(js, a)
<1>1. Steady(a) /\ Waiting(a) /\ Agreed(a, q, us, os, e, "handling") BY DEF Handled
<1> HIDE DEF q
<1>2. Agreed(a, q, us, os, e, "closing") BY <1>1 DEF Agreed, Checking, Ended
<1> QED BY <1>1, <1>2 DEF Closable, q

\* the user is done, and nothing was changed
LEMMA DoneHandledUnchanged ==
  ASSUME NEW js \in Seq(JobShape), NEW us, NEW os, NEW e,
         NEW a, Handled(a, js, us, os, e), Active(a), a.close = None, a.closed = None,
         NEW b, b = EditorClosed(a, TRUE)
  PROVE  Ceases(a, b, js, us, os, e)
<1>1. Fresh(a, e, Edited(a)) BY EditedFresh DEF Handled
<1>2. Closable(a, Queued(js, a), us, os, e) BY ClosableIs
<1> QED BY <1>1, <1>2, CommittedCloses

\* the editor took note of how its close went
LEMMA NotesClosed ==
  ASSUME NEW js \in Seq(JobShape), NEW us, NEW os, NEW e,
         NEW a, Handled(a, js, us, os, e), a.closed # None, NEW b, b = [a EXCEPT !.closed = None]
  PROVE  /\ Closable(b, Queued(js, b), us, os, e) /\ Fresh(b, e, Edited(b))
         /\ SameCard(a, b) /\ b.editor = a.editor /\ b.nextGen = a.nextGen /\ (Left(a) => Left(b))
         /\ a.closed = "failed" => Handled(b, js, us, os, e)
<1> DEFINE q == Queued(js, a)
<1>1. Steady(a) /\ a \in Apps /\ Waiting(a) /\ Agreed(a, q, us, os, e, "handling") BY DEF Handled, Steady
<1> HIDE DEF q
<1>2. b \in Apps BY <1>1, ZenonT(30) DEF Apps
<1>3. SameRemainder(a, b) /\ b.editor = a.editor /\ b.opening = a.opening /\ b.close = a.close /\ b.closed = None
  BY <1>1 DEF Apps, SameRemainder, SameCard, SameWaits, SameOutputs
<1>4. Active(a) /\ a.close = None BY <1>1 DEF Steady, Freezing
<1>5. Counted(b) /\ Withdrawn(b) /\ Displayed(b) /\ Filing(b) BY <1>1, <1>2, <1>3, RemainderSteady
<1>6. Sessions(b) BY <1>1, <1>3 DEF Steady, Sessions, SameRemainder, SameWaits, Editing, Active
<1>7. Adopted(b)
  BY <1>1, <1>3 DEF Steady, Adopted, SameRemainder, SameWaits, SameCard, SameOutputs, CardOutputPending, Editing
<1>8. Freezing(b) BY <1>3, <1>4 DEF Freezing
<1>9. Steady(b) BY <1>2, <1>5, <1>6, <1>7, <1>8 DEF Steady
<1>10. Waiting(b)
  BY <1>1, <1>3 DEF Waiting, SameRemainder, SameWaits, SameCard, SameOutputs, CardOutputPending, Editing, Active
<1>11. Messages(b, q, us, os, e) /\ Uploads(b, q, us, os) BY <1>1, <1>3, RemainderTold
<1>12. Opening(b, q, os) /\ Releasable(b, q)
  BY <1>1, <1>3 DEF Agreed, Opening, Releasable, SameRemainder, SameCard, Editing
<1>13. Checking(b, q, os, "handling") /\ Committing(b, q, os)
  BY <1>1, <1>3 DEF Agreed, Checking, Committing, SameRemainder, SameCard, SameWaits, Editing
<1>14. Ended(b, e, "closing") BY <1>1, <1>3 DEF Agreed, Ended, SameRemainder
<1>15. a.closed = "failed" => Ended(b, e, "handling")
  BY <1>1, <1>3, <1>4, NoneIsApart DEF Agreed, Ended, SameRemainder, SameCard, Editing
<1>16. Queued(js, b) = q BY <1>3 DEF Queued, q, SameRemainder
<1>17. Closable(b, q, us, os, e)
  <2>1. Checking(b, q, os, "closing") BY <1>13 DEF Checking
  <2>2. Active(b) BY <1>3, <1>4 DEF Active
  <2> QED BY <1>3, <1>4, <1>9, <1>10, <1>11, <1>12, <1>13, <1>14, <2>1, <2>2 DEF Closable, Agreed
<1>18. Fresh(b, e, Edited(b))
  <2>1. Fresh(a, e, Edited(a)) BY <1>1, EditedFresh
  <2>2. Edited(b) = Edited(a) BY <1>3 DEF Edited
  <2> QED BY <1>3, <2>1, <2>2 DEF Fresh, SameRemainder, SameCard
<1>19. Left(a) => Left(b)
  BY <1>3 DEF Left, Owns, SameRemainder, SameCard, SameOutputs, Editing, CardOutputPending
<1>20. a.closed = "failed" => Handled(b, js, us, os, e)
  BY <1>9, <1>10, <1>11, <1>12, <1>13, <1>15, <1>16 DEF Handled, Agreed
<1> QED BY <1>3, <1>16, <1>17, <1>18, <1>19, <1>20 DEF SameRemainder

\* what EndsClose makes of the main thread
Thaws(a) ==
  IF a.closed = "committed" THEN EditorClosed([a EXCEPT !.closed = None], TRUE)
  ELSE [a EXCEPT !.closed = None]

LEMMA EndsCloseHandled ==
  ASSUME NEW js \in Seq(JobShape), NEW us, NEW os, NEW e,
         NEW a, Handled(a, js, us, os, e), a.closed # None, NEW b, b = Thaws(a)
  PROVE  Handled(b, js, us, os, e) /\ Continues(a, b) /\ (Left(a) => Left(b))
<1> DEFINE c == [a EXCEPT !.closed = None]
<1>1. /\ Closable(c, Queued(js, c), us, os, e) /\ Fresh(c, e, Edited(c))
      /\ SameCard(a, c) /\ c.editor = a.editor /\ c.nextGen = a.nextGen /\ (Left(a) => Left(c))
      /\ a.closed = "failed" => Handled(c, js, us, os, e)
  BY NotesClosed
<1>2. a.closed \in {"committed", "failed"} BY DEF Handled, Steady, Apps
<1>3. CASE a.closed = "committed"
  <2>1. b = EditorClosed(c, TRUE) BY <1>3 DEF Thaws
  <2> HIDE DEF c
  <2>2. Ceases(c, b, js, us, os, e) BY <1>1, <2>1, CommittedCloses
  <2>3. Continues(a, b) BY <1>1, <2>2 DEF Ceases, Follows, Continues, SameCard
  <2> QED BY <2>2, <2>3 DEF Ceases
<1>4. CASE a.closed = "failed"
  <2>1. b = c
    <3>1. a.closed # "committed" BY <1>4
    <3> QED BY <3>1 DEF Thaws
  <2> HIDE DEF c
  <2>2. Continues(a, b) BY <1>1, <1>4, <2>1 DEF Continues, SameCard, Editing
  <2> QED BY <1>1, <1>4, <2>1, <2>2
<1> QED BY <1>2, <1>3, <1>4

\* a session is cancelled
Cancels(a, t, e, f) ==
  /\ t = [a EXCEPT !.fates = t.fates] /\ t.fates \in [Gens -> Ends] /\ f \in [Gens -> Ends]
  /\ \A g \in Gens : f[g] = IF g = a.editor.version.gen THEN Cancelled ELSE e[g]
  /\ \/ a.outstanding = {}
     \/ \A g \in Gens : t.fates[g] = IF g = a.editor.version.gen THEN Cancelled ELSE a.fates[g]

LEMMA CancelsClosable ==
  ASSUME NEW js \in Seq(JobShape), NEW us, NEW os, NEW e,
         NEW a, Handled(a, js, us, os, e), Active(a), a.close = None, a.closed = None,
         NEW t, NEW f, Cancels(a, t, e, f)
  PROVE  Closable(t, Queued(js, t), us, os, f) /\ SameView(a, t) /\ SameCard(a, t)
<1> DEFINE q == Queued(js, a)
           v == a.editor.version
<1>1. Steady(a) /\ a \in Apps /\ Waiting(a) /\ Agreed(a, q, us, os, e, "handling") BY DEF Handled, Steady
<1> HIDE DEF q
<1>2. t \in Apps
  <2> DEFINE F == t.fates
  <2>1. t = [a EXCEPT !.fates = F] /\ F \in [Gens -> Ends] BY DEF Cancels
  <2> HIDE DEF F
  <2> QED BY <1>1, <2>1, ZenonT(30) DEF Apps
<1>3. /\ SameView(a, t) /\ SameCard(a, t) /\ SameWaits(a, t) /\ t.posted = a.posted
      /\ t.outstanding = a.outstanding /\ t.current = a.current /\ t.nextAction = a.nextAction
  <2> DEFINE F == t.fates
  <2>1. t = [a EXCEPT !.fates = F] BY DEF Cancels
  <2> HIDE DEF F
  <2> QED BY <1>1, <2>1 DEF Apps, SameView, SameCard, SameWaits
<1>4. Counted(t) BY <1>1, <1>3 DEF Steady, Counted, SameView, SameWaits, Ids
<1>5. Withdrawn(t) /\ Displayed(t) /\ Filing(t)
  BY <1>1, <1>3 DEF Steady, Withdrawn, Displayed, Filing, SameView, SameCard, SameWaits
<1>6. Sessions(t) /\ Adopted(t) /\ Freezing(t)
  BY <1>1, <1>3 DEF Steady, Sessions, Adopted, Freezing, Editing, Active, CardOutputPending, SameView,
                    SameCard, SameWaits
<1>7. Steady(t) BY <1>2, <1>4, <1>5, <1>6 DEF Steady
<1>8. Waiting(t)
  BY <1>1, <1>3 DEF Waiting, SameView, SameCard, SameWaits, Editing, Active, CardOutputPending
<1>9. ASSUME NEW id, NEW w \in Versions, Judges(a, e, id, w) PROVE Judges(t, f, id, w)
  <2> SUFFICES ASSUME t.visible, id \in Ids(t), w # Plain
               PROVE  /\ w.gen < t.nextGen
                      /\ \/ f[w.gen] \in {Open, Committed(w.rev)}
                         \/ t.fates[w.gen] = f[w.gen]
    BY DEF Judges
  <2>1. w.gen \in Gens BY NoneIsApart
  <2>2. /\ w.gen < a.nextGen
        /\ \/ e[w.gen] \in {Open, Committed(w.rev)}
           \/ a.fates[w.gen] = e[w.gen]
    BY <1>3, <1>9 DEF Judges, SameCard, Ids
  <2>3. a.outstanding # {} BY <1>3 DEF Ids
  <2>4. t.fates[w.gen] = IF w.gen = v.gen THEN Cancelled ELSE a.fates[w.gen]
    BY <2>1, <2>3 DEF Cancels
  <2>5. f[w.gen] = IF w.gen = v.gen THEN Cancelled ELSE e[w.gen] BY <2>1 DEF Cancels
  <2> QED BY <1>3, <2>2, <2>4, <2>5 DEF SameView
<1>10. Messages(t, q, us, os, f)
  <2>1. q \in Seq(JobShape) /\ us \in Seq(JobShape) /\ os \in Seq(OutcomeShape)
    BY <1>1 DEF Agreed, Messages
  <2>2. \A x : Numbered(t, x) <=> Numbered(a, x) BY <1>3 DEF Numbered, SameWaits, SameView
  <2>3. ASSUME NEW i \in DOMAIN q PROVE ToldOf(t, f, q[i])
    <3>1. q[i].version \in Versions BY <2>1 DEF JobShape
    <3> QED BY <1>1, <1>9, <2>2, <3>1 DEF Agreed, Messages, ToldOf
  <2>4. ASSUME NEW i \in DOMAIN us PROVE ToldOf(t, f, us[i])
    <3>1. us[i].version \in Versions BY <2>1 DEF JobShape
    <3> QED BY <1>1, <1>9, <2>2, <3>1 DEF Agreed, Messages, ToldOf
  <2>5. ASSUME NEW i \in DOMAIN os PROVE ToldOf(t, f, os[i])
    <3>0. os[i] \in OutcomeShape BY <2>1
    <3>1. os[i].version \in Versions BY <3>0, Zenon DEF OutcomeShape
    <3> QED BY <1>1, <1>9, <2>2, <3>1 DEF Agreed, Messages, ToldOf
  <2>6. ASSUME t.dialog # None PROVE Judges(t, f, t.dialog.id, t.dialog.version)
    <3>1. t.dialog = a.dialog /\ a.dialog.version \in Versions
      BY <1>1, <1>3, <2>6 DEF Apps, Dialogs, SameView
    <3> QED BY <1>1, <1>9, <2>6, <3>1 DEF Agreed, Messages
  <2> QED BY <2>1, <2>3, <2>4, <2>5, <2>6 DEF Messages
<1>11. Uploads(t, q, us, os) BY <1>1, <1>3, Zenon DEF Agreed, Uploads, Uploading, Exporting
<1>12. Opening(t, q, os) /\ Releasable(t, q)
  BY <1>1, <1>3 DEF Agreed, Opening, Releasable, Editing, SameView, SameCard
<1>13. Checking(t, q, os, "closing") /\ Committing(t, q, os)
  BY <1>1, <1>3 DEF Agreed, Checking, Committing, SameView, SameCard, SameWaits, Editing
<1>14. Ended(t, f, "closing")
  <2>1. a.nextGen \in Nat /\ v.gen \in 1..(a.nextGen - 1)
    BY <1>1 DEF Steady, Sessions, Apps, Active, Editing
  <2>2. v.gen < a.nextGen BY <2>1
  <2>3. \A g \in Gens : g >= t.nextGen => f[g] = Open
    <3>1. \A g \in Gens : g >= t.nextGen => g # v.gen
      <4>1. Gens \subseteq Nat BY DEF Gens
      <4> QED BY <1>3, <2>1, <2>2, <4>1 DEF SameView
    <3> QED BY <1>1, <1>3, <3>1 DEF Agreed, Ended, Cancels, SameView
  <2> QED BY <2>3 DEF Ended, Cancels
<1>15. Queued(js, t) = q BY <1>3 DEF Queued, q
<1>16. Active(t) /\ t.close = None /\ t.closed = None BY <1>3 DEF SameView, Active
<1> QED BY <1>3, <1>7, <1>8, <1>10, <1>11, <1>12, <1>13, <1>14, <1>15, <1>16 DEF Closable, Agreed

LEMMA CancelHandled ==
  ASSUME NEW js \in Seq(JobShape), NEW us, NEW os, NEW e,
         NEW a, Handled(a, js, us, os, e), Active(a), a.close = None, a.closed = None,
         NEW b, b = EditorClosed(a, FALSE),
         NEW f, f = [e EXCEPT ![a.editor.version.gen] = Cancelled]
  PROVE  Ceases(a, b, js, us, os, f)
<1> DEFINE g == a.editor.version.gen
           F == IF a.outstanding = {} THEN NoFates ELSE [a.fates EXCEPT ![g] = Cancelled]
           t == [a EXCEPT !.fates = F]
           c == Settles(t, Plain)
           p == PruneFates([a EXCEPT !.fates[a.editor.version.gen] = Cancelled])
<1>1. /\ Steady(a) /\ a \in Apps /\ a.nextGen \in Nat /\ a.fates \in [Gens -> Ends]
      /\ e \in [Gens -> Ends] /\ MaxGen \in Nat
  BY CardAssumption DEF Handled, Steady, Apps, Agreed, Ended
<1>2. g \in Gens
  <2>1. a.nextGen \in 1..(MaxGen + 1) /\ g \in 1..(a.nextGen - 1) BY <1>1 DEF Steady, Sessions, Editing, Active
  <2> QED BY <1>1, <2>1 DEF Gens
<1>3. Cancelled \in Ends /\ NoFates \in [Gens -> Ends] BY DEF Ends, NoFates
<1>4. p = t BY <1>1 DEF PruneFates, Apps
<1>5. F \in [Gens -> Ends] BY <1>1, <1>2, <1>3
<1>6. \/ a.outstanding = {}
      \/ \A x \in Gens : F[x] = IF x = g THEN Cancelled ELSE a.fates[x]
  BY <1>1, <1>2
<1>7. f \in [Gens -> Ends] /\ \A x \in Gens : f[x] = IF x = g THEN Cancelled ELSE e[x]
  BY <1>1, <1>2, <1>3
<1>8. Cancels(a, t, e, f)
  <2> HIDE DEF F
  <2>1. t.fates = F BY <1>1 DEF Apps
  <2> QED BY <1>5, <1>6, <1>7, <2>1 DEF Cancels
<1> HIDE DEF t
<1>9. Closable(t, Queued(js, t), us, os, f) /\ SameView(a, t) /\ SameCard(a, t)
  BY <1>8, CancelsClosable
<1>10. c \in Apps /\ Ceases(t, CloseOf(t, Plain), js, us, os, f)
  <2>1. Plain \in Versions /\ Fresh(t, f, Plain) BY NoneIsApart, PlainFresh
  <2> QED BY <1>9, <2>1, CloseOfHandled
<1>11. b = [(IF c.editorOnly THEN Post([c EXCEPT !.editorOnly = FALSE], Job("release")) ELSE c)
              EXCEPT !.opening = FALSE, !.editor = NoEditor]
  <2>1. c = RunsDeferredOverflow(RunsDeferredClose(p, Plain), Plain) BY <1>4 DEF Settles
  <2> HIDE DEF c, p
  <2> QED BY <2>1 DEF EditorClosed, p
<1>12. CloseOf(t, Plain)
         = IF c.editorOnly
             THEN Post([c EXCEPT !.editorOnly = FALSE, !.opening = FALSE, !.editor = NoEditor],
                       Job("release"))
             ELSE [c EXCEPT !.editorOnly = FALSE, !.opening = FALSE, !.editor = NoEditor]
  BY SMTT(30) DEF CloseOf
<1> HIDE DEF c
<1>13. b = CloseOf(t, Plain) BY <1>10, <1>11, <1>12, CloseOfIs, Zenon
<1>14. Ceases(t, b, js, us, os, f) BY <1>10, <1>13
<1>15. Follows(a, b) BY <1>9, <1>14 DEF Ceases, Follows, SameView, SameCard
<1> QED BY <1>14, <1>15 DEF Ceases
-----------------------------------------------------------------------------
(* The steps                                                               *)

\* the main thread between two handlers, and the vault
Served(a, q, us, os, e, v) ==
  /\ Steady(a) /\ Waiting(a) /\ a.posted = <<>>
  /\ Agreed(a, q, us, os, e, "handling")
  /\ Keeps(a, v, os) /\ Shows(a, v, os) /\ Shelved(a, e, v, os) /\ Claimed(a, q, v)

\* all that the main thread's part reads of it
SameAll(a, b) ==
  SameView(a, b) /\ SameCard(a, b) /\ SameWaits(a, b) /\ SameOutputs(a, b)

LEMMA TakesUpIs ==
  ASSUME NEW b \in Apps, NEW c, c = [b EXCEPT !.posted = <<>>]
  PROVE  c \in Apps /\ SameAll(b, c) /\ c.posted = <<>>
<1>1. <<>> \in Seq(JobShape) OBVIOUS
<1>2. c \in Apps /\ c.posted = <<>> BY <1>1 DEF Apps
<1>3. SameView(b, c) /\ SameCard(b, c) BY DEF Apps, SameView, SameCard
<1>4. SameWaits(b, c) /\ SameOutputs(b, c) BY DEF Apps, SameWaits, SameOutputs
<1> QED BY <1>2, <1>3, <1>4 DEF SameAll

LEMMA SameAllSteady ==
  ASSUME NEW b, Steady(b), NEW c \in Apps, SameAll(b, c)
  PROVE  /\ Steady(c) /\ (Waiting(b) <=> Waiting(c)) /\ (Owns(b) <=> Owns(c))
         /\ Ids(b) = Ids(c)
<1> USE DEF SameAll, SameView, SameCard, SameWaits, SameOutputs
<1>1. Ids(b) = Ids(c) /\ (CardOutputPending(b) <=> CardOutputPending(c))
  BY DEF Ids, CardOutputPending
<1>2. (Editing(b) <=> Editing(c)) /\ (Active(b) <=> Active(c)) BY DEF Editing, Active
<1>3. Counted(c) BY <1>1 DEF Steady, Counted
<1>4. Withdrawn(c) BY DEF Steady, Withdrawn
<1>5. Displayed(c) /\ Filing(c) BY DEF Steady, Displayed, Filing
<1>6. Sessions(c) BY <1>2 DEF Steady, Sessions
<1>7. Adopted(c) BY <1>1, <1>2 DEF Steady, Adopted
<1>8. Freezing(c) BY <1>2 DEF Steady, Freezing
<1>9. Waiting(b) <=> Waiting(c) BY <1>1, <1>2 DEF Waiting
<1>10. Owns(b) <=> Owns(c) BY <1>1, <1>2 DEF Owns
<1> QED BY <1>1, <1>3, <1>4, <1>5, <1>6, <1>7, <1>8, <1>9, <1>10 DEF Steady

LEMMA SameAllAgreed ==
  ASSUME NEW b, NEW c, SameAll(b, c), Ids(b) = Ids(c), NEW q, NEW us, NEW os, NEW e, NEW stage,
         Agreed(b, q, us, os, e, stage)
  PROVE  Agreed(c, q, us, os, e, stage)
<1> USE DEF SameAll, SameView, SameCard, SameWaits, SameOutputs
<1>2. Editing(b) <=> Editing(c) BY DEF Editing
<1>3. \A m : ToldOf(b, e, m) <=> ToldOf(c, e, m) BY DEF ToldOf, Numbered, Judges
<1>4. Messages(c, q, us, os, e) BY <1>3 DEF Agreed, Messages, Judges
<1>5. \A id : (Uploading(b, id) <=> Uploading(c, id)) /\ (Exporting(b, id) <=> Exporting(c, id))
  BY DEF Uploading, Exporting
<1>6. Uploads(c, q, us, os) BY <1>5, Zenon DEF Agreed, Uploads
<1>7. Opening(c, q, os) /\ Releasable(c, q) BY <1>2 DEF Agreed, Opening, Releasable
<1>8. Checking(c, q, os, stage) BY <1>2 DEF Agreed, Checking
<1>9. Committing(c, q, os) BY DEF Agreed, Committing
<1>10. Ended(c, e, stage) BY <1>2 DEF Agreed, Ended
<1> QED BY <1>4, <1>6, <1>7, <1>8, <1>9, <1>10 DEF Agreed

LEMMA SameAllVault ==
  ASSUME NEW b, NEW c, SameAll(b, c), NEW v, NEW os, NEW e
  PROVE  /\ Keeps(b, v, os) => Keeps(c, v, os)
         /\ Shows(b, v, os) => Shows(c, v, os)
         /\ Shelved(b, e, v, os) => Shelved(c, e, v, os)
<1> USE DEF SameAll, SameView, SameCard
<1>1. Editing(b) <=> Editing(c) BY DEF Editing
<1> QED BY <1>1 DEF Keeps, Shows, Shelved

\* the jobs a handler posted are in the queue
LEMMA RunsServed ==
  ASSUME NEW js \in Seq(JobShape), NEW us, NEW os, NEW e, NEW v,
         NEW b, Handled(b, js, us, os, e),
         Keeps(b, v, os), Shows(b, v, os), Shelved(b, e, v, os),
         v.version # None => Left(b) \/ \E i \in DOMAIN js : js[i].do = "release",
         NEW c, c = [b EXCEPT !.posted = <<>>], NEW q, q = Queued(js, b)
  PROVE  Served(c, q, us, os, e, v)
<1>0. b \in Apps /\ b.posted \in Seq(JobShape) BY DEF Handled, Steady, Apps
<1>1. c \in Apps /\ SameAll(b, c) /\ c.posted = <<>> BY <1>0, TakesUpIs
<1>2. Steady(b) /\ Waiting(b) /\ Agreed(b, q, us, os, e, "handling") BY DEF Handled
<1>3. /\ Steady(c) /\ (Waiting(b) <=> Waiting(c)) /\ (Owns(b) <=> Owns(c))
      /\ Ids(b) = Ids(c)
  BY <1>1, <1>2, SameAllSteady
<1>4. Agreed(c, q, us, os, e, "handling") BY <1>1, <1>2, <1>3, SameAllAgreed
<1>5. Keeps(c, v, os) /\ Shows(c, v, os) /\ Shelved(c, e, v, os) BY <1>1, SameAllVault
<1>6. Claimed(c, q, v)
  <2>1. \A i \in DOMAIN js : i \in DOMAIN q /\ q[i] = js[i] BY <1>0 DEF Queued
  <2>2. \A i \in DOMAIN b.posted : Len(js) + i \in DOMAIN q /\ q[Len(js) + i] = b.posted[i]
    BY <1>0 DEF Queued
  <2> QED BY <1>3, <2>1, <2>2 DEF Claimed, Left
<1> QED BY <1>1, <1>2, <1>3, <1>4, <1>5, <1>6 DEF Served

LEMMA ServedHandled ==
  ASSUME NEW a, NEW q, NEW us, NEW os, NEW e, NEW v, Served(a, q, us, os, e, v)
  PROVE  /\ Handled(a, q, us, os, e) /\ q \in Seq(JobShape) /\ os \in Seq(OutcomeShape)
         /\ Queued(q, a) = q /\ a \in Apps /\ (Left(a) <=> Owns(a))
<1>1. q \in Seq(JobShape) /\ os \in Seq(OutcomeShape) BY DEF Served, Agreed, Messages
<1>2. Queued(q, a) = q BY <1>1 DEF Served, Queued
<1>3. Left(a) <=> Owns(a) BY DEF Left, Served
<1> QED BY <1>1, <1>2, <1>3 DEF Served, Handled, Steady

\* nothing of the session that the vault's pixels are from was told otherwise
Spares(a, e, f, v) ==
  a.visible /\ v.version \notin {None, Plain} => f[v.version.gen] \in {e[v.version.gen], Open}

\* the vault serves the main thread as it did before
LEMMA VaultStays ==
  ASSUME NEW a, NEW b, Continues(a, b), NEW v, NEW os, NEW e, NEW f, Spares(a, e, f, v),
         Keeps(a, v, os), Shows(a, v, os), Shelved(a, e, v, os)
  PROVE  Keeps(b, v, os) /\ Shows(b, v, os) /\ Shelved(b, f, v, os)
<1>1. Keeps(b, v, os) BY DEF Continues, Keeps
<1>2. Shows(b, v, os) BY DEF Continues, Shows
<1>3. Shelved(b, f, v, os)
  <2> SUFFICES ASSUME b.visible, v.version \notin {None, Plain}
               PROVE  /\ v.version.gen < b.nextGen
                      /\ f[v.version.gen] \in {Open, Committed(v.version.rev)}
                      /\ Editing(b) /\ b.editor.version.gen = v.version.gen =>
                           \/ b.closed = "committed"
                           \/ \E i \in DOMAIN os : os[i].what = "committed"
    BY DEF Shelved
  <2>1. a.visible BY DEF Continues
  <2>2. /\ v.version.gen < a.nextGen
        /\ e[v.version.gen] \in {Open, Committed(v.version.rev)}
        /\ Editing(a) /\ a.editor.version.gen = v.version.gen =>
             \/ a.closed = "committed"
             \/ \E i \in DOMAIN os : os[i].what = "committed"
    BY <2>1 DEF Shelved
  <2>3. f[v.version.gen] \in {Open, Committed(v.version.rev)} BY <2>1, <2>2 DEF Spares
  <2> QED BY <2>2, <2>3 DEF Continues
<1> QED BY <1>1, <1>2, <1>3

\* what a step of the main thread has to do that takes no outcome
LEMMA AsksServed ==
  ASSUME NEW a, NEW q, NEW us, NEW os, NEW e, NEW v, Served(a, q, us, os, e, v),
         NEW b, NEW f, Handled(b, q, us, os, f), Continues(a, b), Left(a) => Left(b),
         Spares(a, e, f, v),
         NEW c, c = [b EXCEPT !.posted = <<>>], NEW r, r = Queued(q, b)
  PROVE  Served(c, r, us, os, f, v)
<1>1. q \in Seq(JobShape) /\ (Left(a) <=> Owns(a)) BY ServedHandled
<1>2. Keeps(b, v, os) /\ Shows(b, v, os) /\ Shelved(b, f, v, os) BY VaultStays DEF Served
<1>3. v.version # None => Left(b) \/ \E i \in DOMAIN q : q[i].do = "release"
  BY <1>1 DEF Served, Claimed
<1> QED BY <1>1, <1>2, <1>3, RunsServed

LEMMA SparesSame == ASSUME NEW a, NEW e, NEW v PROVE Spares(a, e, e, v) BY DEF Spares

\* a card event
LEMMA AskedServed ==
  ASSUME NEW a, NEW q, NEW us, NEW os, NEW e, NEW v, Served(a, q, us, os, e, v),
         NEW b, Asked(a, b, q, us, os, e),
         NEW c, c = [b EXCEPT !.posted = <<>>], NEW r, r = Queued(q, b)
  PROVE  Served(c, r, us, os, e, v)
<1>1. Handled(b, q, us, os, e) /\ Follows(a, b) /\ (Left(a) => Left(b)) BY DEF Asked
<1>2. Continues(a, b) BY <1>1, FollowsContinues
<1>3. Spares(a, e, e, v) BY SparesSame
<1> QED BY <1>1, <1>2, <1>3, AsksServed

\* the pixels of a card are not of the session that is still open
LEMMA SessionApart ==
  ASSUME NEW a, NEW q, NEW us, NEW os, NEW e, NEW v, Served(a, q, us, os, e, v),
         Active(a), a.close = None, a.closed = None, NEW f,
         \A g \in Gens : g # a.editor.version.gen => f[g] = e[g]
  PROVE  Spares(a, e, f, v)
<1> SUFFICES ASSUME a.visible, v.version \notin {None, Plain}
             PROVE  f[v.version.gen] = e[v.version.gen]
  BY DEF Spares
<1>1. CommitAnswers(os) = {} BY DEF Served, Agreed, Committing
<1>2. \A i \in DOMAIN os : os[i].what # "committed" BY <1>1, Zenon DEF CommitAnswers
<1>3. Editing(a) BY DEF Active, Editing
<1>4. a.closed # "committed" BY NoneIsApart
<1>5. a.editor.version.gen # v.version.gen BY <1>2, <1>3, <1>4 DEF Served, Shelved
<1>6. v.version \in Versions BY DEF Served, Keeps, Vaults
<1>7. v.version.gen \in Gens BY <1>6, NoneIsApart
<1> QED BY <1>5, <1>7

\* what the vault is to the main thread once its next outcome was taken
Answers1(b, h) ==
  /\ h.what = "retention" /\ h.ok => ~b.shown
  /\ h.what = "committed" /\ b.visible /\ Editing(b) => b.closed = "committed"

LEMMA VaultAnswers ==
  ASSUME NEW b, NEW v, NEW os \in Seq(OutcomeShape), os # <<>>, NEW f,
         Keeps(b, v, os), Shows(b, v, os), Shelved(b, f, v, os), Answers1(b, Head(os))
  PROVE  Keeps(b, v, Tail(os)) /\ Shows(b, v, Tail(os)) /\ Shelved(b, f, v, Tail(os))
<1> DEFINE t == Tail(os)
<1>1. /\ Head(os) = os[1]
      /\ \A i \in DOMAIN t : i + 1 \in DOMAIN os /\ t[i] = os[i+1]
      /\ \A i \in DOMAIN os : i # 1 => i - 1 \in DOMAIN t /\ t[i-1] = os[i]
  BY Taken
<1> HIDE DEF t
<1>2. Keeps(b, v, t) BY <1>1 DEF Keeps
<1>3. Shows(b, v, t)
  <2> SUFFICES ASSUME b.shown, v.version = None
               PROVE  \E i \in DOMAIN t : t[i].what = "retention" /\ t[i].ok
    BY DEF Shows
  <2>1. PICK i \in DOMAIN os : os[i].what = "retention" /\ os[i].ok BY DEF Shows
  <2>2. i # 1 BY <1>1, <2>1 DEF Answers1
  <2> QED BY <1>1, <2>1, <2>2
<1>4. Shelved(b, f, v, t)
  <2> SUFFICES ASSUME b.visible, v.version \notin {None, Plain}, Editing(b),
                      b.editor.version.gen = v.version.gen, b.closed # "committed"
               PROVE  \E i \in DOMAIN t : t[i].what = "committed"
    BY DEF Shelved
  <2>1. PICK i \in DOMAIN os : os[i].what = "committed" BY DEF Shelved
  <2>2. i # 1 BY <1>1, <2>1 DEF Answers1
  <2> QED BY <1>1, <2>1, <2>2
<1> QED BY <1>2, <1>3, <1>4 DEF t

\* what a step has to do that takes an outcome
LEMMA TakesServed ==
  ASSUME NEW a, NEW q, NEW us, NEW os, os # <<>>, NEW e, NEW v, Served(a, q, us, os, e, v),
         NEW b, NEW f, Handled(b, q, us, Tail(os), f), Continues(a, b), Left(a) => Left(b),
         Spares(a, e, f, v), Answers1(b, Head(os)),
         NEW c, c = [b EXCEPT !.posted = <<>>], NEW r, r = Queued(q, b)
  PROVE  Served(c, r, us, Tail(os), f, v)
<1>1. q \in Seq(JobShape) /\ os \in Seq(OutcomeShape) /\ (Left(a) <=> Owns(a)) BY ServedHandled
<1>2. Keeps(b, v, os) /\ Shows(b, v, os) /\ Shelved(b, f, v, os) BY VaultStays DEF Served
<1>3. v.version # None => Left(b) \/ \E i \in DOMAIN q : q[i].do = "release"
  BY <1>1 DEF Served, Claimed
<1>4. Keeps(b, v, Tail(os)) /\ Shows(b, v, Tail(os)) /\ Shelved(b, f, v, Tail(os))
  BY <1>1, <1>2, VaultAnswers
<1> QED BY <1>1, <1>3, <1>4, RunsServed

\* what the next outcome is, and what follows it
LEMMA TailOf ==
  ASSUME NEW os \in Seq(OutcomeShape), os # <<>>, NEW P
  PROVE  /\ OneOf(P, OpenAnswers(os)) => OneOf(P, OpenAnswers(Tail(os)))
         /\ OneOf(P, CheckAnswers(os)) => OneOf(P, CheckAnswers(Tail(os)))
         /\ OneOf(P, CommitAnswers(os)) => OneOf(P, CommitAnswers(Tail(os)))
<1> DEFINE t == Tail(os)
<1>1. \A i \in DOMAIN t : i \in Nat /\ i + 1 \in DOMAIN os /\ i + 1 # 1 /\ t[i] = os[i+1]
  BY Taken
<1> HIDE DEF t
<1>2. \A S, T : /\ \A i \in T : i \in Nat
                /\ \A i \in T : i + 1 \in S
                => (OneOf(P, S) => OneOf(P, T))
  <2> SUFFICES ASSUME NEW S, NEW T, \A i \in T : i \in Nat, \A i \in T : i + 1 \in S, OneOf(P, S)
               PROVE  OneOf(P, T)
    OBVIOUS
  <2>1. T # {} => S # {} OBVIOUS
  <2>2. AtMostOne(T)
    <3> SUFFICES ASSUME NEW i \in T, NEW k \in T PROVE i = k BY DEF AtMostOne
    <3>1. i + 1 = k + 1 BY DEF OneOf, AtMostOne
    <3> QED BY <3>1
  <2> QED BY <2>1, <2>2 DEF OneOf
<1>3. \A i \in OpenAnswers(t) : i \in Nat /\ i + 1 \in OpenAnswers(os) BY <1>1 DEF OpenAnswers
<1>4. \A i \in CheckAnswers(t) : i \in Nat /\ i + 1 \in CheckAnswers(os) BY <1>1 DEF CheckAnswers
<1>5. \A i \in CommitAnswers(t) : i \in Nat /\ i + 1 \in CommitAnswers(os) BY <1>1, Zenon DEF CommitAnswers
<1>6. OneOf(P, OpenAnswers(os)) => OneOf(P, OpenAnswers(t)) BY <1>2, <1>3
<1>7. OneOf(P, CheckAnswers(os)) => OneOf(P, CheckAnswers(t)) BY <1>2, <1>4
<1>8. OneOf(P, CommitAnswers(os)) => OneOf(P, CommitAnswers(t)) BY <1>2, <1>5
<1> QED BY <1>6, <1>7, <1>8 DEF t

LEMMA HeadAnswers ==
  ASSUME NEW os \in Seq(OutcomeShape), os # <<>>, NEW P
  PROVE  /\ OneOf(P, OpenAnswers(os)) /\ Head(os).what \in {"opened", "refused"}
              => P \union OpenAnswers(Tail(os)) = {}
         /\ OneOf(P, CheckAnswers(os)) /\ Head(os).what = "retention"
              => P \union CheckAnswers(Tail(os)) = {}
         /\ OneOf(P, CommitAnswers(os)) /\ Head(os).what \in {"committed", "commit failed"}
              => P \union CommitAnswers(Tail(os)) = {}
<1> DEFINE t == Tail(os)
<1>1. /\ \A i \in DOMAIN t : i \in Nat /\ i + 1 \in DOMAIN os /\ i + 1 # 1 /\ t[i] = os[i+1]
      /\ 1 \in DOMAIN os /\ Head(os) = os[1]
  BY Taken
<1> HIDE DEF t
<1>2. OneOf(P, OpenAnswers(os)) /\ Head(os).what \in {"opened", "refused"} => P \union OpenAnswers(t) = {}
  <2> SUFFICES ASSUME OneOf(P, OpenAnswers(os)), Head(os).what \in {"opened", "refused"}
               PROVE  P \union OpenAnswers(t) = {}
    OBVIOUS
  <2>1. 1 \in OpenAnswers(os) BY <1>1 DEF OpenAnswers
  <2>2. \A i \in OpenAnswers(t) : i + 1 \in OpenAnswers(os) /\ i + 1 # 1 BY <1>1 DEF OpenAnswers
  <2> QED BY <2>1, <2>2 DEF OneOf, AtMostOne
<1>3. OneOf(P, CheckAnswers(os)) /\ Head(os).what = "retention" => P \union CheckAnswers(t) = {}
  <2> SUFFICES ASSUME OneOf(P, CheckAnswers(os)), Head(os).what = "retention"
               PROVE  P \union CheckAnswers(t) = {}
    OBVIOUS
  <2>1. 1 \in CheckAnswers(os) BY <1>1 DEF CheckAnswers
  <2>2. \A i \in CheckAnswers(t) : i + 1 \in CheckAnswers(os) /\ i + 1 # 1 BY <1>1 DEF CheckAnswers
  <2> QED BY <2>1, <2>2 DEF OneOf, AtMostOne
<1>4. OneOf(P, CommitAnswers(os)) /\ Head(os).what \in {"committed", "commit failed"}
        => P \union CommitAnswers(t) = {}
  <2> SUFFICES ASSUME OneOf(P, CommitAnswers(os)), Head(os).what \in {"committed", "commit failed"}
               PROVE  P \union CommitAnswers(t) = {}
    BY Zenon
  <2>1. 1 \in CommitAnswers(os) BY <1>1, Zenon DEF CommitAnswers
  <2>2. \A i \in CommitAnswers(t) : i + 1 \in CommitAnswers(os) /\ i + 1 # 1
    BY <1>1, Zenon DEF CommitAnswers
  <2> QED BY <2>1, <2>2, Zenon DEF OneOf, AtMostOne
<1> QED BY <1>2, <1>3, <1>4, Zenon DEF t

\* what is known of an outcome when it is taken
Telling(a, q, t, e, h) ==
  /\ h \in OutcomeShape /\ ToldOf(a, e, h)
  /\ h.what \in Uploaded => Uploading(a, h.action)
  /\ h.what \in Exported => Exporting(a, h.action)
  /\ h.what \in {"opened", "refused"} => Opens(q) \union OpenAnswers(t) = {} /\ ~Editing(a) /\ a.opening
  /\ h.what = "opened" => Checks(q) = {}
  /\ h.what = "retention" =>
       /\ ~a.finalizing
       /\ a.shown => Checks(q) \union CheckAnswers(t) = {} /\ a.checkClose
  /\ h.what \in {"committed", "commit failed"} /\ a.visible =>
       /\ a.close # None /\ a.close.version = h.version
       /\ Commits(q) \union CommitAnswers(t) = {}

LEMMA TailAgreed ==
  ASSUME NEW a, NEW q, NEW us, NEW os, os # <<>>, NEW e, Agreed(a, q, us, os, e, "handling")
  PROVE  /\ Agreed(a, q, us, Tail(os), e, "handling")
         /\ Telling(a, q, Tail(os), e, Head(os))
<1> DEFINE t == Tail(os)
<1> DEFINE h == Head(os)
<1>0. os \in Seq(OutcomeShape) BY DEF Agreed, Messages
<1>1. /\ \A i \in DOMAIN t : i \in Nat /\ i + 1 \in DOMAIN os /\ t[i] = os[i+1]
      /\ 1 \in DOMAIN os /\ h = os[1] /\ h \in OutcomeShape /\ t \in Seq(OutcomeShape)
  BY <1>0, Taken
<1>2. \A P : /\ OneOf(P, OpenAnswers(os)) => OneOf(P, OpenAnswers(t))
             /\ OneOf(P, CheckAnswers(os)) => OneOf(P, CheckAnswers(t))
             /\ OneOf(P, CommitAnswers(os)) => OneOf(P, CommitAnswers(t))
  BY <1>0, TailOf
<1>3. \A P : /\ OneOf(P, OpenAnswers(os)) /\ h.what \in {"opened", "refused"}
                  => P \union OpenAnswers(t) = {}
             /\ OneOf(P, CheckAnswers(os)) /\ h.what = "retention" => P \union CheckAnswers(t) = {}
             /\ OneOf(P, CommitAnswers(os)) /\ h.what \in {"committed", "commit failed"}
                  => P \union CommitAnswers(t) = {}
  BY <1>0, HeadAnswers, Zenon
<1> HIDE DEF t, h
<1>4. \A i \in OpenAnswers(t) : OpenAnswers(os) # {} BY <1>1 DEF OpenAnswers
<1>5. \A i \in CheckAnswers(t) : CheckAnswers(os) # {} BY <1>1 DEF CheckAnswers
<1>6. \A i \in CommitAnswers(t) : i + 1 \in CommitAnswers(os) /\ t[i] = os[i+1]
  BY <1>1, Zenon DEF CommitAnswers
<1>7. Messages(a, q, us, t, e)
  <2>1. \A i \in DOMAIN t : ToldOf(a, e, t[i]) BY <1>1 DEF Agreed, Messages
  <2> QED BY <1>1, <2>1 DEF Agreed, Messages
<1>8. Uploads(a, q, us, t)
  <2>1. \A i \in DOMAIN t : /\ t[i].what \in Uploaded => Uploading(a, t[i].action)
                            /\ t[i].what \in Exported => Exporting(a, t[i].action)
    BY <1>1, Zenon DEF Agreed, Uploads
  <2>2. Uploads(a, q, us, os) BY DEF Agreed
  <2> QED BY <2>1, <2>2 DEF Uploads
<1>9. Opening(a, q, t) BY <1>2, <1>4 DEF Agreed, Opening
<1>10. Releasable(a, q) /\ Ended(a, e, "handling") BY DEF Agreed
<1>11. Checking(a, q, t, "handling")
  <2>1. \A i \in DOMAIN t : \E k \in DOMAIN os : t[i] = os[k] BY <1>1
  <2>2. (\A i \in DOMAIN os : os[i].what # "opened") => (\A i \in DOMAIN t : t[i].what # "opened")
    BY <2>1
  <2> QED BY <1>2, <1>5, <2>2 DEF Agreed, Checking
<1>12. Committing(a, q, t) BY <1>2, <1>6 DEF Agreed, Committing
<1>13. Agreed(a, q, us, t, e, "handling")
  BY <1>7, <1>8, <1>9, <1>10, <1>11, <1>12 DEF Agreed
<1>14. Telling(a, q, t, e, h)
  <2>1. h \in OutcomeShape /\ ToldOf(a, e, h) BY <1>1 DEF Agreed, Messages
  <2>2. /\ h.what \in Uploaded => Uploading(a, h.action)
        /\ h.what \in Exported => Exporting(a, h.action)
    BY <1>1, Zenon DEF Agreed, Uploads
  <2>3. ASSUME h.what \in {"opened", "refused"}
        PROVE  Opens(q) \union OpenAnswers(t) = {} /\ ~Editing(a) /\ a.opening
    <3>1. OpenAnswers(os) # {} BY <1>1, <2>3 DEF OpenAnswers
    <3> QED BY <1>3, <2>3, <3>1, Zenon DEF Agreed, Opening
  <2>4. h.what = "opened" => Checks(q) = {} BY <1>1 DEF Agreed, Checking
  <2>5. ASSUME h.what = "retention"
        PROVE  ~a.finalizing /\ (a.shown => Checks(q) \union CheckAnswers(t) = {} /\ a.checkClose)
    <3>1. CheckAnswers(os) # {} BY <1>1, <2>5 DEF CheckAnswers
    <3>2. Checks(q) \union CheckAnswers(os) # {} BY <3>1
    <3> QED BY <1>3, <2>5, <3>2 DEF Agreed, Checking
  <2>6. ASSUME h.what \in {"committed", "commit failed"}, a.visible
        PROVE  /\ a.close # None /\ a.close.version = h.version
               /\ Commits(q) \union CommitAnswers(t) = {}
    <3>1. 1 \in CommitAnswers(os) BY <1>1, <2>6, Zenon DEF CommitAnswers
    <3> QED BY <1>1, <1>3, <2>6, <3>1, Zenon DEF Agreed, Committing
  <2> QED BY <2>1, <2>2, <2>3, <2>4, <2>5, <2>6, Zenon DEF Telling
<1> QED BY <1>13, <1>14 DEF t, h

\* a card that history keeps goes, when it was to close
LEMMA RetentionGone ==
  ASSUME NEW a, Steady(a), a.checkClose, ~a.finalizing, NEW o, o.ok,
         NEW b, b = RetentionRelease(a, o)
  PROVE  ~b.shown
<1>0. a \in Apps /\ ~a.deferredSave BY DEF Steady, Filing
<1> DEFINE d == [a EXCEPT !.checkClose = FALSE, !.checkOverflow = FALSE, !.recovery = 0]
<1>1. d \in Apps BY <1>0 DEF Apps
<1>2. d.deferredSave = a.deferredSave BY <1>0 DEF Apps
<1>3. b = Dismiss(d) BY DEF RetentionRelease
<1> HIDE DEF d
<1>4. b = Leave(d) \/ b = Post(Leave(d), Job("release")) BY <1>0, <1>2, <1>3, DismissLeaves
<1>5. Leave(d) \in Apps /\ ~Leave(d).shown BY <1>1, LeaveIs
<1>6. CASE b = Leave(d) BY <1>5, <1>6
<1>7. CASE b = Post(Leave(d), Job("release"))
  <2>1. b.shown = Leave(d).shown BY <1>5, <1>7 DEF Post, Apps
  <2> QED BY <1>5, <2>1
<1> QED BY <1>4, <1>6, <1>7

\* an outcome was taken
Took(a, b, h, q, us, t, e, f) ==
  /\ Handled(b, q, us, t, f) /\ Continues(a, b) /\ (Left(a) => Left(b))
  /\ Answers1(b, h) /\ \A g \in Gens : f[g] \in {e[g], Open}

LEMMA TookSame ==
  ASSUME NEW a, NEW b, NEW h, NEW q, NEW us, NEW t, NEW e,
         Handled(b, q, us, t, e), Follows(a, b), Left(a) => Left(b), Answers1(b, h)
  PROVE  Took(a, b, h, q, us, t, e, e)
BY FollowsContinues DEF Took

LEMMA TookQuietly ==
  ASSUME NEW a, NEW b, NEW h, NEW q, NEW us, NEW t, NEW e, h.what \notin {"retention", "committed"},
         Handled(b, q, us, t, e), Follows(a, b), Left(a) => Left(b)
  PROVE  Took(a, b, h, q, us, t, e, e)
BY TookSame DEF Answers1

LEMMA TookMoving ==
  ASSUME NEW a, NEW b, NEW h, NEW q, NEW us, NEW t, NEW e, h.what \notin {"retention", "committed"},
         Handled(b, q, us, t, e) /\ Moves(a, b) /\ (Left(a) => Left(b))
  PROVE  Took(a, b, h, q, us, t, e, e)
BY MovesFollows, TookQuietly

\* the outcomes of outputs
LEMMA OutputsTaken ==
  ASSUME NEW q \in Seq(JobShape), NEW us, NEW t, NEW e, NEW a, Handled(a, q, us, t, e),
         Queued(q, a) = q, NEW h, Telling(a, q, t, e, h),
         h.what \in {"done", "output refused", "upload done", "upload refused"},
         NEW b, b = Takes(a, h)
  PROVE  Took(a, b, h, q, us, t, e, e)
<1>0. h \in OutcomeShape /\ Numbered(a, h) BY Zenon DEF Telling, ToldOf
<1>1. CASE h.what = "done"
  <2>1. b = Done(a, h) BY <1>1 DEF Takes
  <2>2. Handled(b, q, us, t, e) /\ Moves(a, b) /\ (Left(a) => Left(b)) BY <1>0, <2>1, DoneHandled, Zenon
  <2> QED BY <1>1, <2>2, TookMoving
<1>2. CASE h.what = "output refused"
  <2>1. b = OutputRefused(a, h) BY <1>2, Zenon DEF Takes
  <2>2. Handled(b, q, us, t, e) /\ Moves(a, b) /\ (Left(a) => Left(b))
    BY <1>0, <2>1, OutputRefusedHandled
  <2> QED BY <1>2, <2>2, TookMoving, Zenon
<1>3. CASE h.what = "upload done"
  <2>1. b = UploadDone(a, h) BY <1>3, Zenon DEF Takes
  <2>2. Uploading(a, h.action) BY <1>3, Zenon DEF Telling, Uploaded
  <2>3. Handled(b, q, us, t, e) /\ Moves(a, b) /\ (Left(a) => Left(b))
    BY <1>0, <2>1, <2>2, UploadDoneHandled, Zenon
  <2> QED BY <1>3, <2>3, TookMoving, Zenon
<1>4. CASE h.what = "upload refused"
  <2>1. b = UploadRefused(a, h) BY <1>4, Zenon DEF Takes
  <2>2. Uploading(a, h.action) BY <1>4, Zenon DEF Telling, Uploaded
  <2>3. Handled(b, q, us, t, e) /\ Moves(a, b) /\ (Left(a) => Left(b))
    BY <1>0, <2>1, <2>2, UploadRefusedHandled
  <2> QED BY <1>4, <2>3, TookMoving, Zenon
<1> QED BY <1>1, <1>2, <1>3, <1>4, Zenon

\* what history said of the card, and how its finalization went
LEMMA CardsTaken ==
  ASSUME NEW q \in Seq(JobShape), NEW us, NEW t, NEW e, NEW a, Handled(a, q, us, t, e),
         Queued(q, a) = q, NEW h, Telling(a, q, t, e, h),
         h.what \in {"finalized", "refused", "retention"},
         NEW b, b = Takes(a, h)
  PROVE  Took(a, b, h, q, us, t, e, e)
<1>0. h \in OutcomeShape BY Zenon DEF Telling
<1>1. CASE h.what = "finalized"
  <2>1. b = Finalized(a, h) BY <1>1 DEF Takes
  <2>2. Handled(b, q, us, t, e) /\ Follows(a, b) /\ Left(b) BY <1>0, <1>1, <2>1, FinalizedHandled
  <2> QED BY <1>1, <2>2, TookQuietly
<1>2. CASE h.what = "refused"
  <2>1. b = OpenRefused(a) BY <1>2 DEF Takes
  <2>2. ~Editing(a) /\ a.opening /\ Opens(Queued(q, a)) \union OpenAnswers(t) = {}
    BY <1>2 DEF Telling
  <2>3. Handled(b, q, us, t, e) /\ Follows(a, b) /\ Left(b) BY <2>1, <2>2, OpenRefusedHandled
  <2> QED BY <1>2, <2>3, TookQuietly
<1>3. CASE h.what = "retention"
  <2>1. b = RetentionRelease(a, h) BY <1>3 DEF Takes
  <2>2. a.shown => Checks(Queued(q, a)) \union CheckAnswers(t) = {} BY <1>3 DEF Telling
  <2>3. Handled(b, q, us, t, e) /\ Moves(a, b) /\ (Left(a) => Left(b))
    BY <1>0, <2>1, <2>2, RetentionReleaseHandled
  <2>4. Follows(a, b) BY <2>3, MovesFollows
  <2>5. h.ok => ~b.shown
    <3>1. CASE ~a.shown BY <2>4, <3>1 DEF Follows
    <3>2. CASE a.shown
      <4>1. a.checkClose /\ ~a.finalizing /\ Steady(a) BY <1>3, <3>2 DEF Telling, Handled
      <4> QED BY <2>1, <4>1, RetentionGone
    <3> QED BY <3>1, <3>2
  <2>6. Answers1(b, h) BY <1>3, <2>5 DEF Answers1
  <2> QED BY <2>3, <2>4, <2>6, TookSame
<1> QED BY <1>1, <1>2, <1>3

LEMMA BackOpen ==
  ASSUME NEW e, e \in [Gens -> Ends], NEW v \in EditVersions,
         NEW f, f = [e EXCEPT ![v.gen] = Open]
  PROVE  \A g \in Gens : f[g] \in {e[g], Open}
OBVIOUS

\* how the commit of an edit went
LEMMA CommitsTaken ==
  ASSUME NEW q \in Seq(JobShape), NEW us, NEW t, NEW e, NEW a, Handled(a, q, us, t, e),
         Queued(q, a) = q, NEW h, Telling(a, q, t, e, h),
         h.what \in {"committed", "commit failed", "persist"},
         NEW b, b = Takes(a, h),
         NEW f, f = IF h.what = "commit failed" THEN [e EXCEPT ![h.version.gen] = Open] ELSE e
  PROVE  Took(a, b, h, q, us, t, e, f)
<1>0. h \in OutcomeShape /\ h.version \in EditVersions BY Zenon DEF Telling, OutcomeShape
<1>1. CASE h.what = "persist"
  <2>1. b = Persisted(a, h) /\ f = e BY <1>1 DEF Takes
  <2>2. Handled(b, q, us, t, e) /\ Follows(a, b) /\ (Left(a) => Left(b))
    BY <1>0, <2>1, PersistedHandled, Zenon
  <2>3. Took(a, b, h, q, us, t, e, e) BY <1>1, <2>2, TookQuietly
  <2> QED BY <2>1, <2>3, Zenon
<1>2. CASE h.what = "committed"
  <2>1. b = CommitDone(a, h) /\ f = e BY <1>2 DEF Takes
  <2>2. Expected(a, Queued(q, a), t, h) BY <1>2 DEF Telling, Expected
  <2>3. Handled(b, q, us, t, e) /\ Follows(a, b) /\ (Left(a) => Left(b)) /\ Confirmed(a, b)
    BY <1>0, <2>1, <2>2, CommitDoneHandled, Zenon
  <2>4. Answers1(b, h) BY <1>2, <2>3 DEF Answers1, Follows, Confirmed
  <2>5. Took(a, b, h, q, us, t, e, e) BY <2>3, <2>4, TookSame, Zenon
  <2> QED BY <2>1, <2>5
<1>3. CASE h.what = "commit failed"
  <2>1. b = CommitFailed(a, h) /\ f = [e EXCEPT ![h.version.gen] = Open] BY <1>3, Zenon DEF Takes
  <2>2. Expected(a, Queued(q, a), t, h) BY <1>3, Zenon DEF Telling, Expected
  <2>3. Handled(b, q, us, t, f) /\ Follows(a, b) /\ (Left(a) => Left(b))
    BY <1>0, <2>1, <2>2, CommitFailedHandled, ZenonT(60)
  <2>4. e \in [Gens -> Ends] BY Zenon DEF Handled, Agreed, Ended
  <2>5. \A g \in Gens : f[g] \in {e[g], Open} BY <1>0, <2>1, <2>4, BackOpen, Zenon
  <2>6. Answers1(b, h) BY <1>3, Zenon DEF Answers1
  <2> QED BY <2>3, <2>5, <2>6, FollowsContinues, Zenon DEF Took
<1> QED BY <1>1, <1>2, <1>3, Zenon

\* the editor that was asked for is there, and so are the pixels
LEMMA OpenedTaken ==
  ASSUME NEW a, NEW q, NEW us, NEW os, os # <<>>, NEW e, NEW v, Served(a, q, us, os, e, v),
         Handled(a, q, us, Tail(os), e), Telling(a, q, Tail(os), e, Head(os)),
         Head(os).what = "opened", NEW b, b = Takes(a, Head(os)),
         NEW c, c = [b EXCEPT !.posted = <<>>], NEW r, r = Queued(q, b)
  PROVE  Served(c, r, us, Tail(os), e, v)
<1> DEFINE h == Head(os)
<1>0. /\ q \in Seq(JobShape) /\ os \in Seq(OutcomeShape) /\ Queued(q, a) = q /\ a \in Apps
      /\ h \in OutcomeShape
  BY ServedHandled, Zenon DEF Telling
<1>1. b = Opened(a, h) BY Zenon DEF Takes
<1>2. ~h.ok BY <1>0, Zenon DEF OutcomeShape
<1>3. /\ ~Editing(a) /\ a.opening /\ Opens(Queued(q, a)) \union OpenAnswers(Tail(os)) = {}
      /\ Checks(Queued(q, a)) = {}
  BY <1>0, Zenon DEF Telling
<1>4. /\ Handled(b, q, us, Tail(os), e) /\ Left(b) /\ Editing(b)
      /\ b.visible = a.visible /\ b.shown = a.shown
      /\ b.editor.version = Version(a.nextGen, 0) /\ b.nextGen = a.nextGen + 1
  BY <1>0, <1>1, <1>2, <1>3, OpenedHandled
<1>5. 1 \in DOMAIN os /\ h = os[1] BY <1>0, Taken
<1>6. v \in Vaults /\ v.version # None BY <1>5 DEF Served, Keeps
<1>7. a.nextGen \in Nat BY <1>0 DEF Apps
<1>8. Keeps(b, v, os) /\ Shows(b, v, os) BY <1>4, <1>6 DEF Served, Keeps, Shows
<1>9. Shelved(b, e, v, os)
  <2>1. a.visible /\ v.version \notin {None, Plain} =>
          v.version.gen < a.nextGen /\ e[v.version.gen] \in {Open, Committed(v.version.rev)}
    BY DEF Served, Shelved
  <2>2. v.version \notin {None, Plain} => v.version.gen \in Nat
    <3>1. v.version \in Versions \union {None} BY <1>6 DEF Vaults
    <3> QED BY <3>1, NoneIsApart DEF Gens
  <2>3. b.editor.version.gen = a.nextGen BY <1>4 DEF Version
  <2> QED BY <1>4, <1>7, <2>1, <2>2, <2>3 DEF Shelved
<1>10. Answers1(b, Head(os)) BY DEF Answers1
<1>11. Keeps(b, v, Tail(os)) /\ Shows(b, v, Tail(os)) /\ Shelved(b, e, v, Tail(os))
  BY <1>0, <1>8, <1>9, <1>10, VaultAnswers
<1> QED BY <1>0, <1>4, <1>11, RunsServed

LEMMA TookServed ==
  ASSUME NEW a, NEW q, NEW us, NEW os, os # <<>>, NEW e, NEW v, Served(a, q, us, os, e, v),
         NEW b, NEW f, Took(a, b, Head(os), q, us, Tail(os), e, f),
         NEW c, c = [b EXCEPT !.posted = <<>>], NEW r, r = Queued(q, b)
  PROVE  Served(c, r, us, Tail(os), f, v)
<1>1. /\ Handled(b, q, us, Tail(os), f) /\ Continues(a, b) /\ (Left(a) => Left(b))
      /\ Answers1(b, Head(os))
  BY DEF Took
<1>2. Spares(a, e, f, v)
  <2>1. v.version \in Versions \union {None} BY DEF Served, Keeps, Vaults
  <2>2. v.version \notin {None, Plain} => v.version.gen \in Gens BY <2>1, NoneIsApart
  <2> QED BY <2>2 DEF Took, Spares
<1> QED BY <1>1, <1>2, TakesServed

\* every outcome leaves the main thread and the vault agreed
LEMMA OutcomeTaken ==
  ASSUME NEW a, NEW q, NEW us, NEW os, os # <<>>, NEW e, NEW v, Served(a, q, us, os, e, v),
         NEW b, b = Takes(a, Head(os)),
         NEW f, f = IF Head(os).what = "commit failed" THEN [e EXCEPT ![Head(os).version.gen] = Open] ELSE e,
         NEW c, c = [b EXCEPT !.posted = <<>>], NEW r, r = Queued(q, b)
  PROVE  Served(c, r, us, Tail(os), f, v)
<1> DEFINE h == Head(os)
<1> DEFINE t == Tail(os)
<1>1. Handled(a, q, us, os, e) /\ q \in Seq(JobShape) /\ Queued(q, a) = q BY ServedHandled, Zenon
<1>2. Agreed(a, q, us, t, e, "handling") /\ Telling(a, q, t, e, h) BY TailAgreed, Zenon DEF Served
<1>3. Handled(a, q, us, t, e) BY <1>1, <1>2, Zenon DEF Handled
<1>4. h.what \in Whats BY <1>2, Zenon DEF Telling, OutcomeShape
<1>5. CASE h.what = "opened"
  <2>1. f = e BY <1>5, Zenon
  <2>2. Served(c, r, us, t, e, v) BY <1>2, <1>3, <1>5, OpenedTaken, Zenon
  <2> QED BY <2>1, <2>2, Zenon
<1>6. CASE h.what # "opened"
  <2>1. Took(a, b, h, q, us, t, e, f)
    <3> HIDE DEF h, t
    <3>0. b = Takes(a, h) /\ f = IF h.what = "commit failed" THEN [e EXCEPT ![h.version.gen] = Open] ELSE e
      BY Zenon DEF h
    <3>1. CASE h.what \in {"done", "output refused", "upload done", "upload refused"}
      <4>1. f = e BY <3>0, <3>1, Zenon
      <4>2. Took(a, b, h, q, us, t, e, e) BY <1>1, <1>2, <1>3, <3>0, <3>1, OutputsTaken, Zenon
      <4> QED BY <4>1, <4>2, Zenon
    <3>2. CASE h.what \in {"finalized", "refused", "retention"}
      <4>1. f = e BY <3>0, <3>2, Zenon
      <4>2. Took(a, b, h, q, us, t, e, e) BY <1>1, <1>2, <1>3, <3>0, <3>2, CardsTaken, Zenon
      <4> QED BY <4>1, <4>2
    <3>3. CASE h.what \in {"committed", "commit failed", "persist"}
      BY <1>1, <1>2, <1>3, <3>0, <3>3, CommitsTaken, Zenon
    <3> QED BY <1>4, <1>6, <3>1, <3>2, <3>3, Zenon DEF Whats
  <2> QED BY <2>1, TookServed, Zenon
<1> QED BY <1>5, <1>6, Zenon

\* the state between two steps
Running == Served(app, jobs, uploads, outcomes, ended, vault)

LEMMA GoingIs == Going <=> Running
BY DEF Going, Running, Served

LEMMA RunsQueues ==
  ASSUME NEW b, Runs(b)
  PROVE  app' = [b EXCEPT !.posted = <<>>] /\ jobs' = Queued(jobs, b)
BY DEF Runs, Queued

LEMMA OutcomeStep ==
  ASSUME Running, TakesOutcome
  PROVE  Running'
<1> DEFINE b == Takes(app, Head(outcomes))
           f == IF Head(outcomes).what = "commit failed"
                  THEN [ended EXCEPT ![Head(outcomes).version.gen] = Open] ELSE ended
<1>1. app' = [b EXCEPT !.posted = <<>>] /\ jobs' = Queued(jobs, b) BY RunsQueues DEF TakesOutcome
<1>2. /\ outcomes # <<>> /\ outcomes' = Tail(outcomes) /\ ended' = f
      /\ uploads' = uploads /\ vault' = vault
  BY Zenon DEF TakesOutcome, EndedAfter
<1>3. Served(app', jobs', uploads, Tail(outcomes), ended', vault)
  BY <1>1, <1>2, OutcomeTaken, Zenon DEF Running
<1> QED BY <1>2, <1>3, Zenon DEF Running

\* an event of the card
LEMMA EventStep ==
  ASSUME Running, NEW what, NEW b, Asks(what, b), Asked(app, b, jobs, uploads, outcomes, ended)
  PROVE  Running'
<1>1. app' = [b EXCEPT !.posted = <<>>] /\ jobs' = Queued(jobs, b) BY RunsQueues DEF Asks
<1>2. uploads' = uploads /\ outcomes' = outcomes /\ vault' = vault /\ ended' = ended
  BY DEF Asks, Happens
<1>3. Served(app', jobs', uploads, outcomes, ended, vault) BY <1>1, AskedServed DEF Running
<1> QED BY <1>2, <1>3 DEF Running

\* a step of an editor
LEMMA EditorStep ==
  ASSUME Running, NEW b, Runs(b), UNCHANGED <<uploads, outcomes, vault>>,
         Handled(b, jobs, uploads, outcomes, ended'), Continues(app, b), Left(app) => Left(b),
         Spares(app, ended, ended', vault)
  PROVE  Running'
<1>1. app' = [b EXCEPT !.posted = <<>>] /\ jobs' = Queued(jobs, b) BY RunsQueues
<1>2. uploads' = uploads /\ outcomes' = outcomes /\ vault' = vault OBVIOUS
<1>3. Served(app', jobs', uploads, outcomes, ended', vault) BY <1>1, AsksServed DEF Running
<1> QED BY <1>2, <1>3 DEF Running

LEMMA RunningHandled ==
  ASSUME Running
  PROVE  /\ Handled(app, jobs, uploads, outcomes, ended) /\ jobs \in Seq(JobShape)
         /\ app \in Apps /\ Steady(app) /\ Queued(jobs, app) = jobs
BY ServedHandled DEF Running, Served

LEMMA ShownRunning ==
  ASSUME Running, app.shown
  PROVE  /\ Handled(app, jobs, uploads, outcomes, ended) /\ jobs \in Seq(JobShape) /\ app \in Apps
         /\ app.visible /\ ~app.editorOnly /\ ~app.inFlight /\ ~app.checkOverflow
         /\ Edited(app) \in Versions /\ Fresh(app, ended, Edited(app)) /\ Steady(app)
<1>1. /\ Handled(app, jobs, uploads, outcomes, ended) /\ jobs \in Seq(JobShape)
      /\ app \in Apps /\ Steady(app)
  BY RunningHandled
<1>2. /\ app.visible /\ ~app.editorOnly /\ ~app.inFlight /\ ~app.checkOverflow BY <1>1, ShownIs
<1>3. Edited(app) \in Versions /\ Fresh(app, ended, Edited(app)) BY <1>1, EditedFresh DEF Handled
<1> QED BY <1>1, <1>2, <1>3

LEMMA CopyStep ==
  ASSUME Running, CopyCard PROVE Running'
<1> DEFINE b == Dispatch(app, "card", TRUE, Output(FALSE, Edited(app)))
<1>1. app.shown /\ Asks("copy", b) BY DEF CopyCard
<1>2. Asked(app, b, jobs, uploads, outcomes, ended) BY <1>1, ShownRunning, CardOutputHandled
<1> QED BY <1>1, <1>2, EventStep

LEMMA SaveStep ==
  ASSUME Running, SaveCard PROVE Running'
<1>0. app.shown BY DEF SaveCard
<1>1. CASE app.finalizing /\ Asks("save", [app EXCEPT !.deferredSave = TRUE])
  <2> DEFINE b == [app EXCEPT !.deferredSave = TRUE]
  <2>1. Defers(app, b) BY <1>1 DEF Defers
  <2>2. Asked(app, b, jobs, uploads, outcomes, ended) BY <1>0, <2>1, ShownRunning, DefersHandled
  <2> QED BY <1>1, <2>2, EventStep
<1>2. CASE Asks("save", Dismiss(app))
  <2>1. Asked(app, Dismiss(app), jobs, uploads, outcomes, ended) BY <1>0, ShownRunning, ShownDismissHandled
  <2> QED BY <1>2, <2>1, EventStep
<1>3. CASE Asks("save", SavesAndCloses(app, Edited(app)))
  <2> DEFINE b == Dispatch(app, "card", TRUE, Output(TRUE, Edited(app)))
  <2>1. SavesAndCloses(app, Edited(app)) = b BY DEF SavesAndCloses
  <2>2. Asked(app, b, jobs, uploads, outcomes, ended) BY <1>0, ShownRunning, CardOutputHandled
  <2>3. Asks("save", b) BY <1>3, <2>1, Zenon
  <2> QED BY <2>2, <2>3, EventStep, Zenon
<1> QED BY <1>1, <1>2, <1>3 DEF SaveCard

LEMMA SaveAsStep ==
  ASSUME Running, SaveCardAs PROVE Running'
<1> DEFINE b == [Register(app, app.nextAction, "card", TRUE) EXCEPT
                   !.nextAction = @ + 1, !.dialog = [id |-> app.nextAction, version |-> Edited(app)]]
<1>1. app.shown /\ Asks("save as", b) BY Zenon DEF SaveCardAs
<1>2. Asked(app, b, jobs, uploads, outcomes, ended) BY <1>1, ShownRunning, SaveCardAsHandled, Zenon
<1> QED BY <1>1, <1>2, EventStep, Zenon

LEMMA UploadStep ==
  ASSUME Running, UploadCard PROVE Running'
<1>1. app.shown BY DEF UploadCard
<1>2. PICK close \in BOOLEAN :
        Asks("upload", Dispatch([app EXCEPT !.current = 0], "upload", close, Upload(Edited(app))))
  BY DEF UploadCard
<1>3. close \in {TRUE, FALSE} OBVIOUS
<1> DEFINE b == Dispatch([app EXCEPT !.current = 0], "upload", close, Upload(Edited(app)))
<1>4. Asked(app, b, jobs, uploads, outcomes, ended) BY <1>1, <1>3, ShownRunning, UploadCardHandled
<1> QED BY <1>2, <1>4, EventStep

LEMMA UnaskedHandled ==
  ASSUME Running PROVE Asked(app, app, jobs, uploads, outcomes, ended)
BY RunningHandled DEF Asked, Follows

LEMMA TimerStep ==
  ASSUME Running, CloseTimer PROVE Running'
<1>1. app.shown BY DEF CloseTimer
<1>2. PICK how \in {"hide", "save"} :
        Asks("close", IF app.finalizing THEN [app EXCEPT !.deferredClose = how]
             ELSE IF CardOutputPending(app) THEN app
             ELSE IF Active(app) \/ app.opening THEN [app EXCEPT !.deferredClose = how]
             ELSE AutoClose(app, how, Edited(app)))
  BY DEF CloseTimer
<1>3. CASE Asks("close", [app EXCEPT !.deferredClose = how])
  <2> DEFINE b == [app EXCEPT !.deferredClose = how]
  <2>1. Defers(app, b) BY DEF Defers
  <2>2. Asked(app, b, jobs, uploads, outcomes, ended) BY <1>1, <2>1, ShownRunning, DefersHandled
  <2> QED BY <1>3, <2>2, EventStep
<1>4. CASE Asks("close", app) BY <1>4, UnaskedHandled, EventStep
<1>5. CASE ~Active(app) /\ ~app.opening /\ Asks("close", AutoClose(app, how, Edited(app)))
  <2> DEFINE b == AutoClose(app, how, Edited(app))
  <2>1. Asked(app, b, jobs, uploads, outcomes, ended) BY <1>1, <1>5, ShownRunning, AutoCloseHandled
  <2> QED BY <1>5, <2>1, EventStep
<1> QED BY <1>2, <1>3, <1>4, <1>5

LEMMA AskedTwice ==
  ASSUME NEW a, NEW b, NEW c, NEW js, NEW us, NEW os, NEW e,
         Asked(a, b, js, us, os, e), Asked(b, c, js, us, os, e)
  PROVE  Asked(a, c, js, us, os, e)
BY FollowsTwice DEF Asked

LEMMA HiddenRunning ==
  ASSUME Running, app.shown, NEW b, b = [app EXCEPT !.shown = FALSE]
  PROVE  /\ Asked(app, b, jobs, uploads, outcomes, ended) /\ Handled(b, jobs, uploads, outcomes, ended)
         /\ SameView(app, b) /\ b.visible /\ ~b.shown /\ ~b.inFlight /\ ~b.checkOverflow
         /\ Edited(b) = Edited(app)
<1>1. /\ Asked(app, b, jobs, uploads, outcomes, ended) /\ SameView(app, b) /\ SameWaits(app, b)
      /\ b.visible /\ ~b.shown /\ Edited(b) = Edited(app)
  BY ShownRunning, HidesHandled
<1>2. ~app.inFlight /\ ~app.checkOverflow BY ShownRunning
<1> QED BY <1>1, <1>2 DEF Asked, SameWaits

LEMMA DismissStep ==
  ASSUME Running, DismissCard PROVE Running'
<1> DEFINE gone == [app EXCEPT !.shown = FALSE]
<1>1. app.shown /\ Asks("dismiss", IF CardOutputPending(app) THEN gone ELSE Dismiss(gone))
  BY DEF DismissCard
<1>2. /\ Asked(app, gone, jobs, uploads, outcomes, ended)
      /\ Handled(gone, jobs, uploads, outcomes, ended)
      /\ gone.visible /\ ~gone.inFlight /\ ~gone.checkOverflow
  BY <1>1, HiddenRunning
<1>3. jobs \in Seq(JobShape) BY RunningHandled
<1> HIDE DEF gone
<1>4. Asked(gone, Dismiss(gone), jobs, uploads, outcomes, ended) BY <1>2, <1>3, ShownDismissHandled
<1>5. Asked(app, Dismiss(gone), jobs, uploads, outcomes, ended) BY <1>2, <1>4, AskedTwice
<1> QED BY <1>1, <1>2, <1>5, EventStep

LEMMA OverflowStep ==
  ASSUME Running, OverflowCard PROVE Running'
<1> DEFINE gone == [app EXCEPT !.shown = FALSE]
           put == [gone EXCEPT !.deferredOverflow = TRUE]
<1>1. app.shown /\ Asks("overflow", IF app.finalizing \/ Active(app) \/ app.opening THEN put
                                    ELSE Overflow(gone, Edited(app)))
  BY DEF OverflowCard
<1>2. /\ Asked(app, gone, jobs, uploads, outcomes, ended)
      /\ Handled(gone, jobs, uploads, outcomes, ended) /\ SameView(app, gone)
      /\ gone.visible /\ ~gone.shown /\ Edited(gone) = Edited(app)
  BY <1>1, HiddenRunning
<1>3. jobs \in Seq(JobShape) BY RunningHandled
<1>4. Defers(gone, put) BY <1>2 DEF Defers
<1> HIDE DEF gone, put
<1>5. CASE Asks("overflow", put)
  <2>1. Asked(gone, put, jobs, uploads, outcomes, ended) BY <1>2, <1>3, <1>4, DefersHandled
  <2>2. Asked(app, put, jobs, uploads, outcomes, ended) BY <1>2, <2>1, AskedTwice
  <2> QED BY <1>5, <2>2, EventStep
<1>6. CASE ~Active(app) /\ ~app.opening /\ Asks("overflow", Overflow(gone, Edited(app)))
  <2> DEFINE b == Overflow(gone, Edited(gone))
  <2>1. ~Active(gone) /\ ~gone.opening BY <1>2, <1>6 DEF SameView, Active
  <2>2. Asked(gone, b, jobs, uploads, outcomes, ended) BY <1>2, <1>3, <2>1, OverflowHandled
  <2>3. Asked(app, b, jobs, uploads, outcomes, ended) BY <1>2, <2>2, AskedTwice
  <2>4. Asks("overflow", b) BY <1>2, <1>6
  <2> QED BY <2>3, <2>4, EventStep
<1> QED BY <1>1, <1>5, <1>6

LEMMA DropStep ==
  ASSUME Running, DropCard PROVE Running'
<1>1. app.shown /\ Asks("drop", Dismiss(app)) BY DEF DropCard
<1>2. Asked(app, Dismiss(app), jobs, uploads, outcomes, ended) BY <1>1, ShownRunning, ShownDismissHandled
<1> QED BY <1>1, <1>2, EventStep

LEMMA OpenStep ==
  ASSUME Running, OpenCard PROVE Running'
<1> DEFINE b == Post([app EXCEPT !.opening = TRUE], Job("open"))
<1>1. /\ app.shown /\ app.nextGen \in Gens /\ ~Active(app) /\ ~app.opening /\ Asks("open", b)
  BY DEF OpenCard
<1>2. Asked(app, b, jobs, uploads, outcomes, ended) BY <1>1, ShownRunning, OpenCardHandled
<1> QED BY <1>1, <1>2, EventStep

LEMMA CardStep ==
  ASSUME Running, CardEvents PROVE Running'
BY CopyStep, SaveStep, SaveAsStep, UploadStep, TimerStep, DismissStep, OverflowStep, DropStep, OpenStep
   DEF CardEvents

\* a step of the main thread that tells no session's end
LEMMA PlainStep ==
  ASSUME Running, NEW b, Runs(b), UNCHANGED <<uploads, outcomes, vault, ended>>,
         Handled(b, jobs, uploads, outcomes, ended), Continues(app, b), Left(app) => Left(b)
  PROVE  Running'
<1>1. Spares(app, ended, ended, vault) BY SparesSame
<1>2. app' = [b EXCEPT !.posted = <<>>] /\ jobs' = Queued(jobs, b) BY RunsQueues
<1>3. uploads' = uploads /\ outcomes' = outcomes /\ vault' = vault /\ ended' = ended OBVIOUS
<1>4. Served(app', jobs', uploads, outcomes, ended, vault) BY <1>1, <1>2, AsksServed DEF Running
<1> QED BY <1>3, <1>4 DEF Running

LEMMA DialogStep ==
  ASSUME Running, AnswersDialog PROVE Running'
<1> DEFINE shut == [app EXCEPT !.dialog = None]
           cancelled == Resolve(shut, app.dialog.id)
           job == [Output(TRUE, app.dialog.version) EXCEPT !.action = app.dialog.id]
           gone == IF app.inFlight THEN Dismiss([cancelled EXCEPT !.inFlight = FALSE]) ELSE cancelled
<1>0. /\ Handled(app, jobs, uploads, outcomes, ended) /\ jobs \in Seq(JobShape) /\ app \in Apps
  BY RunningHandled
<1>1. /\ app.dialog # None /\ (Runs(Post(shut, job)) \/ Runs(gone))
      /\ UNCHANGED <<uploads, outcomes, vault, ended>>
  BY DEF AnswersDialog
<1>2. CASE Runs(Post(shut, job))
  <2> DEFINE b == Post(shut, job)
  <2>1. Asked(app, b, jobs, uploads, outcomes, ended) BY <1>0, <1>1, DialogSavesHandled
  <2> HIDE DEF shut, job
  <2>2. Handled(b, jobs, uploads, outcomes, ended) /\ Continues(app, b) /\ (Left(app) => Left(b))
    BY <2>1, FollowsContinues DEF Asked
  <2> QED BY <1>1, <1>2, <2>2, PlainStep
<1>3. CASE Runs(gone)
  <2>1. /\ Handled(shut, jobs, uploads, outcomes, ended)
        /\ SameCard(app, shut) /\ SameWaits(app, shut) /\ SameOutputs(app, shut)
        /\ shut.dialog = None /\ Follows(app, shut) /\ (Left(app) => Left(shut))
    BY <1>0, ShutsDialog
  <2>2. app.dialog.id \in Nat BY <1>0, <1>1 DEF Apps, Dialogs
  <2>3. shut.inFlight = app.inFlight BY <2>1 DEF SameWaits
  <2> HIDE DEF shut
  <2>4. gone = IF shut.inFlight THEN Dismiss([cancelled EXCEPT !.inFlight = FALSE]) ELSE cancelled
    BY <2>3
  <2>5. cancelled = Resolve(shut, app.dialog.id) OBVIOUS
  <2> HIDE DEF cancelled, gone
  <2>6. Handled(gone, jobs, uploads, outcomes, ended) /\ Moves(shut, gone) /\ (Left(shut) => Left(gone))
    BY <1>0, <2>1, <2>2, <2>4, <2>5, DialogCancelledHandled
  <2>7. Continues(app, gone) BY <2>1, <2>6, MovesFollows, FollowsTwice, FollowsContinues
  <2> QED BY <1>1, <1>3, <2>1, <2>6, <2>7, PlainStep
<1> QED BY <1>1, <1>2, <1>3

LEMMA WindowStep ==
  ASSUME Running, ShowsEditor PROVE Running'
<1> DEFINE b == [app EXCEPT !.editor.phase = "open", !.opening = FALSE]
<1>1. app.editor.phase = "asked" /\ Runs(b) /\ UNCHANGED <<uploads, outcomes, vault, ended>>
  BY DEF ShowsEditor
<1>2. Handled(b, jobs, uploads, outcomes, ended) /\ Continues(app, b) /\ Left(b)
  BY <1>1, RunningHandled, ShowsEditorHandled, Zenon
<1> QED BY <1>1, <1>2, PlainStep

LEMMA CloseStep ==
  ASSUME Running, EndsClose PROVE Running'
<1> DEFINE b == Thaws(app)
<1>1. app.closed # None /\ Runs(b) /\ UNCHANGED <<uploads, outcomes, vault, ended>>
  BY DEF EndsClose, Thaws
<1>2. Handled(b, jobs, uploads, outcomes, ended) /\ Continues(app, b) /\ (Left(app) => Left(b))
  BY <1>1, RunningHandled, EndsCloseHandled
<1> QED BY <1>1, <1>2, PlainStep

LEMMA InEditorIs ==
  ASSUME Running, InEditor
  PROVE  /\ Active(app) /\ app.close = None /\ app.closed = None
         /\ Handled(app, jobs, uploads, outcomes, ended) /\ jobs \in Seq(JobShape)
         /\ app.editor.version.gen \in Gens /\ ended \in [Gens -> Ends]
<1>1. /\ Handled(app, jobs, uploads, outcomes, ended) /\ jobs \in Seq(JobShape)
      /\ app \in Apps /\ Steady(app)
  BY RunningHandled
<1>2. Active(app) /\ app.close = None /\ app.closed = None BY DEF InEditor, Frozen
<1>3. ended \in [Gens -> Ends] BY <1>1 DEF Handled, Agreed, Ended
<1>4. app.editor.version.gen \in 1..(app.nextGen - 1) /\ app.nextGen \in 1..(MaxGen + 1)
  BY <1>1, <1>2 DEF Steady, Sessions, Active, Editing
<1>5. app.editor.version.gen \in Gens
  <2>1. app.editor.version \in Versions BY <1>1 DEF Apps
  <2>2. app.editor.version # Plain BY <1>4 DEF Plain, Version
  <2> QED BY <2>1, <2>2, NoneIsApart
<1> QED BY <1>1, <1>2, <1>3, <1>5

\* what the user does in an editor that keeps its session open
LEMMA InEditorStep ==
  ASSUME Running, NEW what, NEW b, Asks(what, b),
         Handled(b, jobs, uploads, outcomes, ended), Continues(app, b), Left(app) => Left(b)
  PROVE  Running'
<1>1. Runs(b) /\ UNCHANGED <<uploads, outcomes, vault, ended>> BY DEF Asks, Happens
<1> QED BY <1>1, PlainStep

LEMMA EditStep ==
  ASSUME Running, Edits PROVE Running'
<1> DEFINE b == [app EXCEPT !.editor.version.rev = @ + 1]
<1>1. InEditor /\ app.editor.version.rev < MaxRev /\ Asks("edit", b) BY DEF Edits
<1>2. Handled(b, jobs, uploads, outcomes, ended) /\ Continues(app, b) /\ Left(b)
  BY <1>1, InEditorIs, EditsHandled
<1> QED BY <1>1, <1>2, InEditorStep

LEMMA EditorSaveStep ==
  ASSUME Running, CopyInEditor \/ SaveInEditor PROVE Running'
<1>1. PICK export \in {TRUE, FALSE} :
        \E what : Asks(what, Dispatch(app, "editor", FALSE, Output(export, Edited(app))))
  BY Zenon DEF CopyInEditor, SaveInEditor
<1> DEFINE b == Dispatch(app, "editor", FALSE, Output(export, Edited(app)))
<1>2. PICK what : Asks(what, b) BY <1>1, Zenon
<1>3. Asked(app, b, jobs, uploads, outcomes, ended)
  <2>1. export \in BOOLEAN OBVIOUS
  <2> QED BY <2>1, RunningHandled, EditorOutputHandled
<1> HIDE DEF b
<1>4. Handled(b, jobs, uploads, outcomes, ended) /\ Continues(app, b) /\ (Left(app) => Left(b))
  BY <1>3, FollowsContinues DEF Asked
<1> QED BY <1>2, <1>4, InEditorStep

LEMMA ApartEnds ==
  ASSUME Running, InEditor, NEW w, NEW f, f = [ended EXCEPT ![app.editor.version.gen] = w]
  PROVE  Spares(app, ended, f, vault)
<1>1. /\ Active(app) /\ app.close = None /\ app.closed = None
      /\ app.editor.version.gen \in Gens /\ ended \in [Gens -> Ends]
  BY InEditorIs
<1>2. \A g \in Gens : g # app.editor.version.gen => f[g] = ended[g] BY <1>1
<1> QED BY <1>1, <1>2, SessionApart DEF Running

LEMMA FinishStep ==
  ASSUME Running, FinishesEditing PROVE Running'
<1> DEFINE v == app.editor.version
<1>1. /\ InEditor /\ Runs(IF Dirty THEN CommitsEdit(app) ELSE EditorClosed(app, TRUE))
      /\ UNCHANGED <<uploads, outcomes, vault>>
      /\ ended' = IF Dirty THEN [ended EXCEPT ![v.gen] = Committed(v.rev)] ELSE ended
  BY DEF FinishesEditing, Happens
<1>2. CASE Dirty
  <2> DEFINE f == [ended EXCEPT ![app.editor.version.gen] = Committed(app.editor.version.rev)]
             b == CommitsEdit(app)
  <2>1. Handled(b, jobs, uploads, outcomes, f) /\ Continues(app, b) /\ Left(b)
    BY <1>1, InEditorIs, CommitsEditHandled
  <2>2. Spares(app, ended, f, vault) BY <1>1, ApartEnds
  <2>3. Runs(b) /\ ended' = f BY <1>1, <1>2
  <2> HIDE DEF f, b
  <2>4. Handled(b, jobs, uploads, outcomes, ended') /\ Spares(app, ended, ended', vault)
    BY <2>1, <2>2, <2>3
  <2> QED BY <1>1, <2>1, <2>3, <2>4, EditorStep
<1>3. CASE ~Dirty
  <2> DEFINE b == EditorClosed(app, TRUE)
  <2>1. Ceases(app, b, jobs, uploads, outcomes, ended)
    BY <1>1, InEditorIs, DoneHandledUnchanged
  <2>2. Runs(b) /\ ended' = ended BY <1>1, <1>3, Zenon
  <2> HIDE DEF b
  <2>3. Handled(b, jobs, uploads, outcomes, ended) /\ Continues(app, b) /\ Left(b)
    BY <2>1, FollowsContinues DEF Ceases
  <2> QED BY <1>1, <2>2, <2>3, PlainStep
<1> QED BY <1>2, <1>3

LEMMA CancelStep ==
  ASSUME Running, CancelsEditing PROVE Running'
<1> DEFINE f == [ended EXCEPT ![app.editor.version.gen] = Cancelled]
           b == EditorClosed(app, FALSE)
<1>1. InEditor /\ Runs(b) /\ UNCHANGED <<uploads, outcomes, vault>> /\ ended' = f
  BY DEF CancelsEditing, Happens
<1>2. Ceases(app, b, jobs, uploads, outcomes, f) BY <1>1, InEditorIs, CancelHandled
<1>3. Spares(app, ended, f, vault) BY <1>1, ApartEnds
<1> HIDE DEF b, f
<1>4. Handled(b, jobs, uploads, outcomes, ended') /\ Continues(app, b) /\ Left(b)
      /\ Spares(app, ended, ended', vault)
  BY <1>1, <1>2, <1>3, FollowsContinues DEF Ceases
<1> QED BY <1>1, <1>4, EditorStep

LEMMA UserStep ==
  ASSUME Running, CardEvents \/ AnswersDialog \/ ShowsEditor \/ EditorEvents \/ EndsClose
  PROVE  Running'
BY CardStep, DialogStep, WindowStep, CloseStep, EditStep, EditorSaveStep, FinishStep, CancelStep
   DEF EditorEvents

-----------------------------------------------------------------------------
(* The workers                                                             *)

LEMMA TailJobs ==
  ASSUME NEW q \in Seq(JobShape), q # <<>>, NEW P
  PROVE  /\ OneOf(Opens(q), P) => OneOf(Opens(Tail(q)), P)
         /\ OneOf(Checks(q), P) => OneOf(Checks(Tail(q)), P)
         /\ OneOf(Commits(q), P) => OneOf(Commits(Tail(q)), P)
         /\ OneOf(Opens(q), P) /\ Head(q).do = "open" => Opens(Tail(q)) \union P = {}
         /\ OneOf(Checks(q), P) /\ Head(q).do = "releaseIfRetained" => Checks(Tail(q)) \union P = {}
         /\ OneOf(Commits(q), P) /\ Head(q).do = "commit" => Commits(Tail(q)) \union P = {}
<1> DEFINE t == Tail(q)
<1>1. /\ \A i \in DOMAIN t : i \in Nat /\ i + 1 \in DOMAIN q /\ i + 1 # 1 /\ t[i] = q[i+1]
      /\ 1 \in DOMAIN q /\ Head(q) = q[1]
  BY Taken
<1> HIDE DEF t
<1>2. \A S, T : /\ \A i \in T : i \in Nat
                /\ \A i \in T : i + 1 \in S
                => (OneOf(S, P) => OneOf(T, P))
  <2> SUFFICES ASSUME NEW S, NEW T, \A i \in T : i \in Nat, \A i \in T : i + 1 \in S, OneOf(S, P)
               PROVE  OneOf(T, P)
    OBVIOUS
  <2>1. T # {} => S # {} OBVIOUS
  <2>2. AtMostOne(T)
    <3> SUFFICES ASSUME NEW i \in T, NEW k \in T PROVE i = k BY DEF AtMostOne
    <3>1. i + 1 = k + 1 BY DEF OneOf, AtMostOne
    <3> QED BY <3>1
  <2> QED BY <2>1, <2>2 DEF OneOf
<1>3. \A i \in Opens(t) : i \in Nat /\ i + 1 \in Opens(q) /\ i + 1 # 1 BY <1>1 DEF Opens
<1>4. \A i \in Checks(t) : i \in Nat /\ i + 1 \in Checks(q) /\ i + 1 # 1 BY <1>1 DEF Checks
<1>5. \A i \in Commits(t) : i \in Nat /\ i + 1 \in Commits(q) /\ i + 1 # 1 BY <1>1 DEF Commits
<1>6. OneOf(Opens(q), P) => OneOf(Opens(t), P) BY <1>2, <1>3
<1>7. OneOf(Checks(q), P) => OneOf(Checks(t), P) BY <1>2, <1>4
<1>8. OneOf(Commits(q), P) => OneOf(Commits(t), P) BY <1>2, <1>5
<1>9. OneOf(Opens(q), P) /\ Head(q).do = "open" => Opens(t) \union P = {}
  <2> SUFFICES ASSUME OneOf(Opens(q), P), Head(q).do = "open" PROVE Opens(t) \union P = {} OBVIOUS
  <2>1. 1 \in Opens(q) BY <1>1 DEF Opens
  <2> QED BY <1>3, <2>1 DEF OneOf, AtMostOne
<1>10. OneOf(Checks(q), P) /\ Head(q).do = "releaseIfRetained" => Checks(t) \union P = {}
  <2> SUFFICES ASSUME OneOf(Checks(q), P), Head(q).do = "releaseIfRetained"
               PROVE  Checks(t) \union P = {}
    OBVIOUS
  <2>1. 1 \in Checks(q) BY <1>1 DEF Checks
  <2> QED BY <1>4, <2>1 DEF OneOf, AtMostOne
<1>11. OneOf(Commits(q), P) /\ Head(q).do = "commit" => Commits(t) \union P = {}
  <2> SUFFICES ASSUME OneOf(Commits(q), P), Head(q).do = "commit" PROVE Commits(t) \union P = {}
    OBVIOUS
  <2>1. 1 \in Commits(q) BY <1>1 DEF Commits
  <2> QED BY <1>5, <2>1 DEF OneOf, AtMostOne
<1> QED BY <1>6, <1>7, <1>8, <1>9, <1>10, <1>11 DEF t

\* what is known of a job when the worker takes it
Due(a, t, os, e, j) ==
  /\ j \in JobShape /\ ToldOf(a, e, j)
  /\ j.do = "upload" => Uploading(a, j.action)
  /\ j.do = "output" => Exporting(a, j.action)
  /\ j.do = "open" => Opens(t) \union OpenAnswers(os) = {} /\ ~Editing(a) /\ a.opening /\ Checks(t) = {}
  /\ j.do = "release" => ~a.visible /\ ~a.opening /\ ~Editing(a)
  /\ j.do = "releaseIfRetained" =>
       /\ ~a.finalizing /\ ~Editing(a) /\ \A i \in DOMAIN os : os[i].what # "opened"
       /\ a.shown => Checks(t) \union CheckAnswers(os) = {} /\ a.checkClose
  /\ j.do = "commit" /\ a.visible =>
       /\ a.close # None /\ a.close.version = j.version
       /\ Commits(t) \union CommitAnswers(os) = {}

LEMMA JobsAgreed ==
  ASSUME NEW a, NEW q, q # <<>>, NEW us, NEW os, NEW e, Agreed(a, q, us, os, e, "handling")
  PROVE  Agreed(a, Tail(q), us, os, e, "handling") /\ Due(a, Tail(q), os, e, Head(q))
<1> DEFINE t == Tail(q)
<1> DEFINE j == Head(q)
<1>0. q \in Seq(JobShape) BY DEF Agreed, Messages
<1>1. /\ \A i \in DOMAIN t : i \in Nat /\ i + 1 \in DOMAIN q /\ i + 1 # 1 /\ t[i] = q[i+1]
      /\ 1 \in DOMAIN q /\ j = q[1] /\ j \in JobShape /\ t \in Seq(JobShape)
  BY <1>0, Taken
<1>2. \A P : /\ OneOf(Opens(q), P) => OneOf(Opens(t), P)
             /\ OneOf(Checks(q), P) => OneOf(Checks(t), P)
             /\ OneOf(Commits(q), P) => OneOf(Commits(t), P)
             /\ OneOf(Opens(q), P) /\ j.do = "open" => Opens(t) \union P = {}
             /\ OneOf(Checks(q), P) /\ j.do = "releaseIfRetained" => Checks(t) \union P = {}
             /\ OneOf(Commits(q), P) /\ j.do = "commit" => Commits(t) \union P = {}
  BY <1>0, TailJobs
<1> HIDE DEF t, j
<1>4. \A i \in Opens(t) : i \in Nat /\ i + 1 \in Opens(q) BY <1>1 DEF Opens
<1>5. \A i \in Checks(t) : i \in Nat /\ i + 1 \in Checks(q) BY <1>1 DEF Checks
<1>6. \A i \in Commits(t) : i + 1 \in Commits(q) /\ t[i] = q[i+1] BY <1>1 DEF Commits
<1>7. Messages(a, t, us, os, e)
  <2>1. \A i \in DOMAIN t : ToldOf(a, e, t[i]) BY <1>1 DEF Agreed, Messages
  <2> QED BY <1>1, <2>1 DEF Agreed, Messages
<1>8. Uploads(a, t, us, os)
  <2>1. \A i \in DOMAIN t : /\ t[i].do = "upload" => Uploading(a, t[i].action)
                            /\ t[i].do = "output" => Exporting(a, t[i].action)
    BY <1>1, Zenon DEF Agreed, Uploads
  <2>2. Uploads(a, q, us, os) BY DEF Agreed
  <2> QED BY <2>1, <2>2 DEF Uploads
<1>9. Opening(a, t, os)
  <2>1. Opens(t) # {} => Opens(q) # {} BY <1>4
  <2> QED BY <1>2, <2>1 DEF Agreed, Opening
<1>10. Releasable(a, t) /\ Ended(a, e, "handling") BY <1>1 DEF Agreed, Releasable
<1>11. Checking(a, t, os, "handling")
  <2>1. Checks(t) # {} => Checks(q) # {} BY <1>5
  <2>2. \A i \in Checks(t), k \in Opens(t) : i < k
    <3> SUFFICES ASSUME NEW i \in Checks(t), NEW k \in Opens(t) PROVE i < k OBVIOUS
    <3>1. i + 1 < k + 1 /\ i \in Nat /\ k \in Nat BY <1>4, <1>5 DEF Agreed, Checking
    <3> QED BY <3>1
  <2> QED BY <1>2, <2>1, <2>2 DEF Agreed, Checking
<1>12. Committing(a, t, os) BY <1>2, <1>6 DEF Agreed, Committing
<1>13. Agreed(a, t, us, os, e, "handling")
  BY <1>7, <1>8, <1>9, <1>10, <1>11, <1>12 DEF Agreed
<1>14. Due(a, t, os, e, j)
  <2>1. j \in JobShape /\ ToldOf(a, e, j) BY <1>1 DEF Agreed, Messages
  <2>2. (j.do = "upload" => Uploading(a, j.action)) /\ (j.do = "output" => Exporting(a, j.action))
    BY <1>1, Zenon DEF Agreed, Uploads
  <2>3. ASSUME j.do = "open"
        PROVE  Opens(t) \union OpenAnswers(os) = {} /\ ~Editing(a) /\ a.opening /\ Checks(t) = {}
    <3>1. 1 \in Opens(q) BY <1>1, <2>3 DEF Opens
    <3>2. Checks(t) = {}
      <4> SUFFICES ASSUME NEW i \in Checks(t) PROVE FALSE OBVIOUS
      <4>1. i + 1 < 1 /\ i \in Nat BY <1>5, <3>1 DEF Agreed, Checking
      <4> QED BY <4>1
    <3> QED BY <1>2, <2>3, <3>1, <3>2 DEF Agreed, Opening
  <2>4. j.do = "release" => ~a.visible /\ ~a.opening /\ ~Editing(a) BY <1>1 DEF Agreed, Releasable
  <2>5. ASSUME j.do = "releaseIfRetained"
        PROVE  /\ ~a.finalizing /\ ~Editing(a) /\ \A i \in DOMAIN os : os[i].what # "opened"
               /\ a.shown => Checks(t) \union CheckAnswers(os) = {} /\ a.checkClose
    <3>1. Checks(q) # {} BY <1>1, <2>5 DEF Checks
    <3>2. Checks(q) \union CheckAnswers(os) # {} BY <3>1
    <3> QED BY <1>2, <2>5, <3>1, <3>2 DEF Agreed, Checking
  <2>6. ASSUME j.do = "commit", a.visible
        PROVE  /\ a.close # None /\ a.close.version = j.version
               /\ Commits(t) \union CommitAnswers(os) = {}
    <3>1. 1 \in Commits(q) BY <1>1, <2>6 DEF Commits
    <3> QED BY <1>1, <1>2, <2>6, <3>1 DEF Agreed, Committing
  <2> QED BY <2>1, <2>2, <2>3, <2>4, <2>5, <2>6 DEF Due
<1> QED BY <1>13, <1>14 DEF t, j

LEMMA OneMoreAnswer ==
  ASSUME NEW os \in Seq(OutcomeShape), NEW o \in OutcomeShape
  PROVE  /\ OpenAnswers(Append(os, o)) = IF o.what \in {"opened", "refused"}
                                         THEN OpenAnswers(os) \union {Len(os) + 1} ELSE OpenAnswers(os)
         /\ CheckAnswers(Append(os, o)) = IF o.what = "retention"
                                          THEN CheckAnswers(os) \union {Len(os) + 1} ELSE CheckAnswers(os)
         /\ CommitAnswers(Append(os, o)) = IF o.what \in {"committed", "commit failed"}
                                           THEN CommitAnswers(os) \union {Len(os) + 1} ELSE CommitAnswers(os)
<1> DEFINE n == Append(os, o)
<1>1. /\ DOMAIN n = DOMAIN os \union {Len(os) + 1}
      /\ Len(os) + 1 \notin DOMAIN os /\ n[Len(os) + 1] = o
      /\ \A i \in DOMAIN os : n[i] = os[i]
  BY Appended
<1> HIDE DEF n
<1>2. OpenAnswers(n) = IF o.what \in {"opened", "refused"}
                       THEN OpenAnswers(os) \union {Len(os) + 1} ELSE OpenAnswers(os)
  BY <1>1 DEF OpenAnswers
<1>3. CheckAnswers(n) = IF o.what = "retention"
                        THEN CheckAnswers(os) \union {Len(os) + 1} ELSE CheckAnswers(os)
  BY <1>1 DEF CheckAnswers
<1>4. CommitAnswers(n) = IF o.what \in {"committed", "commit failed"}
                         THEN CommitAnswers(os) \union {Len(os) + 1} ELSE CommitAnswers(os)
  BY <1>1, Zenon DEF CommitAnswers
<1> QED BY <1>2, <1>3, <1>4, Zenon DEF n

LEMMA OneOfMore ==
  ASSUME NEW S, NEW T, NEW k
  PROVE  S \union T = {} => OneOf(S, T \union {k})
BY DEF OneOf, AtMostOne

\* one more outcome, that may be told
LEMMA ReportAgreed ==
  ASSUME NEW a, NEW t, NEW us, NEW os, NEW e, Agreed(a, t, us, os, e, "handling"),
         NEW o, Telling(a, t, os, e, o)
  PROVE  Agreed(a, t, us, Append(os, o), e, "handling")
<1> DEFINE n == Append(os, o)
<1>0. os \in Seq(OutcomeShape) /\ o \in OutcomeShape BY Zenon DEF Agreed, Messages, Telling
<1>1. /\ n \in Seq(OutcomeShape) /\ DOMAIN n = DOMAIN os \union {Len(os) + 1}
      /\ Len(os) + 1 \notin DOMAIN os /\ n[Len(os) + 1] = o
      /\ \A i \in DOMAIN os : n[i] = os[i]
  BY <1>0, Appended
<1>2. /\ OpenAnswers(n) = IF o.what \in {"opened", "refused"}
                          THEN OpenAnswers(os) \union {Len(os) + 1} ELSE OpenAnswers(os)
      /\ CheckAnswers(n) = IF o.what = "retention"
                           THEN CheckAnswers(os) \union {Len(os) + 1} ELSE CheckAnswers(os)
      /\ CommitAnswers(n) = IF o.what \in {"committed", "commit failed"}
                            THEN CommitAnswers(os) \union {Len(os) + 1} ELSE CommitAnswers(os)
  BY <1>0, OneMoreAnswer, Zenon
<1> HIDE DEF n
<1>3. \A i \in DOMAIN n : (i \in DOMAIN os /\ n[i] = os[i]) \/ n[i] = o BY <1>1
<1>4. Messages(a, t, us, n, e)
  <2>1. \A i \in DOMAIN n : ToldOf(a, e, n[i]) BY <1>3, Zenon DEF Agreed, Messages, Telling
  <2> QED BY <1>1, <2>1 DEF Agreed, Messages
<1>5. Uploads(a, t, us, n)
  <2>1. \A i \in DOMAIN n : /\ n[i].what \in Uploaded => Uploading(a, n[i].action)
                            /\ n[i].what \in Exported => Exporting(a, n[i].action)
    BY <1>3, Zenon DEF Agreed, Uploads, Telling
  <2>2. Uploads(a, t, us, os) BY DEF Agreed
  <2> QED BY <2>1, <2>2 DEF Uploads
<1>6. Opening(a, t, n)
  <2>1. CASE o.what \in {"opened", "refused"}
    <3>1. Opens(t) \union OpenAnswers(os) = {} /\ ~Editing(a) /\ a.opening BY <2>1, Zenon DEF Telling
    <3>2. OneOf(Opens(t), OpenAnswers(os) \union {Len(os) + 1}) BY <3>1, OneOfMore
    <3>3. OneOf(Opens(t), OpenAnswers(n)) BY <1>2, <2>1, <3>2, Zenon
    <3> QED BY <3>1, <3>3 DEF Opening
  <2>2. CASE o.what \notin {"opened", "refused"} BY <1>2, <2>2, Zenon DEF Agreed, Opening
  <2> QED BY <2>1, <2>2
<1>7. Releasable(a, t) /\ Ended(a, e, "handling") BY DEF Agreed
<1>8. Checking(a, t, n, "handling")
  <2>1. Checks(t) # {} => ~Editing(a) /\ \A i \in DOMAIN n : n[i].what # "opened"
    BY <1>3, Zenon DEF Agreed, Checking, Telling
  <2>2. \A i \in Checks(t), k \in Opens(t) : i < k BY DEF Agreed, Checking
  <2>3. CASE o.what = "retention"
    <3>1. ~a.finalizing /\ (a.shown => Checks(t) \union CheckAnswers(os) = {} /\ a.checkClose)
      BY <2>3 DEF Telling
    <3>2. a.shown => OneOf(Checks(t), CheckAnswers(os) \union {Len(os) + 1}) BY <3>1, OneOfMore
    <3>3. a.shown => OneOf(Checks(t), CheckAnswers(n)) BY <1>2, <2>3, <3>2
    <3> QED BY <2>1, <2>2, <3>1, <3>3 DEF Checking
  <2>4. CASE o.what # "retention" BY <1>2, <2>1, <2>2, <2>4, Zenon DEF Agreed, Checking
  <2> QED BY <2>3, <2>4
<1>9. Committing(a, t, n)
  <2>1. CASE o.what \in {"committed", "commit failed"} /\ a.visible
    <3>1. /\ a.close # None /\ a.close.version = o.version
          /\ Commits(t) \union CommitAnswers(os) = {}
      BY <2>1, Zenon DEF Telling
    <3>2. OneOf(Commits(t), CommitAnswers(os) \union {Len(os) + 1}) BY <3>1, OneOfMore
    <3>3. OneOf(Commits(t), CommitAnswers(n)) BY <1>2, <2>1, <3>2, Zenon
    <3>4. \A i \in CommitAnswers(n) : n[i] = o
      <4>1. CommitAnswers(n) = {Len(os) + 1}
        <5>1. CommitAnswers(os) = {} BY <3>1
        <5> QED BY <1>2, <2>1, <5>1, Zenon
      <4> QED BY <1>1, <4>1
    <3>5. Commits(t) = {} BY <3>1
    <3> QED BY <3>1, <3>3, <3>4, <3>5 DEF Committing
  <2>2. CASE o.what \notin {"committed", "commit failed"}
    <3>1. \A i \in CommitAnswers(n) : i \in CommitAnswers(os) /\ n[i] = os[i]
      BY <1>1, <1>2, <2>2, Zenon DEF CommitAnswers
    <3> QED BY <1>2, <2>2, <3>1, Zenon DEF Agreed, Committing
  <2>3. CASE ~a.visible BY <2>3 DEF Committing
  <2> QED BY <2>1, <2>2, <2>3, Zenon
<1> QED BY <1>4, <1>5, <1>6, <1>7, <1>8, <1>9 DEF Agreed, n

\* the worker tells no more than what it has, or has lost
Honest(v, o) ==
  /\ o.what = "opened" => v.version # None
  /\ o.what = "retention" /\ o.ok => v.version = None

LEMMA VaultReports ==
  ASSUME NEW a, NEW e, NEW v, NEW os \in Seq(OutcomeShape), NEW o \in OutcomeShape, Honest(v, o),
         Keeps(a, v, os), Shows(a, v, os), Shelved(a, e, v, os)
  PROVE  Keeps(a, v, Append(os, o)) /\ Shows(a, v, Append(os, o)) /\ Shelved(a, e, v, Append(os, o))
<1> DEFINE n == Append(os, o)
<1>1. /\ \A i \in DOMAIN n : (i \in DOMAIN os /\ n[i] = os[i]) \/ n[i] = o
      /\ \A i \in DOMAIN os : i \in DOMAIN n /\ n[i] = os[i]
  BY Appended
<1> HIDE DEF n
<1>2. Keeps(a, v, n) BY <1>1 DEF Keeps, Honest
<1>3. Shows(a, v, n) BY <1>1 DEF Shows
<1>4. Shelved(a, e, v, n)
  <2>1. (\E i \in DOMAIN os : os[i].what = "committed") => \E i \in DOMAIN n : n[i].what = "committed"
    BY <1>1
  <2> QED BY <2>1 DEF Shelved
<1> QED BY <1>2, <1>3, <1>4 DEF n

\* a job is done
LEMMA WorkServed ==
  ASSUME NEW a, NEW q, q # <<>>, NEW us, NEW os, NEW e, NEW v, Served(a, q, us, os, e, v),
         NEW u, NEW n, NEW w, Agreed(a, Tail(q), u, n, e, "handling"),
         Keeps(a, w, n), Shows(a, w, n), Shelved(a, e, w, n),
         w.version # None => v.version # None /\ Head(q).do # "release"
  PROVE  Served(a, Tail(q), u, n, e, w)
<1>1. /\ Head(q) = q[1]
      /\ \A i \in DOMAIN q : i # 1 => i - 1 \in DOMAIN Tail(q) /\ Tail(q)[i-1] = q[i]
  BY ServedHandled, Taken
<1>2. Claimed(a, Tail(q), w)
  <2> SUFFICES ASSUME w.version # None, ~Owns(a)
               PROVE  \E i \in DOMAIN Tail(q) : Tail(q)[i].do = "release"
    BY DEF Claimed
  <2>1. PICK i \in DOMAIN q : q[i].do = "release" BY DEF Served, Claimed
  <2>2. i # 1 BY <1>1, <2>1
  <2> QED BY <1>1, <2>1, <2>2
<1> QED BY <1>2 DEF Served

\* a job is done, and an outcome tells of it
LEMMA WorkReports ==
  ASSUME NEW a, NEW q, q # <<>>, NEW us, NEW os, NEW e, NEW v, Served(a, q, us, os, e, v),
         NEW o, Telling(a, Tail(q), os, e, o), Honest(v, o), Head(q).do # "release"
  PROVE  Served(a, Tail(q), us, Append(os, o), e, v)
<1>1. os \in Seq(OutcomeShape) /\ o \in OutcomeShape BY ServedHandled, Zenon DEF Telling
<1>2. Agreed(a, Tail(q), us, os, e, "handling") BY JobsAgreed DEF Served
<1>3. Agreed(a, Tail(q), us, Append(os, o), e, "handling") BY <1>2, ReportAgreed
<1>4. Keeps(a, v, os) /\ Shows(a, v, os) /\ Shelved(a, e, v, os) BY DEF Served
<1>5. Keeps(a, v, Append(os, o)) /\ Shows(a, v, Append(os, o)) /\ Shelved(a, e, v, Append(os, o))
  BY <1>1, <1>4, VaultReports
<1> QED BY <1>3, <1>5, WorkServed

LEMMA AnswerShape ==
  ASSUME NEW j \in JobShape, NEW what \in Whats \ {"finalized", "opened", "committed", "commit failed", "persist"}
  PROVE  /\ Answer(what, j) \in OutcomeShape /\ Answer(what, j).what = what
         /\ Answer(what, j).action = j.action /\ Answer(what, j).version = j.version
<1>1. Plain \in Versions BY NoneIsApart, Zenon
<1> QED BY <1>1, Zenon DEF Answer, Told, OutcomeShape, JobShape

LEMMA EditAnswerShape ==
  ASSUME NEW j \in JobShape, j.do \in {"commit", "persist"},
         NEW what \in {"committed", "commit failed", "persist"}
  PROVE  /\ Answer(what, j) \in OutcomeShape /\ Answer(what, j).what = what
         /\ Answer(what, j).action = j.action /\ Answer(what, j).version = j.version
<1>1. Plain \in Versions BY NoneIsApart, Zenon
<1> QED BY <1>1, Zenon DEF Answer, Told, OutcomeShape, JobShape, Whats

LEMMA PersistShape ==
  ASSUME NEW j \in JobShape, j.do = "persist", NEW ok \in {TRUE, FALSE},
         NEW o, o = [Answer("persist", j) EXCEPT !.ok = ok]
  PROVE  o \in OutcomeShape /\ o.what = "persist" /\ o.action = j.action /\ o.version = j.version
<1>1. Plain \in Versions BY NoneIsApart
<1> QED BY <1>1, Zenon DEF Answer, Told, OutcomeShape, JobShape, Whats

LEMMA ToldShape ==
  ASSUME NEW what \in {"opened", "refused", "retention"}
  PROVE  /\ Told(what) \in OutcomeShape /\ Told(what).what = what
         /\ Told(what).action = 0 /\ Told(what).version = Plain
BY NoneIsApart, Zenon DEF Told, OutcomeShape, Whats

LEMMA PlainTold ==
  ASSUME NEW a, Steady(a), NEW e, NEW m, m.action = 0, m.version = Plain
  PROVE  ToldOf(a, e, m)
BY ZeroNumbered DEF ToldOf, Judges

LEMMA SameTold ==
  ASSUME NEW a, NEW e, NEW m, NEW o, ToldOf(a, e, m), o.action = m.action, o.version = m.version
  PROVE  ToldOf(a, e, o)
BY DEF ToldOf, Numbered

\* an image of its own, or the card's
LEMMA OutputJob ==
  ASSUME NEW a, NEW q, q # <<>>, NEW us, NEW os, NEW e, NEW v, Served(a, q, us, os, e, v),
         Head(q).do = "output", NEW what \in {"done", "output refused"}
  PROVE  Served(a, Tail(q), us, Append(os, Answer(what, Head(q))), e, v)
<1> DEFINE o == Answer(what, Head(q))
<1>1. Due(a, Tail(q), os, e, Head(q)) BY JobsAgreed, Zenon DEF Served
<1>2. Head(q) \in JobShape /\ ToldOf(a, e, Head(q)) /\ Exporting(a, Head(q).action)
  BY <1>1, Zenon DEF Due
<1>3. o \in OutcomeShape /\ o.what = what /\ o.action = Head(q).action /\ o.version = Head(q).version
  BY <1>2, AnswerShape, Zenon DEF Whats
<1> HIDE DEF o
<1>4. ToldOf(a, e, o) BY <1>2, <1>3, SameTold, Zenon
<1>5. Telling(a, Tail(q), os, e, o) /\ Honest(v, o)
  BY <1>2, <1>3, <1>4 DEF Telling, Honest, Uploaded, Exported
<1> QED BY <1>5, WorkReports, Zenon DEF o

LEMMA UploadJobRefused ==
  ASSUME NEW a, NEW q, q # <<>>, NEW us, NEW os, NEW e, NEW v, Served(a, q, us, os, e, v),
         Head(q).do = "upload"
  PROVE  Served(a, Tail(q), us, Append(os, Answer("upload refused", Head(q))), e, v)
<1> DEFINE o == Answer("upload refused", Head(q))
<1>1. Due(a, Tail(q), os, e, Head(q)) BY JobsAgreed DEF Served
<1>2. Head(q) \in JobShape /\ ToldOf(a, e, Head(q)) /\ Uploading(a, Head(q).action) BY <1>1 DEF Due
<1>3. o \in OutcomeShape /\ o.what = "upload refused" /\ o.action = Head(q).action
      /\ o.version = Head(q).version
  BY <1>2, AnswerShape, Zenon DEF Whats
<1> HIDE DEF o
<1>4. ToldOf(a, e, o) BY <1>2, <1>3, SameTold, Zenon
<1>5. Telling(a, Tail(q), os, e, o) /\ Honest(v, o)
  BY <1>2, <1>3, <1>4 DEF Telling, Honest, Uploaded, Exported
<1> QED BY <1>5, WorkReports, Zenon DEF o

\* the upload is of the pixels as they are now
LEMMA UploadJobQueued ==
  ASSUME NEW a, NEW q, q # <<>>, NEW us, NEW os, NEW e, NEW v, Served(a, q, us, os, e, v),
         Head(q).do = "upload", v.version # None \/ Head(q).version # Plain,
         NEW j, j = [Head(q) EXCEPT !.version = IF Head(q).version = Plain THEN v.version
                                                ELSE Head(q).version]
  PROVE  Served(a, Tail(q), Append(us, j), os, e, v)
<1> DEFINE h == Head(q)
           n == Append(us, j)
<1>1. Due(a, Tail(q), os, e, h) /\ Agreed(a, Tail(q), us, os, e, "handling") BY JobsAgreed DEF Served
<1>2. h \in JobShape /\ ToldOf(a, e, h) /\ Uploading(a, h.action) BY <1>1 DEF Due
<1>3. v.version \in Versions \union {None} BY DEF Served, Keeps, Vaults
<1>4. j.version \in Versions /\ j.action = h.action /\ j.do = "upload"
      /\ j.version = IF h.version = Plain THEN v.version ELSE h.version
  BY <1>2, <1>3 DEF JobShape
<1>5. j \in JobShape BY <1>2, <1>4 DEF JobShape
<1>6. Judges(a, e, j.action, j.version)
  <2>1. CASE h.version = Plain
    <3>1. a.visible /\ v.version \notin {None, Plain} =>
            v.version.gen < a.nextGen /\ e[v.version.gen] \in {Open, Committed(v.version.rev)}
      BY DEF Served, Shelved
    <3>2. j.version = v.version /\ v.version # None BY <1>4, <2>1
    <3> QED BY <3>1, <3>2 DEF Judges
  <2>2. CASE h.version # Plain BY <1>2, <1>4, <2>2 DEF ToldOf
  <2> QED BY <2>1, <2>2
<1>7. ToldOf(a, e, j) BY <1>2, <1>4, <1>6 DEF ToldOf, Numbered
<1>8. us \in Seq(JobShape) BY <1>1 DEF Agreed, Messages
<1> HIDE DEF h
<1>9. /\ n \in Seq(JobShape)
      /\ \A i \in DOMAIN n : (i \in DOMAIN us /\ n[i] = us[i]) \/ n[i] = j
  BY <1>5, <1>8, Appended
<1> HIDE DEF n
<1>10. Messages(a, Tail(q), n, os, e)
  <2>1. \A i \in DOMAIN n : ToldOf(a, e, n[i]) BY <1>1, <1>7, <1>9 DEF Agreed, Messages
  <2> QED BY <1>1, <1>9, <2>1 DEF Agreed, Messages
<1>11. Uploads(a, Tail(q), n, os)
  <2>1. \A i \in DOMAIN n : Uploading(a, n[i].action) BY <1>1, <1>2, <1>4, <1>9, Zenon DEF Agreed, Uploads
  <2> QED BY <1>1, <2>1, Zenon DEF Agreed, Uploads
<1>12. Agreed(a, Tail(q), n, os, e, "handling") BY <1>1, <1>10, <1>11 DEF Agreed
<1>13. Keeps(a, v, os) /\ Shows(a, v, os) /\ Shelved(a, e, v, os) BY DEF Served
<1> QED BY <1>12, <1>13, WorkServed DEF n

LEMMA OpenJob ==
  ASSUME NEW a, NEW q, q # <<>>, NEW us, NEW os, NEW e, NEW v, Served(a, q, us, os, e, v),
         Head(q).do = "open", NEW what \in {"opened", "refused"}, what = "opened" => v.version # None
  PROVE  Served(a, Tail(q), us, Append(os, Told(what)), e, v)
<1> DEFINE o == Told(what)
<1>1. Due(a, Tail(q), os, e, Head(q)) /\ Steady(a) BY JobsAgreed DEF Served
<1>2. Opens(Tail(q)) \union OpenAnswers(os) = {} /\ ~Editing(a) /\ a.opening /\ Checks(Tail(q)) = {}
  BY <1>1 DEF Due
<1>3. o \in OutcomeShape /\ o.what = what /\ o.action = 0 /\ o.version = Plain BY ToldShape
<1> HIDE DEF o
<1>4. ToldOf(a, e, o) BY <1>1, <1>3, PlainTold
<1>5. Telling(a, Tail(q), os, e, o) BY <1>2, <1>3, <1>4 DEF Telling, Uploaded, Exported
<1>6. Honest(v, o) BY <1>3 DEF Honest
<1> QED BY <1>5, <1>6, WorkReports DEF o

LEMMA PersistJob ==
  ASSUME NEW a, NEW q, q # <<>>, NEW us, NEW os, NEW e, NEW v, Served(a, q, us, os, e, v),
         Head(q).do = "persist", NEW ok \in {TRUE, FALSE}
  PROVE  Served(a, Tail(q), us, Append(os, [Answer("persist", Head(q)) EXCEPT !.ok = ok]), e, v)
<1> DEFINE o == [Answer("persist", Head(q)) EXCEPT !.ok = ok]
<1>1. Due(a, Tail(q), os, e, Head(q)) BY JobsAgreed DEF Served
<1>2. Head(q) \in JobShape /\ ToldOf(a, e, Head(q)) BY <1>1 DEF Due
<1>3. o \in OutcomeShape /\ o.what = "persist" /\ o.action = Head(q).action
      /\ o.version = Head(q).version
  BY <1>2, PersistShape
<1> HIDE DEF o
<1>4. ToldOf(a, e, o) BY <1>2, <1>3, SameTold
<1>5. Telling(a, Tail(q), os, e, o) /\ Honest(v, o)
  BY <1>3, <1>4 DEF Telling, Honest, Uploaded, Exported
<1> QED BY <1>5, WorkReports DEF o

LEMMA CommitJobTelling ==
  ASSUME NEW a, NEW q, q # <<>>, NEW us, NEW os, NEW e, NEW v, Served(a, q, us, os, e, v),
         Head(q).do = "commit", NEW what \in {"committed", "commit failed"},
         NEW o, o = Answer(what, Head(q))
  PROVE  /\ Telling(a, Tail(q), os, e, o) /\ o.what = what /\ Honest(v, o)
         /\ Head(q).version \in EditVersions /\ o.version = Head(q).version
<1>1. Due(a, Tail(q), os, e, Head(q)) BY JobsAgreed, Zenon DEF Served
<1>2. Head(q) \in JobShape /\ ToldOf(a, e, Head(q)) BY <1>1, Zenon DEF Due
<1>3. o \in OutcomeShape /\ o.what = what /\ o.action = Head(q).action
      /\ o.version = Head(q).version
  BY <1>2, EditAnswerShape, Zenon
<1>4. ToldOf(a, e, o) BY <1>2, <1>3, SameTold, Zenon
<1>5. a.visible => /\ a.close # None /\ a.close.version = o.version
                   /\ Commits(Tail(q)) \union CommitAnswers(os) = {}
  BY <1>1, <1>3, Zenon DEF Due
<1>6. Telling(a, Tail(q), os, e, o) BY <1>3, <1>4, <1>5 DEF Telling, Uploaded, Exported
<1>7. Honest(v, o) BY <1>3, Zenon DEF Honest
<1>8. Head(q).version \in EditVersions BY <1>2, Zenon DEF JobShape
<1> QED BY <1>3, <1>6, <1>7, <1>8, Zenon

LEMMA CommitJobFailed ==
  ASSUME NEW a, NEW q, q # <<>>, NEW us, NEW os, NEW e, NEW v, Served(a, q, us, os, e, v),
         Head(q).do = "commit"
  PROVE  Served(a, Tail(q), us, Append(os, Answer("commit failed", Head(q))), e, v)
<1> DEFINE o == Answer("commit failed", Head(q))
<1>1. Telling(a, Tail(q), os, e, o) /\ Honest(v, o) BY CommitJobTelling, Zenon
<1> HIDE DEF o
<1> QED BY <1>1, WorkReports, Zenon DEF o

\* the card's pixels are of the edit from now on
LEMMA CommitJobDone ==
  ASSUME NEW a, NEW q, q # <<>>, NEW us, NEW os, NEW e, NEW v, Served(a, q, us, os, e, v),
         Head(q).do = "commit", v.version # None,
         NEW w, w = [v EXCEPT !.version = Head(q).version]
  PROVE  Served(a, Tail(q), us, Append(os, Answer("committed", Head(q))), e, w)
<1> DEFINE o == Answer("committed", Head(q))
           n == Append(os, o)
<1>1. /\ Telling(a, Tail(q), os, e, o) /\ o.what = "committed"
      /\ Head(q).version \in EditVersions /\ o.version = Head(q).version
  BY CommitJobTelling, ZenonT(30)
<1>2. os \in Seq(OutcomeShape) /\ o \in OutcomeShape BY <1>1, ServedHandled, Zenon DEF Telling
<1> HIDE DEF o
<1>3. /\ \A i \in DOMAIN n : (i \in DOMAIN os /\ n[i] = os[i]) \/ n[i] = o
      /\ Len(os) + 1 \in DOMAIN n /\ n[Len(os) + 1] = o
  BY <1>2, Appended
<1>4. Agreed(a, Tail(q), us, os, e, "handling") BY JobsAgreed DEF Served
<1>5. Agreed(a, Tail(q), us, n, e, "handling") BY <1>1, <1>4, ReportAgreed
<1> HIDE DEF n
<1>6. v \in Vaults BY DEF Served, Keeps
<1>7. w \in Vaults /\ w.version = Head(q).version BY <1>1, <1>6, NoneIsApart DEF Vaults
<1>8. w.version # None /\ w.version # Plain BY <1>1, <1>7, NoneIsApart
<1>9. Keeps(a, w, n)
  <2>1. \A i \in DOMAIN os : ~(os[i].what = "retention" /\ os[i].ok) BY DEF Served, Keeps
  <2>2. \A i \in DOMAIN n : ~(n[i].what = "retention" /\ n[i].ok) BY <1>1, <1>3, <2>1
  <2> QED BY <1>7, <1>8, <2>2 DEF Keeps
<1>10. Shows(a, w, n) BY <1>8 DEF Shows
<1>11. Shelved(a, e, w, n)
  <2> SUFFICES ASSUME a.visible
               PROVE  /\ w.version.gen < a.nextGen
                      /\ e[w.version.gen] \in {Open, Committed(w.version.rev)}
                      /\ \E i \in DOMAIN n : n[i].what = "committed"
    BY DEF Shelved
  <2>1. a.close # None /\ a.close.version = w.version BY <1>1, <1>7 DEF Telling
  <2>2. Active(a) /\ a.close.version = a.editor.version BY <2>1 DEF Served, Steady, Freezing
  <2>3. Editing(a) BY <2>2 DEF Active, Editing
  <2>4. a.editor.version.gen \in 1..(a.nextGen - 1) /\ a.nextGen \in Nat
    BY <2>3 DEF Served, Steady, Sessions, Apps
  <2>5. e[a.editor.version.gen] \in {Open, Committed(a.editor.version.rev)}
    BY <2>3 DEF Served, Agreed, Ended
  <2>6. w.version.gen < a.nextGen BY <2>1, <2>2, <2>4
  <2> QED BY <1>1, <1>3, <2>1, <2>2, <2>5, <2>6
<1>12. Head(q).do # "release" OBVIOUS
<1> QED BY <1>5, <1>9, <1>10, <1>11, <1>12, WorkServed DEF n, o

LEMMA ReleaseJob ==
  ASSUME NEW a, NEW q, q # <<>>, NEW us, NEW os, NEW e, NEW v, Served(a, q, us, os, e, v),
         Head(q).do = "release"
  PROVE  Served(a, Tail(q), us, os, e, Forgotten)
<1>1. /\ Agreed(a, Tail(q), us, os, e, "handling") /\ Due(a, Tail(q), os, e, Head(q))
  BY JobsAgreed DEF Served
<1>2. ~a.visible /\ ~a.opening /\ ~Editing(a) BY <1>1 DEF Due
<1>3. Forgotten.version = None /\ Forgotten \in Vaults BY DEF Forgotten, Vaults
<1>4. Keeps(a, Forgotten, os)
  <2>1. \A i \in DOMAIN os : os[i].what # "opened"
    <3> SUFFICES ASSUME NEW i \in DOMAIN os, os[i].what = "opened" PROVE FALSE OBVIOUS
    <3>1. i \in OpenAnswers(os) BY DEF OpenAnswers
    <3>2. a.opening BY <3>1 DEF Served, Agreed, Opening
    <3> QED BY <1>2, <3>2
  <2> QED BY <1>2, <1>3, <2>1 DEF Keeps
<1>5. ~a.shown BY <1>2 DEF Served, Steady, Withdrawn
<1>6. Shows(a, Forgotten, os) BY <1>5 DEF Shows
<1>7. Shelved(a, e, Forgotten, os) BY <1>3 DEF Shelved
<1> QED BY <1>1, <1>3, <1>4, <1>6, <1>7, WorkServed

LEMMA CheckJob ==
  ASSUME NEW a, NEW q, q # <<>>, NEW us, NEW os, NEW e, NEW v, Served(a, q, us, os, e, v),
         Head(q).do = "releaseIfRetained", NEW released \in {TRUE, FALSE},
         NEW w, w = IF released THEN Forgotten ELSE v
  PROVE  Served(a, Tail(q), us, Append(os, [Told("retention") EXCEPT !.ok = released]), e, w)
<1> DEFINE o == [Told("retention") EXCEPT !.ok = released]
           n == Append(os, o)
<1>1. /\ Agreed(a, Tail(q), us, os, e, "handling") /\ Due(a, Tail(q), os, e, Head(q))
      /\ Steady(a) /\ os \in Seq(OutcomeShape)
  BY JobsAgreed, ServedHandled DEF Served
<1>2. o \in OutcomeShape /\ o.what = "retention" /\ o.action = 0 /\ o.version = Plain
      /\ (o.ok <=> released)
  BY NoneIsApart, Zenon DEF Told, OutcomeShape, Whats
<1> HIDE DEF o
<1>3. ToldOf(a, e, o) BY <1>1, <1>2, PlainTold
<1>4. Telling(a, Tail(q), os, e, o)
  <2>1. ~a.finalizing /\ (a.shown => Checks(Tail(q)) \union CheckAnswers(os) = {} /\ a.checkClose)
    BY <1>1 DEF Due
  <2> QED BY <1>2, <1>3, <2>1 DEF Telling, Uploaded, Exported
<1>5. CASE ~released
  <2>1. w = v /\ Honest(v, o) BY <1>2, <1>5 DEF Honest
  <2>2. Head(q).do # "release" OBVIOUS
  <2> QED BY <1>4, <2>1, <2>2, WorkReports DEF o
<1>6. CASE released
  <2>1. /\ \A i \in DOMAIN n : (i \in DOMAIN os /\ n[i] = os[i]) \/ n[i] = o
        /\ Len(os) + 1 \in DOMAIN n /\ n[Len(os) + 1] = o
    BY <1>1, <1>2, Appended
  <2>2. Agreed(a, Tail(q), us, n, e, "handling") BY <1>1, <1>4, ReportAgreed
  <2> HIDE DEF n
  <2>3. w = Forgotten /\ w.version = None /\ w \in Vaults BY <1>6 DEF Forgotten, Vaults
  <2>4. ~Editing(a) /\ \A i \in DOMAIN os : os[i].what # "opened" BY <1>1 DEF Due
  <2>5. \A i \in DOMAIN n : n[i].what # "opened" BY <1>2, <2>1, <2>4
  <2>6. Keeps(a, w, n) BY <2>3, <2>4, <2>5 DEF Keeps
  <2>7. Shows(a, w, n) BY <1>2, <1>6, <2>1 DEF Shows
  <2>8. Shelved(a, e, w, n) BY <2>3 DEF Shelved
  <2> QED BY <2>2, <2>3, <2>6, <2>7, <2>8, WorkServed DEF n, o
<1> QED BY <1>5, <1>6

\* only whether history has the pixels changes
LEMMA FiledVault ==
  ASSUME NEW a, NEW e, NEW v, NEW os, NEW w \in Vaults, w.version = v.version,
         Keeps(a, v, os), Shows(a, v, os), Shelved(a, e, v, os)
  PROVE  Keeps(a, w, os) /\ Shows(a, w, os) /\ Shelved(a, e, w, os)
<1>1. Keeps(a, w, os) BY DEF Keeps
<1>2. Shows(a, w, os) BY DEF Shows
<1>3. Shelved(a, e, w, os) BY DEF Shelved
<1> QED BY <1>1, <1>2, <1>3

LEMMA FinalizeJob ==
  ASSUME NEW a, NEW q, q # <<>>, NEW us, NEW os, NEW e, NEW v, Served(a, q, us, os, e, v),
         Head(q).do = "finalize", NEW o \in OutcomeShape, o.what = "finalized", o.action = 0,
         o.version = Plain, NEW w \in Vaults, w.version = v.version
  PROVE  Served(a, Tail(q), us, Append(os, o), e, w)
<1>1. Agreed(a, Tail(q), us, os, e, "handling") /\ Steady(a) /\ os \in Seq(OutcomeShape)
  BY JobsAgreed, ServedHandled DEF Served
<1>2. ToldOf(a, e, o) BY <1>1, PlainTold
<1>3. Telling(a, Tail(q), os, e, o) /\ Honest(w, o)
  BY <1>2 DEF Telling, Honest, Uploaded, Exported
<1>4. Agreed(a, Tail(q), us, Append(os, o), e, "handling") BY <1>1, <1>3, ReportAgreed
<1>5. Keeps(a, v, os) /\ Shows(a, v, os) /\ Shelved(a, e, v, os) BY DEF Served
<1>6. Keeps(a, w, os) /\ Shows(a, w, os) /\ Shelved(a, e, w, os) BY <1>5, FiledVault
<1>7. Keeps(a, w, Append(os, o)) /\ Shows(a, w, Append(os, o)) /\ Shelved(a, e, w, Append(os, o))
  BY <1>1, <1>3, <1>6, VaultReports
<1>8. Head(q).do # "release" OBVIOUS
<1> QED BY <1>4, <1>7, <1>8, WorkServed

\* a job of the worker; the main thread goes on meanwhile
Works(w, u, n) ==
  /\ jobs # <<>> /\ jobs' = Tail(jobs) /\ app' = app /\ ended' = ended
  /\ vault' = w /\ uploads' = u /\ outcomes' = n

LEMMA WorksStep ==
  ASSUME NEW w, NEW u, NEW n, Works(w, u, n), Served(app, Tail(jobs), u, n, ended, w)
  PROVE  Running'
<1>1. Served(app', jobs', uploads', outcomes', ended', vault') BY DEF Works
<1> QED BY <1>1 DEF Running

LEMMA OutputStep ==
  ASSUME Running, Worker, Head(jobs).do = "output" PROVE Running'
<1>0. Served(app, jobs, uploads, outcomes, ended, vault) BY DEF Running
<1>1. jobs # <<>> /\ Answers(Head(jobs)) BY DEF Worker, Work
<1>2. PICK what \in {"done", "output refused"} :
        /\ outcomes' = Append(outcomes, Answer(what, Head(jobs)))
        /\ UNCHANGED <<uploads, vault>>
  BY <1>1, Zenon DEF Answers
<1>3. Works(vault, uploads, Append(outcomes, Answer(what, Head(jobs)))) BY <1>2, Zenon DEF Worker, Works
<1>4. Served(app, Tail(jobs), uploads, Append(outcomes, Answer(what, Head(jobs))), ended, vault)
  BY <1>0, <1>1, OutputJob, Zenon
<1> QED BY <1>3, <1>4, WorksStep, Zenon

LEMMA UploadJobStep ==
  ASSUME Running, Worker, Head(jobs).do = "upload" PROVE Running'
<1> DEFINE h == Head(jobs)
           j == [h EXCEPT !.version = IF h.version = Plain THEN vault.version ELSE h.version]
<1>0. Served(app, jobs, uploads, outcomes, ended, vault) BY DEF Running
<1>1. jobs # <<>> /\ QueuesUpload(h) BY DEF Worker, Work
<1>2. CASE /\ vault.version # None \/ h.version # Plain
           /\ uploads' = Append(uploads, j) /\ UNCHANGED <<outcomes, vault>>
  <2>1. Works(vault, Append(uploads, j), outcomes) BY <1>2 DEF Worker, Works
  <2>2. Served(app, Tail(jobs), Append(uploads, j), outcomes, ended, vault)
    BY <1>0, <1>1, <1>2, UploadJobQueued
  <2> QED BY <2>1, <2>2, WorksStep
<1>3. CASE /\ outcomes' = Append(outcomes, Answer("upload refused", h))
           /\ UNCHANGED <<uploads, vault>>
  <2>1. Works(vault, uploads, Append(outcomes, Answer("upload refused", h))) BY <1>3, Zenon DEF Worker, Works
  <2>2. Served(app, Tail(jobs), uploads, Append(outcomes, Answer("upload refused", h)), ended, vault)
    BY <1>0, <1>1, UploadJobRefused, Zenon
  <2> QED BY <2>1, <2>2, WorksStep, Zenon
<1> QED BY <1>1, <1>2, <1>3, Zenon DEF QueuesUpload, Held

LEMMA OpenJobStep ==
  ASSUME Running, Worker, Head(jobs).do = "open" PROVE Running'
<1>0. Served(app, jobs, uploads, outcomes, ended, vault) BY DEF Running
<1>1. jobs # <<>> /\ OpensDocument BY DEF Worker, Work
<1>2. PICK what \in {"opened", "refused"} :
        /\ what = "opened" => vault.version # None
        /\ outcomes' = Append(outcomes, Told(what))
        /\ UNCHANGED <<uploads, vault>>
  BY <1>1 DEF OpensDocument, Held
<1>3. Works(vault, uploads, Append(outcomes, Told(what))) BY <1>2 DEF Worker, Works
<1>4. Served(app, Tail(jobs), uploads, Append(outcomes, Told(what)), ended, vault)
  BY <1>0, <1>1, <1>2, OpenJob
<1> QED BY <1>3, <1>4, WorksStep

LEMMA CommitJobStep ==
  ASSUME Running, Worker, Head(jobs).do = "commit" PROVE Running'
<1> DEFINE h == Head(jobs)
           w == [vault EXCEPT !.version = h.version]
<1>0. Served(app, jobs, uploads, outcomes, ended, vault) BY DEF Running
<1>1. jobs # <<>> /\ CommitsOutput(h) BY DEF Worker, Work
<1>2. \/ /\ vault.version # None /\ vault' = w
         /\ outcomes' = Append(outcomes, Answer("committed", h)) /\ uploads' = uploads
      \/ /\ vault' = vault
         /\ outcomes' = Append(outcomes, Answer("commit failed", h)) /\ uploads' = uploads
  BY <1>1, Zenon DEF CommitsOutput, Held
<1>3. CASE /\ vault.version # None /\ vault' = w
           /\ outcomes' = Append(outcomes, Answer("committed", h)) /\ uploads' = uploads
  <2>1. Works(w, uploads, Append(outcomes, Answer("committed", h))) BY <1>3 DEF Worker, Works
  <2>2. Served(app, Tail(jobs), uploads, Append(outcomes, Answer("committed", h)), ended, w)
    BY <1>0, <1>1, <1>3, CommitJobDone
  <2> QED BY <2>1, <2>2, WorksStep
<1>4. CASE /\ vault' = vault
           /\ outcomes' = Append(outcomes, Answer("commit failed", h)) /\ uploads' = uploads
  <2>1. Works(vault, uploads, Append(outcomes, Answer("commit failed", h))) BY <1>4, Zenon DEF Worker, Works
  <2>2. Served(app, Tail(jobs), uploads, Append(outcomes, Answer("commit failed", h)), ended, vault)
    BY <1>0, <1>1, CommitJobFailed, Zenon
  <2> QED BY <2>1, <2>2, WorksStep, Zenon
<1> QED BY <1>2, <1>3, <1>4, Zenon

LEMMA PersistJobStep ==
  ASSUME Running, Worker, Head(jobs).do = "persist" PROVE Running'
<1>0. Served(app, jobs, uploads, outcomes, ended, vault) BY DEF Running
<1>1. jobs # <<>> /\ PersistsDocument(Head(jobs)) BY DEF Worker, Work
<1>2. PICK ok \in {TRUE, FALSE} :
        /\ outcomes' = Append(outcomes, [Answer("persist", Head(jobs)) EXCEPT !.ok = ok])
        /\ UNCHANGED <<uploads, vault>>
  BY <1>1 DEF PersistsDocument
<1> DEFINE n == Append(outcomes, [Answer("persist", Head(jobs)) EXCEPT !.ok = ok])
<1>3. Works(vault, uploads, n) BY <1>2 DEF Worker, Works
<1>4. Served(app, Tail(jobs), uploads, n, ended, vault) BY <1>0, <1>1, PersistJob
<1> QED BY <1>3, <1>4, WorksStep

LEMMA ReleaseStep ==
  ASSUME Running, Worker, Head(jobs).do = "release" PROVE Running'
<1>0. Served(app, jobs, uploads, outcomes, ended, vault) BY DEF Running
<1>1. jobs # <<>> /\ Releases BY DEF Worker, Work
<1>2. Works(Forgotten, uploads, outcomes) BY <1>1 DEF Worker, Works, Releases
<1>3. Served(app, Tail(jobs), uploads, outcomes, ended, Forgotten) BY <1>0, <1>1, ReleaseJob
<1> QED BY <1>2, <1>3, WorksStep

LEMMA CheckStep ==
  ASSUME Running, Worker, Head(jobs).do = "releaseIfRetained" PROVE Running'
<1>0. Served(app, jobs, uploads, outcomes, ended, vault) BY DEF Running
<1>1. jobs # <<>> /\ ReleasesIfRetained BY DEF Worker, Work
<1>2. PICK released \in {TRUE, FALSE} :
        /\ vault' = IF released THEN Forgotten ELSE vault
        /\ outcomes' = Append(outcomes, [Told("retention") EXCEPT !.ok = released])
        /\ UNCHANGED uploads
  BY <1>1 DEF ReleasesIfRetained
<1> DEFINE n == Append(outcomes, [Told("retention") EXCEPT !.ok = released])
           w == IF released THEN Forgotten ELSE vault
<1>3. Works(w, uploads, n) BY <1>2 DEF Worker, Works
<1>4. Served(app, Tail(jobs), uploads, n, ended, w) BY <1>0, <1>1, CheckJob
<1> QED BY <1>3, <1>4, WorksStep

LEMMA FinalizedShape ==
  ASSUME NEW filed \in BOOLEAN, NEW elsewhere \in BOOLEAN, NEW exported \in BOOLEAN,
         exported => elsewhere,
         NEW o, o = [Told("finalized") EXCEPT !.filed = filed, !.elsewhere = elsewhere, !.export = exported]
  PROVE  o \in OutcomeShape /\ o.what = "finalized" /\ o.action = 0 /\ o.version = Plain
BY NoneIsApart, Zenon DEF Told, OutcomeShape, Whats

LEMMA FinalizeStep ==
  ASSUME Running, Worker, Head(jobs).do = "finalize" PROVE Running'
<1>0. Served(app, jobs, uploads, outcomes, ended, vault) BY DEF Running
<1>1. jobs # <<>> /\ Finalizes BY DEF Worker, Work
<1>2. PICK filed \in BOOLEAN, elsewhere \in BOOLEAN, exported \in BOOLEAN :
        /\ exported => elsewhere
        /\ vault' = [vault EXCEPT !.filed = Held /\ filed]
        /\ outcomes' = Append(outcomes, [Told("finalized") EXCEPT
                         !.filed = filed, !.elsewhere = elsewhere, !.export = exported])
        /\ UNCHANGED uploads
  BY <1>1, Zenon DEF Finalizes
<1> DEFINE o == [Told("finalized") EXCEPT
                   !.filed = filed, !.elsewhere = elsewhere, !.export = exported]
           w == [vault EXCEPT !.filed = Held /\ filed]
<1>3. o \in OutcomeShape /\ o.what = "finalized" /\ o.action = 0 /\ o.version = Plain
  BY <1>2, FinalizedShape, Zenon
<1>4. Works(w, uploads, Append(outcomes, o)) BY <1>1, <1>2 DEF Worker, Works
<1>5. vault \in Vaults BY <1>0 DEF Served, Keeps
<1>6. w \in Vaults /\ w.version = vault.version BY <1>5 DEF Vaults
<1> HIDE DEF o, w
<1>7. Served(app, Tail(jobs), uploads, Append(outcomes, o), ended, w)
  BY <1>0, <1>1, <1>3, <1>6, FinalizeJob
<1> QED BY <1>4, <1>7, WorksStep

LEMMA WorkerStep ==
  ASSUME Running, Worker PROVE Running'
<1>1. Head(jobs).do \in Doings
  <2>1. jobs \in Seq(JobShape) /\ jobs # <<>> BY RunningHandled DEF Worker
  <2>2. Head(jobs) \in JobShape BY <2>1, Taken
  <2> QED BY <2>2 DEF JobShape
<1> QED BY <1>1, OutputStep, UploadJobStep, OpenJobStep, CommitJobStep, PersistJobStep, ReleaseStep,
        CheckStep, FinalizeStep DEF Doings

LEMMA UploadsTaken ==
  ASSUME NEW a, NEW q, NEW us, us # <<>>, NEW os, NEW e, NEW v, Served(a, q, us, os, e, v),
         NEW what \in {"upload done", "upload refused"}
  PROVE  Served(a, q, Tail(us), Append(os, Answer(what, Head(us))), e, v)
<1> DEFINE o == Answer(what, Head(us))
           t == Tail(us)
           n == Append(os, o)
<1>1. Agreed(a, q, us, os, e, "handling") /\ os \in Seq(OutcomeShape) /\ us \in Seq(JobShape)
  BY Zenon DEF Served, Agreed, Messages
<1>2. /\ t \in Seq(JobShape) /\ 1 \in DOMAIN us /\ Head(us) = us[1] /\ Head(us) \in JobShape
      /\ \A i \in DOMAIN t : i + 1 \in DOMAIN us /\ t[i] = us[i+1]
  BY <1>1, Taken, Zenon
<1>3. ToldOf(a, e, Head(us)) /\ Uploading(a, Head(us).action)
  BY <1>1, <1>2, Zenon DEF Agreed, Messages, Uploads
<1>4. o \in OutcomeShape /\ o.what = what /\ o.action = Head(us).action /\ o.version = Head(us).version
  BY <1>2, AnswerShape, Zenon DEF Whats
<1> HIDE DEF o, t
<1>5. ToldOf(a, e, o) BY <1>3, <1>4, SameTold, Zenon
<1>6. Telling(a, q, os, e, o) /\ Honest(v, o)
  BY <1>3, <1>4, <1>5 DEF Telling, Honest, Uploaded, Exported
<1>7. Messages(a, q, t, os, e)
  <2>1. \A i \in DOMAIN t : ToldOf(a, e, t[i]) BY <1>1, <1>2, Zenon DEF Agreed, Messages
  <2> QED BY <1>1, <1>2, <2>1, Zenon DEF Agreed, Messages
<1>8. Uploads(a, q, t, os)
  <2>1. \A i \in DOMAIN t : Uploading(a, t[i].action) BY <1>1, <1>2, Zenon DEF Agreed, Uploads
  <2> QED BY <1>1, <2>1, Zenon DEF Agreed, Uploads
<1>9. Agreed(a, q, t, os, e, "handling") BY <1>1, <1>7, <1>8, Zenon DEF Agreed
<1>10. Agreed(a, q, t, n, e, "handling") BY <1>6, <1>9, ReportAgreed, Zenon
<1>11. Keeps(a, v, os) /\ Shows(a, v, os) /\ Shelved(a, e, v, os) BY Zenon DEF Served
<1>12. Keeps(a, v, n) /\ Shows(a, v, n) /\ Shelved(a, e, v, n)
  BY <1>1, <1>4, <1>6, <1>11, VaultReports, Zenon
<1> QED BY <1>10, <1>12, Zenon DEF Served, o, t

LEMMA UploadWorkerStep ==
  ASSUME Running, UploadWorker PROVE Running'
<1>0. Served(app, jobs, uploads, outcomes, ended, vault) BY DEF Running
<1>1. PICK what \in {"upload done", "upload refused"} :
        outcomes' = Append(outcomes, Answer(what, Head(uploads)))
  BY Zenon DEF UploadWorker
<1>2. uploads # <<>> /\ uploads' = Tail(uploads) /\ app' = app /\ jobs' = jobs /\ vault' = vault /\ ended' = ended
  BY Zenon DEF UploadWorker
<1>3. Served(app, jobs, Tail(uploads), Append(outcomes, Answer(what, Head(uploads))), ended, vault)
  BY <1>0, <1>2, UploadsTaken, Zenon
<1>4. Served(app', jobs', uploads', outcomes', ended', vault') BY <1>1, <1>2, <1>3, Zenon
<1> QED BY <1>4, Zenon DEF Running

-----------------------------------------------------------------------------
(* The first steps                                                         *)

\* nothing was asked of the card yet
Blank(a) ==
  /\ a.outstanding = {} /\ a.current = 0 /\ a.dialog = None /\ a.recovery = 0 /\ a.nextAction = 1
  /\ a.close = None /\ a.closed = None /\ a.deferredClose = None
  /\ ~a.deferredSave /\ ~a.deferredOverflow /\ ~a.checkClose /\ ~a.checkOverflow /\ ~a.inFlight
  /\ a.shown = a.visible /\ (a.visible \/ a.retention = NoRetention)
  /\ a.retention.exported => a.retention.elsewhere
  /\ a.filed => ~a.finalizing

Starting(a) ==
  /\ a \in Apps /\ Blank(a)
  /\ \/ /\ a.editor = NoEditor /\ a.nextGen = 1
        /\ a.editorOnly <=> (a.opening /\ ~a.visible)
     \/ /\ a.editor = [phase |-> "asked", version |-> Version(1, 0)] /\ a.nextGen = 2
        /\ ~a.opening /\ a.editorOnly /\ ~a.visible

LEMMA StartingSteady ==
  ASSUME NEW a, Starting(a) PROVE Steady(a) /\ Waiting(a)
<1>0. a \in Apps /\ Blank(a) BY DEF Starting
<1>1. a.outstanding = {} /\ a.current = 0 /\ a.dialog = None /\ a.recovery = 0 BY <1>0 DEF Blank
<1>2. Ids(a) = {} /\ ~CardOutputPending(a) BY <1>1 DEF Ids, CardOutputPending
<1>3. Counted(a) BY <1>1 DEF Counted
<1>4. Withdrawn(a) /\ Displayed(a) /\ Filing(a) BY <1>0, <1>1 DEF Blank, Withdrawn, Displayed, Filing
<1>5. ~Active(a) BY DEF Starting, Active, NoEditor
<1>6. Sessions(a)
  <2>1. 1 \in 1..(MaxGen + 1) /\ 1 \in Gens /\ 2 \in 1..(MaxGen + 1) BY CardAssumption DEF Gens
  <2>2. CASE a.editor = NoEditor /\ a.nextGen = 1
    BY <1>5, <2>1, <2>2 DEF Sessions, Editing, NoEditor
  <2>3. CASE /\ a.editor = [phase |-> "asked", version |-> Version(1, 0)] /\ a.nextGen = 2
             /\ a.editorOnly
    <3>1. a.editor.version.gen = 1 /\ Editing(a) BY <2>3 DEF Version, Editing
    <3> QED BY <1>5, <2>1, <2>3, <3>1 DEF Sessions
  <2> QED BY <2>2, <2>3 DEF Starting
<1>7. Adopted(a) BY <1>0, <1>1, <1>2 DEF Starting, Blank, Adopted, Editing
<1>8. Freezing(a) BY <1>0 DEF Blank, Freezing
<1>9. Waiting(a) BY <1>0, <1>2 DEF Blank, Starting, Waiting, Editing, NoEditor
<1> QED BY <1>0, <1>3, <1>4, <1>6, <1>7, <1>8, <1>9 DEF Steady

\* the first jobs
Firsts(a, q) ==
  /\ \A i \in DOMAIN q : q[i] \in {Job("finalize"), Job("open"), Job("release")}
  /\ Opens(q) # {} => a.opening /\ ~Editing(a)
  /\ AtMostOne(Opens(q))
  /\ Releasable(a, q)

LEMMA StartingAgreed ==
  ASSUME NEW a, Starting(a), NEW q \in Seq(JobShape), Firsts(a, q), NEW os \in Seq(OutcomeShape),
         \A i \in DOMAIN os : os[i].what = "finalized" /\ os[i].action = 0
  PROVE  Agreed(a, q, <<>>, os, NoFates, "handling")
<1>1. \A i \in DOMAIN q : /\ q[i].do \in {"finalize", "open", "release"}
                          /\ q[i].action = 0
  BY DEF Firsts, Job
<1>2. Checks(q) = {} /\ Commits(q) = {} BY <1>1 DEF Checks, Commits
<1>3. OpenAnswers(os) = {} /\ CheckAnswers(os) = {} /\ CommitAnswers(os) = {}
  BY Zenon DEF OpenAnswers, CheckAnswers, CommitAnswers
<1>4. Steady(a) BY StartingSteady
<1>5. Ids(a) = {} /\ a.dialog = None BY DEF Starting, Blank, Ids
<1>6. \A m : m.action = 0 => ToldOf(a, NoFates, m) BY <1>4, <1>5, ZeroNumbered DEF ToldOf, Judges
<1>7. Messages(a, q, <<>>, os, NoFates)
  <2>1. <<>> \in Seq(JobShape) /\ DOMAIN <<>> = {} OBVIOUS
  <2> QED BY <1>1, <1>5, <1>6, <2>1 DEF Messages
<1>8. Uploads(a, q, <<>>, os)
  <2>1. DOMAIN <<>> = {} OBVIOUS
  <2>2. \A id : Uploading(a, id) /\ Exporting(a, id)
    BY DEF Starting, Blank, Uploading, Exporting
  <2> QED BY <2>1, <2>2 DEF Uploads
<1>9. Opening(a, q, os) BY <1>3 DEF Firsts, Opening, OneOf, AtMostOne
<1>10. Releasable(a, q) BY DEF Firsts
<1>11. Checking(a, q, os, "handling") BY <1>2, <1>3 DEF Checking, OneOf, AtMostOne
<1>12. Committing(a, q, os) BY <1>2, <1>3 DEF Committing, OneOf, AtMostOne
<1>13. Ended(a, NoFates, "handling")
  <2>1. NoFates \in [Gens -> Ends] /\ \A g \in Gens : NoFates[g] = Open BY DEF NoFates, Ends
  <2>2. ~(a.visible /\ Editing(a)) BY DEF Starting, Editing, NoEditor
  <2> QED BY <2>1, <2>2 DEF Ended
<1> QED BY <1>7, <1>8, <1>9, <1>10, <1>11, <1>12, <1>13 DEF Agreed

LEMMA StartingServed ==
  ASSUME NEW a, Starting(a), a.posted = <<>>, NEW q \in Seq(JobShape), Firsts(a, q),
         NEW os \in Seq(OutcomeShape),
         \A i \in DOMAIN os : os[i].what = "finalized" /\ os[i].action = 0,
         NEW v \in [version : {Plain}, filed : BOOLEAN],
         Owns(a) \/ \E i \in DOMAIN q : q[i].do = "release"
  PROVE  Served(a, q, <<>>, os, NoFates, v)
<1>1. Steady(a) /\ Waiting(a) BY StartingSteady
<1>2. Agreed(a, q, <<>>, os, NoFates, "handling") BY StartingAgreed
<1>3. v \in Vaults /\ v.version = Plain /\ v.version # None BY NoneIsApart DEF Vaults
<1>4. Keeps(a, v, os) BY <1>3 DEF Keeps
<1>5. Shows(a, v, os) BY <1>3 DEF Shows
<1>6. Shelved(a, NoFates, v, os) BY <1>3 DEF Shelved
<1>7. Claimed(a, q, v) BY DEF Claimed
<1> QED BY <1>1, <1>2, <1>4, <1>5, <1>6, <1>7 DEF Served

LEMMA NewIs ==
  /\ NewApp \in Apps /\ NewApp.posted = <<>>
  /\ ~NewApp.shown /\ NewApp.dialog = None /\ NewApp.editor = NoEditor /\ NewApp.closed = None
<1>1. NoFates \in [Gens -> Ends] BY DEF NoFates, Ends
<1>2. NoEditor \in [phase : {"none", "asked", "open"}, version : Versions]
  BY NoneIsApart DEF NoEditor
<1>3. <<>> \in Seq(JobShape) OBVIOUS
<1>4. NoRetention \in [elsewhere : BOOLEAN, exported : BOOLEAN] BY DEF NoRetention
<1> HIDE DEF NoEditor
<1>5. NewApp \in Apps BY <1>1, <1>2, <1>3, <1>4 DEF NewApp, Apps
<1> QED BY <1>5 DEF NewApp

LEMMA FirstJobs ==
  /\ Job("finalize") \in JobShape /\ Job("open") \in JobShape /\ Job("release") \in JobShape
  /\ Job("finalize").do = "finalize" /\ Job("open").do = "open" /\ Job("release").do = "release"
BY JobShapes DEF Doings

\* the first outcome leads to an editor, or to a card, or to nothing
FirstPosts(a, ps) ==
  \/ ps = <<>> /\ Owns(a)
  \/ ps = <<Job("open")>> /\ a.opening /\ ~Editing(a)
  \/ ps = <<Job("release")>> /\ Nobody(a)

\* the capture is a card, or goes to an editor, or both
LEMMA ReadyIs ==
  ASSUME NEW o, o.ok \in BOOLEAN, o.export \in BOOLEAN,
         NEW b, b = Ready(NewApp, o), NEW c, c = [b EXCEPT !.posted = <<>>]
  PROVE  Starting(c) /\ c.posted = <<>> /\ FirstPosts(c, b.posted)
<1> DEFINE s == [NewApp EXCEPT !.finalizing = TRUE, !.visible = o.export, !.shown = o.export]
           x == ~o.export
           t == [s EXCEPT !.opening = TRUE, !.editorOnly = x]
<1>0. x \in BOOLEAN OBVIOUS
<1>1. s \in Apps BY NewIs DEF Apps
<1>2. /\ s.finalizing /\ s.visible = o.export /\ s.shown = o.export /\ s.posted = <<>>
      /\ s.editor = NoEditor /\ s.nextGen = 1 /\ s.editorOnly = FALSE /\ s.opening = FALSE
      /\ s.retention = NoRetention /\ s.filed = FALSE
  BY DEF NewApp
<1>3. Blank(s) BY <1>2 DEF NewApp, Blank, NoRetention
<1>4. b = IF o.ok THEN Post(t, Job("open")) ELSE s BY DEF Ready
<1> HIDE DEF s, x
<1>5. t \in Apps BY <1>0, <1>1 DEF Apps
<1>6. /\ t.opening = TRUE /\ t.editorOnly = x /\ t.visible = o.export /\ t.shown = o.export
      /\ t.finalizing /\ t.posted = <<>> /\ t.editor = NoEditor /\ t.nextGen = 1
      /\ t.retention = NoRetention /\ t.filed = FALSE
  BY <1>1, <1>2 DEF Apps
<1>7. Blank(t)
  <2>1. SameOutputs(s, t) /\ t.dialog = s.dialog /\ t.recovery = s.recovery /\ t.close = s.close
        /\ t.closed = s.closed /\ t.deferredClose = s.deferredClose
    BY <1>1 DEF Apps, SameOutputs
  <2>2. t.deferredSave = s.deferredSave /\ t.deferredOverflow = s.deferredOverflow
        /\ t.checkClose = s.checkClose /\ t.checkOverflow = s.checkOverflow /\ t.inFlight = s.inFlight
    BY <1>1 DEF Apps
  <2> QED BY <1>2, <1>3, <1>6, <2>1, <2>2 DEF Blank, SameOutputs
<1>8. x <=> ~o.export BY DEF x
<1> HIDE DEF t
<1>9. CASE o.ok
  <2>1. b = Post(t, Job("open")) BY <1>4, <1>9
  <2>2. b.posted = <<Job("open")>> /\ c = t
    <3>1. b.posted = Append(t.posted, Job("open")) /\ b = [t EXCEPT !.posted = b.posted]
      BY <1>5, <2>1 DEF Post, Apps
    <3>2. b.posted = <<Job("open")>> BY <1>6, <3>1
    <3>3. c = t BY <1>5, <1>6, <3>1 DEF Apps
    <3> QED BY <3>2, <3>3
  <2>3. Starting(t) BY <1>5, <1>6, <1>7, <1>8 DEF Starting
  <2>4. t.opening /\ ~Editing(t) BY <1>6 DEF Editing, NoEditor
  <2>5. FirstPosts(t, <<Job("open")>>) BY <2>4 DEF FirstPosts
  <2> QED BY <1>6, <2>2, <2>3, <2>5
<1>10. CASE ~o.ok
  <2>1. b = s BY <1>4, <1>10
  <2>2. c = s BY <1>1, <1>2, <2>1 DEF Apps
  <2>3. Starting(s) BY <1>1, <1>2, <1>3 DEF Starting
  <2>4. Owns(s) BY <1>2 DEF Owns
  <2>5. FirstPosts(s, <<>>) BY <2>4 DEF FirstPosts
  <2> QED BY <1>2, <2>1, <2>2, <2>3, <2>5
<1> QED BY <1>9, <1>10

\* a card from history is shown again, or there is no room for it
LEMMA RestoredIs ==
  ASSUME NEW o, o.export \in BOOLEAN,
         NEW b, b = Restored(NewApp, o), NEW c, c = [b EXCEPT !.posted = <<>>]
  PROVE  Starting(c) /\ c.posted = <<>> /\ FirstPosts(c, b.posted)
<1>1. CASE o.export
  <2> DEFINE r == [NoRetention EXCEPT !.elsewhere = TRUE]
             s == [NewApp EXCEPT !.visible = TRUE, !.shown = TRUE, !.filed = TRUE, !.retention = r]
  <2>1. b = s BY <1>1 DEF Restored, NewApp
  <2>2. r \in [elsewhere : BOOLEAN, exported : BOOLEAN] /\ ~r.exported BY DEF NoRetention
  <2> HIDE DEF r
  <2>3. s \in Apps BY <2>2, NewIs DEF Apps
  <2>4. /\ s.visible = TRUE /\ s.posted = <<>> /\ s.retention = r /\ s.finalizing = FALSE
        /\ s.editor = NoEditor /\ s.nextGen = 1 /\ s.editorOnly = FALSE /\ s.opening = FALSE
    BY DEF NewApp
  <2>5. Blank(s) BY <2>2, <2>4 DEF NewApp, Blank
  <2> HIDE DEF s
  <2>6. c = s BY <2>1, <2>3, <2>4 DEF Apps
  <2>7. Starting(s) /\ Owns(s) BY <2>3, <2>4, <2>5 DEF Starting, Owns
  <2>8. FirstPosts(s, <<>>) BY <2>7 DEF FirstPosts
  <2> QED BY <2>1, <2>4, <2>6, <2>7, <2>8
<1>2. CASE ~o.export
  <2>1. b = Post(NewApp, Job("release")) BY <1>2 DEF Restored
  <2>2. b.posted = Append(<<>>, Job("release")) /\ b = [NewApp EXCEPT !.posted = b.posted]
    <3>1. b = [NewApp EXCEPT !.posted = Append(NewApp.posted, Job("release"))] BY <2>1 DEF Post
    <3>2. NewApp.posted = <<>> /\ NewApp \in Apps BY NewIs
    <3> QED BY <3>1, <3>2 DEF Apps
  <2>3. b.posted = <<Job("release")>> BY <2>2
  <2>4. c = NewApp BY <2>2, NewIs DEF Apps
  <2>5. Blank(NewApp) BY DEF NewApp, Blank, NoRetention
  <2>6. NewApp.nextGen = 1 /\ ~NewApp.editorOnly /\ ~NewApp.opening /\ ~NewApp.visible BY DEF NewApp
  <2>7. Starting(NewApp) BY <2>5, <2>6, NewIs DEF Starting
  <2>8. Nobody(NewApp) BY <2>6, NewIs DEF Nobody, Editing, NoEditor
  <2>9. FirstPosts(NewApp, <<Job("release")>>) BY <2>8 DEF FirstPosts
  <2> QED BY <2>3, <2>4, <2>7, <2>9, NewIs
<1> QED BY <1>1, <1>2

\* an editor that was opened from history
LEMMA ReopenedIs ==
  ASSUME NEW o, o.ok, NEW b, b = Opened(NewApp, o), NEW c, c = [b EXCEPT !.posted = <<>>]
  PROVE  Starting(c) /\ c.posted = <<>> /\ FirstPosts(c, b.posted)
<1> DEFINE w == [phase |-> "asked", version |-> Version(1, 0)]
           s == [NewApp EXCEPT !.editor = w, !.nextGen = 2, !.editorOnly = TRUE]
<1>1. b = s
  <2>1. NewApp.nextGen = 1 /\ NewApp.editorOnly = FALSE BY DEF NewApp
  <2>2. b = [NewApp EXCEPT !.editor = [phase |-> "asked", version |-> Version(NewApp.nextGen, 0)],
                           !.nextGen = NewApp.nextGen + 1, !.editorOnly = NewApp.editorOnly \/ o.ok]
    BY DEF Opened
  <2>3. (NewApp.editorOnly \/ o.ok) = TRUE OBVIOUS
  <2>4. NewApp.nextGen + 1 = 2 BY <2>1
  <2> QED BY <2>1, <2>2, <2>3, <2>4
<1>2. w \in [phase : {"none", "asked", "open"}, version : Versions] /\ w.phase = "asked"
  BY CardAssumption DEF Versions, Version, Gens
<1>9. w = [phase |-> "asked", version |-> Version(1, 0)] OBVIOUS
<1> HIDE DEF w
<1>3. s \in Apps BY <1>2, NewIs DEF Apps
<1>4. /\ s.posted = <<>> /\ s.editor = w /\ s.nextGen = 2 /\ s.editorOnly = TRUE
      /\ s.opening = FALSE /\ s.visible = FALSE
  BY DEF NewApp
<1>5. Blank(s) BY DEF NewApp, Blank, NoRetention
<1> HIDE DEF s
<1>6. c = s BY <1>1, <1>3, <1>4 DEF Apps
<1>7. Starting(s) BY <1>3, <1>4, <1>5, <1>9 DEF Starting
<1>8. Owns(s) BY <1>2, <1>4 DEF Owns, Editing
<1>10. FirstPosts(s, <<>>) BY <1>8 DEF FirstPosts
<1> QED BY <1>1, <1>4, <1>6, <1>7, <1>10

\* what is posted first
LEMMA FirstsAre ==
  ASSUME NEW a, NEW js \in {<<>>, <<Job("finalize")>>}, NEW ps, FirstPosts(a, ps)
  PROVE  /\ (js \o ps) \in Seq(JobShape) /\ Firsts(a, js \o ps)
         /\ Owns(a) \/ \E i \in DOMAIN (js \o ps) : (js \o ps)[i].do = "release"
<1> DEFINE q == js \o ps
           F == Job("finalize")
           O == Job("open")
           R == Job("release")
<1>1. /\ F \in JobShape /\ O \in JobShape /\ R \in JobShape
      /\ F.do = "finalize" /\ O.do = "open" /\ R.do = "release"
  BY FirstJobs
<1>2. js = <<>> \/ js = <<F>> OBVIOUS
<1>3. \/ ps = <<>> /\ Owns(a)
      \/ ps = <<O>> /\ a.opening /\ ~Editing(a)
      \/ ps = <<R>> /\ Nobody(a)
  BY DEF FirstPosts
<1>4. Firsts(a, q) <=> /\ \A i \in DOMAIN q : q[i] \in {F, O, R}
                       /\ Opens(q) # {} => a.opening /\ ~Editing(a)
                       /\ AtMostOne(Opens(q))
                       /\ Releasable(a, q)
  BY DEF Firsts
<1> HIDE DEF F, O, R
<1>5. js \in Seq(JobShape) /\ ps \in Seq(JobShape)
  <2>1. \A x \in JobShape : <<x>> \in Seq(JobShape) OBVIOUS
  <2>2. <<>> \in Seq(JobShape) OBVIOUS
  <2>3. js \in Seq(JobShape) BY <1>1, <1>2, <2>1, <2>2, Zenon
  <2>4. ps \in Seq(JobShape) BY <1>1, <1>3, <2>1, <2>2, Zenon
  <2> QED BY <2>3, <2>4
<1>6. q \in Seq(JobShape) BY <1>5
<1>7. \A i \in DOMAIN q : \/ i = 1 /\ js = <<F>> /\ q[i] = F
                          \/ i = Len(js) + 1 /\ ps = <<O>> /\ q[i] = O
                          \/ i = Len(js) + 1 /\ ps = <<R>> /\ q[i] = R
  <2>1. CASE js = <<>> /\ ps = <<>> BY <2>1
  <2>2. CASE js = <<>> /\ ps = <<O>> BY <2>2
  <2>3. CASE js = <<>> /\ ps = <<R>> BY <2>3
  <2>4. CASE js = <<F>> /\ ps = <<>> BY <2>4
  <2>5. CASE js = <<F>> /\ ps = <<O>> BY <2>5
  <2>6. CASE js = <<F>> /\ ps = <<R>> BY <2>6
  <2> QED BY <1>2, <1>3, <2>1, <2>2, <2>3, <2>4, <2>5, <2>6
<1>8. ps = <<R>> => Len(js) + 1 \in DOMAIN q /\ q[Len(js) + 1] = R BY <1>5
<1> HIDE DEF q
<1>9. <<O>> # <<R>> /\ <<>> # <<O>> /\ <<>> # <<R>> BY <1>1
<1>10. \A i \in Opens(q) : i = Len(js) + 1 /\ ps = <<O>> BY <1>1, <1>7 DEF Opens
<1>11. AtMostOne(Opens(q)) BY <1>10 DEF AtMostOne
<1>12. Opens(q) # {} => a.opening /\ ~Editing(a) BY <1>3, <1>9, <1>10
<1>13. \A i \in DOMAIN q : q[i].do = "release" => ps = <<R>> BY <1>1, <1>7
<1>14. Releasable(a, q) BY <1>3, <1>9, <1>13 DEF Releasable, Nobody
<1>15. \A i \in DOMAIN q : q[i] \in {F, O, R} BY <1>7
<1>16. Firsts(a, q) BY <1>4, <1>11, <1>12, <1>14, <1>15
<1>17. ps = <<R>> => \E i \in DOMAIN q : q[i].do = "release" BY <1>1, <1>8
<1>18. Owns(a) \/ \E i \in DOMAIN q : q[i].do = "release" BY <1>3, <1>17 DEF Owns
<1> QED BY <1>6, <1>16, <1>18 DEF q

\* the first outcome, and what may follow it before it was taken
FirstOf(f) ==
  /\ f.what \in {"ready", "restored", "opened"} /\ f.ok \in BOOLEAN /\ f.export \in BOOLEAN
  /\ f.what = "opened" => f.ok

Finals(os) ==
  os \in Seq(OutcomeShape) /\ \A i \in DOMAIN os : os[i].what = "finalized" /\ os[i].action = 0

LEMMA FirstTaken ==
  ASSUME NEW f, FirstOf(f), NEW b, b = Takes(NewApp, f), NEW c, c = [b EXCEPT !.posted = <<>>]
  PROVE  Starting(c) /\ c.posted = <<>> /\ FirstPosts(c, b.posted)
<1>1. CASE f.what = "ready"
  <2>1. b = Ready(NewApp, f) BY <1>1 DEF Takes
  <2>2. f.ok \in BOOLEAN /\ f.export \in BOOLEAN BY DEF FirstOf
  <2> QED BY <2>1, <2>2, ReadyIs
<1>2. CASE f.what = "restored"
  <2>1. b = Restored(NewApp, f) BY <1>2 DEF Takes
  <2>2. f.export \in BOOLEAN BY DEF FirstOf
  <2> QED BY <2>1, <2>2, RestoredIs
<1>3. CASE f.what = "opened"
  <2>1. b = Opened(NewApp, f) BY <1>3 DEF Takes
  <2>2. f.ok BY <1>3 DEF FirstOf
  <2> QED BY <2>1, <2>2, ReopenedIs
<1> QED BY <1>1, <1>2, <1>3 DEF FirstOf

\* the first outcome was taken
LEMMA FirstServed ==
  ASSUME NEW f, FirstOf(f), NEW js \in {<<>>, <<Job("finalize")>>}, NEW os, Finals(os),
         NEW v \in [version : {Plain}, filed : BOOLEAN],
         NEW b, b = Takes(NewApp, f), NEW c, c = [b EXCEPT !.posted = <<>>]
  PROVE  Served(c, js \o b.posted, <<>>, os, NoFates, v)
<1> DEFINE ps == b.posted
           q == js \o ps
<1>1. Starting(c) /\ c.posted = <<>> /\ FirstPosts(c, ps) BY FirstTaken
<1> HIDE DEF ps
<1>2. q \in Seq(JobShape) /\ Firsts(c, q) /\ (Owns(c) \/ \E i \in DOMAIN q : q[i].do = "release")
  BY <1>1, FirstsAre
<1>3. /\ os \in Seq(OutcomeShape)
      /\ \A i \in DOMAIN os : os[i].what = "finalized" /\ os[i].action = 0
  BY DEF Finals
<1> HIDE DEF q
<1>4. Served(c, q, <<>>, os, NoFates, v) BY <1>1, <1>2, <1>3, StartingServed
<1> QED BY <1>4 DEF q, ps

LEMMA FirstOutcome ==
  ASSUME Beginning, TakesOutcome
  PROVE  Running' /\ Starting(app')
<1>1. /\ app = NewApp /\ uploads = <<>> /\ ended = NoFates
      /\ vault \in [version : {Plain}, filed : BOOLEAN]
  BY DEF Beginning
<1>2. PICK f : /\ f.what \in {"ready", "restored", "opened"} /\ f.ok \in BOOLEAN /\ f.export \in BOOLEAN
               /\ f.what = "opened" => f.ok
               /\ \/ outcomes = <<f>> /\ jobs = <<>> /\ f.what # "ready"
                  \/ outcomes = <<f>> /\ jobs = <<Job("finalize")>> /\ f.what = "ready"
                  \/ /\ jobs = <<>> /\ f.what = "ready"
                     /\ Len(outcomes) = 2 /\ outcomes = <<f, outcomes[2]>>
                     /\ outcomes[2] \in OutcomeShape
                     /\ outcomes[2].what = "finalized" /\ outcomes[2].action = 0
  BY DEF Beginning
<1> DEFINE n == Tail(outcomes)
<1>3. Head(outcomes) = f /\ Finals(n)
  <2>1. CASE outcomes = <<f>> BY <2>1 DEF Finals
  <2>2. CASE /\ outcomes = <<f, outcomes[2]>> /\ outcomes[2] \in OutcomeShape
             /\ outcomes[2].what = "finalized" /\ outcomes[2].action = 0
    <3> DEFINE o == outcomes[2]
    <3>1. outcomes = <<f, o>> /\ o \in OutcomeShape /\ o.what = "finalized" /\ o.action = 0 BY <2>2
    <3> HIDE DEF o
    <3>2. Head(outcomes) = f /\ n = <<o>> BY <3>1
    <3>3. \A i \in DOMAIN <<o>> : <<o>>[i] = o OBVIOUS
    <3>4. <<o>> \in Seq(OutcomeShape) BY <3>1
    <3>5. Finals(<<o>>) BY <3>1, <3>3, <3>4 DEF Finals
    <3> QED BY <3>2, <3>5
  <2> QED BY <1>2, <2>1, <2>2
<1>4. FirstOf(f) /\ jobs \in {<<>>, <<Job("finalize")>>} BY <1>2 DEF FirstOf
<1> DEFINE b == Takes(NewApp, f)
           c == [b EXCEPT !.posted = <<>>]
<1>5. /\ app' = c /\ jobs' = jobs \o b.posted
      /\ outcomes' = n /\ uploads' = <<>> /\ vault' = vault
  BY <1>1, <1>3 DEF TakesOutcome, Runs
<1>6. ended' = NoFates BY <1>1, <1>2, <1>3, Zenon DEF TakesOutcome, EndedAfter
<1>7. b = Takes(NewApp, f) /\ c = [b EXCEPT !.posted = <<>>] OBVIOUS
<1> HIDE DEF b, c, n
<1>8. Served(c, jobs \o b.posted, <<>>, n, NoFates, vault)
  BY <1>1, <1>3, <1>4, <1>7, FirstServed
<1>9. Starting(c) BY <1>4, <1>7, FirstTaken
<1> QED BY <1>5, <1>6, <1>8, <1>9 DEF Running

LEMMA TwoOf ==
  ASSUME NEW x, NEW y PROVE Append(<<x>>, y) = <<x, y>>
<1> DEFINE S == {x, y}
           s == Append(<<x>>, y)
           t == <<x, y>>
<1>1. <<x>> \in Seq(S) /\ y \in S OBVIOUS
<1>2. s \in Seq(S) /\ Len(s) = 2 /\ s[1] = x /\ s[2] = y BY <1>1
<1>3. t \in Seq(S) /\ Len(t) = 2 /\ t[1] = x /\ t[2] = y OBVIOUS
<1> HIDE DEF s, t, S
<1>4. DOMAIN s = 1..2 /\ DOMAIN t = 1..2 BY <1>2, <1>3
<1>5. \A i \in 1..2 : s[i] = t[i] BY <1>2, <1>3
<1>6. s = [i \in 1..2 |-> s[i]] /\ t = [i \in 1..2 |-> t[i]] BY <1>2, <1>3, <1>4
<1>7. s = t BY <1>5, <1>6
<1> QED BY <1>7 DEF s, t

\* the worker may have finalized before the main thread knows of the capture
LEMMA FirstWork ==
  ASSUME Beginning, Worker
  PROVE  Beginning'
<1>1. /\ app = NewApp /\ uploads = <<>> /\ ended = NoFates
      /\ vault \in [version : {Plain}, filed : BOOLEAN]
  BY DEF Beginning
<1>2. jobs # <<>> BY DEF Worker
<1>3. PICK f \in [what : {"ready", "restored", "opened"}, action : {0}, export : BOOLEAN,
                  version : {Plain}, filed : {FALSE}, elsewhere : {FALSE}, ok : BOOLEAN] :
        outcomes = <<f>> /\ jobs = <<Job("finalize")>> /\ f.what = "ready"
  BY <1>2 DEF Beginning
<1>4. Head(jobs) = Job("finalize") /\ Tail(jobs) = <<>> BY <1>3
<1>5. Finalizes /\ jobs' = <<>> /\ UNCHANGED <<app, user, ended>>
  BY <1>4, FirstJobs DEF Worker, Work
<1>6. PICK filed \in BOOLEAN, elsewhere \in BOOLEAN, exported \in BOOLEAN :
        /\ exported => elsewhere
        /\ vault' = [vault EXCEPT !.filed = Held /\ filed]
        /\ outcomes' = Append(outcomes, [Told("finalized") EXCEPT
                         !.filed = filed, !.elsewhere = elsewhere, !.export = exported])
        /\ UNCHANGED uploads
  BY <1>5, Zenon DEF Finalizes
<1> DEFINE o == [Told("finalized") EXCEPT
                   !.filed = filed, !.elsewhere = elsewhere, !.export = exported]
<1>7. o \in OutcomeShape /\ o.what = "finalized" /\ o.action = 0 BY <1>6, FinalizedShape, ZenonT(30)
<1>8. outcomes' = Append(outcomes, o) /\ outcomes = <<f>> BY <1>3, <1>6
<1> HIDE DEF o
<1>9. outcomes' = <<f, o>>
  <2>1. Append(<<f>>, o) = <<f, o>> BY TwoOf
  <2> QED BY <1>8, <2>1
<1>10. Len(outcomes') = 2 /\ outcomes'[2] = o BY <1>9
<1>11. vault' \in [version : {Plain}, filed : BOOLEAN] BY <1>1, <1>6
<1>12. \E g \in [what : {"ready", "restored", "opened"}, action : {0}, export : BOOLEAN,
                 version : {Plain}, filed : {FALSE}, elsewhere : {FALSE}, ok : BOOLEAN] :
         /\ g.what = "opened" => g.ok
         /\ jobs' = <<>> /\ g.what = "ready"
         /\ Len(outcomes') = 2 /\ outcomes' = <<g, outcomes'[2]>> /\ outcomes'[2] \in OutcomeShape
         /\ outcomes'[2].what = "finalized" /\ outcomes'[2].action = 0
  BY <1>3, <1>5, <1>7, <1>9, <1>10
<1>13. app' = NewApp /\ uploads' = <<>> /\ ended' = NoFates BY <1>1, <1>5, <1>6
<1> QED BY <1>11, <1>12, <1>13 DEF Beginning

\* nothing else can happen before
LEMMA FirstStep ==
  ASSUME Beginning, Next
  PROVE  Beginning' \/ (Running' /\ Starting(app'))
<1>1. app = NewApp /\ uploads = <<>> BY DEF Beginning
<1>2. /\ ~app.shown /\ app.dialog = None /\ app.editor = NoEditor /\ app.closed = None
  BY <1>1, NewIs
<1>3. app.editor.phase = "none" BY <1>2 DEF NoEditor
<1>4. ~CardEvents
  BY <1>2, Zenon DEF CardEvents, CopyCard, SaveCard, SaveCardAs, UploadCard, CloseTimer, DismissCard,
     OverflowCard, DropCard, OpenCard
<1>5. ~InEditor BY <1>3 DEF InEditor, Active
<1>6. ~EditorEvents
  BY <1>5, Zenon DEF EditorEvents, Edits, CopyInEditor, SaveInEditor, FinishesEditing, CancelsEditing
<1>7. ~AnswersDialog /\ ~ShowsEditor /\ ~EndsClose
  BY <1>2, <1>3 DEF AnswersDialog, ShowsEditor, EndsClose
<1>8. ~UploadWorker BY <1>1 DEF UploadWorker
<1> QED BY <1>4, <1>6, <1>7, <1>8, FirstOutcome, FirstWork DEF Next


-----------------------------------------------------------------------------
(* The invariant is inductive                                              *)

UserTyped == user \in [start : Starts, may : SUBSET Happenings, events : Nat]

LEMMA HappensTyped ==
  ASSUME UserTyped, NEW what, Happens(what) PROVE UserTyped'
<1>1. user.events \in Nat /\ user.events > 0 BY DEF UserTyped, Happens
<1> DEFINE n == user.events - 1
<1>2. n \in Nat BY <1>1
<1>3. user' = [user EXCEPT !.events = n] BY DEF Happens
<1> HIDE DEF n
<1> QED BY <1>2, <1>3 DEF UserTyped

LEMMA AsksTyped ==
  ASSUME UserTyped, NEW what, NEW a, Asks(what, a) PROVE UserTyped'
<1>1. Happens(what) BY DEF Asks
<1> QED BY <1>1, HappensTyped

LEMMA UserKept ==
  ASSUME UserTyped, Next PROVE UserTyped'
<1>1. CASE user' = user BY <1>1 DEF UserTyped
<1>2. CASE TakesOutcome BY <1>1, <1>2 DEF TakesOutcome
<1>3. CASE AnswersDialog BY <1>1, <1>3 DEF AnswersDialog
<1>4. CASE ShowsEditor BY <1>1, <1>4 DEF ShowsEditor
<1>5. CASE EndsClose BY <1>1, <1>5 DEF EndsClose
<1>6. CASE Worker BY <1>1, <1>6 DEF Worker
<1>7. CASE UploadWorker BY <1>1, <1>7, Zenon DEF UploadWorker
<1>8. CASE CardEvents
  <2>1. CASE CopyCard BY <2>1, AsksTyped DEF CopyCard
  <2>2. CASE SaveCard BY <2>2, AsksTyped DEF SaveCard
  <2>3. CASE SaveCardAs BY <2>3, AsksTyped, Zenon DEF SaveCardAs
  <2>4. CASE UploadCard BY <2>4, AsksTyped DEF UploadCard
  <2>5. CASE CloseTimer BY <2>5, AsksTyped DEF CloseTimer
  <2>6. CASE DismissCard BY <2>6, AsksTyped DEF DismissCard
  <2>7. CASE OverflowCard BY <2>7, AsksTyped DEF OverflowCard
  <2>8. CASE DropCard BY <2>8, AsksTyped DEF DropCard
  <2>9. CASE OpenCard BY <2>9, AsksTyped DEF OpenCard
  <2> QED BY <1>8, <2>1, <2>2, <2>3, <2>4, <2>5, <2>6, <2>7, <2>8, <2>9 DEF CardEvents
<1>9. CASE EditorEvents
  <2>1. CASE Edits BY <2>1, AsksTyped DEF Edits
  <2>2. CASE CopyInEditor BY <2>2, AsksTyped, Zenon DEF CopyInEditor
  <2>3. CASE SaveInEditor BY <2>3, AsksTyped, Zenon DEF SaveInEditor
  <2>4. CASE FinishesEditing BY <2>4, HappensTyped DEF FinishesEditing
  <2>5. CASE CancelsEditing BY <2>5, HappensTyped DEF CancelsEditing
  <2> QED BY <1>9, <2>1, <2>2, <2>3, <2>4, <2>5 DEF EditorEvents
<1> QED BY <1>2, <1>3, <1>4, <1>5, <1>6, <1>7, <1>8, <1>9 DEF Next

LEMMA InitBegins ==
  ASSUME Init PROVE IInv
<1>1. UserTyped BY CardAssumption, Zenon DEF Init, UserTyped
<1>2. /\ app = NewApp /\ uploads = <<>> /\ ended = NoFates
      /\ vault \in [version : {Plain}, filed : BOOLEAN]
  <2>1. app = NewApp /\ uploads = <<>> /\ ended = NoFates BY Zenon DEF Init
  <2>2. \/ vault = [version |-> Plain, filed |-> FALSE]
        \/ vault = [version |-> Plain, filed |-> TRUE]
    BY Zenon DEF Init
  <2>3. /\ [version |-> Plain, filed |-> FALSE] \in [version : {Plain}, filed : BOOLEAN]
        /\ [version |-> Plain, filed |-> TRUE] \in [version : {Plain}, filed : BOOLEAN]
    OBVIOUS
  <2>4. vault \in [version : {Plain}, filed : BOOLEAN] BY <2>2, <2>3, Zenon
  <2> QED BY <2>1, <2>4
<1> DEFINE Announces(f) ==
             /\ f \in [what : {"ready", "restored", "opened"}, action : {0}, export : BOOLEAN,
                       version : {Plain}, filed : {FALSE}, elsewhere : {FALSE}, ok : BOOLEAN]
             /\ f.what = "opened" => f.ok
             /\ \/ outcomes = <<f>> /\ jobs = <<>> /\ f.what # "ready"
                \/ outcomes = <<f>> /\ jobs = <<Job("finalize")>> /\ f.what = "ready"
<1>3. \E f : Announces(f)
  <2>1. CASE \E show, edit \in BOOLEAN :
               /\ outcomes = <<[Told("ready") EXCEPT !.export = show, !.ok = edit]>>
               /\ jobs = <<Job("finalize")>>
    <3>1. PICK show \in BOOLEAN, edit \in BOOLEAN :
            /\ outcomes = <<[Told("ready") EXCEPT !.export = show, !.ok = edit]>>
            /\ jobs = <<Job("finalize")>>
      BY <2>1, Zenon
    <3> DEFINE f == [Told("ready") EXCEPT !.export = show, !.ok = edit]
    <3>2. /\ f \in [what : {"ready", "restored", "opened"}, action : {0}, export : BOOLEAN,
                    version : {Plain}, filed : {FALSE}, elsewhere : {FALSE}, ok : BOOLEAN]
          /\ f.what = "ready"
      BY DEF Told
    <3>3. outcomes = <<f>> BY <3>1
    <3> HIDE DEF f
    <3>4. Announces(f) BY <3>1, <3>2, <3>3
    <3> QED BY <3>4
  <2>2. CASE \E show \in BOOLEAN :
               outcomes = <<[Told("restored") EXCEPT !.export = show]>> /\ jobs = <<>>
    <3>1. PICK show \in BOOLEAN :
            outcomes = <<[Told("restored") EXCEPT !.export = show]>> /\ jobs = <<>>
      BY <2>2
    <3> DEFINE f == [Told("restored") EXCEPT !.export = show]
    <3>2. /\ f \in [what : {"ready", "restored", "opened"}, action : {0}, export : BOOLEAN,
                    version : {Plain}, filed : {FALSE}, elsewhere : {FALSE}, ok : BOOLEAN]
          /\ f.what = "restored"
      BY DEF Told
    <3>3. outcomes = <<f>> BY <3>1
    <3> HIDE DEF f
    <3>4. Announces(f) BY <3>1, <3>2, <3>3
    <3> QED BY <3>4
  <2>3. CASE outcomes = <<[Told("opened") EXCEPT !.ok = TRUE]>> /\ jobs = <<>>
    <3> DEFINE f == [Told("opened") EXCEPT !.ok = TRUE]
    <3>2. /\ f \in [what : {"ready", "restored", "opened"}, action : {0}, export : BOOLEAN,
                    version : {Plain}, filed : {FALSE}, elsewhere : {FALSE}, ok : BOOLEAN]
          /\ f.what = "opened" /\ f.ok
      BY DEF Told
    <3>3. outcomes = <<f>> BY <2>3
    <3> HIDE DEF f
    <3>4. Announces(f) BY <2>3, <3>2, <3>3
    <3> QED BY <3>4
  <2> QED BY <2>1, <2>2, <2>3, Zenon DEF Init
<1>4. Beginning BY <1>2, <1>3 DEF Beginning
<1> QED BY <1>1, <1>4 DEF IInv, UserTyped

LEMMA GoesOn ==
  ASSUME Running, Next PROVE Running'
BY OutcomeStep, UserStep, CardStep, WorkerStep, UploadWorkerStep DEF Next

LEMMA IInvStep ==
  ASSUME IInv, [Next]_vars PROVE IInv'
<1>1. (Beginning \/ Running) /\ UserTyped BY GoingIs DEF IInv, UserTyped
<1>2. (Beginning \/ Running)' /\ UserTyped'
  <2>1. CASE Next
    <3>1. UserTyped' BY <1>1, <2>1, UserKept
    <3>2. CASE Beginning BY <2>1, <3>1, <3>2, FirstStep
    <3>3. CASE Running BY <2>1, <3>1, <3>3, GoesOn
    <3> QED BY <1>1, <3>2, <3>3
  <2>2. CASE UNCHANGED vars
    <3>1. /\ app' = app /\ jobs' = jobs /\ uploads' = uploads /\ outcomes' = outcomes
          /\ vault' = vault /\ user' = user /\ ended' = ended
      BY <2>2 DEF vars
    <3>2. UserTyped' BY <1>1, <3>1 DEF UserTyped
    <3>3. CASE Beginning
      <4>1. Beginning' BY <3>1, <3>3 DEF Beginning
      <4> QED BY <3>2, <4>1
    <3>4. CASE Running
      <4>1. Running' BY <3>1, <3>4 DEF Running
      <4> QED BY <3>2, <4>1
    <3> QED BY <1>1, <3>3, <3>4
  <2> QED BY <2>1, <2>2
<1>3. Running' => Going' BY DEF Running, Served, Going
<1> QED BY <1>2, <1>3 DEF IInv, UserTyped

-----------------------------------------------------------------------------
(* What it implies                                                         *)

LEMMA RunningTyped ==
  ASSUME Running, UserTyped PROVE TypeOK
<1>1. app \in Apps /\ Counted(app) BY DEF Running, Served, Steady
<1> DEFINE E == {Open, Cancelled} \union {Committed(r) : r \in 0..MaxRev}
<1>2. Ends = E BY DEF Ends
<1>3. /\ app.outstanding \subseteq Outs /\ app.current \in Nat /\ app.fates \in [Gens -> Ends]
      /\ app.editor \in [phase : {"none", "asked", "open"}, version : Versions]
      /\ app.closed \in {None, "committed", "failed"} /\ app.dialog \in Dialogs \union {None}
      /\ app.deferredClose \in {None, "hide", "save"} /\ app.recovery \in Nat
      /\ app.nextAction \in Nat \ {0}
  BY <1>1 DEF Apps
<1>4. app.outstanding \subseteq [id : Actions, kind : {"card", "editor", "upload"}, close : BOOLEAN]
  <2> SUFFICES ASSUME NEW x \in app.outstanding
               PROVE  x \in [id : Actions, kind : {"card", "editor", "upload"}, close : BOOLEAN]
    OBVIOUS
  <2>1. x \in Outs /\ x.id < app.nextAction BY <1>1, <1>3 DEF Counted
  <2>2. x.id \in Actions BY <1>3, <2>1 DEF Outs, Actions
  <2> QED BY <2>1, <2>2 DEF Outs
<1>5. app.current \in {0} \union Ids(app) BY <1>1, <1>3 DEF Counted, Ids
<1>6. app.dialog = None \/ app.dialog.id \in Ids(app) BY <1>1 DEF Counted, Ids
<1>7. app.recovery \in {0} \union Actions BY <1>1, <1>3 DEF Counted, Actions
<1>8. vault.version \in Versions \union {None} /\ vault.filed \in BOOLEAN
  BY DEF Running, Served, Keeps, Vaults
<1>9. user.events \in Nat BY DEF UserTyped
<1>10. ended \in [Gens -> Ends] BY DEF Running, Served, Agreed, Ended
<1>11. app.posted = <<>> BY DEF Running, Served
<1> HIDE DEF E
<1>12. app.fates \in [Gens -> E] /\ ended \in [Gens -> E] BY <1>2, <1>3, <1>10
<1>13. app.editor.phase \in {"none", "asked", "open"} /\ app.editor.version \in Versions BY <1>3
<1> QED BY <1>3, <1>4, <1>5, <1>6, <1>7, <1>8, <1>9, <1>11, <1>12, <1>13 DEF TypeOK, E

LEMMA BeginningTyped ==
  ASSUME Beginning, UserTyped PROVE TypeOK
<1> DEFINE E == {Open, Cancelled} \union {Committed(r) : r \in 0..MaxRev}
<1>1. app = NewApp /\ ended = NoFates /\ vault \in [version : {Plain}, filed : BOOLEAN]
  BY DEF Beginning
<1>2. NoFates \in [Gens -> E] BY DEF NoFates
<1>3. NoEditor.phase = "none" /\ NoEditor.version = Plain BY DEF NoEditor
<1>4. Plain \in Versions BY NoneIsApart
<1> HIDE DEF E
<1>5. /\ app.outstanding = {} /\ app.current = 0 /\ app.fates = NoFates /\ app.editor = NoEditor
      /\ app.closed = None /\ app.posted = <<>> /\ app.dialog = None
      /\ app.deferredClose = None /\ app.recovery = 0
  BY <1>1 DEF NewApp
<1>6. vault.version \in Versions \union {None} /\ vault.filed \in BOOLEAN BY <1>1, <1>4
<1>7. user.events \in Nat BY DEF UserTyped
<1> QED BY <1>1, <1>2, <1>3, <1>4, <1>5, <1>6, <1>7 DEF TypeOK, E

-----------------------------------------------------------------------------

\* the card counts as it did, or was kept elsewhere and went
CountsAsBefore(a, b) == IF b.visible THEN b.retention = a.retention ELSE a.retention.elsewhere

LEMMA StaleTaken ==
  ASSUME NEW q \in Seq(JobShape), NEW us, NEW t, NEW e, NEW a, Handled(a, q, us, t, e),
         NEW h, Telling(a, q, t, e, h), h.what \in {"done", "upload done"}, a.visible,
         h.version # Plain, e[h.version.gen] \notin {Open, Committed(h.version.rev)},
         NEW b, b = Takes(a, h)
  PROVE  CountsAsBefore(a, b)
<1>1. a \in Apps BY Zenon DEF Handled, Steady
<1>2. h \in OutcomeShape /\ ToldOf(a, e, h) BY Zenon DEF Telling
<1>3. h.action \in Nat /\ Numbered(a, h) BY <1>2, Zenon DEF OutcomeShape, ToldOf
<1>4. CASE h.action \notin Ids(a)
  <2>1. b = a BY <1>4, Zenon DEF Takes, Done, UploadDone, Resolve
  <2> QED BY <2>1, Zenon DEF CountsAsBefore
<1>5. CASE h.action \in Ids(a)
  <2>1. a.fates[h.version.gen] = e[h.version.gen] BY <1>2, <1>5, Zenon DEF ToldOf, Judges
  <2>2. Stale(a, h.version) BY <2>1, Zenon DEF Stale
  <2>3. CASE h.what = "done"
    <3>1. b = Outdated(a, h) BY <1>5, <2>2, <2>3 DEF Takes, Done
    <3>2. IF b.visible THEN b.retention = a.retention ELSE a.retention.elsewhere
      BY <1>2, <1>3, <1>5, <3>1, OutdatedHandled, Zenon
    <3> QED BY <3>2, Zenon DEF CountsAsBefore
  <2>4. CASE h.what = "upload done"
    <3>1. b = Resolve(a, h.action) BY <2>2, <2>4, Zenon DEF Takes, UploadDone
    <3>2. SameCard(a, b) BY <1>1, <1>3, <3>1, ResolveIs, Zenon
    <3> QED BY <3>2, Zenon DEF SameCard, CountsAsBefore
  <2> QED BY <2>3, <2>4, Zenon
<1> QED BY <1>4, <1>5, Zenon

LEMMA StaleIgnored ==
  ASSUME IInv, Judged, Superseded(Head(outcomes).version)
  PROVE  IF app'.visible THEN app'.retention = app.retention ELSE app.retention.elsewhere
<1> DEFINE h == Head(outcomes)
           t == Tail(outcomes)
           b == Takes(app, h)
<1>1. CASE Beginning
  <2>1. ~app.visible BY <1>1 DEF Beginning, NewApp
  <2> QED BY <2>1, Zenon DEF Judged
<1>2. CASE Running
  <2>1. /\ TakesOutcome /\ h.what \in {"done", "upload done"} /\ app.visible
        /\ h.version # Plain /\ ended[h.version.gen] \notin {Open, Committed(h.version.rev)}
    BY Zenon DEF Judged, Superseded
  <2>2. outcomes # <<>> /\ app' = [b EXCEPT !.posted = <<>>] BY <2>1, Zenon DEF TakesOutcome, Runs
  <2>3. /\ Handled(app, jobs, uploads, outcomes, ended) /\ jobs \in Seq(JobShape)
        /\ Queued(jobs, app) = jobs
    BY <1>2, RunningHandled
  <2>4. /\ Agreed(app, jobs, uploads, t, ended, "handling")
        /\ Telling(app, jobs, t, ended, h)
    BY <1>2, <2>2, TailAgreed DEF Running, Served
  <2>5. Handled(app, jobs, uploads, t, ended) BY <2>3, <2>4 DEF Handled
  <2>6. b = Takes(app, h) OBVIOUS
  <2> HIDE DEF h, t, b
  <2>7. CountsAsBefore(app, b) BY <2>1, <2>3, <2>4, <2>5, <2>6, StaleTaken, Zenon
  <2>8. b \in Apps
    <3>1. Took(app, b, h, jobs, uploads, t, ended, ended)
      BY <2>1, <2>3, <2>4, <2>5, <2>6, OutputsTaken, Zenon
    <3> QED BY <3>1 DEF Took, Handled, Steady
  <2>9. app'.visible = b.visible /\ app'.retention = b.retention BY <2>2, <2>8 DEF Apps
  <2> QED BY <2>7, <2>9 DEF CountsAsBefore
<1> QED BY <1>1, <1>2, GoingIs DEF IInv

-----------------------------------------------------------------------------

\* What the main thread, the workers' queues and the vault tell of each other
\* is preserved by every step: see IInv.
THEOREM Inductive == Spec => []IInv
<1>1. Init => IInv BY InitBegins
<1>2. IInv /\ [Next]_vars => IInv' BY IInvStep
<1> QED BY <1>1, <1>2, PTL DEF Spec

\* The main thread's records, the queues and the vault have the shapes the
\* code gives them, and an upload that is current is outstanding, for every
\* number of sessions and revisions (app.rs:4290, current_upload_action).
THEOREM CardTyped == Spec => []TypeOK
<1>1. IInv => TypeOK BY GoingIs, RunningTyped, BeginningTyped DEF IInv, UserTyped
<1> QED BY <1>1, Inductive, PTL

\* A save or an upload of an edit that was discarded or overtaken, however
\* late it ends and among however many sessions, changes nothing of what keeps
\* the card: it does not count as exported, and is not closed over pixels that
\* are nowhere else (app.rs:3863 output_version_is_stale).
THEOREM OvertakenProvesNothing == Spec => StaleProvesNothing
<1>1. IInv /\ [Next]_vars
        => [Judged /\ Superseded(Head(outcomes).version)
              => IF app'.visible THEN app'.retention = app.retention
                                 ELSE app.retention.elsewhere]_vars
  BY StaleIgnored
<1> QED BY <1>1, Inductive, PTL DEF Spec, StaleProvesNothing
=============================================================================

----------------------------- MODULE CardOutput -----------------------------
(***************************************************************************)
(* One capture card between the GUI's main thread, which owns what the     *)
(* user sees and has asked for (apps/scrozz/src/gui/app.rs), the capture   *)
(* worker and its vault of pixels, and the upload worker (pipeline.rs).    *)
(*                                                                         *)
(* The main thread never waits: it posts jobs, goes on taking what the     *)
(* user does, and meets the outcomes later.  Each of its handlers is a     *)
(* function from its state, the record app, to the next; app.posted        *)
(* collects the jobs the handler posts.                                    *)
(***************************************************************************)
EXTENDS Integers, Sequences

CONSTANTS
  MaxGen,       \* editing sessions
  MaxRev,       \* edits of a session
  Workloads,    \* how the card comes about, what may happen to it and how often
  None

Starts == {"captured", "restored", "reopened"}

Happenings == {"copy", "save", "save as", "upload", "close", "dismiss", "overflow", "drop", "open",
               "edit", "editor copy", "editor save", "done", "cancel"}

\* where the commit of an edit, and the scene sent to history, stand
Answered == {"waits", "ok", "failed"}

ASSUME CardAssumption ==
  /\ MaxGen \in Nat \ {0} /\ MaxRev \in Nat \ {0}
  /\ Workloads \subseteq [start : Starts, may : SUBSET Happenings, events : Nat]
  /\ None \notin Nat \union {"hide", "save", "committed", "failed"} \union [gen : Nat, rev : Nat]
  /\ None \notin [only : BOOLEAN, commit : Answered, persist : Answered, version : [gen : Nat, rev : Nat],
                  unsaved : BOOLEAN]

Gens == 1..MaxGen

VARIABLES
  app,       \* the main thread
  jobs,      \* the capture worker's queue
  uploads,   \* the upload worker's queue
  outcomes,  \* Outcome: what the workers report
  vault,     \* the capture worker: the card's pixels, and whether history has them
  user,      \* what the user and the overlay's timers may do, and how often still
  ended      \* how each editing session ended, for the properties

vars == <<app, jobs, uploads, outcomes, vault, user, ended>>

\* What an image was made from: an editing session and its revision, or,
\* for Plain, no session at all.
Version(g, r) == [gen |-> g, rev |-> r]
Plain == Version(0, 0)

---------------------------------------------------------------------------
(* The messages *)

Job(do) == [do |-> do, action |-> 0, export |-> FALSE, version |-> Plain]

\* Copy, CopyImage, Save, SaveImage, SaveTo and SaveImageTo
Output(export, version) == [Job("output") EXCEPT !.export = export, !.version = version]

Upload(version) == [Job("upload") EXCEPT !.version = version]

Told(what) == [what |-> what, action |-> 0, export |-> FALSE, version |-> Plain,
               filed |-> FALSE, elsewhere |-> FALSE, ok |-> FALSE]

Answer(what, job) == [Told(what) EXCEPT !.action = job.action, !.export = job.export,
                                        !.version = job.version]

---------------------------------------------------------------------------
(* The main thread: the record app *)

Open == [end |-> "open", rev |-> 0]
Cancelled == [end |-> "cancelled", rev |-> 0]
Committed(r) == [end |-> "committed", rev |-> r]

NoFates == [g \in Gens |-> Open]

NoRetention == [elsewhere |-> FALSE, exported |-> FALSE]

NoEditor == [phase |-> "none", version |-> Plain]

NewApp ==
  [visible |-> FALSE,           \* visible_cards, and that card_retention has the card
   shown |-> FALSE,             \* the overlay still maps the card
   retention |-> NoRetention,
   filed |-> FALSE,             \* card_capture_ids has the card
   finalizing |-> FALSE,
   opening |-> FALSE,
   editor |-> NoEditor,         \* editor_requests and the host's editors
   close |-> None,              \* pending_editor_closes
   closed |-> None,             \* editor_close_results
   editorOnly |-> FALSE,
   outstanding |-> {},          \* outstanding_output_actions
   current |-> 0,               \* current_upload_action
   fates |-> NoFates,           \* card_generation_fates
   deferredSave |-> FALSE, deferredClose |-> None, deferredOverflow |-> FALSE,
   checkClose |-> FALSE,        \* pending_retention_close
   checkOverflow |-> FALSE,     \* pending_retention_overflow
   recovery |-> 0,              \* pending_overflow_recovery
   inFlight |-> FALSE,          \* overflow_recovery_in_flight
   dialog |-> None,             \* pending_save_dialog
   nextGen |-> 1, nextAction |-> 1,
   posted |-> <<>>]

Post(a, job) == [a EXCEPT !.posted = Append(@, job)]

\* the editors of this pass
Edited(a) == IF a.editor.phase = "open" THEN a.editor.version ELSE Plain

Active(a) == a.editor.phase = "open"

Frozen(a) == a.close # None \/ a.closed # None

---------------------------------------------------------------------------
(* Outputs the card waits for *)

Ids(a) == {x.id : x \in a.outstanding}

CardOutputPending(a) == \E x \in a.outstanding : x.kind = "card"

UploadCloses(a) == \E x \in a.outstanding : x.id = a.current /\ x.close

Register(a, id, kind, close) ==
  [a EXCEPT !.outstanding = @ \union {[id |-> id, kind |-> kind, close |-> close]},
            !.current = IF kind = "upload" THEN id ELSE @]

\* posts a job under an action of its own and registers it
Dispatch(a, kind, close, job) ==
  Register(Post([a EXCEPT !.nextAction = @ + 1], [job EXCEPT !.action = a.nextAction]),
           a.nextAction, kind, close)

\* Mutant: only the card's own outputs are waited for.
PruneFatesOfCard(a) == IF CardOutputPending(a) THEN a ELSE [a EXCEPT !.fates = NoFates]

\* the fates of sessions matter while an output may still tell of one
PruneFates(a) == IF a.outstanding = {} THEN [a EXCEPT !.fates = NoFates] ELSE a

\* Mutant: the upload that was answered stays the current one.
ResolveKeepsCurrent(a, id) ==
  IF id \notin Ids(a) THEN a ELSE PruneFates([a EXCEPT !.outstanding = {x \in @ : x.id # id}])

Resolve(a, id) ==
  IF id \notin Ids(a) THEN a
  ELSE PruneFates([a EXCEPT !.outstanding = {x \in @ : x.id # id},
                            !.current = IF @ = id THEN 0 ELSE @])

\* how the action id was registered
Registered(a, id) == CHOOSE x \in a.outstanding : x.id = id

Stale(a, version) ==
  version # Plain /\ a.fates[version.gen] \notin {Open, Committed(version.rev)}

---------------------------------------------------------------------------
(* Retiring a card *)

\* Mutant: an editor on its way is forgotten.
EditorOwnsOpen(a) == Active(a)

EditorOwns(a) == Active(a) \/ a.opening

\* dismiss_recent_capture: an editor or a save dialog that still needs the
\* pixels takes them over, and releases them when it is done
Dismiss(a) ==
  LET dialog == a.dialog # None
      editor == EditorOwns(a)
      gone == [a EXCEPT
        !.outstanding = {x \in @ : x.kind = "editor" \/ (dialog /\ x.kind = "card")},
        !.current = 0, !.visible = FALSE, !.shown = FALSE, !.retention = NoRetention,
        !.fates = NoFates, !.filed = FALSE, !.checkClose = FALSE, !.checkOverflow = FALSE,
        !.deferredClose = None, !.deferredOverflow = FALSE, !.recovery = 0,
        !.inFlight = dialog,
        !.editorOnly = @ \/ (editor /\ ~dialog)]
  IN IF a.deferredSave THEN a
     ELSE IF dialog \/ editor THEN gone ELSE Post(gone, Job("release"))

\* a save that closes the card
SavesAndCloses(a, version) == Dispatch(a, "card", TRUE, Output(TRUE, version))

AutoClose(a, how, version) ==
  IF how = "hide"
    THEN IF ~a.retention.elsewhere \/ (a.filed /\ ~a.retention.exported /\ a.checkClose) THEN a
         ELSE IF a.filed /\ ~a.retention.exported
           THEN Post([a EXCEPT !.checkClose = TRUE], Job("releaseIfRetained"))
           ELSE Dismiss(a)
  ELSE IF a.retention.exported /\ version = Plain THEN Dismiss(a)
  ELSE IF CardOutputPending(a) THEN a
  ELSE SavesAndCloses(a, version)

\* the job of the recovery is stashed until history was asked
AsksHistory(a) ==
  LET stashed == [a EXCEPT !.recovery = a.nextAction, !.nextAction = @ + 1, !.checkOverflow = TRUE]
  IN IF a.checkOverflow THEN stashed ELSE Post(stashed, Job("releaseIfRetained"))

Overflow(a, version) ==
  IF CardOutputPending(a) \/ UploadCloses(a) THEN [a EXCEPT !.inFlight = TRUE]
  ELSE IF version = Plain /\ a.retention.exported THEN Dismiss(a)
  ELSE IF version = Plain /\ a.retention.elsewhere
    THEN IF a.filed THEN AsksHistory(a) ELSE Dismiss(a)
  ELSE [SavesAndCloses(a, version) EXCEPT !.inFlight = TRUE]

\* an overflow that waited for an output goes on
ResumesOverflow(a) ==
  IF Active(a) THEN [a EXCEPT !.inFlight = FALSE, !.deferredOverflow = TRUE]
  ELSE Overflow([a EXCEPT !.inFlight = FALSE], Plain)

\* the auto-close and the overflow that waited for an editor or for finalization
RunsDeferredClose(a, version) ==
  IF a.deferredClose = None THEN a
  ELSE AutoClose([a EXCEPT !.deferredClose = None], a.deferredClose, version)

RunsDeferredOverflow(a, version) ==
  IF a.deferredOverflow THEN Overflow([a EXCEPT !.deferredOverflow = FALSE], version) ELSE a

---------------------------------------------------------------------------
(* Outcomes of outputs *)

\* Outcome::Done of an action that is outstanding
Completes(a, o) ==
  LET kept == IF a.visible /\ o.export
                THEN [a EXCEPT !.retention = [elsewhere |-> TRUE, exported |-> TRUE]] ELSE a
      done == Resolve(kept, o.action)
  IN IF Registered(a, o.action).close /\ ~UploadCloses(done) THEN Dismiss(done) ELSE done

\* Outcome::Done that answers for a revision the card has moved on from
Outdated(a, o) ==
  LET done == Resolve(a, o.action)
  IN IF Registered(a, o.action).close /\ a.inFlight /\ ~UploadCloses(done)
       THEN ResumesOverflow(done) ELSE done

Done(a, o) ==
  IF o.action \notin Ids(a) THEN a
  ELSE IF Stale(a, o.version) THEN Outdated(a, o) ELSE Completes(a, o)

OutputRefused(a, o) ==
  LET failed == Resolve(a, o.action)
  IN IF o.action \in Ids(a) /\ Registered(a, o.action).kind = "card" /\ a.inFlight
       THEN Dismiss([failed EXCEPT !.inFlight = FALSE]) ELSE failed

UploadDone(a, o) ==
  LET done == Resolve(a, o.action)
      kept == IF a.visible THEN [done EXCEPT !.retention.elsewhere = TRUE] ELSE done
  IN IF o.action \notin Ids(a) \/ a.current # o.action \/ Stale(a, o.version) THEN done
     ELSE IF Registered(a, o.action).close THEN Dismiss(kept) ELSE kept

UploadRefused(a, o) ==
  LET failed == Resolve(a, o.action)
  IN IF o.action \in Ids(a) /\ a.current = o.action /\ Registered(a, o.action).close
        /\ failed.inFlight /\ ~CardOutputPending(failed)
       THEN ResumesOverflow(failed) ELSE failed

\* what history said of a card that is to close
RetentionRelease(a, o) ==
  LET checked == [a EXCEPT !.checkClose = FALSE, !.checkOverflow = FALSE]
      unkept == IF a.visible THEN [checked EXCEPT !.retention.elsewhere = a.retention.exported]
                             ELSE checked
      save == [Output(TRUE, Plain) EXCEPT !.action = a.recovery]
  IN IF ~a.checkClose /\ ~a.checkOverflow THEN a
     ELSE IF o.ok THEN Dismiss([checked EXCEPT !.recovery = 0])
     ELSE IF a.checkOverflow /\ a.recovery # 0
       THEN Register(Post([unkept EXCEPT !.recovery = 0, !.inFlight = TRUE], save),
                     a.recovery, "card", TRUE)
       ELSE unkept

---------------------------------------------------------------------------
(* Editors *)

Opened(a, o) ==
  [a EXCEPT !.editor = [phase |-> "asked", version |-> Version(a.nextGen, 0)],
            !.nextGen = @ + 1, !.editorOnly = @ \/ o.ok]

\* Outcome::Refused: the editor that was asked for does not open
OpenRefused(a) ==
  LET shut == IF a.editorOnly THEN Post([a EXCEPT !.editorOnly = FALSE], Job("release")) ELSE a
  IN IF ~a.opening THEN a
     ELSE RunsDeferredOverflow(RunsDeferredClose([shut EXCEPT !.opening = FALSE], Plain), Plain)

EditorClosed(a, committed) ==
  LET told == IF committed THEN a
              ELSE PruneFates([a EXCEPT !.fates[a.editor.version.gen] = Cancelled])
      version == IF committed THEN Edited(a) ELSE Plain
      ran == RunsDeferredOverflow(RunsDeferredClose(told, version), version)
      freed == IF ran.editorOnly THEN Post([ran EXCEPT !.editorOnly = FALSE], Job("release"))
                                 ELSE ran
  IN [freed EXCEPT !.opening = FALSE, !.editor = NoEditor]

\* begin_editor_close and commit_card_output: the editor freezes until the
\* commit is answered, and a history-only editor until the scene is kept too
CommitsEdit(a) ==
  LET v == a.editor.version
      frozen == [a EXCEPT !.close = [only |-> a.editorOnly, commit |-> "waits", persist |-> "waits",
                                     version |-> v, unsaved |-> TRUE]]
      posted == Post(frozen, [Job("commit") EXCEPT !.version = v])
  IN PruneFates([posted EXCEPT !.retention = NoRetention, !.fates[v.gen] = Committed(v.rev)])

\* Mutant: both answers are waited for.
FailedAfterBoth(close) ==
  /\ close.commit # "waits" /\ close.persist # "waits"
  /\ close.commit = "failed" \/ (close.only /\ close.persist = "failed")

Failed(close) == close.commit = "failed" \/ (close.only /\ close.persist = "failed")

Filed(close) == close.commit = "ok" /\ (close.only => close.persist = "ok")

ResolveClose(a) ==
  IF Failed(a.close) THEN [a EXCEPT !.close = None, !.closed = "failed"]
  ELSE IF Filed(a.close) THEN [a EXCEPT !.close = None, !.closed = "committed"]
  ELSE a

Closing(a, o) == IF a.close = None THEN FALSE ELSE a.close.version = o.version

\* Outcome::CardOutputCommitted: only now is the scene sent to history
CommitDone(a, o) ==
  LET acked == [a EXCEPT !.close.commit = "ok", !.close.unsaved = FALSE]
      sent == IF a.close.unsaved THEN Post(acked, [Job("persist") EXCEPT !.version = o.version])
                                 ELSE acked
  IN IF Closing(a, o) THEN ResolveClose(sent) ELSE a

CommitFailed(a, o) ==
  LET undone == IF a.fates[o.version.gen] = Committed(o.version.rev)
                  THEN [a EXCEPT !.fates[o.version.gen] = Open] ELSE a
  IN IF Closing(a, o) THEN ResolveClose([undone EXCEPT !.close.commit = "failed"]) ELSE undone

Persisted(a, o) ==
  IF Closing(a, o)
    THEN ResolveClose([a EXCEPT !.close.persist = IF o.ok THEN "ok" ELSE "failed"]) ELSE a

---------------------------------------------------------------------------
(* A capture becomes a card *)

\* o.ok: the editor opens at once; o.export: the card is shown
Ready(a, o) ==
  LET shown == [a EXCEPT !.finalizing = TRUE, !.visible = o.export, !.shown = o.export]
  IN IF o.ok THEN Post([shown EXCEPT !.opening = TRUE, !.editorOnly = ~o.export], Job("open"))
             ELSE shown

Restored(a, o) ==
  IF o.export
    THEN [a EXCEPT !.visible = TRUE, !.shown = TRUE, !.filed = TRUE, !.retention.elsewhere = TRUE]
    ELSE Post(a, Job("release"))

RunsDeferredSave(a, exported) ==
  LET asked == [a EXCEPT !.deferredSave = FALSE]
  IN IF ~a.deferredSave THEN a
     ELSE IF exported THEN Dismiss(asked) ELSE SavesAndCloses(asked, Plain)

Finalized(a, o) ==
  LET owned == a.visible \/ a.opening \/ Active(a) \/ a.editorOnly \/ a.deferredSave
      settled == [a EXCEPT !.finalizing = FALSE]
      filed == IF owned THEN [settled EXCEPT !.filed = @ \/ o.filed] ELSE Post(settled, Job("release"))
      kept == IF a.visible
                THEN [filed EXCEPT !.retention = [elsewhere |-> o.elsewhere, exported |-> o.export]]
                ELSE filed
      saved == RunsDeferredSave(kept, o.export)
      closed == IF CardOutputPending(saved) THEN saved ELSE RunsDeferredClose(saved, Plain)
  IN IF Active(a) \/ a.opening THEN saved ELSE RunsDeferredOverflow(closed, Plain)

---------------------------------------------------------------------------
(* The steps of the main thread *)

\* a handler has run: the jobs it posted are in the queue
Runs(a) ==
  /\ app' = [a EXCEPT !.posted = <<>>]
  /\ jobs' = jobs \o a.posted

Takes(a, o) ==
  CASE o.what = "ready" -> Ready(a, o)
    [] o.what = "restored" -> Restored(a, o)
    [] o.what = "finalized" -> Finalized(a, o)
    [] o.what = "opened" -> Opened(a, o)
    [] o.what = "refused" -> OpenRefused(a)
    [] o.what = "done" -> Done(a, o)
    [] o.what = "output refused" -> OutputRefused(a, o)
    [] o.what = "upload done" -> UploadDone(a, o)
    [] o.what = "upload refused" -> UploadRefused(a, o)
    [] o.what = "retention" -> RetentionRelease(a, o)
    [] o.what = "committed" -> CommitDone(a, o)
    [] o.what = "commit failed" -> CommitFailed(a, o)
    [] o.what = "persist" -> Persisted(a, o)

\* what the properties remember of a session whose commit was taken back
EndedAfter(o) ==
  IF o.what = "commit failed" THEN [ended EXCEPT ![o.version.gen] = Open] ELSE ended

TakesOutcome ==
  /\ outcomes # <<>>
  /\ Runs(Takes(app, Head(outcomes)))
  /\ outcomes' = Tail(outcomes)
  /\ ended' = EndedAfter(Head(outcomes))
  /\ UNCHANGED <<uploads, vault, user>>

\* one more thing the user or a timer does
Happens(what) ==
  /\ what \in user.may /\ user.events > 0
  /\ user' = [user EXCEPT !.events = @ - 1]
  /\ UNCHANGED <<uploads, outcomes, vault>>

Asks(what, a) == Happens(what) /\ Runs(a) /\ ended' = ended

CopyCard ==
  /\ app.shown /\ ~CardOutputPending(app)
  /\ Asks("copy", Dispatch(app, "card", TRUE, Output(FALSE, Edited(app))))

SaveCard ==
  /\ app.shown
  /\ \/ app.finalizing /\ Asks("save", [app EXCEPT !.deferredSave = TRUE])
     \/ /\ ~app.finalizing /\ ~CardOutputPending(app)
        /\ Asks("save", IF app.retention.exported /\ Edited(app) = Plain THEN Dismiss(app)
                ELSE SavesAndCloses(app, Edited(app)))

SaveCardAs ==
  /\ app.shown /\ ~CardOutputPending(app) /\ app.dialog = None
  /\ Asks("save as", [Register(app, app.nextAction, "card", TRUE) EXCEPT
             !.nextAction = @ + 1,
             !.dialog = [id |-> app.nextAction, version |-> Edited(app)]])

\* close: whether the card is to go once its link is there
UploadCard ==
  /\ app.shown
  /\ \E close \in BOOLEAN :
       Asks("upload", Dispatch([app EXCEPT !.current = 0], "upload", close, Upload(Edited(app))))

CloseTimer ==
  /\ app.shown
  /\ \E how \in {"hide", "save"} :
       Asks("close", IF app.finalizing THEN [app EXCEPT !.deferredClose = how]
            ELSE IF CardOutputPending(app) THEN app
            ELSE IF Active(app) \/ app.opening THEN [app EXCEPT !.deferredClose = how]
            ELSE AutoClose(app, how, Edited(app)))

\* the overlay forgets a card before it reports that it is gone
DismissCard ==
  LET gone == [app EXCEPT !.shown = FALSE]
  IN /\ app.shown
     /\ Asks("dismiss", IF CardOutputPending(app) THEN gone ELSE Dismiss(gone))

OverflowCard ==
  LET gone == [app EXCEPT !.shown = FALSE]
  IN /\ app.shown
     /\ Asks("overflow", IF app.finalizing \/ Active(app) \/ app.opening
               THEN [gone EXCEPT !.deferredOverflow = TRUE]
             ELSE Overflow(gone, Edited(app)))

\* a drag that another program accepts takes the card off the stack
DropCard ==
  /\ app.shown /\ vault.version # None
  /\ Asks("drop", Dismiss(app))

OpenCard ==
  /\ app.shown /\ app.nextGen \in Gens
  /\ ~Active(app) /\ ~app.opening
  /\ Asks("open", Post([app EXCEPT !.opening = TRUE], Job("open")))

\* the user answers the dialog; the job takes its image from when it opened
AnswersDialog ==
  LET shut == [app EXCEPT !.dialog = None]
      cancelled == Resolve(shut, app.dialog.id)
      job == [Output(TRUE, app.dialog.version) EXCEPT !.action = app.dialog.id]
  IN /\ app.dialog # None
     /\ \/ Runs(Post(shut, job))
        \/ Runs(IF app.inFlight THEN Dismiss([cancelled EXCEPT !.inFlight = FALSE])
                ELSE cancelled)
     /\ UNCHANGED <<uploads, outcomes, vault, user, ended>>

---------------------------------------------------------------------------
(* The host and its editor windows *)

\* the window opens, and the next pass knows the editor
ShowsEditor ==
  /\ app.editor.phase = "asked"
  /\ Runs([app EXCEPT !.editor.phase = "open", !.opening = FALSE])
  /\ UNCHANGED <<uploads, outcomes, vault, user, ended>>

InEditor == Active(app) /\ ~Frozen(app)

Dirty == app.editor.version.rev > 0

Edits ==
  /\ InEditor /\ app.editor.version.rev < MaxRev
  /\ Asks("edit", [app EXCEPT !.editor.version.rev = @ + 1])

CopyInEditor == InEditor /\ Asks("editor copy", Dispatch(app, "editor", FALSE, Output(FALSE, Edited(app))))

SaveInEditor == InEditor /\ Asks("editor save", Dispatch(app, "editor", FALSE, Output(TRUE, Edited(app))))

FinishesEditing ==
  LET v == app.editor.version
  IN /\ InEditor /\ Happens("done")
     /\ Runs(IF Dirty THEN CommitsEdit(app) ELSE EditorClosed(app, TRUE))
     /\ ended' = IF Dirty THEN [ended EXCEPT ![v.gen] = Committed(v.rev)] ELSE ended

CancelsEditing ==
  /\ InEditor /\ Happens("cancel")
  /\ Runs(EditorClosed(app, FALSE))
  /\ ended' = [ended EXCEPT ![app.editor.version.gen] = Cancelled]

\* the commit was answered: the window closes, or opens again
EndsClose ==
  /\ app.closed # None
  /\ Runs(IF app.closed = "committed" THEN EditorClosed([app EXCEPT !.closed = None], TRUE)
          ELSE [app EXCEPT !.closed = None])
  /\ UNCHANGED <<uploads, outcomes, vault, user, ended>>

---------------------------------------------------------------------------
(* The capture worker *)

Held == vault.version # None

\* an image of its own, or the card's: each may fail to be encoded or written
Answers(job) ==
  \E ok \in BOOLEAN :
    /\ ok => Held \/ job.version # Plain
    /\ outcomes' = Append(outcomes, Answer(IF ok THEN "done" ELSE "output refused", job))
    /\ UNCHANGED <<uploads, vault>>

QueuesUpload(job) ==
  LET version == IF job.version = Plain THEN vault.version ELSE job.version
  IN \/ /\ Held \/ job.version # Plain
        /\ uploads' = Append(uploads, [job EXCEPT !.version = version])
        /\ UNCHANGED <<outcomes, vault>>
     \/ /\ outcomes' = Append(outcomes, Answer("upload refused", job))
        /\ UNCHANGED <<uploads, vault>>

OpensDocument ==
  \E ok \in BOOLEAN :
    /\ ok => Held
    /\ outcomes' = Append(outcomes, Told(IF ok THEN "opened" ELSE "refused"))
    /\ UNCHANGED <<uploads, vault>>

CommitsOutput(job) ==
  \E ok \in BOOLEAN :
    /\ ok => Held
    /\ vault' = IF ok THEN [vault EXCEPT !.version = job.version] ELSE vault
    /\ outcomes' = Append(outcomes, Answer(IF ok THEN "committed" ELSE "commit failed", job))
    /\ UNCHANGED uploads

PersistsDocument(job) ==
  \E ok \in BOOLEAN :
    /\ ok => Held /\ vault.filed
    /\ outcomes' = Append(outcomes, [Answer("persist", job) EXCEPT !.ok = ok])
    /\ UNCHANGED <<uploads, vault>>

Forgotten == [version |-> None, filed |-> FALSE]

Releases == vault' = Forgotten /\ UNCHANGED <<uploads, outcomes>>

ReleasesIfRetained ==
  \E released \in BOOLEAN :
    /\ vault' = IF released THEN Forgotten ELSE vault
    /\ outcomes' = Append(outcomes, [Told("retention") EXCEPT !.ok = released])
    /\ UNCHANGED uploads

\* the actions after a capture, and its insertion into history, which may
\* evict it at once
Finalizes ==
  \E filed, elsewhere, exported \in BOOLEAN :
    /\ exported => elsewhere
    /\ vault' = [vault EXCEPT !.filed = Held /\ filed]
    /\ outcomes' = Append(outcomes, [Told("finalized") EXCEPT
                     !.filed = filed, !.elsewhere = elsewhere, !.export = exported])
    /\ UNCHANGED uploads

Work(job) ==
  CASE job.do = "output" -> Answers(job)
    [] job.do = "upload" -> QueuesUpload(job)
    [] job.do = "open" -> OpensDocument
    [] job.do = "commit" -> CommitsOutput(job)
    [] job.do = "persist" -> PersistsDocument(job)
    [] job.do = "release" -> Releases
    [] job.do = "releaseIfRetained" -> ReleasesIfRetained
    [] job.do = "finalize" -> Finalizes

Worker ==
  /\ jobs # <<>>
  /\ jobs' = Tail(jobs)
  /\ Work(Head(jobs))
  /\ UNCHANGED <<app, user, ended>>

\* the provider answers, or refuses, whenever it likes
UploadWorker ==
  /\ uploads # <<>>
  /\ uploads' = Tail(uploads)
  /\ \E what \in {"upload done", "upload refused"} :
       outcomes' = Append(outcomes, Answer(what, Head(uploads)))
  /\ UNCHANGED <<app, jobs, vault, user, ended>>

---------------------------------------------------------------------------

\* a new capture, a card restored from history, or an editor opened from it
Init ==
  /\ app = NewApp /\ uploads = <<>> /\ ended = NoFates
  /\ user \in Workloads
  /\ \/ \E show, edit \in BOOLEAN :
          /\ user.start = "captured"
          /\ outcomes = <<[Told("ready") EXCEPT !.export = show, !.ok = edit]>>
          /\ jobs = <<Job("finalize")>>
          /\ vault = [version |-> Plain, filed |-> FALSE]
     \/ /\ user.start = "restored"
        /\ \E show \in BOOLEAN : outcomes = <<[Told("restored") EXCEPT !.export = show]>>
        /\ jobs = <<>>
        /\ vault = [version |-> Plain, filed |-> TRUE]
     \/ /\ user.start = "reopened"
        /\ outcomes = <<[Told("opened") EXCEPT !.ok = TRUE]>>
        /\ jobs = <<>>
        /\ vault = [version |-> Plain, filed |-> TRUE]

CardEvents == \/ CopyCard \/ SaveCard \/ SaveCardAs \/ UploadCard \/ CloseTimer
              \/ DismissCard \/ OverflowCard \/ DropCard \/ OpenCard

EditorEvents == Edits \/ CopyInEditor \/ SaveInEditor \/ FinishesEditing \/ CancelsEditing

Next == \/ TakesOutcome \/ CardEvents \/ AnswersDialog
        \/ ShowsEditor \/ EditorEvents \/ EndsClose
        \/ Worker \/ UploadWorker

Spec == Init /\ [][Next]_vars

\* the event loop is woken for every outcome, and the workers run on
Fairness == /\ WF_vars(TakesOutcome) /\ WF_vars(ShowsEditor) /\ WF_vars(EndsClose)
            /\ WF_vars(Worker) /\ WF_vars(UploadWorker)

FairSpec == Spec /\ Fairness

---------------------------------------------------------------------------
(* Properties *)

Versions == [gen : Gens, rev : 0..MaxRev] \union {Plain}

Actions == 1..(app.nextAction - 1)

\* The main thread's records, the queues and the vault have the shapes the
\* code gives them, and an upload that is current is outstanding
\* (app.rs:4290, current_upload_action).
TypeOK ==
  /\ app.outstanding \subseteq [id : Actions, kind : {"card", "editor", "upload"}, close : BOOLEAN]
  /\ app.current \in {0} \union Ids(app)
  /\ app.fates \in [Gens -> {Open, Cancelled} \union {Committed(r) : r \in 0..MaxRev}]
  /\ app.editor.phase \in {"none", "asked", "open"} /\ app.editor.version \in Versions
  /\ app.closed \in {None, "committed", "failed"} /\ app.posted = <<>>
  /\ app.dialog = None \/ app.dialog.id \in Ids(app)
  /\ app.deferredClose \in {None, "hide", "save"} /\ app.recovery \in {0} \union Actions
  /\ vault.version \in Versions \union {None} /\ vault.filed \in BOOLEAN
  /\ user.events \in Nat
  /\ ended \in [Gens -> {Open, Cancelled} \union {Committed(r) : r \in 0..MaxRev}]

Releasing == \E i \in DOMAIN jobs : jobs[i].do = "release"

Dismissing == \E i \in DOMAIN outcomes : outcomes[i].what = "retention" /\ outcomes[i].ok

\* the main thread has still to hear of the card, or of an editor of its own
Announced ==
  \E i \in DOMAIN outcomes :
    outcomes[i].what \in {"ready", "restored"} \/ (outcomes[i].what = "opened" /\ outcomes[i].ok)

\* what the main thread waits for before it retires the card
Awaited == \/ CardOutputPending(app) \/ UploadCloses(app) \/ app.deferredSave
           \/ app.deferredOverflow /\ (app.finalizing \/ app.opening \/ app.editor.phase # "none")
           \/ app.checkOverflow /\ app.recovery # 0

\* Who is still to use the pixels, or to release them: a card the user sees, an
\* editor that alone has them, the end of a finalization whose card is gone.
\* That visible_cards has the card is nobody's promise.
Owed == \/ app.shown \/ app.editorOnly \/ (app.finalizing /\ ~app.visible)
        \/ Awaited \/ Releasing \/ Announced

Hears(what) == TakesOutcome /\ Head(outcomes).what = what

\* the card left the overlay while an output of it ran, and not for want of room
Abandoned == app.visible /\ ~app.shown /\ ~app.inFlight

\* Known leaks.  The output is refused, the upload is, the dialog is cancelled, or
\* what was exported is out of date: the card stays where the user left it, but he
\* no longer sees it (app.rs:3257, app.rs:2912, app.rs:2767, app.rs:2558).  And a
\* stale upload is not taken for the end of an overflow that waited for it
\* (app.rs:2624).
Strands ==
  \/ Abandoned /\ (AnswersDialog \/ Hears("output refused") \/ Hears("upload refused")
                   \/ (Hears("done") /\ Stale(app, Head(outcomes).version)))
  \/ /\ Hears("upload done") /\ Stale(app, Head(outcomes).version)
     /\ app.visible /\ ~app.shown

\* The vault follows whoever owns the pixels: an editor, from its opening to
\* its close, finds them there, and a card the user sees loses them only when
\* the main thread is about to be told; and whatever the main thread does,
\* while they are kept somebody is still to use or release them -- but for the
\* two leaks above, after which nobody is and they stay
\* (app.rs:4259 dismiss_recent_capture, app.rs:6081 editor_closed).
VaultFollowsOwners ==
  /\ [](app.editor.phase # "none" => Held)
  /\ [](app.shown => Held \/ Dismissing)
  /\ [][Owed /\ Held' => Owed' \/ Strands]_vars

Judged == TakesOutcome /\ Head(outcomes).what \in {"done", "upload done"} /\ app.visible

\* the session the outcome's image is from was cancelled, or has committed
\* another revision
Superseded(version) ==
  version # Plain /\ ended[version.gen] \notin {Open, Committed(version.rev)}

\* A save or an upload of an edit that was discarded, or overtaken by the one
\* that was committed, however late it ends, does not make the card count as
\* exported and does not close it over the pixels it holds now
\* (app.rs:3863 output_version_is_stale).
StaleProvesNothing ==
  [][Judged /\ Superseded(Head(outcomes).version)
       => IF app'.visible THEN app'.retention = app.retention
                          ELSE app.retention.elsewhere]_vars

\* whatever was asked of the card was answered, but for a dialog that is open,
\* no editor is frozen or on its way, and no wait is left that nobody ends
Settled ==
  /\ Ids(app) \subseteq IF app.dialog = None THEN {} ELSE {app.dialog.id}
  /\ ~Frozen(app) /\ ~app.opening /\ ~app.finalizing /\ ~app.deferredSave
  /\ ~app.checkOverflow /\ ~app.checkClose

\* Whatever was asked of the card is settled when the user pauses, an editor
\* that froze on Done closes or thaws, and what the card's retirement waits for
\* comes: no answer is waited for that nobody gives (app.rs:1057 ready,
\* app.rs:3767 resolve_output_action).
OutputsSettle == []<>Settled
=============================================================================

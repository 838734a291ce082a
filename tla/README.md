# A verification development for Scrozz

Scrozz is a screenshot and recording tool: a menu-bar application with a capture
history, and a command line that runs by itself or inside the running
application. These TLA+ modules model the parts of it where several processes
and threads share files and queues. TLC checks them on small instances, and TLAPS
proves the results that matter most for instances of every size.

Read `HistoryStore.tla`, `InstanceEndpoint.tla` and `Forwarding.tla` for the
processes, `Recording.tla` and `Pipeline.tla` for what the running application
does with them, `ScrollCapture.tla` for one kind of capture from end to end, and
`CardOutput.tla` for what becomes of a capture once it is a card.
Modules named `...Proofs` hold the theorems, modules named `MC...` the instances.
`PROJECT.json` names the source lines behind every definition.

## The system

| Part | State | Operations | Talks to | What is hard |
|---|---|---|---|---|
| History store (`crates/scrozz-store`) | one JSON sidecar per capture, content-addressed pixel files, a SQLite index that caches both, pending-index markers | open, insert, delete, pin, edit, evict, collect garbage, read with repair, reconcile | the GUI's worker and its history reader, and the command line: each has a connection of its own | several processes, crashes between files and commit, partial I/O failure |
| Single-instance endpoint (`gui/server.rs`) | a socket file and who listens behind it | launch, take over a stale file, bind, quit | another launch, every command-line client | check and act on a path, crashes |
| Forwarding (`main.rs`, `ipc.rs`, `gui/server.rs`, `gui/app.rs`) | a listener, a one-deep queue, the forwarder thread and its admissions, parked requests | forward, serve, park, admit, reply, shut down | pipeline, recorder, selector | timeouts with late answers, joins during shutdown |
| Capture pipeline (`gui/pipeline.rs`) | channels of three threads, clipboard tickets, capture budget, acquisition gate, pending pins | capture, copy, pin, upload, stop | store, clipboard, cloud | ordering across threads, limits, joins |
| Recording (`crates/scrozz-record`, `gui/recording.rs`) | phase, bounded event queue, selector, session, finaliser, export | select, arm, count down, record, stop, finalise, make a card | native engines, forwarding, history | endings found in three ways, stops that arrive at any phase |
| Scrolling capture (`crates/scrozz-stitch`, the PipeWire stream of `crates/scrozz-capture`) | a session, the request in force, a cancellation token, the callbacks' event queue | scroll, take a frame, stitch, keep, discard, seal | pipeline, portal, PipeWire, HUD or terminal | requests against endings, callbacks that overtake a reader |
| Cards (`gui/app.rs`, `gui/host.rs`, the vault of `gui/pipeline.rs`) | what is asked of a card and not answered yet, how each editing session ended, what is put off, who owns the pixels | copy, save, upload, drag, dismiss, time out, overflow, open, edit, done, cancel | overlay, pipeline, history, provider | late answers for edits that were discarded, one entry with several owners |
| Selection (`gui/selection.rs`) | a gate with one active session | acquire, prepare, cancel | capture worker, forwarder | cancel against acquire |
| Cloud sharing (`crates/scrozz-cloud`) | links in sidecars, credentials | upload, status, delete | HTTP, store | an answer lost half way |
| Settings, command line, annotation, export, OCR, stitching, capture backends, shell, UI | mostly sequential or platform calls | | | a lock file (settings), native lifecycles (PipeWire) |

What should hold of each: **store**, pixels a capture shows stay on disk, the
index can be trusted or a marker says where not, updates do not undo each other,
calls return; **endpoint**, one instance at most, found by every client, and no
leftover blocks a launch; **forwarding**, no success reported for what did not
happen, nothing run twice, shutdown ends; **pipeline**, the newest clipboard
write wins, the budget holds, pin states settle at the newest or the user hears that
they could not be stored, a stop leaves nothing behind; **recording**, one at a time, kept at most once, and whoever stops
one hears how that one ended; **scrolling capture**, it ends the way it was asked
to, keeps what it stitched, and no frame is stitched twice as news; **cards**, the
pixels are there for whoever still needs them and for nobody else (the code has two
leaks, see below), no late answer closes a card over an edit it does not contain, and
nothing stays frozen.

## What is modelled

### HistoryStore

A process (`Procs`) is one open `SqliteStore`. `pc` says where it is in its call
and `job` holds the call's locals. `records`, `blobs` and `markers` are the files,
`db` is the committed index and `tx` what the open write transaction sees.
Every write transaction of the code is `BEGIN IMMEDIATE`, so there is one
`lock`; a step is one effect other processes can see. What runs outside the
lock in the code does so here: the first `write_blob` of an insert
(`InsertCall`), the reads of a document (`ReadRecord`, `ReadBlob`), the count of
sidecars on open (`Count`) and the removal of markers (`Clear`).

| Code | Actions |
|---|---|
| `open`, `synchronize_index_on_open` | `Open`, `Count`, `Sync` |
| `reconcile` | `Reconcile`, `Rewrite` for each sidecar whose pixels are gone |
| `insert` | `InsertCall`, `Insert`, then the shared tail |
| `set_pinned`, `set_screen_pin`, `save_edits`, `set_ocr_text`, share setters | `UpdateCall`, `Update`, tail |
| `delete` | `DeleteCall`, `Delete`, tail with `Unlink` |
| `evict` | `EvictCall`, `Evict`, and for each candidate `Candidate`, tail, `Unlink` |
| `collect_garbage` | `CollectCall`, `CollectGarbage`, `Collect` for each file |
| `document`, `image`, `read_blob_repairing` | `ReadRecord`, `ReadBlob`, `Repair`, tail |
| the tail every write has | `Mark` (marker file), `Write` (sidecar), `Commit`, `Clear`, `Cleared` |
| errors | `GiveUp` (busy timeout, or an early error), and a `...Fails` action for each fallible step, with the recovery the code runs |
| environment | `Crash` at any step, `LoseBlob`, `LoseRecord`, sidecars in `Unreadable` |

Each call is modelled with its early returns and its recursion: markers that
cannot be repaired one by one send `evict`, `delete` and `collect_garbage`
through `reconcile` and back to their start.

Abstractions. A digest is a model value and all pixels have the same size. Ids
are numbers in order of age, since the code's ids are chronological. The data of
a capture is one field, `doc`. A crash is the death of a process: with
`synchronous=FULL` a commit is durable, and a rename or an unlink is atomic. An
age cutoff is an id. What the environment may do is bounded by `MaxCrashes`,
`MaxFaults`, `MaxBlobLosses` and `MaxRecordLosses`. `Slots` bounds the marker
files there may be at once: without a free slot `Mark` waits, which the code
never does, so the liveness run has more slots than its budget can fill.
`repair_pending_index_updates` is one step, in the order of markers that keeps the
row of pixels missing from disk. A run may start with part of the budget of
faults spent, so that one run covers histories with and without them.

### InstanceEndpoint

One path, and a program counter per launch. `Clear` and `Remove` are
`clear_stale`, which connects and, refused, unlinks; `Bind` and `Listen` are the
two system calls in `UnixListener::bind`, between which a connection is refused.
`Quit` and `Unlink` are `Server::drop`: the listener closes, then the path is
removed, whoever's file is there by then. `Overlapping` says whether launches
and quits may overlap; a crash may always happen.

### Forwarding

Four kinds of actor: clients (`Probe`, `Connect`, `GiveUp`), the listener thread
(`Accept`, `Deliver`, `StopListening`), the forwarder thread (`Take` to
`Admitted`) and the main thread (`Serve`, `Finish`, `PollAdmission`, `Admit`, and
`Quit` to `Down` for `shut_down`). The user starts recordings, picks targets,
cancels and quits. Commands are of four kinds, after what happens to them:
captures (selector, shutter, pixels to admit), queries (run by the forwarder,
admitted without pixels), shows (served on the main thread at once: opening
the history, unpinning) and stops (parked until the recording ends). Each of the three five-minute
waits (client, listener, admission) may run out before it is answered;
`MaxTimeouts` bounds how often. The two-second wait for the shutter sound is
`Shutter`, which needs nobody. A client that has gone leaves its connection in
the backlog, and whether its request is still served is left open, as it is in
the code.

Left out: framing and its ten-second transfer limits, commands that start a
recording, the reload notification, a stop during selection or countdown
(answered at once or when these end), and the finaliser's own thread (`Finish`
is the main thread receiving its result; the twenty-second limit during
shutdown is why `Settle` needs nobody).

### RecordingMachine, Recording, RecordingContract

`RecordingMachine` has one operator per method of the machine in
`crates/scrozz-record`, with its bounded event queue. `Recording` puts the
application around it: the main thread's handlers (`Toggle`, `ForwardStart`,
`ForwardStop`, the editor's), its tick in the order of `advance_recording`
(`TickFinish` to `TickSettle`), the selector, the native session, the finaliser
thread, and `Quit`. `machine` is the machine, `app` what `RecordingState` and the
application keep beside it, `session` what the session's thread shares, and `at` the
step of the tick: other threads act between its steps.

| Code | Actions |
|---|---|
| `toggle_recording`, `begin_recording_selection`, `start_forwarded_recording` | `Toggle`, `ForwardStart` (`Select`, `Arm`, `BeginFails`) |
| `record --stop`, `begin_recording_finalisation` | `ForwardStop`, `BeginFinalisation` |
| `finish_pending_recording` | `TickFinish` |
| `advance_export`, `finish_video_export` | `TickExport` |
| `finish_recording_selection` | `TickSelect` |
| `start_pending_recording` | `TickStart` |
| `RecordingMachine::tick` | `TickClock` |
| `requires_finalisation`, `drain_recording_events` | `TickSettle` |
| `spawn_finalisation` | `Finaliser`, `FinaliserLost` |
| the session's thread | `SessionStops`, `SessionEnds`, `SessionDies` |
| `settle_recording_before_shutdown` | `Quit` |

A session ends in three ways that the code finds out in three places: it reports
a result, it only sets its state, or its channel closes.
`RecordingContract` is what the rest of the program relies on. `Contract` maps the
phases to its three stages, and `KeepsContract` is checked as a property.

Left out: pause and resume, which the application never calls; encoders, camera
and audio; the wording of events; `Arm` stands for the builds whose selector
draws a region.

### ClipboardRegister, ClipboardOrder, Pipeline

`ClipboardOrder` is the clipboard's tickets: a turn is reserved when the user
asks, runs when there is something to write, and is refused once a newer one
exists. `ClipboardRegister` is what the user may rely on, and `TurnsKeepOrder` the
refinement. `Pipeline` extends `ClipboardOrder` and uses it in all its threads.

| Code | Actions |
|---|---|
| `post_capture`, `post_scrolling`, `post_accept`, copies and uploads | `PostCapture`, `PostScrolling`, `AdmitScrolling`, `AcceptCapture`, `PostOrdered` |
| pins: `pin_card`, placements, closing, unpinning from a terminal, outcomes | `PinCard`, `PinChanged`, `Closed`, `Unpin`, `TerminalUnpin`, `PinReady`, `PinCreationFailed`, `PinPersistenceFailed` |
| the acquisition thread | `Acquires`, `TakesPixels`, `AcquisitionFails`, `SendsFinalization`, `Publishes` |
| the worker | `Starts`, `StartFails`, `Accepts`, `Finalizes`, `HandsOnUpload`, `RemembersShare`, `SetsPin`, `PinFails`, `Flushes`, `WorkerStops`, `WorkerLeaves`, `WorkerGone` |
| the upload thread | `UploadsNext`, `Uploads`, `UploadFails` |
| `ClipboardTurn::run` on any of them | `TakesTurn`, `Writes` |
| `Pipeline::stop`, and its three joins | `Stop`, `StopAcquisition`, `StopWorker`, `Down` |

A job is its kind, its turn and its card; what the history does with it is
`HistoryStore`'s concern. Of pins that concern ends in a refusal: `PinFails` and `Flushes`
let any write of a pin fail, because there is no store, the lock was not to be had, or
an I/O call failed, and then history shows the pin as before or as asked, for the failure
may come after the sidecar was replaced. The code does not try again. A creation that fails
is taken back (`PinCreationFailed`, whose write may be refused too), any other is a
note (`PinPersistenceFailed`), or the error of a forwarded unpin; `told` records that the
user has heard so of what he last asked for. A refusal is a request in a workload,
`left["refusal"]`, which bounds how many there are. Left out: the history reader and the
editor's jobs (they queue like a copy), `unlock_pins`, the handoff of a created pin to its
window (`commit_pin`, whose failure closes the pin again), the Apple picker, the
capture vault, and geometry that cannot be stored.

### FrameStream, ScrollCapture

`FrameStream` is a PipeWire stream kept open across requests for a frame: the
callbacks (`Producer`: notices of state, of format, buffers good and bad), the
coalescing of what they leave, `Lifecycle::observe` and a call of `capture_frame`
that waits for it. A buffer is the page it shows. `ScrollCapture` puts the session of
`crates/scrozz-stitch` on top, with every place at which it looks at the request
in force, and beside it the coordinator of the application or the terminal.

| Code | Actions |
|---|---|
| `AtomicCancellation`, `advance_terminal_cancellation`, `keep_` and `abort_scrolling_capture` | `Cancel`, `KeepsCapture`, `AbortsCapture`, `Interrupts`, then `CancelsToken` |
| `begin_`, `start_scrolling_capture`, `post_scrolling`, outcomes, quitting | `Begins`, `Starts`, `CancelsStart`, `Posts`, `TakesOutcome`, `Quits` |
| the acquisition | `Opens`, `Closes`, `Publishes`, `Returns` |
| `ScrollSession::run` | `AsksFirst`, `TakesFirst`, `Prepares`, `Scrolls`, `ScrollFails`, `AsksNext`, `TakesFrame`, `Falters`, `Stitches` |
| `finish_checked`, `seal_output` | `Assembles`, `Checks`, `Seals` |

A request is accepted and the token cancelled in two steps, as in the code, and
what happens between them is what `EndsAsAsked` is about. `session.asked` is a
history variable: the strongest request accepted for this capture.

Left out: alignment and assembly of pixels (`Moved` may go any way, `Assembles`
may fail), resolving and refreshing the target, the acknowledgement of
click-through, drivers that scroll by themselves except where the session treats
them differently (a Wayland session never has one). Callbacks happen only while the session
waits or is about to: at other moments they commute with what it does.

### CardOutput

One card between the main thread, which never waits, the capture worker with the
vault, and the upload worker. `app` is what the main thread keeps of the card:
the fields are named in `NewApp`. Its handlers are functions from `app` to the next
`app`, because the code's handlers call one another (an editor's close runs a
put-off auto-close, which may save, or dismiss, which may release); the jobs a
handler posts are collected in `app.posted` and join `jobs` when it has run. `ended`
is a history variable: how each editing session ended.

| Code | Actions |
|---|---|
| `drain_pipeline` | `TakesOutcome` with a handler per outcome: `Ready`, `Restored`, `Finalized`, `Done`, `OutputRefused`, `UploadDone`, `UploadRefused`, `RetentionRelease`, `Opened`, `OpenRefused`, `CommitDone`, `CommitFailed`, `Persisted` |
| `drain_cards` | `CopyCard`, `SaveCard`, `SaveCardAs`, `UploadCard`, `CloseTimer`, `DismissCard`, `OverflowCard`, `OpenCard` |
| `drain_save_dialog`, `drain_drags` | `AnswersDialog`, `DropCard` |
| the host's editors | `ShowsEditor`, `Edits`, `CopyInEditor`, `SaveInEditor`, `FinishesEditing`, `CancelsEditing`, `EndsClose` |
| `dismiss_recent_capture`, `handle_auto_close`, `handle_overflow`, `editor_closed` | `Dismiss`, `AutoClose`, `Overflow`, `EditorClosed` |
| the workers | `Worker` with one operator per job, `UploadWorker` |

An image is known by the editing session and revision it was made from, `Plain`
being the capture as taken; the vault holds one. Abstractions: posting never fails,
for the worker only goes when the application does; rendering never fails; a frame
has at most one event for the card; the timer may fire at any time; a drag
begins and drops in one step; the provider and history answer what they like.
Left out: pins, cards of recordings, background preparation of renders, Smart
Frame, the raising of an editor that is open, shutdown.

### Not modelled

Target selection, cloud requests and the settings file appear only where another
module meets them. The queries of the store, the schema, annotation, export, OCR, the
one-shot capture backends, the shell and the UI are sequential computations or
platform calls; they are most of the repository's lines and have few states that
two actors share. The part of the store that moves a corrupt index aside and
rebuilds it is not in `HistoryStore` either: it breaks the assumption that all
processes lock the same file, which the comments in `insert` and `evict` also
rely on, and will be a module of its own.

## What the runs check

| Run | Instance | Shows |
|---|---|---|
| `history_races` | 2 processes, 2 captures, 1 digest, 1 crash; either insert, delete and evict with an I/O error and 3 markers, or pins, two documents and evict with 2 markers | `TypeOK`, `PixelsKept`, `IndexKnowsPixels`, `SidecarsReachIndex`, `BytesOnDisk`, `EditsMerge`, `PinnedKept` |
| `history_returns` | insert, read, garbage collection; 1 lost blob, 1 lost sidecar, 1 unreadable sidecar, 1 I/O error, fairness | `EveryCallReturns` |
| `endpoint_serial` | 3 launches one at a time, 3 crashes | `Reachable`, `RefusedOnlyByLive` |
| `forwarding` | 2 clients, 4 kinds of command, 1 frame, 2 timeouts, 1 recording, fairness | `TypeOK`, `OkMeansDone`, `NeverTwice`, `QuietAfterDown`, `QuitCompletes` |
| `recording` | 2 recordings, 2 stops, 1 event in the machine's queue, fairness | `TypeOK`, `Coupled`, `CardsPair`, `KeepsContract`, `StopsAnswered`, `EndedSessionSettles` |
| `pipeline` | 2 frames, 6 workloads of up to 3 requests and 2 refused writes, a stop at any moment, fairness | `TypeOK`, `NewestShows`, `Accounted`, `PinsSettle`, `FencedByStop`, `TurnsKeepOrder`, `TurnsResolve`, `StopReturns` |
| `scroll_capture` | 4 workloads, 2 formats, 3 frames, patience with 1 or 2 still frames, fairness | `TypeOK`, `EndsAsAsked`, `PrefixKept`, `OwnRequest`, `FreshFrames`, `DeadStaysDead`, `CaptureEnds` |
| `card_output` | 5 workloads of up to 4 events, 2 editing sessions of 2 revisions, fairness | `TypeOK`, `VaultFollowsOwners`, `StaleProvesNothing`, `OutputsSettle` |

Why these bounds are enough to meet the interesting cases. Two captures sharing
one digest are the smallest history in which deletion, eviction and
deduplication contend for a file, and two processes the smallest crowd in which
one acts between another's steps. A crash and an error let a leftover marker
meet a call that fails in turn. With two clients the second one's request finds
the queue full, or the reply to the first arrive late; with one frame the second
capture waits at the head of the admissions. Symmetry is used for processes,
digests and markers in runs of safety properties only.

`history_races` (777 thousand states) tells two stories that share no state, by
the action constraint `Told` of `MCHistoryRaces`: a fault budget that is spent from the
start marks the second. Both in one instance without the constraint is out of TLC's
reach, and neither needs the other's calls: the first is about files that two
captures share, the second about one sidecar that two processes rewrite. Nothing is removed
from outside in it, so no reconciliation finds pixels missing and rewrites a sidecar: that one
of those dies before its commit is met by the proof of `IndexKnowsPixels` only, and
`SidecarsReachIndex` promises nothing then.

In `recording` (366 thousand states) a second recording lets a stop, a row or a
handoff of the first arrive late, and a queue of one event is always full: whether
progress or an ending is dropped is then seen at once. In `pipeline` (293 thousand)
each workload is one competition: a capture, a copy and an upload for the
clipboard; a scrolling capture and an ordinary one for the gate; two uploads for
the upload thread; two accepted captures and one more for two frames; three
changes of a pin against the writes of the ones before; and two changes of a pin of
which two writes are refused, one perhaps being the close that takes back a creation. In `scroll_capture` (408 thousand) the
first two workloads let the producer do a lot and the user nothing, the third has
two captures in a row and two requests at any moment, and the fourth is Ctrl+C
three times in a terminal. Three frames are one to begin with, one that moves and
one that fails after it.

In `card_output` (858 thousand) an event is something the user or a timer does; the
answers to it come in every order. Two events of every kind at each kind of start show
what two mechanisms do to one another; a workload of three is for the outputs
against a dialog and the retirements; a restored card has four, since an
overflow that meets an editor needs as many; and edits with saves, or uploads,
have four so that an answer can be late by a whole session.

`BytesOnDisk` is checked without garbage collection, which breaks it when a
process dies between unlinking and committing (`collect_garbage` makes no
marker); nothing but tests calls `collect_garbage` so far.

Fairness. In `history_returns` a call that was made keeps running:
`WF(Progress(p))` for each process. No process is promised the lock: each wait
for it ends with the busy timeout (`GiveUp`). In `forwarding` the listener, the
forwarder and the main thread keep running; nothing is assumed of the user,
and no five-minute limit is assumed to run out, so `QuitCompletes` says that a quit
needs neither. In `recording` the main thread's timer ticks (`WF(Tick)`) and a session that
is told to stop does (`WF(Finaliser)`); the selector may stay open for ever, which
is why `StopsAnswered` speaks of the time after it. In `pipeline` each thread runs,
the network and the clipboard answer if only with an error, and a stop that has
begun goes on; what the user is to pick may never be picked. In `scroll_capture`
the worker and the event loop keep running and a wait for a frame has its deadline;
nobody answers the portal's dialogue unless cancelled, and nobody asks for
anything. In `card_output` the event loop is woken for every outcome and the workers
run on, the provider answering at some time; the user is promised nothing, so an open
dialog may stay open.

Four runs end in a violation, each against a statement in the repository:

- `history_cap_report`: `cap_unreachable` is documented as a cap that only
  pinned captures prevent (`model.rs:817`). An insert writes its blob before it
  takes the lock; if it then dies or gives up, and a reconciliation records the
  file, retention counts a blob it has no candidate for, and reports an
  unreachable cap with nothing pinned.
- `endpoint_overlap`: a second menu-bar item is "exactly what single-instance
  exists to prevent" (`app.rs:1467`). Two launches that overlap after a crash,
  or a launch that overlaps a quit, both end up running.
- `forwarding_delivery`: `answer_and_wait_delivery` exists for a caller "about
  to drop the owning server" (`server.rs:229`). The shutdown path answers parked
  stops with `answer` and drops the server; the listener may see its stop flag
  first and close the connection unanswered.

- `scroll_failures`: the wait for a frame "returns the lifecycle failure reported
  by the stream, including timeout, target disappearance, malformed buffers, and
  format rejection" (`stream.rs:789`). `conclude` drains the events and then asks
  for a frame with a media sequence, which a failed wait never has
  (`stream.rs:1058`): every failure is reported as a frame without one. The session
  survives it (`EndsAsAsked` and `PrefixKept` hold), but says why wrongly.

Observations that have no run of their own:

- `reconcile` rewrites sidecars without a marker (`sqlite_store.rs:678`), though
  markers are said to identify the sidecars that need refreshing (:706). A crash
  before its commit leaves a sidecar and a row that differ, with counts that agree.
- `Forwarder::stop` "stops after any currently executing command has returned"
  (`server.rs:590`), yet its `Stop` job queues behind jobs that were submitted
  before, which run first, their clients long gone.
- A pin made while a wake-up for another is queued: its first move is flushed by
  that wake-up, and the job that creates it, behind, writes the first placement
  back with the same generation. `PinsSettle` excepts it by name: `behind` is where such a pin
  was made, and the only other place at which history may show it.
- A refused write of a pin is not tried again: history keeps the pin where it was, or keeps
  one that was closed, and a note says so. `PinsSettle` asks only that the user is told;
  an outcome still queued at a quit (`failed`) is never read.
- `post_scrolling` reserves its turn at the clipboard, and resets the request in
  force, before it is admitted: refused at the gate or by the budget, it has still
  superseded the copy of whatever holds them.
- `Pipeline::stop` is said to cancel an interactive acquisition first; it cancels
  the uploads only and detaches the acquisition after its timeout (`late`). A
  scrolling session blocked in its wait for a frame outlives that timeout, and
  what it had stitched is lost though a quit asks it to keep.
- A queued empty buffer is replaced in place by a later frame, which may then
  precede the agreement on its format in one batch; the session sees a format error.
- An editor opened from a card or the history during a recording, and exporting,
  is closed by that recording's end, against `app.rs:8195`.
- `record --stop` during a countdown is refused, though the instance says it is
  busy recording. One that waits for a selector is dropped unanswered by a quit.
- A quit leaves the handoff of a settled export for the recording that a quit
  finalises, which is why `CardsPair` ends with it.
- A card's output without an editing session, or of a session committed before the
  latest, is trusted however late it ends (`output_version_is_stale` answers for
  the sessions it knows, app.rs:3883): a plain upload that ends after an edit was
  committed closes the card as uploaded. `StaleProvesNothing` leaves these out.
- A stale upload does not resume the overflow that waited for it, as a stale save
  does (app.rs:2628 and 3918): the card is off the display and stays in the vault.
  `VaultFollowsOwners` excepts this step, the second part of `Strands`.
- A card dismissed while its output runs is said to stay visible (app.rs:3259), but
  the overlay has forgotten it already (`gui/recent_captures_overlay.rs:377`); if
  the output is refused, its pixels stay in the vault until the application ends. The
  same when the upload is refused, when the dialog of a save is cancelled, and when what
  was exported is of an edit out of date. `VaultFollowsOwners` excepts these steps, the
  first part of `Strands` (`Abandoned`).
- `PendingEditorClose.editor_only` is what held when Done was pressed (app.rs:6376). A card
  dismissed before the commit is answered makes the editor the only owner, and yet
  the close does not wait for history: if that fails, the edit is lost, which
  the comment above it (app.rs:1009) says it is there to prevent.
- An in-editor save that ends before Cancel marks the card as exported.
- An auto-close that was put off is forgotten when an output is outstanding at
  finalization and then fails.
- `run_owned_recording` of the command line never asks `requires_finalisation`
  (`commands.rs:963`), as the application does: a session that only sets its state
  keeps it waiting.

## What is proved

For all values of the constants that satisfy the modules' assumptions (finite
sets of captures and digests; any number of processes, markers, crashes, faults
and losses):

- `HistoryStoreProofs`: `TypeCorrect`, `NoPixelsLost` and `IndexComplete`, that is
  `Spec => []TypeOK`, `[]PixelsKept` and `[]IndexKnowsPixels`; and on the invariant
  behind these: `UpdatesMerge` (`Spec => EditsMerge`), and, if every sidecar
  can be read (`Unreadable = {}`), `PinsSpare` (`Spec => PinnedKept`),
  `SidecarsIndexed` (`Spec => [](Steady => SidecarsReachIndex)`) and, without
  garbage collection, `BytesCounted` (`Spec => [](Steady => BytesOnDisk)`).
  `Steady` says that nothing was removed from outside so far.
- `InstanceEndpointProofs`: `RunningIsReachable`, `Spec => []Reachable`, and
  `RefusalIsHonest`, `Spec => RefusedOnlyByLive`, both when launches and quits do not
  overlap. With overlapping ones both fail: `endpoint_overlap` finds two running instances,
  one of which is not at the path, and a launch about to bind is refused by the file of
  another that has just bound and crashed.
- `ForwardingProofs`: `TypeCorrect`, `SuccessIsDone`, `RunsOnce` and
  `QuietOnceDown`, for any number of clients, timeouts and recordings.
- `PipelineProofs`: of `ClipboardOrder`, `NewestIsShown` and `TurnsImplementRegister`,
  the refinement of the clipboard's register; of the whole pipeline, that every step
  is one of the clipboard's turns or leaves them alone, so that both hold of it
  (`PipelineShowsNewest`, `PipelineKeepsOrder`); and its own `PipelineTypeOK`, `PipelineAccounts`,
  `PipelinePinsSettle` and `PipelineFenced`, for every workload and budget, and any number of
  refused writes among them.
- `RecordingProofs`: `TypeCorrect`, `StaysCoupled`, `CardsArePaired` and
  `ImplementsContract`, the refinement of `RecordingContract`, for any number of
  recordings and stops and any length of the machine's queue.
- `ScrollCaptureProofs`: `CapturesEndAsAsked`, `PrefixIsKept` and
  `RequestsAreOwn`, `TypesHold` (with the limit on frames), and of the stream below
  `FramesAreFresh` and `DeadStreamsStayDead`, for every producer, queue of callbacks,
  number of captures and requests, and all limits.
- `CardOutputProofs`: `CardTyped` and `OvertakenProvesNothing`, that is `Spec => []TypeOK`
  and `Spec => StaleProvesNothing`, and on its invariant `CardPixelsProofs`:
  `PixelsFollowOwners`, that is `Spec => VaultFollowsOwners` (two invariants and an action
  property, with the exceptions of `Strands`), for any number of editing sessions and
  revisions and everything the user may do.

The argument for the store. `PixelsKept` alone is not inductive: whether an
`Unlink` is safe depends on what the transaction's rows say about the sidecars.
`IInv` adds what the code's comments leave implicit:

- `Known`: a capture that shows its pixels is covered by its committed row, or by
  a marker that is not *doubtful*. Doubtful are markers being removed, and that of
  a call (retention excepted) which has not yet written its sidecar, since
  that call may take it back.
- `TxFollows`: a transaction never loses a user of pixels the index had.
- `TxFull`: a transaction that began with a repair (delete, evict, garbage
  collection, or any that will remove markers) knows *every* user of pixels.
  This is what makes `Referenced` a sound reason to unlink, and a commit a
  sound reason to remove markers.
- `JobOK`: what a call's locals are worth at each step, for instance that an
  insert about to write its sidecar has its blob on disk: no other process can
  unlink while it holds the lock, which is why the check is repeated under it.

`Condemned` excepts the captures a reconciliation has found without pixels and
not yet rewritten. The proof has a lemma per action, above lemmas for what actions share (taking
the lock, dropping the transaction, a step of the holder). The invariant was
evaluated by TLC on the instances above before it was proved.

What the index owes the sidecars rests on three more invariants, each relative to
`IInv` and to those before it:

- `Arrivals` and `Edits`, for `EditsMerge`. The record a call is about to write was
  read under the lock, so it is an edit of the one on disk (`Replaces`), unless the
  call is an insert: then the id is its own and nothing is there yet (`Arriving`).
  A reconciliation's evicted records are edits too, as long as it holds the lock.
- `PinSafe`, for `PinnedKept`. A record about to be written over a pinned capture
  shows its pixels, and reconciliation finds none missing: both because nothing
  but a loss from outside makes pixels vanish (`PixelsKept`). With an unreadable sidecar
  this fails: pixels a scan missed may be collected, pinned or not.
- `IndexSafe`, for `SidecarsReachIndex`. Before the bootstrap commits only opens
  run and the rows differ in their screen pins alone (`Unbooted`); afterwards a row
  that lags is named by a marker that is not doubtful (`IndexKnown`); and a
  transaction loses no row that was current, has all of them if it began with a
  repair (`Full`), and at its commit those its own markers name (`TxCurrent`).
- `SizedSafe`, for `BytesOnDisk`. A blob that is counted and not on disk has a
  marker, not doubtful, that will take it off: it names a capture that is gone or
  was evicted with that digest (`Gone`), and stays, since what has been evicted stays so and an id is
  never used twice. A full transaction counts nothing in vain (`RepairedSized`: a digest
  that is still referenced is on disk, by `PixelsKept`), and an unlink happens in
  such a transaction only, under a marker of its own (`Brings`).

The last two hold while nothing is removed from outside, and the last without garbage
collection, which unlinks without a marker.

For the endpoint, `IInv` says that at most one process is between states, that
whoever is listening or about to owns the path, and that a launch about to
remove a file has nobody running beside it.

For forwarding, `OkMeansDone` says nothing of answers still under way. `IInv` adds
that an answer is worth its word from the moment it is written (`Sent`,
`Answers`), that a client runs a command by itself only if its request never
reached the instance (`AloneLocal`), and that after a shutdown the queue, the
forwarder and the parked stops are empty and stay so (`Gone`).

For the clipboard, the running ticket is the only one being written, whatever was
written before it is older, and the newest ticket is one nobody has run. Each action of
the pipeline is shown to be a step of the turns, or to leave them unchanged.

The pipeline's own properties are conjuncts of one invariant, since each needs
the others: that a frame is counted once is no more than a sum until one knows
which thread may still give it up, and that a closed pin stays closed depends on
what a linking thread does after the window is gone. `IInv` has the
shapes of jobs and threads at each step (`Shaped`), who holds a turn at the clipboard and
that it will be ended (`Tracked`), what a stop has fenced off (`Fenced`), what
unpinning still owes history (`Unpinning`), that what is called remembered was linked
(`Linked`), that whole frames are the sum over the threads, each card on one of
them (`Counted`, `Once`), the gate of acquisitions (`Gated`), and for the pins how
far history lags behind the window and that the channel holds their writes in order
(`Lagging`, `InTurn`). In `Lagging`, `Keeping` speaks of a pin nothing is asked of any more: the user
has heard, or is about to (its failure is in `failed`), or history shows the pin where it belongs. There is a lemma per action and part; TLC evaluated the invariant
on 292,766 states first. `PipelineAssumption` asks that `None` is neither a number nor a
placement with its generation, and that there are finitely many captures, for a flush
lists those it failed to write.

For recordings, `Coupled` lacks two things: what waits at each step of a tick, and
what the stops wait for. `IInv` has both. `AtOK` says that an ending is queued
at "settle" only, and then is the one of the current recording (`Pending`), since every
other handler drains what it ends. `Fit` says that an outcome is there only while
nothing is busy, so that no stop is answered with the outcome before; that those
who wait do so for the current recording; and that a selection they wait for is
cancelled, so that it never goes on to a start. Below are lemmas for each
method of the machine (what a full queue of progress gives up is progress), for
draining, and for an ending (`EndingIsOver`), which the finaliser, the clock, a
start that fails and a quit share. Each handler is shown to keep `IInv` and to be a step
of the contract (`ContractStep`) at once.

For scrolling captures, the difficulty is that a request, the token and the
session meet in any order. `IInv` says what each looks like at each step of the
session (`Shape`), that the request in force is the one accepted until it is sealed
(`InForce`), that a cancelled token was asked for or belongs to a capture that is
over (`TokenAsked`, `CancelsRunning`), that a call that ends as cancelled ran
under a cancelled token (`CallCancelled`), and that an error that names a request is
one (`ErrorAsked`). `AdvancedLate` keeps what was stitched apart from what was not.

For the stream below, what a call may conclude depends on the queue that callbacks
left, of any length. `StreamInv` says what `shared` is worth (`Sound`): the timeline is in
order and one event of a buffer is queued at most (`Loose`), the frame that is kept is the
page the producer sent last (`FrameSound`), and no event is of an older frame
(`QueueSound`); and that the end of a stream is known to the next call, or still queued for
the one that waits. Coalescing keeps all that, and `Lifecycle::observe` takes a queue
to a lifecycle that claims no other frame (`Truthful`, `Sequenced`). Both go through the
queue by recursion (`Selected`, `ObserveAll`), and tlapm cannot use the library's induction
theorems, which take an operator. So the module has induction of its own:
subsets of a finite set run out (`LeastNat`), hence a set of numbers that has 0 and
is closed under successors has them all (`SetInduction`), and a recursive
function on an interval is what its equation says (`IteratesWithin`). The session's frames are bounded
with the same lemmas (`Bounded`). `StreamAssumption` asks that `None` is neither a format
nor an error.

For cards, the difficulty is that one main thread, two workers and a vault know of
each other only by messages in three queues. `IInv` of `CardOutputProofs` has two
sides. Before anything was taken (`Beginning`) there is the one announcement, perhaps
with the finalization behind it. From then on (`Going`):

- `Steady`: the main thread by itself. An action is registered once, for a current
  upload or an open dialog it still is (`Counted`); a card that is gone leaves nothing
  put off or outstanding but editors' saves (`Withdrawn`); what an editor adopted no card
  waits for (`Adopted`); a frozen editor is open (`Freezing`).
- `Waiting`: whoever waits is waited upon. A card that is gone and has an output
  outstanding has an overflow in flight or put off, for instance, and an
  editor that is not the owner leaves the pixels to somebody who will release them.
- `Agreed`: what may be made of any message in any queue. Its action is numbered, and not
  one that is about to be registered again; the main thread knows how the session its image
  is from ended, or the image is what that session came to (`Judges`); and of an open, a
  commit and a question to history there is one at most, in either queue (`Opening`,
  `Committing`, `Checking`).
- `Keeps`, `Shows`, `Shelved`, `Claimed`: the vault holds what editors need; what a
  shown card needs, or an outcome that tells of the loss is queued; pixels of a session
  that ended with them; and pixels that are owned or about to be released.

These say who owns the pixels by the main thread's own book (`visible_cards`), which is no
promise that anybody acts. That somebody does is the action part of `VaultFollowsOwners`,
shown step by step in `CardPixelsProofs`: a card the main thread has is `Minded` if the user
sees it or something is to retire it (`Retired`: an output or an upload that closes it, a save
put off, a question to history; or an overflow put off behind what will end). Every handler is shown to keep that (`...Retires`,
`...Minds`), or to dismiss the card, or to be a step of `Strands`; pixels that are kept while
the card is minded, or gone, are owed to somebody (`Minding`).

`StaleProvesNothing` follows from `Judges`: `prune_settled_generation_fates` forgets how sessions
ended as soon as nothing is outstanding, and this is enough only because a late answer to an action
that is not outstanding is ignored altogether. Handlers call one another, and
in between nothing holds but `Steady` and `Agreed`, the latter in a weaker form while an editor
closes (its stage "closing"): so there is a lemma for every handler that another one ends
with (`Dismiss`, `AutoClose`, `Overflow`, `Settles`, `Resolve`), then one for each outcome,
event, editor step and job. TLC evaluated the invariant on the instance above
(858 thousand states) first. `CardAssumption` asks that `None` is no number, no
version, no close and none of the words it stands beside.

Only model-checked: every liveness property, since the provers handle neither fairness nor
`ENABLED`.

## Plan

1. *Store:* `IndexQuarantine`, the renaming of a corrupt index while another
   process has it open (`open_healthy`, `rebuild_from_records`, `recover`,
   `quarantine_index`).
2. *Forwarding:* its `recording` as a projection of `Recording`.
3. *Sharing and settings:* an upload's answer lost between provider and sidecar;
   the settings lock file.

Runs are few and broad on purpose: one per component and kind of environment, and
a run added for each new module, the abstract specification among its properties.

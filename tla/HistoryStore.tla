---------------------------- MODULE HistoryStore ----------------------------
(***************************************************************************)
(* The capture history of crates/scrozz-store: JSON sidecars (records),    *)
(* content-addressed pixels (blobs), a SQLite index that caches both (db), *)
(* and the pending-index markers that let an interrupted update be         *)
(* repaired.  Several processes (the GUI's worker, its history reader, the *)
(* CLI) call the store at once; each may crash at any step, any I/O call   *)
(* may fail, and files may vanish underneath.                              *)
(*                                                                         *)
(* Every write runs under SQLite's immediate write lock, but the blob of   *)
(* an insert, the reads of a document and the removal of markers do not.   *)
(* A step is one externally visible effect: a file written, renamed or     *)
(* unlinked, the lock taken, a commit.  What a transaction has changed so  *)
(* far is in tx, which equals db whenever nobody holds the lock.           *)
(***************************************************************************)
EXTENDS Naturals, FiniteSets

CONSTANTS
  Procs,          \* connections: one SqliteStore value each
  Ids,            \* capture ids, chronological, so numbers ordered by age
  Hashes,         \* content digests; every blob is one unit of bytes long
  Docs,           \* values of the document, OCR and sharing fields
  Slots,          \* names of marker files (bound on markers outstanding)
  None, Torn, NoImage,
  InitialRecords, \* the sidecars an earlier run of the program left behind
  Unreadable,     \* captures whose sidecar a scan may fail to read
  Calls,          \* the calls the clients of this instance make
  Cap,            \* RetentionPolicy::max_image_bytes
  Cutoffs,        \* the age cutoffs a policy may carry; 0 keeps for ever
  MaxCrashes, MaxFaults,             \* budgets of the environment
  MaxBlobLosses, MaxRecordLosses

Record == [hash : Hashes \union {NoImage}, evicted : BOOLEAN,
           pinned : BOOLEAN, screen : BOOLEAN, doc : Docs]

\* image_state() is Present
Live(r) == r # None /\ r.hash # NoImage /\ ~r.evicted

ASSUME StoreAssumption ==
  /\ Ids \subseteq Nat
  /\ IsFiniteSet(Ids) /\ IsFiniteSet(Hashes)
  /\ None \notin Ids /\ Torn \notin Ids /\ None # Torn
  /\ None \notin Procs /\ None \notin Record
  /\ NoImage \notin Hashes
  /\ InitialRecords \in [Ids -> Record \union {None}]
  /\ Cap \in Nat

VARIABLES
  records,   \* documents/<id>.json
  blobs,     \* images/ab/cd/<hash>
  db,        \* committed index: capture rows, blob rows, the bootstrap key
  tx,        \* what the open write transaction sees
  markers,   \* pending-index/<slot>.pending and the id written in it
  lock,      \* holder of the SQLite write lock
  pc, job,   \* where each process is in its call, and the call's locals
  used,      \* ids handed out so far: capture_id_at never repeats one
  lost,      \* blobs that vanished and were not written again since
  spent      \* what the environment has done, against its budgets

vars == <<records, blobs, db, tx, markers, lock, pc, job, used, lost, spent>>

Waiting == {"sync", "reconcile", "insert", "update", "delete", "evict",
            "gc", "repair"}
Holding == {"rewrite", "mark", "write", "unlink", "next", "collect", "commit"}
Pcs == Waiting \union Holding \union {"closed", "idle", "count", "readBlob", "clear"}

Change == [field : {"pinned", "screen"}, on : BOOLEAN]
            \union [field : {"doc"}, doc : Docs]

Index == [rows : [Ids -> Record \union {None}], sized : SUBSET Hashes, booted : BOOLEAN]

Job == [op : {"none", "open", "insert", "update", "delete", "evict", "gc", "repair"},
        id : Ids \union {None}, rec : Record \union {None},
        hash : Hashes \union {NoImage}, change : Change \union {None},
        mine : SUBSET Slots, pending : SUBSET Slots,
        after : {"idle", "delete", "evict", "gc"},
        forced : SUBSET Ids, over : SUBSET Ids, seen : Nat,
        missing : SUBSET Ids, sweep : SUBSET Hashes]

NoJob == [op |-> "none", id |-> None, rec |-> None, hash |-> NoImage,
          change |-> None, mine |-> {}, pending |-> {}, after |-> "idle",
          forced |-> {}, over |-> {}, seen |-> 0, missing |-> {}, sweep |-> {}]

\* A store nobody has opened; fewer faults than MaxFaults may be ahead of it.
Init ==
  /\ records = InitialRecords
  /\ blobs = {h \in Hashes : \E id \in Ids :
                 Live(InitialRecords[id]) /\ InitialRecords[id].hash = h}
  /\ db = [rows   |-> [id \in Ids |-> IF InitialRecords[id] = None THEN None
                      ELSE [InitialRecords[id] EXCEPT !.screen = FALSE]],
           sized  |-> blobs,
           booted |-> FALSE]
  /\ tx = db
  /\ markers = [s \in Slots |-> None]
  /\ lock = None
  /\ pc = [p \in Procs |-> "closed"]
  /\ job = [p \in Procs |-> NoJob]
  /\ used = {id \in Ids : InitialRecords[id] # None}
  /\ lost = {}
  /\ spent \in [crash : {0}, fault : 0..MaxFaults, blob : {0}, record : {0}]

-----------------------------------------------------------------------------
(* What the code computes from the files and the rows.                     *)

Oldest(id, S) == id \in S /\ \A other \in S : id <= other

Evicted(r) == [r EXCEPT !.evicted = TRUE]

\* blob_still_referenced
Referenced(rows, h) == \E id \in Ids : Live(rows[id]) /\ rows[id].hash = h

\* sum_blob_bytes; retention's running total stays equal to it
Total(index) == Cardinality(index.sized)

\* eviction_candidates, before the age predicate
Candidates(rows) == {id \in Ids : Live(rows[id]) /\ ~rows[id].pinned}

\* pending_index_updates, and the captures those markers name
Listed == {s \in Slots : markers[s] # None}
Named == {markers[s] : s \in Listed}

\* Mutant: the markers are looked at and nothing is refreshed.
NothingRepaired == db

\* repair_pending_index_updates: FALSE, or TRUE with the rows refreshed.  The
\* order the markers are listed in matters only to the blob row of pixels that
\* are missing from disk; the order taken here keeps it.
Repairable == Torn \notin Named /\ \A id \in Named : records[id] # None

Repaired ==
  LET rows == [id \in Ids |-> IF id \in Named THEN records[id] ELSE db.rows[id]]
      gone == {h \in Hashes : /\ \E id \in Named \intersect Ids :
                                    records[id].evicted /\ records[id].hash = h
                              /\ ~Referenced(rows, h)}
      kept == {h \in blobs : \E id \in Named \intersect Ids :
                                Live(records[id]) /\ records[id].hash = h}
  IN  [rows |-> rows, sized |-> (db.sized \ gone) \union kept, booted |-> db.booted]

\* the closures set_pinned, set_screen_pin, save_edits and set_ocr_text pass
Mutated(r, c) ==
  CASE c.field = "pinned" -> [r EXCEPT !.pinned = c.on, !.screen = @ /\ c.on]
    [] c.field = "screen" -> [r EXCEPT !.pinned = c.on, !.screen = c.on]
    [] c.field = "doc"    -> [r EXCEPT !.doc = c.doc]

\* sidecars a scan may come back without
Unread == SUBSET {id \in Unreadable : records[id] # None}

\* synchronize_pin_records: only the pin columns are compared
PinsFrom(rows, unread) ==
  [id \in Ids |-> IF records[id] = None \/ id \in unread THEN rows[id]
                  ELSE [rows[id] EXCEPT !.pinned = records[id].pinned,
                                        !.screen = records[id].screen]]

-----------------------------------------------------------------------------
(* Steps every call shares.                                                *)

KeepsFiles == UNCHANGED <<records, blobs, markers, used, lost, spent>>

\* BEGIN IMMEDIATE: one writer among all processes.
\* Mutant: a deferred transaction does not wait for the other writer.
DeferredLock == TRUE
LockFree == lock = None

Acquire(p) == LockFree /\ lock' = p

\* tx.rollback(), or the transaction dropped by an early return.
\* Mutant: the connection is handed on with its changes still in it.
RollbackKeepsChanges == lock' = None /\ tx' = tx
Rollback == lock' = None /\ tx' = db

\* p goes on at label with these locals
Goto(p, label, locals) ==
  /\ pc' = [pc EXCEPT ![p] = label]
  /\ job' = [job EXCEPT ![p] = locals]

\* an Ok or Err that leaves nothing behind; a failed open leaves no store
Return(p) == Goto(p, "idle", NoJob)

Fails(p) == Goto(p, IF job[p].op = "open" THEN "closed" ELSE "idle", NoJob)

Fault ==
  /\ spent.fault < MaxFaults
  /\ spent' = [spent EXCEPT !.fault = @ + 1]

\* recover_partial_index_update, recover_retention_failure
Recover(p) == Goto(p, "count", [NoJob EXCEPT !.op = job[p].op])

\* An error after the lock was taken: with a sidecar already written the code
\* reconciles, otherwise the transaction is dropped and the call returns Err.
FailsHolding(p) ==
  /\ Rollback
  /\ IF job[p].mine # {} THEN Recover(p) ELSE Fails(p)

\* markers the lock holder cannot repair one by one: full reconciliation,
\* then the call starts over
ReconcileThen(p, after) ==
  /\ Goto(p, "reconcile", [job[p] EXCEPT !.after = after])
  /\ UNCHANGED <<lock, tx>>

\* SQLITE_BUSY after busy_timeout, or an error before anything was written
GiveUp(p) ==
  /\ pc[p] \in Waiting
  /\ \/ lock # None /\ UNCHANGED spent
     \/ Fault
  /\ Fails(p)
  /\ UNCHANGED <<records, blobs, db, tx, markers, lock, used, lost>>

\* Mutant: the sidecar is written without a marker to say so.
MarkNothing(p) ==
  /\ pc[p] = "mark"
  /\ Goto(p, "write", job[p])
  /\ UNCHANGED <<db, tx, lock>> /\ KeepsFiles

\* begin_index_update: the file is created, then the id is written into it.
\* A name another process still holds in a list is not reused.
Mark(p) ==
  /\ pc[p] = "mark"
  /\ \E s \in Slots :
       /\ markers[s] = None /\ \A q \in Procs : s \notin job[q].pending
       /\ markers' = [markers EXCEPT ![s] = job[p].id]
       /\ Goto(p, "write", [job[p] EXCEPT !.mine = @ \union {s}])
  /\ UNCHANGED <<records, blobs, db, tx, lock, used, lost, spent>>

\* the marker could not be created, or was created and not filled in
MarkFails(p) ==
  /\ pc[p] = "mark" /\ Fault
  /\ \/ UNCHANGED markers
     \/ \E s \in Slots : /\ markers[s] = None
                         /\ \A q \in Procs : s \notin job[q].pending
                         /\ markers' = [markers EXCEPT ![s] = Torn]
  /\ FailsHolding(p)
  /\ UNCHANGED <<records, blobs, db, used, lost>>

\* atomic_write renames the new sidecar into place; delete unlinks it
Write(p) ==
  LET j == job[p]
      upserted == [tx EXCEPT !.rows[j.id] = j.rec]
  IN
  /\ pc[p] = "write"
  /\ records' = [records EXCEPT ![j.id] = j.rec]
  /\ CASE j.op = "delete" \/ (j.op = "evict" /\ j.rec.evicted) ->
            tx' = tx /\ Goto(p, "unlink", j)
       [] j.op = "evict" /\ ~j.rec.evicted ->
            tx' = upserted /\ Goto(p, "next", j)
       [] j.op = "insert" ->
            /\ tx' = [upserted EXCEPT !.sized = @ \union ({j.hash} \ {NoImage})]
            /\ Goto(p, "commit", j)
       [] j.op = "repair" ->
            /\ tx' = [upserted EXCEPT !.sized = @ \ {j.hash}]
            /\ Goto(p, "commit", j)
       [] OTHER -> tx' = upserted /\ Goto(p, "commit", j)
  /\ UNCHANGED <<blobs, db, markers, lock, used, lost, spent>>

\* The sidecar is as it was.  Retention recovers; every other call drops the
\* transaction, removes its own marker (finish_unused_index_marker) and fails.
WriteFails(p) ==
  /\ pc[p] = "write" /\ Fault
  /\ Rollback
  /\ IF job[p].op = "evict" THEN Recover(p)
     ELSE Goto(p, "clear", [job[p] EXCEPT !.pending = job[p].mine, !.mine = {}])
  /\ UNCHANGED <<records, blobs, db, markers, used, lost>>

\* Mutant: only the call's own markers are removed, not those it repaired.
CommitOwnMarkers(p) ==
  /\ pc[p] = "commit"
  /\ db' = tx /\ tx' = tx /\ lock' = None
  /\ Goto(p, "clear", [job[p] EXCEPT !.pending = job[p].mine, !.mine = {}])
  /\ KeepsFiles

Commit(p) ==
  /\ pc[p] = "commit"
  /\ db' = tx /\ tx' = tx /\ lock' = None
  /\ Goto(p, "clear", [job[p] EXCEPT !.pending = @ \union job[p].mine, !.mine = {}])
  /\ KeepsFiles

CommitFails(p) ==
  /\ pc[p] = "commit" /\ Fault
  /\ FailsHolding(p)
  /\ UNCHANGED <<records, blobs, db, markers, used, lost>>

\* clear_index_markers, one file at a time and after the lock was released;
\* a marker that cannot be removed is only logged
Clear(p) ==
  /\ pc[p] = "clear"
  /\ \E s \in job[p].pending :
       /\ Goto(p, "clear", [job[p] EXCEPT !.pending = @ \ {s}])
       /\ \/ markers' = [markers EXCEPT ![s] = None] /\ UNCHANGED spent
          \/ Fault /\ UNCHANGED markers
  /\ UNCHANGED <<records, blobs, db, tx, lock, used, lost>>

Cleared(p) ==
  /\ pc[p] = "clear" /\ job[p].pending = {}
  /\ IF job[p].after = "idle" THEN Return(p)
     ELSE Goto(p, job[p].after, [job[p] EXCEPT !.after = "idle"])
  /\ UNCHANGED <<db, tx, lock>> /\ KeepsFiles

-----------------------------------------------------------------------------
(* open, synchronize_index_on_open, reconcile                              *)

Open(p) ==
  /\ pc[p] = "closed"
  /\ Goto(p, "count", [NoJob EXCEPT !.op = "open"])
  /\ UNCHANGED <<db, tx, lock>> /\ KeepsFiles

Close(p) ==
  /\ pc[p] = "idle"
  /\ Goto(p, "closed", NoJob)
  /\ UNCHANGED <<db, tx, lock>> /\ KeepsFiles

\* count_record_files, before the lock is taken
Count(p) ==
  /\ pc[p] = "count"
  /\ Goto(p, "sync",
          [job[p] EXCEPT !.seen = Cardinality({id \in Ids : records[id] # None})])
  /\ UNCHANGED <<db, tx, lock>> /\ KeepsFiles

Sync(p) ==
  LET indexed == {id \in Ids : db.rows[id] # None}
      present == {id \in Ids : records[id] # None}
      agree   == job[p].seen = Cardinality(indexed)
      seeds(unread) == /\ Cardinality(present) = Cardinality(indexed)
                       /\ present \ unread \subseteq indexed
      commits(new) ==
        /\ Acquire(p)
        /\ tx' = [new EXCEPT !.booted = TRUE]
        /\ Goto(p, "commit", [job[p] EXCEPT !.pending = Listed])
  IN
  /\ pc[p] = "sync" /\ LockFree
  /\ \/ ~agree /\ ReconcileThen(p, "idle")
     \/ agree /\ Listed = {} /\ db.booted /\ Return(p) /\ UNCHANGED <<lock, tx>>
     \/ agree /\ Listed # {} /\ db.booted /\ Repairable /\ commits(Repaired)
     \/ agree /\ Listed # {} /\ ~(db.booted /\ Repairable) /\ ReconcileThen(p, "idle")
     \/ /\ agree /\ Listed = {} /\ ~db.booted
        /\ \E unread \in Unread :
             \/ seeds(unread) /\ commits([db EXCEPT !.rows = PinsFrom(db.rows, unread)])
             \/ ~seeds(unread) /\ ReconcileThen(p, "idle")
  /\ UNCHANGED db /\ KeepsFiles

\* The transaction replaces every row; sidecars whose blob is gone are to be
\* rewritten as evicted, and no marker is made for those writes.
Reconcile(p) ==
  /\ pc[p] = "reconcile" /\ Acquire(p)
  /\ \E unread \in Unread :
       LET missing == {id \in Ids \ unread : /\ Live(records[id])
                                             /\ records[id].hash \notin blobs}
       IN /\ tx' = [rows   |-> [id \in Ids |->
                                 IF id \in unread THEN None
                                 ELSE IF id \in missing THEN Evicted(records[id])
                                 ELSE records[id]],
                    sized  |-> blobs,
                    booted |-> TRUE]
          /\ Goto(p, IF missing = {} THEN "commit" ELSE "rewrite",
                  [job[p] EXCEPT !.pending = Listed, !.missing = missing])
  /\ UNCHANGED db /\ KeepsFiles

\* the sidecar as it was scanned, even if the file has gone since
Rewrite(p) ==
  /\ pc[p] = "rewrite"
  /\ \E id \in Ids :
       /\ Oldest(id, job[p].missing)
       /\ records' = [records EXCEPT ![id] = tx.rows[id]]
       /\ Goto(p, IF job[p].missing = {id} THEN "commit" ELSE "rewrite",
               [job[p] EXCEPT !.missing = @ \ {id}])
  /\ UNCHANGED <<blobs, db, tx, markers, lock, used, lost, spent>>

RewriteFails(p) ==
  /\ pc[p] = "rewrite" /\ Fault
  /\ FailsHolding(p)
  /\ UNCHANGED <<records, blobs, db, markers, used, lost>>

-----------------------------------------------------------------------------
(* insert, insert_recording                                                *)

\* from_parts and the first write_blob, which runs without the lock
InsertCall(p, id, h, pinned, doc) ==
  /\ "insert" \in Calls /\ pc[p] = "idle" /\ id \notin used
  /\ used' = used \union {id}
  /\ blobs' = blobs \union ({h} \ {NoImage})
  /\ lost' = lost \ {h}
  /\ Goto(p, "insert", [NoJob EXCEPT
       !.op = "insert", !.id = id, !.hash = h,
       !.rec = [hash |-> h, evicted |-> FALSE, pinned |-> pinned,
                screen |-> FALSE, doc |-> doc]])
  /\ UNCHANGED <<records, db, tx, markers, lock, spent>>

\* Mutant: the blob written before the lock is taken is trusted to be there.
InsertTrustsBlob(p) ==
  /\ pc[p] = "insert" /\ Acquire(p)
  /\ Goto(p, "mark", job[p])
  /\ UNCHANGED <<db, tx>> /\ KeepsFiles

\* under the lock the blob is looked for again, and written again if missing
Insert(p) ==
  /\ pc[p] = "insert" /\ Acquire(p)
  /\ blobs' = blobs \union ({job[p].hash} \ {NoImage})
  /\ lost' = lost \ {job[p].hash}
  /\ Goto(p, "mark", job[p])
  /\ UNCHANGED <<records, db, tx, markers, used, spent>>

-----------------------------------------------------------------------------
(* update_record: set_pinned, set_screen_pin, save_edits, set_ocr_text     *)

UpdateCall(p, id, c) ==
  /\ "update" \in Calls /\ pc[p] = "idle"
  /\ Goto(p, "update", [NoJob EXCEPT !.op = "update", !.id = id, !.change = c])
  /\ UNCHANGED <<db, tx, lock>> /\ KeepsFiles

\* the sidecar is read under the lock
Update(p) ==
  LET r == records[job[p].id] IN
  /\ pc[p] = "update" /\ LockFree
  /\ \/ r = None /\ Fails(p) /\ UNCHANGED lock
     \/ /\ r # None /\ Acquire(p)
        /\ Goto(p, "mark", [job[p] EXCEPT !.rec = Mutated(r, job[p].change)])
  /\ UNCHANGED <<db, tx>> /\ KeepsFiles

-----------------------------------------------------------------------------
(* delete                                                                  *)

DeleteCall(p, id) ==
  /\ "delete" \in Calls /\ pc[p] = "idle"
  /\ Goto(p, "delete", [NoJob EXCEPT !.op = "delete", !.id = id])
  /\ UNCHANGED <<db, tx, lock>> /\ KeepsFiles

Delete(p) ==
  LET r == records[job[p].id] IN
  /\ pc[p] = "delete" /\ LockFree
  /\ \/ ~Repairable /\ ReconcileThen(p, "delete")
     \/ /\ Repairable /\ r = None /\ Acquire(p)
        /\ tx' = [Repaired EXCEPT !.rows[job[p].id] = None]
        /\ Goto(p, "commit", [job[p] EXCEPT !.pending = Listed])
     \/ /\ Repairable /\ r # None /\ Acquire(p)
        /\ tx' = Repaired
        /\ Goto(p, "mark", [job[p] EXCEPT !.pending = Listed, !.hash = r.hash])
  /\ UNCHANGED db /\ KeepsFiles

\* Mutant: the file goes, its row in the blobs table stays.
UnlinkKeepsRow(p) ==
  LET j    == job[p]
      rows == [tx.rows EXCEPT ![j.id] = j.rec]
      last == j.hash # NoImage /\ ~Referenced(rows, j.hash)
  IN
  /\ pc[p] = "unlink"
  /\ tx' = [tx EXCEPT !.rows = rows]
  /\ blobs' = IF last THEN blobs \ {j.hash} ELSE blobs
  /\ Goto(p, IF j.op = "delete" THEN "commit" ELSE "next", j)
  /\ UNCHANGED <<records, db, markers, lock, used, lost, spent>>

\* The last reference gone, the blob's row and its file go too, inside the
\* transaction.  Delete and retention share this step.
Unlink(p) ==
  LET j    == job[p]
      rows == [tx.rows EXCEPT ![j.id] = j.rec]
      last == j.hash # NoImage /\ ~Referenced(rows, j.hash)
      gone == IF last THEN {j.hash} ELSE {}
  IN
  /\ pc[p] = "unlink"
  /\ tx' = [tx EXCEPT !.rows = rows, !.sized = @ \ gone]
  /\ blobs' = blobs \ gone
  /\ Goto(p, IF j.op = "delete" THEN "commit" ELSE "next", j)
  /\ UNCHANGED <<records, db, markers, lock, used, lost, spent>>

UnlinkFails(p) ==
  /\ pc[p] = "unlink" /\ Fault
  /\ FailsHolding(p)
  /\ UNCHANGED <<records, blobs, db, markers, used, lost>>

-----------------------------------------------------------------------------
(* evict                                                                   *)

EvictCall(p) ==
  /\ "evict" \in Calls /\ pc[p] = "idle"
  /\ Goto(p, "evict", [NoJob EXCEPT !.op = "evict"])
  /\ UNCHANGED <<db, tx, lock>> /\ KeepsFiles

\* Every capture older than the cutoff, then, above the cap, every other one.
Evict(p) ==
  /\ pc[p] = "evict" /\ LockFree
  /\ \/ ~Repairable /\ ReconcileThen(p, "evict")
     \/ /\ Repairable
        /\ \E cutoff \in Cutoffs :
             LET new    == [Repaired EXCEPT !.booted = @ \/ Listed # {}]
                 forced == {id \in Candidates(new.rows) : id < cutoff}
                 over   == IF Total(new) > Cap THEN Candidates(new.rows) ELSE {}
             IN \/ /\ forced = {} /\ over = {} /\ Listed = {}
                   /\ Return(p) /\ UNCHANGED <<lock, tx>>
                \/ /\ forced # {} \/ over # {} \/ Listed # {}
                   /\ Acquire(p) /\ tx' = new
                   /\ Goto(p, "next", [job[p] EXCEPT !.pending = Listed,
                                         !.forced = forced, !.over = over])
  /\ UNCHANGED db /\ KeepsFiles

Chosen(j) == IF j.forced # {} THEN j.forced
             ELSE IF Total(tx) > Cap THEN j.over ELSE {}

\* the candidate is off the list it was taken from
Popped(j, id) == [j EXCEPT !.forced = @ \ {id},
                           !.over = IF j.forced = {} THEN @ \ {id} ELSE @]

\* The candidate's sidecar is read again before its pixels are given up.
Candidate(p) ==
  LET j == job[p]
      rewrites(id, r) ==
        /\ Goto(p, "mark", [Popped(j, id) EXCEPT
                !.id = id, !.rec = r, !.hash = r.hash])
        /\ UNCHANGED <<tx, lock>>
      skips(id) ==
        /\ tx' = [tx EXCEPT !.rows[id] = records[id]]
        /\ Goto(p, "next", Popped(j, id))
        /\ UNCHANGED lock
  IN
  /\ pc[p] = "next"
  /\ \/ Chosen(j) = {} /\ Goto(p, "commit", j) /\ UNCHANGED <<tx, lock>>
     \/ \E id \in Ids :
          LET r == records[id] IN
          /\ Oldest(id, Chosen(j))
          /\ \/ r = None /\ FailsHolding(p)
             \/ r # None /\ (~Live(r) \/ r.pinned) /\ skips(id)
             \/ Live(r) /\ ~r.pinned /\ r.screen /\ rewrites(id, [r EXCEPT !.pinned = TRUE])
             \/ Live(r) /\ ~r.pinned /\ ~r.screen /\ rewrites(id, Evicted(r))
  /\ UNCHANGED db /\ KeepsFiles

\* a query, a read or an upsert fails between two candidates
CandidateFails(p) ==
  /\ pc[p] = "next" /\ Fault
  /\ FailsHolding(p)
  /\ UNCHANGED <<records, blobs, db, markers, used, lost>>

-----------------------------------------------------------------------------
(* collect_garbage                                                         *)

CollectCall(p) ==
  /\ "gc" \in Calls /\ pc[p] = "idle"
  /\ Goto(p, "gc", [NoJob EXCEPT !.op = "gc"])
  /\ UNCHANGED <<db, tx, lock>> /\ KeepsFiles

CollectGarbage(p) ==
  /\ pc[p] = "gc" /\ LockFree
  /\ \/ ~Repairable /\ ReconcileThen(p, "gc")
     \/ /\ Repairable /\ Acquire(p)
        /\ tx' = Repaired
        /\ Goto(p, "collect", [job[p] EXCEPT !.pending = Listed,
                !.sweep = {h \in blobs : ~Referenced(Repaired.rows, h)}])
  /\ UNCHANGED db /\ KeepsFiles

Collect(p) ==
  /\ pc[p] = "collect"
  /\ \/ /\ job[p].sweep = {}
        /\ Goto(p, "commit", job[p])
        /\ UNCHANGED <<blobs, tx>>
     \/ \E h \in job[p].sweep :
          /\ blobs' = blobs \ {h}
          /\ tx' = [tx EXCEPT !.sized = @ \ {h}]
          /\ Goto(p, "collect", [job[p] EXCEPT !.sweep = @ \ {h}])
  /\ UNCHANGED <<records, db, markers, lock, used, lost, spent>>

CollectFails(p) ==
  /\ pc[p] = "collect" /\ Fault
  /\ FailsHolding(p)
  /\ UNCHANGED <<records, blobs, db, markers, used, lost>>

-----------------------------------------------------------------------------
(* document, image, read_blob_repairing                                    *)

\* the sidecar is read without the lock ...
ReadRecord(p, id) ==
  /\ "read" \in Calls /\ pc[p] = "idle" /\ Live(records[id])
  /\ Goto(p, "readBlob", [NoJob EXCEPT !.op = "repair", !.id = id,
                                      !.hash = records[id].hash])
  /\ UNCHANGED <<db, tx, lock>> /\ KeepsFiles

\* ... and so are the pixels
ReadBlob(p) ==
  /\ pc[p] = "readBlob"
  /\ IF job[p].hash \in blobs THEN Return(p) ELSE Goto(p, "repair", job[p])
  /\ UNCHANGED <<db, tx, lock>> /\ KeepsFiles

\* under the lock both are looked at again
Repair(p) ==
  LET j == job[p]
      r == records[j.id]
  IN
  /\ pc[p] = "repair" /\ LockFree
  /\ \/ j.hash \in blobs /\ Return(p) /\ UNCHANGED <<lock, tx>>
     \/ /\ j.hash \notin blobs /\ Live(r) /\ r.hash = j.hash
        /\ Acquire(p) /\ UNCHANGED tx
        /\ Goto(p, "mark", [j EXCEPT !.rec = Evicted(r)])
     \/ /\ j.hash \notin blobs /\ ~(Live(r) /\ r.hash = j.hash)
        /\ Acquire(p)
        /\ tx' = [tx EXCEPT !.sized = @ \ {j.hash}]
        /\ Goto(p, "commit", j)
  /\ UNCHANGED db /\ KeepsFiles

-----------------------------------------------------------------------------
(* The environment                                                         *)

\* The process dies.  SQLite rolls its transaction back, files stay as they
\* are; a marker being created may be left without its id.
Crash(p) ==
  /\ spent.crash < MaxCrashes /\ pc[p] # "closed"
  /\ spent' = [spent EXCEPT !.crash = @ + 1]
  /\ Goto(p, "closed", NoJob)
  /\ IF lock = p THEN Rollback ELSE UNCHANGED <<lock, tx>>
  /\ \/ UNCHANGED markers
     \/ /\ pc[p] = "mark"
        /\ \E s \in Slots : /\ markers[s] = None
                            /\ \A q \in Procs : s \notin job[q].pending
                            /\ markers' = [markers EXCEPT ![s] = Torn]
  /\ UNCHANGED <<records, blobs, db, used, lost>>

\* a blob or a sidecar is removed behind the program's back
LoseBlob(h) ==
  /\ spent.blob < MaxBlobLosses /\ h \in blobs
  /\ spent' = [spent EXCEPT !.blob = @ + 1]
  /\ blobs' = blobs \ {h} /\ lost' = lost \union {h}
  /\ UNCHANGED <<records, db, tx, markers, lock, pc, job, used>>

LoseRecord(id) ==
  /\ spent.record < MaxRecordLosses /\ records[id] # None
  /\ spent' = [spent EXCEPT !.record = @ + 1]
  /\ records' = [records EXCEPT ![id] = None]
  /\ UNCHANGED <<blobs, db, tx, markers, lock, pc, job, used, lost>>

-----------------------------------------------------------------------------
Call(p) ==
  \/ Open(p) \/ Close(p) \/ EvictCall(p) \/ CollectCall(p)
  \/ \E id \in Ids : DeleteCall(p, id) \/ ReadRecord(p, id)
  \/ \E id \in Ids, h \in Hashes \union {NoImage}, pinned \in BOOLEAN, doc \in Docs :
        InsertCall(p, id, h, pinned, doc)
  \/ \E id \in Ids, c \in Change : UpdateCall(p, id, c)

\* what a call does once made, when nothing goes wrong or the lock stays busy
Progress(p) ==
  \/ GiveUp(p) \/ Count(p) \/ Sync(p) \/ Reconcile(p) \/ Rewrite(p)
  \/ Insert(p) \/ Update(p) \/ Delete(p) \/ Unlink(p)
  \/ Evict(p) \/ Candidate(p) \/ CollectGarbage(p) \/ Collect(p)
  \/ ReadBlob(p) \/ Repair(p)
  \/ Mark(p) \/ Write(p) \/ Commit(p) \/ Clear(p) \/ Cleared(p)

Failure(p) ==
  \/ MarkFails(p) \/ WriteFails(p) \/ CommitFails(p) \/ UnlinkFails(p)
  \/ RewriteFails(p) \/ CandidateFails(p) \/ CollectFails(p) \/ Crash(p)

Next ==
  \/ \E p \in Procs : Call(p) \/ Progress(p) \/ Failure(p)
  \/ \E h \in Hashes : LoseBlob(h)
  \/ \E id \in Ids : LoseRecord(id)

Spec == Init /\ [][Next]_vars

\* a call, once made, keeps running; the busy timeout bounds every wait
Fairness == \A p \in Procs : WF_vars(Progress(p))

FairSpec == Spec /\ Fairness

-----------------------------------------------------------------------------
(* Properties                                                              *)

\* Every variable keeps to its type, the process inside a transaction is the
\* one that holds the write lock, and without a transaction there is nothing
\* uncommitted.
TypeOK ==
  /\ records \in [Ids -> Record \union {None}]
  /\ blobs \subseteq Hashes /\ lost \subseteq Hashes
  /\ db \in Index /\ tx \in Index
  /\ markers \in [Slots -> Ids \union {None, Torn}]
  /\ lock \in Procs \union {None}
  /\ pc \in [Procs -> Pcs]
  /\ job \in [Procs -> Job]
  /\ used \subseteq Ids
  /\ spent \in [crash : Nat, fault : Nat, blob : Nat, record : Nat]
  /\ \A p \in Procs : lock = p <=> pc[p] \in Holding
  /\ lock = None => tx = db

\* A blob file is never unlinked while a sidecar still shows it: delete,
\* retention and garbage collection decide from the index, which other
\* processes, crashes and half-done updates may have left behind.  Only files
\* removed from outside are missing, and only a sidecar that a scan could not
\* read is forgotten.
PixelsKept ==
  \A id \in Ids \ Unreadable :
    Live(records[id]) => records[id].hash \in blobs \union lost

\* The markers some process is about to remove
Clearing == UNION {job[p].pending : p \in {q \in Procs : pc[q] = "clear"}}

\* A capture that shows its pixels is known to the committed index as their
\* user, or a marker that nobody is about to remove says that it is not.
IndexKnowsPixels ==
  \A id \in Ids \ Unreadable :
    Live(records[id]) =>
      \/ Live(db.rows[id]) /\ db.rows[id].hash = records[id].hash
      \/ \E s \in Slots \ Clearing : markers[s] = id

\* Between transactions, a sidecar that differs from its row is named by a
\* marker ("crash markers identify the exact sidecars that need refreshing"),
\* once the index has been bootstrapped.
SidecarsReachIndex ==
  lock = None /\ db.booted =>
    \A id \in Ids : db.rows[id] = records[id] \/ id \in Named

\* Between transactions, with no repair due, every blob the index counts
\* (stored_image_bytes, and the total retention compares with the cap) is on
\* disk, unless it was removed from outside.
BytesOnDisk ==
  lock = None /\ Listed = {} => db.sized \subseteq blobs \union lost

\* A retention pass that ends above the cap ran into pinned captures.
CapYieldsOnlyToPins ==
  \A p \in Procs :
    pc[p] = "next" /\ Chosen(job[p]) = {} /\ Total(tx) > Cap =>
      \E id \in Ids : Live(tx.rows[id]) /\ tx.rows[id].pinned

\* Two processes' updates never overwrite each other: one write of a sidecar
\* changes its pins, or its document, or gives up its pixels, and nothing
\* else; pixels once given up stay so.
EditsMerge ==
  [][\A id \in Ids : records[id] # None /\ records'[id] # None =>
       \/ \E on, shown \in BOOLEAN :
            records'[id] = [records[id] EXCEPT !.pinned = on, !.screen = shown]
       \/ \E doc \in Docs : records'[id] = [records[id] EXCEPT !.doc = doc]
       \/ records'[id] = Evicted(records[id])]_vars

\* A pinned capture, whether pinned in history or on the screen, keeps its
\* pixels, though it may be pinned by one process while another one's
\* retention has it on its list; only a blob that vanished is an exception.
PinnedKept ==
  [][\A id \in Ids : /\ Live(records[id]) /\ records'[id] # None
                     /\ records[id].pinned \/ records[id].screen
                     /\ spent.blob = 0
                     => Live(records'[id])]_vars

\* Every call comes back, whatever the other processes do: the busy timeout
\* bounds each wait for the lock and reconciliation removes what made a call
\* start over.
EveryCallReturns ==
  \A p \in Procs : pc[p] \notin {"idle", "closed"} ~> pc[p] \in {"idle", "closed"}

-----------------------------------------------------------------------------
(* The inductive invariant behind PixelsKept                               *)

\* readable captures that show their pixels
Showing == {id \in Ids \ Unreadable : Live(records[id])}

Covers(rows, id) == Live(rows[id]) /\ rows[id].hash = records[id].hash

\* markers that may go although nothing has been written to the index: those
\* being removed, and that of an update whose sidecar is not yet written
Doubtful == Clearing \union
            UNION {job[p].mine : p \in {q \in Procs : pc[q] = "write" /\ job[q].op # "evict"}}

Known == \A id \in Showing :
           Covers(db.rows, id) \/ \E s \in Slots \ Doubtful : markers[s] = id

\* the captures the lock holder's reconciliation is about to mark evicted
Condemned == UNION {job[p].missing : p \in {q \in Procs : lock = q}}

\* what a transaction has written never loses a user of pixels
TxFollows == \A id \in Showing \ Condemned :
               Covers(db.rows, id) => Covers(tx.rows, id)

\* a transaction that began with a repair knows every user of pixels
TxFull == \A p \in Procs :
            lock = p /\ (job[p].op \in {"delete", "evict", "gc"} \/ job[p].pending # {}) =>
              \A id \in Showing \ Condemned : Covers(tx.rows, id)

\* what a call waiting to write brings along, detours through reconcile included
Ready(label, j) ==
  /\ label \in {"insert", "update", "repair"} => j.op = label
  /\ label = "readBlob" => j.op = "repair"
  /\ label \in {"insert", "update", "readBlob", "repair"} => j.id \in Ids /\ j.pending = {}
  /\ label = "insert" /\ Live(j.rec) => j.rec.hash = j.hash
  /\ label = "update" => j.change \in Change
  /\ "delete" \in {label, j.after} => j.op = "delete" /\ j.rec = None /\ j.id \in Ids
  /\ "evict" \in {label, j.after} => j.op = "evict"
  /\ "gc" \in {label, j.after} => j.op = "gc"

\* what the locals of a call are worth at each of its steps
JobOK(p) ==
  LET j == job[p] IN
  /\ Ready(pc[p], j)
  /\ j.mine # {} => pc[p] \in {"mark", "write", "unlink", "next", "commit"}
  /\ \A s \in j.mine : markers[s] # None
  /\ j.missing # {} => pc[p] = "rewrite"
  /\ pc[p] = "rewrite" => \A id \in j.missing : ~Live(tx.rows[id])
  /\ pc[p] \in {"mark", "write"} =>
       /\ j.id \in Ids
       /\ Live(j.rec) /\ j.id \notin Unreadable => j.rec.hash \in blobs \union lost
       /\ j.op = "delete" => j.rec = None
  /\ pc[p] = "mark" /\ j.op # "evict" => j.mine = {}
  /\ pc[p] = "write" => \E s \in j.mine : markers[s] = j.id
  /\ pc[p] = "write" /\ j.op # "evict" => \A s \in j.mine : markers[s] = j.id
  /\ pc[p] = "unlink" =>
       /\ j.op \in {"delete", "evict"}
       /\ ~Live(j.rec) /\ ~Live(records[j.id])
  /\ pc[p] = "next" => j.op = "evict"
  /\ pc[p] = "collect" => j.op = "gc" /\ \A h \in j.sweep : ~Referenced(tx.rows, h)
  /\ pc[p] = "commit" =>
       \A s \in j.mine : markers[s] \in Showing => Covers(tx.rows, markers[s])
  /\ \A q \in Procs : j.mine \intersect job[q].pending = {}

IInv == /\ TypeOK /\ PixelsKept /\ Known /\ TxFollows /\ TxFull
        /\ \A p \in Procs : JobOK(p)
=============================================================================

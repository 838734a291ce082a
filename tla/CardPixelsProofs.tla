-------------------------- MODULE CardPixelsProofs --------------------------
(***************************************************************************)
(* That the vault follows whoever owns a card's pixels, proved on the      *)
(* invariant of CardOutputProofs: an editor and a card in view find them,  *)
(* and while they are kept somebody is to use or to release them, but for  *)
(* two steps that leave them to nobody.                                    *)
(***************************************************************************)
EXTENDS CardOutputProofs

-----------------------------------------------------------------------------
(* What the invariant says of the owners                                   *)

LEMMA RunningFollows ==
  ASSUME Running
  PROVE  /\ app.editor.phase # "none" => Held
         /\ app.shown => Held \/ Dismissing
         /\ Held => Owed \/ (app.visible /\ ~app.shown)
<1>1. app.editor.phase # "none" => Held BY DEF Running, Served, Keeps, Editing, Held
<1>2. app.shown => Held \/ Dismissing BY DEF Running, Served, Shows, Held, Dismissing
<1>3. Held => Owns(app) \/ Releasing BY DEF Running, Served, Claimed, Held, Releasing
<1>4. (app.opening \/ Editing(app)) /\ ~app.editorOnly /\ ~app.visible
        => CardOutputPending(app) \/ app.deferredOverflow
  BY DEF Running, Served, Handled, Waiting
<1> QED BY <1>1, <1>2, <1>3, <1>4 DEF Owns, Owed, Awaited, Editing

LEMMA BeginningFollows ==
  ASSUME Beginning
  PROVE  app.editor.phase = "none" /\ ~app.shown /\ Owed
<1>1. app = NewApp BY DEF Beginning
<1>2. ~app.shown /\ app.editor = NoEditor BY <1>1, NewIs
<1>3. app.editor.phase = "none" BY <1>2 DEF NoEditor
<1>4. Announced
  <2>1. PICK f : /\ f.what \in {"ready", "restored", "opened"} /\ (f.what = "opened" => f.ok)
                 /\ outcomes = <<f>> \/ outcomes = <<f, outcomes[2]>>
    BY DEF Beginning
  <2> DEFINE o == outcomes[2]
  <2>2. outcomes = <<f>> \/ outcomes = <<f, o>> BY <2>1
  <2> HIDE DEF o
  <2>3. 1 \in DOMAIN outcomes /\ outcomes[1] = f BY <2>2
  <2> QED BY <2>1, <2>3 DEF Announced
<1> QED BY <1>2, <1>3, <1>4 DEF Owed

-----------------------------------------------------------------------------
(* Who is still to release the pixels of a card the user no longer sees    *)

Names == {"visible", "shown", "retention", "filed", "finalizing", "opening", "editor", "close", "closed",
          "editorOnly", "outstanding", "current", "fates", "deferredSave", "deferredClose",
          "deferredOverflow", "checkClose", "checkOverflow", "recovery", "inFlight", "dialog",
          "nextGen", "nextAction", "posted"}

\* all that is needed of the main thread's record to read its fields
Whole(a) == DOMAIN a = Names /\ a.nextAction \in Nat \ {0}

\* an output, a save or an answer of history is to retire the card
Retired(a) == \/ CardOutputPending(a) \/ UploadCloses(a) \/ a.deferredSave
              \/ a.checkOverflow /\ a.recovery # 0

Busy(a) == a.finalizing \/ a.opening \/ Editing(a)

\* a card that is kept is in view, or something is to retire it
Minded(a) == a.visible => a.shown \/ Retired(a) \/ (a.deferredOverflow /\ Busy(a))

\* the same when what was deferred is about to run, and after it ran
Deferring(a) == a.visible => a.shown \/ Retired(a) \/ a.deferredOverflow
Provided(a) == a.visible => a.shown \/ Retired(a)

\* nothing that retires the card changed
Alike(a, b) ==
  /\ Whole(b) /\ b.visible = a.visible /\ b.shown = a.shown
  /\ b.outstanding = a.outstanding /\ b.current = a.current /\ b.deferredSave = a.deferredSave
  /\ b.checkOverflow = a.checkOverflow /\ b.recovery = a.recovery
  /\ b.deferredOverflow = a.deferredOverflow

Occupied(a, b) ==
  b.finalizing = a.finalizing /\ b.opening = a.opening /\ b.editor.phase = a.editor.phase

LEMMA AlikeRetired ==
  ASSUME NEW a, NEW b, Alike(a, b)
  PROVE  /\ Retired(b) <=> Retired(a)
         /\ Deferring(a) => Deferring(b)
         /\ Provided(a) => Provided(b)
         /\ Occupied(a, b) /\ Minded(a) => Minded(b)
BY DEF Alike, Retired, CardOutputPending, UploadCloses, Deferring, Provided, Minded, Occupied, Busy, Editing

LEMMA PostAlike ==
  ASSUME NEW a, Whole(a), NEW j, NEW b, b = Post(a, j)
  PROVE  Alike(a, b) /\ Occupied(a, b)
BY DEF Whole, Names, Post, Alike, Occupied

LEMMA DismissGone ==
  ASSUME NEW a, Whole(a), NEW b, b = Dismiss(a)
  PROVE  Whole(b) /\ (b.visible => b = a /\ a.deferredSave)
<1> DEFINE dialog == a.dialog # None
           editor == EditorOwns(a)
           o == {x \in a.outstanding : x.kind = "editor" \/ (dialog /\ x.kind = "card")}
           k == a.editorOnly \/ (editor /\ ~dialog)
           gone == [a EXCEPT
             !.outstanding = o,
             !.current = 0, !.visible = FALSE, !.shown = FALSE, !.retention = NoRetention,
             !.fates = NoFates, !.filed = FALSE, !.checkClose = FALSE, !.checkOverflow = FALSE,
             !.deferredClose = None, !.deferredOverflow = FALSE, !.recovery = 0,
             !.inFlight = dialog, !.editorOnly = k]
<1>1. IF a.deferredSave THEN b = a
      ELSE IF dialog \/ editor THEN b = gone ELSE b = Post(gone, Job("release"))
  BY DEF Dismiss
<1> HIDE DEF o, k, dialog, editor
<1>2. Whole(gone) /\ ~gone.visible BY DEF Whole, Names
<1> HIDE DEF gone
<1>3. ~Post(gone, Job("release")).visible /\ Whole(Post(gone, Job("release")))
  BY <1>2, PostAlike DEF Alike
<1> QED BY <1>1, <1>2, <1>3

\* what a dispatched output adds
Adds(a, b, id, kind, close) ==
  /\ Whole(b) /\ b.visible = a.visible /\ b.shown = a.shown /\ b.deferredSave = a.deferredSave
  /\ b.checkOverflow = a.checkOverflow /\ b.recovery = a.recovery
  /\ b.deferredOverflow = a.deferredOverflow
  /\ b.outstanding = a.outstanding \union {[id |-> id, kind |-> kind, close |-> close]}
  /\ b.current = IF kind = "upload" THEN id ELSE a.current

LEMMA RegisterAdds ==
  ASSUME NEW a, Whole(a), NEW id, NEW kind, NEW close, NEW b, b = Register(a, id, kind, close)
  PROVE  Adds(a, b, id, kind, close) /\ Occupied(a, b) /\ b.nextAction = a.nextAction
<1> DEFINE x == [id |-> id, kind |-> kind, close |-> close]
           c == IF kind = "upload" THEN id ELSE a.current
           o == a.outstanding \union {x}
<1>1. b = [a EXCEPT !.outstanding = o, !.current = c] BY DEF Register
<1>2. o = a.outstanding \union {x} /\ c = IF kind = "upload" THEN id ELSE a.current OBVIOUS
<1> HIDE DEF o, c
<1>3. /\ Whole(b) /\ b.visible = a.visible /\ b.shown = a.shown /\ b.deferredSave = a.deferredSave
      /\ b.checkOverflow = a.checkOverflow /\ b.recovery = a.recovery
      /\ b.deferredOverflow = a.deferredOverflow /\ b.outstanding = o /\ b.current = c
      /\ Occupied(a, b) /\ b.nextAction = a.nextAction
  BY <1>1 DEF Whole, Names, Occupied
<1> QED BY <1>2, <1>3 DEF Adds

LEMMA DispatchAdds ==
  ASSUME NEW a, Whole(a), NEW kind, NEW close, NEW job, NEW b, b = Dispatch(a, kind, close, job)
  PROVE  Adds(a, b, a.nextAction, kind, close) /\ Occupied(a, b)
<1> DEFINE n == a.nextAction + 1
           c == [a EXCEPT !.nextAction = n]
           j == [job EXCEPT !.action = a.nextAction]
           d == Post(c, j)
<1>1. b = Register(d, a.nextAction, kind, close) BY DEF Dispatch
<1>2. n \in Nat \ {0} BY DEF Whole
<1> HIDE DEF n, j
<1>3. Alike(a, c) /\ Occupied(a, c) BY <1>2 DEF Whole, Names, Alike, Occupied
<1> HIDE DEF c
<1>4. Alike(c, d) /\ Occupied(c, d) BY <1>3, PostAlike DEF Alike
<1> HIDE DEF d
<1>5. Whole(d) BY <1>4 DEF Alike
<1>6. Adds(d, b, a.nextAction, kind, close) /\ Occupied(d, b) BY <1>1, <1>5, RegisterAdds
<1> QED BY <1>3, <1>4, <1>6 DEF Adds, Alike, Occupied

LEMMA AddsRetires ==
  ASSUME NEW a, NEW b, NEW id, NEW kind, NEW close, Adds(a, b, id, kind, close)
  PROVE  /\ kind = "card" => Retired(b)
         /\ kind # "upload" /\ Retired(a) => Retired(b)
         /\ kind # "upload" /\ Occupied(a, b) /\ Minded(a) => Minded(b)
<1> DEFINE x == [id |-> id, kind |-> kind, close |-> close]
<1>1. x.kind = kind /\ b.outstanding = a.outstanding \union {x} BY DEF Adds
<1> HIDE DEF x
<1>2. kind = "card" => Retired(b) BY <1>1 DEF Retired, CardOutputPending
<1>3. kind # "upload" /\ Retired(a) => Retired(b)
  BY <1>1 DEF Adds, Retired, CardOutputPending, UploadCloses
<1> QED BY <1>2, <1>3 DEF Adds, Minded, Occupied, Busy, Editing

\* a close of the card retires it, or leaves everything to whoever has it
LEMMA AutoCloseRetires ==
  ASSUME NEW a, Whole(a), NEW how, NEW version, NEW b, b = AutoClose(a, how, version)
  PROVE  /\ Whole(b)
         /\ b.visible => /\ a.visible /\ b.shown = a.shown /\ b.deferredOverflow = a.deferredOverflow
                         /\ Retired(a) => Retired(b)
<1>1. CASE b = a BY <1>1
<1>2. CASE b = Dismiss(a) BY <1>2, DismissGone
<1>3. CASE b = Post([a EXCEPT !.checkClose = TRUE], Job("releaseIfRetained"))
  <2> DEFINE c == [a EXCEPT !.checkClose = TRUE]
  <2>1. Alike(a, c) BY DEF Whole, Names, Alike
  <2>2. b = Post(c, Job("releaseIfRetained")) BY <1>3
  <2> HIDE DEF c
  <2>3. Alike(c, b) BY <2>1, <2>2, PostAlike DEF Alike
  <2> QED BY <2>1, <2>3, AlikeRetired DEF Alike
<1>4. CASE b = SavesAndCloses(a, version)
  <2>1. Adds(a, b, a.nextAction, "card", TRUE) BY <1>4, DispatchAdds DEF SavesAndCloses
  <2> QED BY <2>1, AddsRetires DEF Adds
<1> QED BY <1>1, <1>2, <1>3, <1>4 DEF AutoClose

\* an overflow retires the card, at once or with what it starts
LEMMA OverflowRetires ==
  ASSUME NEW a, Whole(a), NEW version, NEW b, b = Overflow(a, version)
  PROVE  Whole(b) /\ (b.visible => a.visible /\ Retired(b))
<1>1. CASE b = [a EXCEPT !.inFlight = TRUE] /\ (CardOutputPending(a) \/ UploadCloses(a))
  <2>1. Alike(a, b) BY <1>1 DEF Whole, Names, Alike
  <2>2. Retired(a) BY <1>1 DEF Retired
  <2> QED BY <2>1, <2>2, AlikeRetired DEF Alike
<1>2. CASE b = Dismiss(a)
  <2>1. Whole(b) /\ (b.visible => b = a /\ a.deferredSave) BY <1>2, DismissGone
  <2> QED BY <2>1 DEF Retired
<1>3. CASE b = AsksHistory(a)
  <2> DEFINE n == a.nextAction + 1
             s == [a EXCEPT !.recovery = a.nextAction, !.nextAction = n, !.checkOverflow = TRUE]
  <2>1. n \in Nat \ {0} BY DEF Whole
  <2>2. b = IF a.checkOverflow THEN s ELSE Post(s, Job("releaseIfRetained")) BY <1>3 DEF AsksHistory
  <2> HIDE DEF n
  <2>3. Whole(s) /\ s.visible = a.visible /\ s.checkOverflow /\ s.recovery # 0
    BY <2>1 DEF Whole, Names
  <2> HIDE DEF s
  <2>4. b = s \/ Alike(s, b) BY <2>2, <2>3, PostAlike
  <2>5. Retired(s) BY <2>3 DEF Retired
  <2> QED BY <2>3, <2>4, <2>5, AlikeRetired DEF Alike
<1>4. CASE b = [SavesAndCloses(a, version) EXCEPT !.inFlight = TRUE]
  <2> DEFINE c == SavesAndCloses(a, version)
  <2>1. Adds(a, c, a.nextAction, "card", TRUE) BY DispatchAdds DEF SavesAndCloses
  <2>2. b = [c EXCEPT !.inFlight = TRUE] BY <1>4
  <2> HIDE DEF c
  <2>3. Whole(c) /\ c.visible = a.visible BY <2>1 DEF Adds
  <2>4. Alike(c, b) BY <2>2, <2>3 DEF Whole, Names, Alike
  <2>5. Retired(c) BY <2>1, AddsRetires
  <2> QED BY <2>3, <2>4, <2>5, AlikeRetired DEF Alike
<1> QED BY <1>1, <1>2, <1>3, <1>4 DEF Overflow

LEMMA ResumesRetires ==
  ASSUME NEW a, Whole(a), NEW b, b = ResumesOverflow(a)
  PROVE  Whole(b) /\ (b.visible => a.visible) /\ Minded(b)
<1>1. CASE Active(a)
  <2>1. b = [a EXCEPT !.inFlight = FALSE, !.deferredOverflow = TRUE] BY <1>1 DEF ResumesOverflow
  <2>2. Whole(b) /\ b.visible = a.visible /\ b.deferredOverflow /\ b.editor = a.editor
    BY <2>1 DEF Whole, Names
  <2> QED BY <1>1, <2>2 DEF Active, Minded, Busy, Editing
<1>2. CASE ~Active(a)
  <2> DEFINE c == [a EXCEPT !.inFlight = FALSE]
  <2>1. Alike(a, c) BY DEF Whole, Names, Alike
  <2>2. b = Overflow(c, Plain) BY <1>2 DEF ResumesOverflow
  <2> HIDE DEF c
  <2>3. Whole(b) /\ (b.visible => c.visible /\ Retired(b)) BY <2>1, <2>2, OverflowRetires DEF Alike
  <2> QED BY <2>1, <2>3 DEF Alike, Minded
<1> QED BY <1>1, <1>2

LEMMA RunsCloseRetires ==
  ASSUME NEW a, Whole(a), NEW version, NEW b, b = RunsDeferredClose(a, version)
  PROVE  Whole(b) /\ (b.visible => a.visible) /\ (Deferring(a) => Deferring(b))
<1>1. CASE a.deferredClose = None
  <2>1. b = a BY <1>1 DEF RunsDeferredClose
  <2> QED BY <2>1
<1>2. CASE a.deferredClose # None
  <2> DEFINE c == [a EXCEPT !.deferredClose = None]
  <2>1. Alike(a, c) BY DEF Whole, Names, Alike
  <2>2. b = AutoClose(c, a.deferredClose, version) BY <1>2 DEF RunsDeferredClose
  <2> HIDE DEF c
  <2>3. /\ Whole(b)
        /\ b.visible => /\ c.visible /\ b.shown = c.shown /\ b.deferredOverflow = c.deferredOverflow
                        /\ Retired(c) => Retired(b)
    BY <2>1, <2>2, AutoCloseRetires DEF Alike
  <2>4. Retired(c) <=> Retired(a) BY <2>1, AlikeRetired
  <2> QED BY <2>1, <2>3, <2>4 DEF Alike, Deferring
<1> QED BY <1>1, <1>2

LEMMA RunsOverflowRetires ==
  ASSUME NEW a, Whole(a), NEW version, NEW b, b = RunsDeferredOverflow(a, version)
  PROVE  Whole(b) /\ (b.visible => a.visible) /\ (Deferring(a) => Provided(b))
<1>1. CASE ~a.deferredOverflow
  <2>1. b = a BY <1>1 DEF RunsDeferredOverflow
  <2> QED BY <1>1, <2>1 DEF Deferring, Provided
<1>2. CASE a.deferredOverflow
  <2> DEFINE c == [a EXCEPT !.deferredOverflow = FALSE]
  <2>1. Whole(c) /\ c.visible = a.visible BY DEF Whole, Names
  <2>2. b = Overflow(c, version) BY <1>2 DEF RunsDeferredOverflow
  <2> HIDE DEF c
  <2>3. Whole(b) /\ (b.visible => c.visible /\ Retired(b)) BY <2>1, <2>2, OverflowRetires
  <2> QED BY <2>1, <2>3 DEF Provided
<1> QED BY <1>1, <1>2

LEMMA SettlesRetires ==
  ASSUME NEW a, Whole(a), NEW version, NEW b, b = Settles(a, version)
  PROVE  Whole(b) /\ (b.visible => a.visible) /\ (Deferring(a) => Provided(b))
<1> DEFINE c == RunsDeferredClose(a, version)
<1>1. Whole(c) /\ (c.visible => a.visible) /\ (Deferring(a) => Deferring(c)) BY RunsCloseRetires
<1>2. b = RunsDeferredOverflow(c, version) BY DEF Settles
<1> HIDE DEF c
<1> QED BY <1>1, <1>2, RunsOverflowRetires

\* what the answer to an output leaves of the rest
SameWay(a, b) ==
  /\ Whole(b) /\ b.visible = a.visible /\ b.shown = a.shown /\ b.deferredSave = a.deferredSave
  /\ b.checkOverflow = a.checkOverflow /\ b.recovery = a.recovery
  /\ b.deferredOverflow = a.deferredOverflow /\ b.inFlight = a.inFlight /\ Occupied(a, b)

LEMMA ResolveKeeps ==
  ASSUME NEW a, Whole(a), NEW id, NEW b, b = Resolve(a, id)
  PROVE  /\ SameWay(a, b) /\ b.outstanding = {x \in a.outstanding : x.id # id}
         /\ a.current # id => b.current = a.current
<1> DEFINE o == {x \in a.outstanding : x.id # id}
           c == IF a.current = id THEN 0 ELSE a.current
           d == [a EXCEPT !.outstanding = o, !.current = c]
           p == [d EXCEPT !.fates = NoFates]
<1>1. CASE id \notin Ids(a)
  <2>1. b = a BY <1>1 DEF Resolve
  <2>2. o = a.outstanding BY <1>1 DEF Ids
  <2> QED BY <2>1, <2>2 DEF SameWay, Occupied
<1>2. CASE id \in Ids(a)
  <2>1. b = d \/ b = p BY <1>2 DEF Resolve, PruneFates
  <2>2. a.current # id => c = a.current OBVIOUS
  <2> HIDE DEF o, c
  <2>3. SameWay(a, d) /\ d.outstanding = o /\ d.current = c BY DEF Whole, Names, SameWay, Occupied
  <2>4. Whole(d) BY <2>3 DEF SameWay
  <2> HIDE DEF d
  <2>5. SameWay(d, p) /\ p.outstanding = d.outstanding /\ p.current = d.current
    BY <2>4 DEF Whole, Names, SameWay, Occupied
  <2> HIDE DEF p
  <2>6. SameWay(a, p) BY <2>3, <2>5 DEF SameWay, Occupied
  <2> QED BY <2>1, <2>2, <2>3, <2>5, <2>6 DEF o
<1> QED BY <1>1, <1>2

\* the answer to an output that retires nothing
LEMMA ResolveRetires ==
  ASSUME NEW a, Whole(a), NEW id, NEW b, b = Resolve(a, id),
         \A x \in a.outstanding : x.id = id => x.kind # "card" /\ ~(x.id = a.current /\ x.close)
  PROVE  Whole(b) /\ (Minded(a) => Minded(b))
<1>1. /\ SameWay(a, b) /\ b.outstanding = {x \in a.outstanding : x.id # id}
      /\ a.current # id => b.current = a.current
  BY ResolveKeeps
<1>2. CardOutputPending(a) => CardOutputPending(b) BY <1>1 DEF CardOutputPending
<1>3. UploadCloses(a) => UploadCloses(b)
  <2> SUFFICES ASSUME NEW x \in a.outstanding, x.id = a.current, x.close PROVE UploadCloses(b)
    BY DEF UploadCloses
  <2>1. x.id # id OBVIOUS
  <2> QED BY <1>1, <2>1 DEF UploadCloses
<1> QED BY <1>1, <1>2, <1>3 DEF SameWay, Minded, Retired, Occupied, Busy, Editing

\* the card is where the user left it, and not for want of room
Abandons(a) == a.visible /\ ~a.shown /\ ~a.inFlight

\* a card that is still in view needs nobody to retire it
LEMMA StaysMinded ==
  ASSUME NEW a, NEW b, SameWay(a, b), a.inFlight => Minded(b)
  PROVE  Minded(b) \/ Abandons(a)
BY DEF SameWay, Minded, Abandons

LEMMA DismissMinded ==
  ASSUME NEW a, Whole(a), NEW b, b = Dismiss(a) PROVE Whole(b) /\ Minded(b)
BY DismissGone DEF Minded, Retired

LEMMA RetiredMinded == ASSUME NEW a, Retired(a) PROVE Minded(a)
BY DEF Minded

LEMMA CompletesRetires ==
  ASSUME NEW a, Whole(a), Counted(a), NEW o, o.action \in Ids(a), NEW b, b = Completes(a, o)
  PROVE  Whole(b) /\ (Minded(a) => Minded(b))
<1> DEFINE r == Registered(a, o.action)
           n == [elsewhere |-> TRUE, exported |-> TRUE]
           k == [a EXCEPT !.retention = n]
           kept == IF a.visible /\ o.export THEN k ELSE a
           done == Resolve(kept, o.action)
<1>1. r \in a.outstanding /\ r.id = o.action BY RegisteredIs
<1>2. b = IF r.close /\ ~UploadCloses(done) THEN Dismiss(done) ELSE done BY DEF Completes
<1>3. Alike(a, kept) /\ Occupied(a, kept)
  <2> HIDE DEF n
  <2>1. Alike(a, k) /\ Occupied(a, k) BY DEF Whole, Names, Alike, Occupied
  <2> HIDE DEF k
  <2> QED BY <2>1 DEF Alike, Occupied
<1> HIDE DEF kept, r
<1>4. Whole(kept) /\ kept.outstanding = a.outstanding /\ kept.current = a.current BY <1>3 DEF Alike
<1>5. Whole(done) BY <1>4, ResolveKeeps DEF SameWay
<1>6. CASE r.close
  <2> HIDE DEF done
  <2>1. CASE b = Dismiss(done) BY <1>5, <2>1, DismissMinded
  <2>2. CASE b = done /\ UploadCloses(done)
    <3>1. Retired(done) BY <2>2 DEF Retired
    <3> QED BY <1>5, <2>2, <3>1, RetiredMinded
  <2> QED BY <1>2, <1>6, <2>1, <2>2
<1>7. CASE ~r.close
  <2>1. b = done BY <1>2, <1>7
  <2>2. \A x \in a.outstanding : x.id = o.action => x.kind # "card" /\ ~x.close
    BY <1>1, <1>7 DEF Counted
  <2>3. \A x \in kept.outstanding :
          x.id = o.action => x.kind # "card" /\ ~(x.id = kept.current /\ x.close)
    BY <1>4, <2>2
  <2>4. Whole(b) /\ (Minded(kept) => Minded(b)) BY <1>4, <2>1, <2>3, ResolveRetires
  <2> QED BY <1>3, <2>4, AlikeRetired
<1> QED BY <1>6, <1>7

LEMMA OutdatedRetires ==
  ASSUME NEW a, Whole(a), Counted(a), NEW o, o.action \in Ids(a), NEW b, b = Outdated(a, o)
  PROVE  Whole(b) /\ (Minded(a) => Minded(b) \/ Abandons(a))
<1> DEFINE r == Registered(a, o.action)
           done == Resolve(a, o.action)
<1>1. r \in a.outstanding /\ r.id = o.action BY RegisteredIs
<1>2. b = IF r.close /\ a.inFlight /\ ~UploadCloses(done) THEN ResumesOverflow(done) ELSE done
  BY DEF Outdated
<1>3. SameWay(a, done) BY ResolveKeeps
<1>4. Whole(done) BY <1>3 DEF SameWay
<1> HIDE DEF r
<1>5. CASE b = ResumesOverflow(done) BY <1>4, <1>5, ResumesRetires
<1>6. CASE b = done /\ r.close /\ (a.inFlight => UploadCloses(done))
  <2> HIDE DEF done
  <2>1. a.inFlight => Minded(b) BY <1>6, RetiredMinded DEF Retired
  <2> QED BY <1>3, <1>4, <1>6, <2>1, StaysMinded
<1>7. CASE b = done /\ ~r.close
  <2>1. \A x \in a.outstanding : x.id = o.action => x.kind # "card" /\ ~(x.id = a.current /\ x.close)
    BY <1>1, <1>7 DEF Counted
  <2> QED BY <1>7, <2>1, ResolveRetires
<1> QED BY <1>2, <1>5, <1>6, <1>7

LEMMA NotOutstanding ==
  ASSUME NEW a, NEW id, id \notin Ids(a) PROVE \A x \in a.outstanding : x.id # id
BY DEF Ids

LEMMA DoneRetires ==
  ASSUME NEW a, Whole(a), Counted(a), NEW o, NEW b, b = Done(a, o)
  PROVE  Whole(b) /\ (Minded(a) => Minded(b) \/ (Abandons(a) /\ Stale(a, o.version)))
<1>1. CASE o.action \notin Ids(a)
  <2>1. b = a BY <1>1 DEF Done
  <2> QED BY <2>1
<1>2. CASE o.action \in Ids(a) /\ Stale(a, o.version)
  <2>1. b = Outdated(a, o) BY <1>2 DEF Done
  <2> QED BY <1>2, <2>1, OutdatedRetires
<1>3. CASE o.action \in Ids(a) /\ ~Stale(a, o.version)
  <2>1. b = Completes(a, o) BY <1>3 DEF Done
  <2> QED BY <1>3, <2>1, CompletesRetires
<1> QED BY <1>1, <1>2, <1>3

LEMMA OutputRefusedRetires ==
  ASSUME NEW a, Whole(a), NEW o, Counted(a), a.outstanding \subseteq Outs, Exporting(a, o.action),
         NEW b, b = OutputRefused(a, o)
  PROVE  Whole(b) /\ (Minded(a) => Minded(b) \/ Abandons(a))
<1> DEFINE id == o.action
           failed == Resolve(a, id)
           x == [failed EXCEPT !.inFlight = FALSE]
<1>1. SameWay(a, failed) BY ResolveKeeps
<1>2. Whole(failed) BY <1>1 DEF SameWay
<1>3. b = IF id \in Ids(a) /\ Registered(a, id).kind = "card" /\ a.inFlight
            THEN Dismiss(x) ELSE failed
  BY DEF OutputRefused
<1>4. CASE b = Dismiss(x)
  <2> HIDE DEF failed
  <2>1. Whole(x) BY <1>2 DEF Whole, Names
  <2> HIDE DEF x
  <2> QED BY <1>4, <2>1, DismissMinded
<1>5. CASE b = failed /\ id \notin Ids(a)
  <2>1. \A y \in a.outstanding : y.id # id BY <1>5 DEF Ids
  <2> QED BY <1>5, <2>1, ResolveRetires
<1>6. CASE b = failed /\ id \in Ids(a) /\ Registered(a, id).kind = "card" /\ ~a.inFlight
  BY <1>1, <1>2, <1>6, StaysMinded
<1>7. CASE b = failed /\ id \in Ids(a) /\ Registered(a, id).kind # "card"
  <2> DEFINE r == Registered(a, id)
  <2>1. r \in a.outstanding /\ r.id = id /\ r.kind # "card" BY <1>7, RegisteredIs
  <2>2. r.kind = "editor" BY <2>1 DEF Exporting, Outs
  <2> HIDE DEF r
  <2>3. \A y \in a.outstanding : y.id = id => y.kind # "card" /\ ~(y.id = a.current /\ y.close)
    BY <2>1, <2>2 DEF Counted
  <2> QED BY <1>7, <2>3, ResolveRetires
<1> QED BY <1>3, <1>4, <1>5, <1>6, <1>7

LEMMA UploadDoneRetires ==
  ASSUME NEW a, Whole(a), NEW o, Counted(a), Uploading(a, o.action), NEW b, b = UploadDone(a, o)
  PROVE  Whole(b) /\ (Minded(a) => Minded(b) \/ (a.visible /\ ~a.shown /\ Stale(a, o.version)))
<1> DEFINE id == o.action
           done == Resolve(a, id)
           k == [done EXCEPT !.retention.elsewhere = TRUE]
           kept == IF a.visible THEN k ELSE done
<1>1. SameWay(a, done) BY ResolveKeeps
<1>2. Whole(done) BY <1>1 DEF SameWay
<1>3. b = IF id \notin Ids(a) \/ a.current # id \/ Stale(a, o.version) THEN done
          ELSE IF Registered(a, id).close THEN Dismiss(kept) ELSE kept
  BY DEF UploadDone
<1>4. Alike(done, kept) /\ Occupied(done, kept)
  <2> HIDE DEF done
  <2> QED BY <1>2 DEF Whole, Names, Alike, Occupied
<1>5. CASE b = done /\ (id \notin Ids(a) \/ a.current # id)
  <2>1. \A y \in a.outstanding : y.id = id => y.kind # "card" /\ ~(y.id = a.current /\ y.close)
    BY <1>5 DEF Ids, Uploading
  <2> QED BY <1>5, <2>1, ResolveRetires
<1>6. CASE b = done /\ Stale(a, o.version)
  <2> HIDE DEF done
  <2> QED BY <1>1, <1>2, <1>6 DEF SameWay, Minded
<1>7. CASE b = Dismiss(kept)
  <2>1. Whole(kept) BY <1>4 DEF Alike
  <2> QED BY <1>7, <2>1, DismissMinded
<1>8. CASE b = kept /\ id \in Ids(a) /\ ~Registered(a, id).close
  <2>1. \A y \in a.outstanding : y.id = id => y.kind # "card" /\ ~(y.id = a.current /\ y.close)
    BY <1>8, RegisteredIs DEF Counted
  <2>2. Minded(a) => Minded(done) BY <2>1, ResolveRetires
  <2> HIDE DEF kept, done
  <2> QED BY <1>4, <1>8, <2>2, AlikeRetired DEF Alike
<1> QED BY <1>3, <1>5, <1>6, <1>7, <1>8

LEMMA UploadRefusedRetires ==
  ASSUME NEW a, Whole(a), NEW o, Counted(a), Uploading(a, o.action), NEW b, b = UploadRefused(a, o)
  PROVE  Whole(b) /\ (Minded(a) => Minded(b) \/ Abandons(a))
<1> DEFINE id == o.action
           failed == Resolve(a, id)
<1>1. SameWay(a, failed) BY ResolveKeeps
<1>2. Whole(failed) /\ failed.inFlight = a.inFlight BY <1>1 DEF SameWay
<1>3. b = IF id \in Ids(a) /\ a.current = id /\ Registered(a, id).close
             /\ failed.inFlight /\ ~CardOutputPending(failed)
            THEN ResumesOverflow(failed) ELSE failed
  BY DEF UploadRefused
<1>4. CASE b = ResumesOverflow(failed) BY <1>2, <1>4, ResumesRetires
<1>5. CASE b = failed /\ (id \notin Ids(a) \/ a.current # id)
  <2>1. \A y \in a.outstanding : y.id = id => y.kind # "card" /\ ~(y.id = a.current /\ y.close)
    BY <1>5 DEF Ids, Uploading
  <2> QED BY <1>5, <2>1, ResolveRetires
<1>6. CASE b = failed /\ id \in Ids(a) /\ ~Registered(a, id).close
  <2>1. \A y \in a.outstanding : y.id = id => y.kind # "card" /\ ~(y.id = a.current /\ y.close)
    BY <1>6, RegisteredIs DEF Counted
  <2> QED BY <1>6, <2>1, ResolveRetires
<1>7. CASE b = failed /\ (a.inFlight => CardOutputPending(failed))
  <2> HIDE DEF failed
  <2>1. a.inFlight => Minded(b) BY <1>7, RetiredMinded DEF Retired
  <2> QED BY <1>1, <1>2, <1>7, <2>1, StaysMinded
<1> QED BY <1>2, <1>3, <1>4, <1>5, <1>6, <1>7

LEMMA ReleaseRetires ==
  ASSUME NEW a, Whole(a), NEW o, NEW b, b = RetentionRelease(a, o)
  PROVE  Whole(b) /\ (Minded(a) => Minded(b))
<1> DEFINE c == [a EXCEPT !.checkClose = FALSE, !.checkOverflow = FALSE]
           u == IF a.visible THEN [c EXCEPT !.retention.elsewhere = a.retention.exported] ELSE c
           save == [Output(TRUE, Plain) EXCEPT !.action = a.recovery]
           v == [u EXCEPT !.recovery = 0, !.inFlight = TRUE]
           w == Post(v, save)
           x == [c EXCEPT !.recovery = 0]
<1>1. b = IF ~a.checkClose /\ ~a.checkOverflow THEN a
          ELSE IF o.ok THEN Dismiss(x)
          ELSE IF a.checkOverflow /\ a.recovery # 0 THEN Register(w, a.recovery, "card", TRUE)
          ELSE u
  BY DEF RetentionRelease
<1>2. /\ Whole(c) /\ c.visible = a.visible /\ c.shown = a.shown /\ c.outstanding = a.outstanding
      /\ c.current = a.current /\ c.deferredSave = a.deferredSave /\ Occupied(a, c)
      /\ c.deferredOverflow = a.deferredOverflow /\ c.recovery = a.recovery /\ c.checkOverflow = FALSE
  BY DEF Whole, Names, Occupied
<1> HIDE DEF c, save
<1>3. Alike(c, u) /\ Occupied(c, u) BY <1>2 DEF Whole, Names, Alike, Occupied
<1>4. Whole(x) BY <1>2 DEF Whole, Names
<1> HIDE DEF u, x
<1>5. Whole(v) BY <1>3 DEF Alike, Whole, Names
<1> HIDE DEF v
<1>6. Whole(w) BY <1>5, PostAlike DEF Alike
<1> HIDE DEF w
<1>7. CASE b = a BY <1>7
<1>8. CASE b = Dismiss(x) BY <1>4, <1>8, DismissMinded
<1>9. CASE b = Register(w, a.recovery, "card", TRUE)
  <2>1. Adds(w, b, a.recovery, "card", TRUE) BY <1>6, <1>9, RegisterAdds
  <2> QED BY <2>1, AddsRetires, RetiredMinded DEF Adds
<1>10. CASE b = u /\ ~(a.checkOverflow /\ a.recovery # 0)
  <2>1. Retired(a) => Retired(c)
    BY <1>2, <1>10 DEF Retired, CardOutputPending, UploadCloses
  <2>2. Minded(a) => Minded(c) BY <1>2, <2>1 DEF Minded, Occupied, Busy, Editing
  <2> QED BY <1>3, <1>10, <2>2, AlikeRetired DEF Alike
<1> QED BY <1>1, <1>7, <1>8, <1>9, <1>10

LEMMA OpenedRetires ==
  ASSUME NEW a \in Apps, Whole(a), NEW o, NEW b, b = Opened(a, o)
  PROVE  Whole(b) /\ (Minded(a) => Minded(b))
<1> DEFINE e == [phase |-> "asked", version |-> Version(a.nextGen, 0)]
           n == a.nextGen + 1
           k == a.editorOnly \/ o.ok
           c == [a EXCEPT !.editor = e, !.nextGen = n, !.editorOnly = k]
<1>1. b = c BY DEF Opened
<1>2. e.phase = "asked" OBVIOUS
<1> HIDE DEF e, n, k
<1>3. Alike(a, c) /\ c.editor = e BY DEF Whole, Names, Alike
<1> HIDE DEF c
<1>4. Busy(c) BY <1>2, <1>3 DEF Busy, Editing
<1>5. Retired(c) <=> Retired(a) BY <1>3, AlikeRetired
<1> QED BY <1>1, <1>3, <1>4, <1>5 DEF Alike, Minded

\* an editor that ends its session lets go of what waited for it
LEMMA OpenRefusedRetires ==
  ASSUME NEW a, Whole(a), NEW b, b = OpenRefused(a)
  PROVE  Whole(b) /\ (Minded(a) => Minded(b))
<1> DEFINE f == [a EXCEPT !.editorOnly = FALSE]
           shut == IF a.editorOnly THEN Post(f, Job("release")) ELSE a
           c == [shut EXCEPT !.opening = FALSE]
<1>1. CASE ~a.opening
  <2>1. b = a BY <1>1 DEF OpenRefused
  <2> QED BY <2>1
<1>2. CASE a.opening
  <2>1. b = Settles(c, Plain) BY <1>2 DEF OpenRefused, Settles
  <2>2. Alike(a, f) BY DEF Whole, Names, Alike
  <2> HIDE DEF f
  <2>3. Alike(f, Post(f, Job("release"))) BY <2>2, PostAlike DEF Alike
  <2>4. Alike(a, shut) BY <2>2, <2>3 DEF Alike
  <2> HIDE DEF shut
  <2>5. Alike(shut, c) BY <2>4 DEF Whole, Names, Alike
  <2> HIDE DEF c
  <2>6. Minded(a) => Deferring(a) BY DEF Minded, Deferring
  <2>7. Minded(a) => Deferring(c) BY <2>4, <2>5, <2>6, AlikeRetired
  <2>8. Whole(b) /\ (Deferring(c) => Provided(b)) BY <2>1, <2>5, SettlesRetires DEF Alike
  <2> QED BY <2>7, <2>8 DEF Provided, Minded
<1> QED BY <1>1, <1>2

LEMMA FinalizedRetires ==
  ASSUME NEW a, Whole(a), NEW o, NEW b, b = Finalized(a, o)
  PROVE  Whole(b) /\ (Minded(a) => Minded(b))
<1> DEFINE owned == a.visible \/ a.opening \/ Active(a) \/ a.editorOnly \/ a.deferredSave
           s == [a EXCEPT !.finalizing = FALSE]
           f == IF owned THEN [s EXCEPT !.filed = @ \/ o.filed] ELSE Post(s, Job("release"))
           n == [elsewhere |-> o.elsewhere, exported |-> o.export]
           kept == IF a.visible THEN [f EXCEPT !.retention = n] ELSE f
           saved == RunsDeferredSave(kept, o.export)
           closed == IF CardOutputPending(saved) THEN saved ELSE RunsDeferredClose(saved, Plain)
<1>1. b = IF Active(a) \/ a.opening THEN saved ELSE RunsDeferredOverflow(closed, Plain)
  BY DEF Finalized
<1>2. Alike(a, s) /\ s.opening = a.opening /\ s.editor = a.editor BY DEF Whole, Names, Alike
<1> HIDE DEF s, owned, n
<1>3. Alike(s, f) /\ f.opening = s.opening /\ f.editor = s.editor
  <2> DEFINE t == s.filed \/ o.filed
  <2>1. f = [s EXCEPT !.filed = t] \/ f = Post(s, Job("release")) OBVIOUS
  <2> HIDE DEF f, t
  <2> QED BY <1>2, <2>1 DEF Whole, Names, Alike, Post
<1> HIDE DEF f
<1>4. Alike(f, kept) /\ kept.opening = f.opening /\ kept.editor = f.editor
  BY <1>3 DEF Whole, Names, Alike
<1> HIDE DEF kept
<1>5. /\ Alike(a, kept) /\ kept.opening = a.opening /\ kept.editor = a.editor
  BY <1>2, <1>3, <1>4 DEF Alike
<1>6. (saved = kept /\ ~kept.deferredSave) \/ (Whole(saved) /\ Provided(saved) /\ (saved.visible => kept.visible))
  <2> DEFINE asked == [kept EXCEPT !.deferredSave = FALSE]
  <2>1. Whole(asked) /\ asked.visible = kept.visible /\ ~asked.deferredSave
    BY <1>5 DEF Whole, Names, Alike
  <2>2. saved = IF ~kept.deferredSave THEN kept
                ELSE IF o.export THEN Dismiss(asked) ELSE SavesAndCloses(asked, Plain)
    BY DEF RunsDeferredSave
  <2> HIDE DEF saved, asked
  <2>3. CASE saved = Dismiss(asked) BY <2>1, <2>3, DismissGone DEF Provided
  <2>4. CASE saved = SavesAndCloses(asked, Plain)
    <3>1. Adds(asked, saved, asked.nextAction, "card", TRUE)
      BY <2>1, <2>4, DispatchAdds DEF SavesAndCloses
    <3> QED BY <2>1, <3>1, AddsRetires DEF Adds, Provided
  <2> QED BY <2>2, <2>3, <2>4
<1> HIDE DEF saved
<1>7. Whole(kept) BY <1>5 DEF Alike
<1>8. Minded(a) => Deferring(kept)
  <2>1. Minded(a) => Deferring(a) BY DEF Minded, Deferring
  <2> QED BY <1>5, <2>1, AlikeRetired
<1>9. Whole(saved) /\ (Minded(a) => Deferring(saved))
  BY <1>6, <1>7, <1>8 DEF Provided, Deferring
<1>10. CASE Active(a) \/ a.opening
  <2>1. b = saved BY <1>1, <1>10
  <2>2. Busy(kept) BY <1>5, <1>10 DEF Busy, Active, Editing
  <2>3. Minded(a) => Minded(kept) BY <1>8, <2>2 DEF Deferring, Minded
  <2> QED BY <1>6, <1>9, <2>1, <2>3 DEF Provided, Minded
<1>11. CASE ~(Active(a) \/ a.opening)
  <2>1. Whole(closed) /\ (Deferring(saved) => Deferring(closed)) BY <1>9, RunsCloseRetires
  <2>2. b = RunsDeferredOverflow(closed, Plain) BY <1>1, <1>11
  <2> HIDE DEF closed
  <2>3. Whole(b) /\ (Deferring(closed) => Provided(b)) BY <2>1, <2>2, RunsOverflowRetires
  <2> QED BY <1>9, <2>1, <2>3 DEF Provided, Minded
<1> QED BY <1>10, <1>11

\* a handler that leaves what retires the card, and who keeps it busy, alone
LEMMA SameMinds ==
  ASSUME NEW a, NEW b, Alike(a, b), Occupied(a, b)
  PROVE  Whole(b) /\ (Minded(a) => Minded(b))
BY AlikeRetired DEF Alike

Same(a, b) == Alike(a, b) /\ Occupied(a, b)

LEMMA CloseAlike ==
  ASSUME NEW a, Whole(a), NEW c, NEW d, NEW b, b = [a EXCEPT !.close = c, !.closed = d]
  PROVE  Same(a, b)
BY DEF Whole, Names, Same, Alike, Occupied

LEMMA ResolveCloseAlike ==
  ASSUME NEW a, Whole(a), NEW b, b = ResolveClose(a) PROVE Same(a, b)
<1>1. \/ b = [a EXCEPT !.close = None, !.closed = "failed"]
      \/ b = [a EXCEPT !.close = None, !.closed = "committed"] \/ b = a
  BY DEF ResolveClose
<1>2. CASE b = a BY <1>2 DEF Same, Alike, Occupied
<1> QED BY <1>1, <1>2, CloseAlike

LEMMA SameTwice ==
  ASSUME NEW a, NEW b, NEW c, Same(a, b), Same(b, c) PROVE Same(a, c)
BY DEF Same, Alike, Occupied

LEMMA ClosesAlike ==
  ASSUME NEW a, Whole(a), NEW m, NEW c, c = [a EXCEPT !.close = m], NEW b, b = ResolveClose(c)
  PROVE  Same(a, b)
<1>1. Same(a, c) BY DEF Whole, Names, Same, Alike, Occupied
<1>2. Whole(c) BY <1>1 DEF Same, Alike
<1>3. Same(c, b) BY <1>2, ResolveCloseAlike
<1> QED BY <1>1, <1>3, SameTwice

LEMMA CommitDoneAlike ==
  ASSUME NEW a, Whole(a), NEW o, NEW b, b = CommitDone(a, o) PROVE Same(a, b)
<1> DEFINE m == [a.close EXCEPT !.commit = "ok", !.unsaved = FALSE]
           acked == [a EXCEPT !.close.commit = "ok", !.close.unsaved = FALSE]
           j == [Job("persist") EXCEPT !.version = o.version]
           sent == IF a.close.unsaved THEN Post(acked, j) ELSE acked
<1>1. b = IF Closing(a, o) THEN ResolveClose(sent) ELSE a BY DEF CommitDone
<1>2. Same(a, acked) BY DEF Whole, Names, Same, Alike, Occupied
<1>3. Whole(acked) BY <1>2 DEF Same, Alike
<1> HIDE DEF acked, j
<1>4. sent = acked \/ Same(acked, sent) BY <1>3, PostAlike DEF Same
<1>5. Same(a, sent) BY <1>2, <1>4, SameTwice
<1> HIDE DEF sent
<1>6. Same(sent, ResolveClose(sent)) BY <1>5, ResolveCloseAlike DEF Same, Alike
<1>7. Same(a, a) BY DEF Same, Alike, Occupied
<1> QED BY <1>1, <1>5, <1>6, <1>7, SameTwice

LEMMA CommitFailedAlike ==
  ASSUME NEW a, Whole(a), NEW o, NEW b, b = CommitFailed(a, o) PROVE Same(a, b)
<1> DEFINE f == [a.fates EXCEPT ![o.version.gen] = Open]
           u == [a EXCEPT !.fates = f]
           undone == IF a.fates[o.version.gen] = Committed(o.version.rev) THEN u ELSE a
           m == [undone.close EXCEPT !.commit = "failed"]
           c == [undone EXCEPT !.close = m]
<1>1. b = IF Closing(a, o) THEN ResolveClose(c) ELSE undone BY DEF CommitFailed
<1> HIDE DEF f
<1>2. Same(a, u) BY DEF Whole, Names, Same, Alike, Occupied
<1>3. Same(a, a) BY DEF Same, Alike, Occupied
<1> HIDE DEF u
<1>4. Same(a, undone) BY <1>2, <1>3
<1> HIDE DEF undone, m
<1>5. Same(undone, ResolveClose(c)) BY <1>4, ClosesAlike DEF Same, Alike
<1> QED BY <1>1, <1>4, <1>5, SameTwice

LEMMA PersistedAlike ==
  ASSUME NEW a, Whole(a), NEW o, NEW b, b = Persisted(a, o) PROVE Same(a, b)
<1> DEFINE m == [a.close EXCEPT !.persist = IF o.ok THEN "ok" ELSE "failed"]
           c == [a EXCEPT !.close = m]
<1>1. b = IF Closing(a, o) THEN ResolveClose(c) ELSE a BY DEF Persisted
<1> HIDE DEF m
<1>2. Same(a, a) BY DEF Same, Alike, Occupied
<1>3. Same(a, ResolveClose(c)) BY ClosesAlike
<1> QED BY <1>1, <1>2, <1>3

LEMMA SteadyWhole ==
  ASSUME NEW a, Steady(a) PROVE a \in Apps /\ Whole(a) /\ Counted(a) /\ a.outstanding \subseteq Outs
<1>1. a \in Apps /\ Counted(a) BY DEF Steady
<1>2. Whole(a) BY <1>1 DEF Apps, Whole, Names
<1> QED BY <1>1, <1>2 DEF Apps

\* the card is left where it is, out of sight, and nothing is to retire it
Leaks(a, h) ==
  \/ Abandons(a) /\ \/ h.what \in {"output refused", "upload refused"}
                    \/ h.what = "done" /\ Stale(a, h.version)
  \/ h.what = "upload done" /\ Stale(a, h.version) /\ a.visible /\ ~a.shown

LEMMA TakesRetires ==
  ASSUME NEW a, Steady(a), NEW q, NEW t, NEW e, NEW h, Telling(a, q, t, e, h),
         NEW b, b = Takes(a, h)
  PROVE  Whole(b) /\ (Minded(a) => Minded(b) \/ Leaks(a, h))
<1>1. a \in Apps /\ Whole(a) /\ Counted(a) /\ a.outstanding \subseteq Outs BY SteadyWhole
<1>2. h.what \in Whats BY DEF Telling, OutcomeShape
<1>3. CASE h.what = "finalized"
  <2>1. b = Finalized(a, h) BY <1>3 DEF Takes
  <2> QED BY <1>1, <2>1, FinalizedRetires
<1>4. CASE h.what = "opened"
  <2>1. b = Opened(a, h) BY <1>4 DEF Takes
  <2> QED BY <1>1, <2>1, OpenedRetires
<1>5. CASE h.what = "refused"
  <2>1. b = OpenRefused(a) BY <1>5 DEF Takes
  <2> QED BY <1>1, <2>1, OpenRefusedRetires
<1>6. CASE h.what = "done"
  <2>1. b = Done(a, h) BY <1>6 DEF Takes
  <2> QED BY <1>1, <1>6, <2>1, DoneRetires DEF Leaks
<1>7. CASE h.what = "output refused"
  <2>1. b = OutputRefused(a, h) BY <1>7 DEF Takes
  <2>2. Exporting(a, h.action) BY <1>7 DEF Telling, Exported
  <2> QED BY <1>1, <1>7, <2>1, <2>2, OutputRefusedRetires DEF Leaks
<1>8. CASE h.what = "upload done"
  <2>1. b = UploadDone(a, h) BY <1>8 DEF Takes
  <2>2. Uploading(a, h.action) BY <1>8 DEF Telling, Uploaded
  <2> QED BY <1>1, <1>8, <2>1, <2>2, UploadDoneRetires DEF Leaks
<1>9. CASE h.what = "upload refused"
  <2>1. b = UploadRefused(a, h) BY <1>9 DEF Takes
  <2>2. Uploading(a, h.action) BY <1>9 DEF Telling, Uploaded
  <2> QED BY <1>1, <1>9, <2>1, <2>2, UploadRefusedRetires DEF Leaks
<1>10. CASE h.what = "retention"
  <2>1. b = RetentionRelease(a, h) BY <1>10 DEF Takes
  <2> QED BY <1>1, <2>1, ReleaseRetires
<1>11. CASE h.what = "committed"
  <2>1. b = CommitDone(a, h) BY <1>11 DEF Takes
  <2> QED BY <1>1, <2>1, CommitDoneAlike, SameMinds DEF Same
<1>12. CASE h.what = "commit failed"
  <2>1. b = CommitFailed(a, h) BY <1>12 DEF Takes
  <2> QED BY <1>1, <2>1, CommitFailedAlike, SameMinds DEF Same
<1>13. CASE h.what = "persist"
  <2>1. b = Persisted(a, h) BY <1>13 DEF Takes
  <2> QED BY <1>1, <2>1, PersistedAlike, SameMinds DEF Same
<1> QED BY <1>2, <1>3, <1>4, <1>5, <1>6, <1>7, <1>8, <1>9, <1>10, <1>11, <1>12, <1>13 DEF Whats

-----------------------------------------------------------------------------

\* the handler has run
LEMMA RunMinds ==
  ASSUME NEW b, Whole(b), Runs(b) PROVE Minded(b) => Minded(app')
<1>1. app' = [b EXCEPT !.posted = <<>>] BY DEF Runs
<1>2. Alike(b, app') /\ Occupied(b, app') BY <1>1 DEF Whole, Names, Alike, Occupied
<1> QED BY <1>2, AlikeRetired

LEMMA CopyMinds == ASSUME Whole(app), CopyCard PROVE Minded(app')
<1> DEFINE j == Output(FALSE, Edited(app))
           b == Dispatch(app, "card", TRUE, j)
<1>1. Runs(b) BY DEF CopyCard, Asks
<1> HIDE DEF j
<1>2. Adds(app, b, app.nextAction, "card", TRUE) BY DispatchAdds
<1> HIDE DEF b
<1>3. Whole(b) /\ Minded(b) BY <1>2, AddsRetires, RetiredMinded DEF Adds
<1> QED BY <1>1, <1>3, RunMinds

LEMMA SaveMinds == ASSUME Whole(app), SaveCard PROVE Minded(app')
<1> DEFINE v == Edited(app)
           d == [app EXCEPT !.deferredSave = TRUE]
           s == SavesAndCloses(app, v)
           b == IF app.retention.exported /\ v = Plain THEN Dismiss(app) ELSE s
<1>1. Runs(d) \/ Runs(b) BY DEF SaveCard, Asks
<1> HIDE DEF v
<1>2. Whole(d) /\ Minded(d) BY DEF Whole, Names, Minded, Retired
<1>3. Whole(s) /\ Minded(s)
  <2>1. Adds(app, s, app.nextAction, "card", TRUE) BY DispatchAdds DEF SavesAndCloses
  <2> QED BY <2>1, AddsRetires, RetiredMinded DEF Adds
<1>4. Whole(b) /\ Minded(b) BY <1>3, DismissMinded
<1> HIDE DEF b, d
<1> QED BY <1>1, <1>2, <1>4, RunMinds

LEMMA SaveAsMinds == ASSUME Whole(app), SaveCardAs PROVE Minded(app')
<1> DEFINE d == [id |-> app.nextAction, version |-> Edited(app)]
<1>0. PICK close : close = TRUE OBVIOUS
<1>1. PICK r : r = Register(app, app.nextAction, "card", close) OBVIOUS
<1> DEFINE b == [r EXCEPT !.nextAction = @ + 1, !.dialog = d]
<1>2. Runs(b) BY <1>0, <1>1 DEF SaveCardAs, Asks
<1> HIDE DEF d
<1>3. Adds(app, r, app.nextAction, "card", close) /\ r.nextAction = app.nextAction
  BY <1>1, RegisterAdds
<1>4. Retired(r) /\ Whole(r) BY <1>3, AddsRetires DEF Adds
<1> DEFINE n == r.nextAction + 1
<1>5. n \in Nat \ {0} /\ b = [r EXCEPT !.nextAction = n, !.dialog = d]
  BY <1>4 DEF Whole
<1> HIDE DEF n, b
<1>6. Alike(r, b) BY <1>4, <1>5 DEF Whole, Names, Alike
<1>7. Whole(b) /\ Minded(b) BY <1>4, <1>6, AlikeRetired, RetiredMinded DEF Alike
<1> QED BY <1>2, <1>7, RunMinds

LEMMA UploadMinds == ASSUME Whole(app), UploadCard PROVE Minded(app')
<1> DEFINE c == [app EXCEPT !.current = 0]
           j == Upload(Edited(app))
<1>1. PICK close \in BOOLEAN : Runs(Dispatch(c, "upload", close, j)) BY DEF UploadCard, Asks
<1>2. Whole(c) /\ c.shown BY DEF UploadCard, Whole, Names
<1> HIDE DEF j, c
<1> DEFINE b == Dispatch(c, "upload", close, j)
<1>3. Adds(c, b, c.nextAction, "upload", close) BY <1>2, DispatchAdds
<1> HIDE DEF b
<1>4. Whole(b) /\ Minded(b) BY <1>2, <1>3 DEF Adds, Minded
<1> QED BY <1>1, <1>4, RunMinds DEF b

LEMMA TimerMinds == ASSUME Whole(app), CloseTimer PROVE Minded(app')
<1>1. PICK how \in {"hide", "save"} :
        \/ Runs([app EXCEPT !.deferredClose = how]) \/ Runs(app)
        \/ Runs(AutoClose(app, how, Edited(app)))
  BY DEF CloseTimer, Asks
<1> DEFINE d == [app EXCEPT !.deferredClose = how]
           b == AutoClose(app, how, Edited(app))
<1>2. app.shown BY DEF CloseTimer
<1>3. Whole(d) /\ Minded(d) BY <1>2 DEF Whole, Names, Minded
<1>4. Minded(app) BY <1>2 DEF Minded
<1>5. Whole(b) /\ Minded(b) BY <1>2, AutoCloseRetires DEF Minded
<1> HIDE DEF d, b
<1>6. Runs(d) \/ Runs(app) \/ Runs(b) BY <1>1 DEF d, b
<1> QED BY <1>3, <1>4, <1>5, <1>6, RunMinds

LEMMA DismissMinds == ASSUME Whole(app), DismissCard PROVE Minded(app')
<1> DEFINE g == [app EXCEPT !.shown = FALSE]
<1>1. (Runs(g) /\ CardOutputPending(app)) \/ Runs(Dismiss(g)) BY DEF DismissCard, Asks
<1>2. Whole(g) /\ g.outstanding = app.outstanding BY DEF Whole, Names
<1> HIDE DEF g
<1>3. CardOutputPending(app) => Minded(g)
  BY <1>2, RetiredMinded DEF Retired, CardOutputPending
<1>4. Whole(Dismiss(g)) /\ Minded(Dismiss(g)) BY <1>2, DismissMinded
<1> QED BY <1>1, <1>2, <1>3, <1>4, RunMinds

LEMMA OverflowMinds == ASSUME Whole(app), OverflowCard PROVE Minded(app')
<1> DEFINE g == [app EXCEPT !.shown = FALSE]
           d == [g EXCEPT !.deferredOverflow = TRUE]
           b == Overflow(g, Edited(app))
<1>1. \/ Runs(d) /\ (app.finalizing \/ Active(app) \/ app.opening)
      \/ Runs(b)
  BY DEF OverflowCard, Asks
<1>2. Whole(g) /\ Occupied(app, g) BY DEF Whole, Names, Occupied
<1> HIDE DEF g
<1>3. Whole(d) /\ d.deferredOverflow /\ Occupied(app, d) BY <1>2 DEF Whole, Names, Occupied
<1>4. app.finalizing \/ Active(app) \/ app.opening => Minded(d)
  BY <1>3 DEF Minded, Busy, Occupied, Active, Editing
<1>5. Whole(b) /\ Minded(b)
  <2>1. Whole(b) /\ (b.visible => Retired(b)) BY <1>2, OverflowRetires
  <2> QED BY <2>1 DEF Minded
<1> HIDE DEF d, b
<1> QED BY <1>1, <1>3, <1>4, <1>5, RunMinds

LEMMA DropMinds == ASSUME Whole(app), DropCard PROVE Minded(app')
<1>1. Runs(Dismiss(app)) BY DEF DropCard, Asks
<1>2. Whole(Dismiss(app)) /\ Minded(Dismiss(app)) BY DismissMinded
<1> QED BY <1>1, <1>2, RunMinds

LEMMA OpenMinds == ASSUME Whole(app), OpenCard PROVE Minded(app')
<1> DEFINE c == [app EXCEPT !.opening = TRUE]
           b == Post(c, Job("open"))
<1>1. Runs(b) /\ app.shown BY DEF OpenCard, Asks
<1>2. Whole(c) /\ c.shown BY <1>1 DEF Whole, Names
<1> HIDE DEF c
<1>3. Whole(b) /\ b.shown BY <1>2, PostAlike DEF Alike
<1> HIDE DEF b
<1>4. Minded(b) BY <1>3 DEF Minded
<1> QED BY <1>1, <1>3, <1>4, RunMinds

LEMMA CardMinds == ASSUME Whole(app), CardEvents PROVE Minded(app')
BY CopyMinds, SaveMinds, SaveAsMinds, UploadMinds, TimerMinds, DismissMinds, OverflowMinds,
   DropMinds, OpenMinds DEF CardEvents

LEMMA DialogMinds ==
  ASSUME Whole(app), AnswersDialog
  PROVE  Minded(app) => Minded(app') \/ Abandons(app)
<1> DEFINE s == [app EXCEPT !.dialog = None]
           j == [Output(TRUE, app.dialog.version) EXCEPT !.action = app.dialog.id]
           p == Post(s, j)
           c == Resolve(s, app.dialog.id)
           d == [c EXCEPT !.inFlight = FALSE]
           b == IF app.inFlight THEN Dismiss(d) ELSE c
<1>1. Runs(p) \/ Runs(b) BY DEF AnswersDialog
<1>2. Same(app, s) /\ s.inFlight = app.inFlight BY DEF Whole, Names, Same, Alike, Occupied
<1>3. Whole(s) BY <1>2 DEF Same, Alike
<1> HIDE DEF s, j
<1>4. Same(s, p) BY <1>3, PostAlike DEF Same
<1>5. Whole(p) /\ (Minded(app) => Minded(p)) BY <1>2, <1>4, SameTwice, SameMinds DEF Same
<1> HIDE DEF p
<1>6. SameWay(s, c) BY <1>3, ResolveKeeps
<1>7. SameWay(app, c) BY <1>2, <1>6 DEF SameWay, Same, Alike, Occupied
<1> HIDE DEF c
<1>8. Whole(d) BY <1>7 DEF SameWay, Whole, Names
<1> HIDE DEF d
<1>9. CASE app.inFlight
  <2>1. Whole(b) /\ Minded(b) BY <1>8, <1>9, DismissMinded
  <2> HIDE DEF b
  <2> QED BY <1>1, <1>5, <2>1, RunMinds
<1>10. CASE ~app.inFlight
  <2>1. b = c /\ Whole(c) BY <1>7, <1>10 DEF SameWay
  <2>2. Minded(c) \/ Abandons(app) BY <1>7, <1>10, StaysMinded
  <2> HIDE DEF b
  <2> QED BY <1>1, <1>5, <2>1, <2>2, RunMinds
<1> QED BY <1>9, <1>10

LEMMA WindowMinds ==
  ASSUME app \in Apps, Whole(app), ShowsEditor PROVE Minded(app) => Minded(app')
<1> DEFINE e == [app.editor EXCEPT !.phase = "open"]
           b == [app EXCEPT !.editor = e, !.opening = FALSE]
<1>1. Runs(b) BY DEF ShowsEditor
<1>2. e.phase = "open" BY DEF Apps
<1> HIDE DEF e
<1>3. Alike(app, b) /\ Busy(b) BY <1>2 DEF Whole, Names, Alike, Busy, Editing
<1> HIDE DEF b
<1>4. Whole(b) /\ (Minded(app) => Minded(b)) BY <1>3, AlikeRetired DEF Alike, Minded
<1> QED BY <1>1, <1>4, RunMinds

LEMMA EditMinds ==
  ASSUME app \in Apps, Whole(app), Edits PROVE Minded(app) => Minded(app')
<1> DEFINE v == [app.editor.version EXCEPT !.rev = @ + 1]
           e == [app.editor EXCEPT !.version = v]
           b == [app EXCEPT !.editor = e]
<1>1. Runs(b) BY DEF Edits, Asks
<1>2. e.phase = app.editor.phase BY DEF Apps
<1> HIDE DEF e
<1>3. Same(app, b) BY <1>2 DEF Whole, Names, Same, Alike, Occupied
<1> HIDE DEF b
<1>4. Whole(b) /\ (Minded(app) => Minded(b)) BY <1>3, SameMinds DEF Same
<1> QED BY <1>1, <1>4, RunMinds

LEMMA EditorOutputMinds ==
  ASSUME Whole(app), CopyInEditor \/ SaveInEditor PROVE Minded(app) => Minded(app')
<1>0. PICK close : close = FALSE OBVIOUS
<1>1. PICK x \in BOOLEAN : Runs(Dispatch(app, "editor", close, Output(x, Edited(app))))
  BY <1>0 DEF CopyInEditor, SaveInEditor, Asks
<1> DEFINE j == Output(x, Edited(app))
           b == Dispatch(app, "editor", close, j)
<1>2. Runs(b) BY <1>1
<1> HIDE DEF j
<1>3. Adds(app, b, app.nextAction, "editor", close) /\ Occupied(app, b) BY DispatchAdds
<1> HIDE DEF b
<1>4. Whole(b) BY <1>3 DEF Adds
<1>5. "editor" # "upload" OBVIOUS
<1>6. Minded(app) => Minded(b) BY <1>3, <1>5, AddsRetires
<1> QED BY <1>2, <1>4, <1>6, RunMinds

\* the session is over: what waited for it has run
LEMMA ClosedMinds ==
  ASSUME NEW a, Whole(a), NEW committed \in BOOLEAN, NEW b, b = EditorClosed(a, committed)
  PROVE  Whole(b) /\ (Minded(a) => Minded(b))
<1> DEFINE f == [a.fates EXCEPT ![a.editor.version.gen] = Cancelled]
           c == [a EXCEPT !.fates = f]
           told == IF committed THEN a ELSE PruneFates(c)
           version == IF committed THEN Edited(a) ELSE Plain
           ran == Settles(told, version)
           n == [ran EXCEPT !.editorOnly = FALSE]
           freed == IF ran.editorOnly THEN Post(n, Job("release")) ELSE ran
<1>1. b = [freed EXCEPT !.opening = FALSE, !.editor = NoEditor] BY DEF EditorClosed, Settles
<1> HIDE DEF f, version
<1>2. Alike(a, a) BY DEF Alike
<1>3. Alike(a, c) BY DEF Whole, Names, Alike
<1> HIDE DEF c
<1>4. Alike(c, PruneFates(c))
  <2> DEFINE p == [c EXCEPT !.fates = NoFates]
  <2>1. PruneFates(c) = p \/ PruneFates(c) = c BY DEF PruneFates
  <2>2. Alike(c, p) BY <1>3 DEF Whole, Names, Alike
  <2>3. Alike(c, c) BY <1>3 DEF Alike
  <2> QED BY <2>1, <2>2, <2>3
<1>5. Alike(a, PruneFates(c)) BY <1>3, <1>4 DEF Alike
<1>6. Alike(a, told) BY <1>2, <1>5
<1> HIDE DEF told
<1>7. Minded(a) => Deferring(told)
  <2>1. Minded(a) => Deferring(a) BY DEF Minded, Deferring
  <2> QED BY <1>6, <2>1, AlikeRetired
<1>8. Whole(ran) /\ (Deferring(told) => Provided(ran)) BY <1>6, SettlesRetires DEF Alike
<1> HIDE DEF ran
<1>9. Alike(ran, n) BY <1>8 DEF Whole, Names, Alike
<1> HIDE DEF n
<1>10. Alike(n, Post(n, Job("release"))) BY <1>9, PostAlike DEF Alike
<1>11. Alike(ran, ran) BY <1>8 DEF Alike
<1>12. Alike(ran, freed) BY <1>9, <1>10, <1>11 DEF Alike
<1> HIDE DEF freed
<1>13. Alike(freed, b) BY <1>1, <1>12 DEF Whole, Names, Alike
<1>14. Whole(b) /\ (Provided(ran) => Provided(b)) BY <1>12, <1>13, AlikeRetired DEF Alike
<1> QED BY <1>7, <1>8, <1>14 DEF Provided, Minded

LEMMA CommitsMinds ==
  ASSUME NEW a, Whole(a), NEW b, b = CommitsEdit(a)
  PROVE  Whole(b) /\ (Minded(a) => Minded(b))
<1> DEFINE v == a.editor.version
           m == [only |-> a.editorOnly, commit |-> "waits", persist |-> "waits",
                 version |-> v, unsaved |-> TRUE]
           j == [Job("commit") EXCEPT !.version = v]
           c == [a EXCEPT !.close = m]
           d == Post(c, j)
           f == [d.fates EXCEPT ![v.gen] = Committed(v.rev)]
           g == [d EXCEPT !.retention = NoRetention, !.fates = f]
           p == [g EXCEPT !.fates = NoFates]
<1>1. b = PruneFates(g) BY DEF CommitsEdit
<1> HIDE DEF m, j
<1>2. Same(a, c) BY DEF Whole, Names, Same, Alike, Occupied
<1> HIDE DEF c
<1>3. Same(c, d) BY <1>2, PostAlike DEF Same, Alike
<1>4. Whole(d) BY <1>3 DEF Same, Alike
<1> HIDE DEF d, f
<1>5. Same(d, g) BY <1>4 DEF Whole, Names, Same, Alike, Occupied
<1>6. Same(a, g) BY <1>2, <1>3, <1>5, SameTwice
<1> HIDE DEF g
<1>7. Same(g, p) BY <1>6 DEF Whole, Names, Same, Alike, Occupied
<1>8. Same(a, p) BY <1>6, <1>7, SameTwice
<1>9. b = g \/ b = p BY <1>1 DEF PruneFates
<1>10. Same(a, b) BY <1>6, <1>8, <1>9
<1> QED BY <1>10, SameMinds DEF Same

LEMMA FinishMinds == ASSUME Whole(app), FinishesEditing PROVE Minded(app) => Minded(app')
<1>1. Runs(CommitsEdit(app)) \/ Runs(EditorClosed(app, TRUE)) BY DEF FinishesEditing
<1>2. CASE Runs(CommitsEdit(app)) BY <1>2, CommitsMinds, RunMinds
<1>3. CASE Runs(EditorClosed(app, TRUE)) BY <1>3, ClosedMinds, RunMinds
<1> QED BY <1>1, <1>2, <1>3

LEMMA CancelMinds == ASSUME Whole(app), CancelsEditing PROVE Minded(app) => Minded(app')
<1>1. Runs(EditorClosed(app, FALSE)) BY DEF CancelsEditing
<1> QED BY <1>1, ClosedMinds, RunMinds

LEMMA CloseMinds == ASSUME Whole(app), EndsClose PROVE Minded(app) => Minded(app')
<1> DEFINE c == [app EXCEPT !.closed = None]
<1>1. Runs(EditorClosed(c, TRUE)) \/ Runs(c) BY DEF EndsClose
<1>2. Same(app, c) BY DEF Whole, Names, Same, Alike, Occupied
<1>3. Whole(c) /\ (Minded(app) => Minded(c)) BY <1>2, SameMinds DEF Same
<1> HIDE DEF c
<1>4. CASE Runs(EditorClosed(c, TRUE)) BY <1>3, <1>4, ClosedMinds, RunMinds
<1>5. CASE Runs(c) BY <1>3, <1>5, RunMinds
<1> QED BY <1>1, <1>4, <1>5

LEMMA TakesMinds ==
  ASSUME Running, TakesOutcome PROVE Minded(app) => Minded(app') \/ Strands
<1> DEFINE h == Head(outcomes)
           b == Takes(app, h)
<1>1. outcomes # <<>> /\ Runs(b) BY DEF TakesOutcome
<1>2. Steady(app) /\ Telling(app, jobs, Tail(outcomes), ended, h)
  BY <1>1, TailAgreed DEF Running, Served
<1>3. b = Takes(app, h) OBVIOUS
<1> HIDE DEF b, h
<1>4. Whole(b) /\ (Minded(app) => Minded(b) \/ Leaks(app, h)) BY <1>2, <1>3, TakesRetires
<1>5. Minded(b) => Minded(app') BY <1>1, <1>4, RunMinds
<1>6. Leaks(app, h) => Strands BY DEF Leaks, Abandons, Strands, Abandoned, Hears, h
<1> QED BY <1>4, <1>5, <1>6

LEMMA StepMinds ==
  ASSUME Running, Next PROVE Minded(app) => Minded(app') \/ Strands
<1>1. app \in Apps /\ Whole(app) BY RunningHandled, SteadyWhole
<1>2. CASE TakesOutcome BY <1>2, TakesMinds
<1>3. CASE CardEvents BY <1>1, <1>3, CardMinds
<1>4. CASE AnswersDialog
  <2>1. Abandons(app) => Strands BY <1>4 DEF Abandons, Abandoned, Strands
  <2> QED BY <1>1, <1>4, <2>1, DialogMinds
<1>5. CASE ShowsEditor BY <1>1, <1>5, WindowMinds
<1>6. CASE EditorEvents
  BY <1>1, <1>6, EditMinds, EditorOutputMinds, FinishMinds, CancelMinds DEF EditorEvents
<1>7. CASE EndsClose BY <1>1, <1>7, CloseMinds
<1>8. CASE Worker \/ UploadWorker
  <2>1. app' = app BY <1>8 DEF Worker, UploadWorker
  <2> QED BY <2>1
<1> QED BY <1>2, <1>3, <1>4, <1>5, <1>6, <1>7, <1>8 DEF Next

\* while the main thread runs, owing the pixels and minding the card are the same
LEMMA OwedMinded ==
  ASSUME Running, Owed PROVE Minded(app)
<1>1. CASE ~app.visible BY <1>1 DEF Minded
<1>2. CASE app.visible
  <2>1. ~app.editorOnly BY <1>2 DEF Running, Served, Steady, Adopted
  <2>2. ~Releasing BY <1>2 DEF Running, Served, Agreed, Releasable, Releasing
  <2>3. ~Announced
    <3>1. \A i \in DOMAIN outcomes : outcomes[i] \in OutcomeShape
      BY DEF Running, Served, Agreed, Messages
    <3> QED BY <3>1 DEF OutcomeShape, Whats, Announced
  <2> QED BY <1>2, <2>1, <2>2, <2>3 DEF Owed, Awaited, Minded, Retired, Busy, Editing
<1> QED BY <1>1, <1>2

Minding == /\ Beginning => Owed
           /\ Running /\ Minded(app) /\ Held => Owed

LEMMA MindingHolds == Minding
<1>1. Beginning => Owed BY BeginningFollows
<1>2. Running /\ Minded(app) /\ Held => Owed
  BY RunningFollows DEF Minded, Owed, Awaited, Retired, Busy, Editing
<1> QED BY <1>1, <1>2 DEF Minding

LEMMA OwedStep ==
  ASSUME IInv, Next, Minding', Owed, Held' PROVE Owed' \/ Strands
<1>1. CASE Beginning
  <2>1. Beginning' \/ (Running' /\ Starting(app')) BY <1>1, FirstStep
  <2>2. Starting(app') => Minded(app') BY DEF Starting, Blank, Minded
  <2>3. Minded(app') => (Minded(app))' OBVIOUS
  <2> QED BY <2>1, <2>2, <2>3 DEF Minding
<1>2. CASE Running
  <2>1. Running' BY <1>2, GoesOn
  <2>2. Minded(app') \/ Strands BY <1>2, OwedMinded, StepMinds
  <2>3. Minded(app') => (Minded(app))' OBVIOUS
  <2> QED BY <2>1, <2>2, <2>3 DEF Minding
<1> QED BY <1>1, <1>2, GoingIs DEF IInv

-----------------------------------------------------------------------------
\* The vault follows whoever owns the pixels, for every number of sessions and
\* edits: an editor finds them there, a card the user sees loses them only when
\* the main thread is about to be told, and while they are kept somebody is
\* still to use or to release them, but for the steps of Strands -- a card that
\* left the overlay while an output ran that is then not to be had, and an
\* overflow that waited for an upload that was overtaken -- after which nobody
\* is and the pixels stay (app.rs:4259 dismiss_recent_capture, app.rs:3257,
\* app.rs:2624).
THEOREM PixelsFollowOwners == Spec => VaultFollowsOwners
<1>1. IInv => (app.editor.phase # "none" => Held) /\ (app.shown => Held \/ Dismissing)
  BY GoingIs, RunningFollows, BeginningFollows DEF IInv
<1>2. Minding BY MindingHolds
<1>3. IInv /\ [Next]_vars /\ Minding' => [Owed /\ Held' => Owed' \/ Strands]_vars
  BY OwedStep
<1> QED BY <1>1, <1>2, <1>3, Inductive, PTL DEF Spec, VaultFollowsOwners
=============================================================================

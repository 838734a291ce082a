---------------------------- MODULE RecordingProofs ----------------------------
(***************************************************************************)
(* That the machine and the application stay coupled, and that together    *)
(* they implement the contract, for any number of recordings and stops and *)
(* any length of the machine's queue.                                      *)
(***************************************************************************)
EXTENDS Recording, SequenceTheorems, TLAPS

-----------------------------------------------------------------------------
(* The machine                                                             *)

MachineOK(m) ==
  /\ m \in [phase : Phases, live : BOOLEAN, run : 0..MaxRuns, events : Seq(Event)]
  /\ \A i \in DOMAIN m.events : IsTerminal(m.events[i]) => m.events[i].run \in 0..MaxRuns
  /\ Len(m.events) <= MaxPending

\* nothing is queued but progress
Quiet(m) == MachineOK(m) /\ \A i \in DOMAIN m.events : ~IsTerminal(m.events[i])

\* one ending is queued, this one
Ends(m, run, result) ==
  /\ MachineOK(m)
  /\ \E i \in DOMAIN m.events :
       /\ m.events[i] = Terminal(run, result)
       /\ \A j \in DOMAIN m.events : IsTerminal(m.events[j]) => j = i

LEMMA EventTypes ==
  /\ Progress \in Event /\ ~IsTerminal(Progress)
  /\ \A run \in 0..MaxRuns, result \in Results :
       Terminal(run, result) \in Event /\ IsTerminal(Terminal(run, result))
  BY RecordingAssumption DEF Event, Progress, Terminal, IsTerminal

\* Whatever a queue of progress gives up, what is pushed is its last event.
LEMMA PushedIsLast ==
  ASSUME NEW q \in Seq(Event), Len(q) <= MaxPending, NEW e \in Event,
         \A i \in DOMAIN q : ~IsTerminal(q[i])
  PROVE  LET r == PushEvent(q, e) IN
         /\ r \in Seq(Event) /\ Len(r) \in 1..MaxPending
         /\ r[Len(r)] = e
         /\ \A i \in 1..(Len(r) - 1) : ~IsTerminal(r[i])
<1>1. CASE Len(q) < MaxPending
  BY <1>1, PendingAssumption DEF PushEvent
<1>2. CASE ~(Len(q) < MaxPending)
  <2> DEFINE progress == {i \in DOMAIN q : ~IsTerminal(q[i])}
             oldest == CHOOSE i \in progress : \A j \in progress : i <= j
             rest == RemoveAt(q, oldest)
  <2>1. Len(q) = MaxPending /\ MaxPending \in Nat \ {0} /\ DOMAIN q = 1..Len(q)
    BY <1>2, PendingAssumption
  <2>2. progress = 1..Len(q)
    BY <2>1
  <2>3. 1 \in progress /\ \A j \in progress : 1 <= j
    BY <2>1, <2>2
  <2>4. oldest \in progress /\ \A j \in progress : oldest <= j
    BY <2>3
  <2>5. oldest = 1
    BY <2>1, <2>2, <2>3, <2>4
  <2>6. rest = SubSeq(q, 1, 0) \o SubSeq(q, 2, Len(q))
    <3>1. RemoveAt(q, 1) = SubSeq(q, 1, 1 - 1) \o SubSeq(q, 1 + 1, Len(q))
      BY DEF RemoveAt
    <3>2. 1 - 1 = 0 /\ 1 + 1 = 2
      OBVIOUS
    <3> HIDE DEF oldest
    <3>3. rest = RemoveAt(q, 1)
      BY <2>5
    <3> QED
      BY <3>1, <3>2, <3>3
  <2>7. SubSeq(q, 1, 0) = <<>> /\ SubSeq(q, 2, Len(q)) = Tail(q)
    BY <2>1
  <2>8. Tail(q) \in Seq(Event) /\ Len(Tail(q)) = Len(q) - 1
        /\ \A i \in 1..Len(Tail(q)) : Tail(q)[i] = q[i + 1]
    BY <2>1
  <2>9. rest = Tail(q)
    BY <2>6, <2>7, <2>8
  <2>10. PushEvent(q, e) = Append(Tail(q), e)
    BY <1>2, <2>3, <2>9 DEF PushEvent
  <2>11. \A i \in 1..Len(Tail(q)) : ~IsTerminal(Tail(q)[i])
    BY <2>1, <2>8
  <2> QED
    BY <2>1, <2>8, <2>10, <2>11
<1> QED
  BY <1>1, <1>2

LEMMA SetPhaseQuiet ==
  ASSUME NEW m, Quiet(m), NEW phase \in Phases
  PROVE  LET n == SetPhase(m, phase) IN
         Quiet(n) /\ n.phase = phase /\ n.live = m.live /\ n.run = m.run
<1>1. CASE m.phase = phase
  BY <1>1 DEF SetPhase
<1>2. CASE m.phase # phase
  <2> DEFINE r == PushEvent(m.events, Progress)
  <2>1. /\ r \in Seq(Event) /\ Len(r) \in 1..MaxPending /\ r[Len(r)] = Progress
        /\ \A i \in 1..(Len(r) - 1) : ~IsTerminal(r[i])
    BY PushedIsLast, EventTypes DEF Quiet, MachineOK
  <2>2. \A i \in DOMAIN r : ~IsTerminal(r[i])
    BY <2>1, EventTypes, PendingAssumption
  <2> DEFINE n == [m EXCEPT !.phase = phase, !.events = r]
  <2>3. SetPhase(m, phase) = n
    BY <1>2 DEF SetPhase, Push, Quiet, MachineOK
  <2>4. n.phase = phase /\ n.live = m.live /\ n.run = m.run /\ n.events = r
    BY DEF Quiet, MachineOK
  <2>5. n \in [phase : Phases, live : BOOLEAN, run : 0..MaxRuns, events : Seq(Event)]
    BY <2>1 DEF Quiet, MachineOK
  <2>6. Quiet(n)
    BY <2>1, <2>2, <2>4, <2>5, PendingAssumption DEF Quiet, MachineOK
  <2> QED
    BY <2>3, <2>4, <2>6
<1> QED
  BY <1>1, <1>2

LEMMA PushProgress ==
  ASSUME NEW m, Quiet(m)
  PROVE  LET n == Push(m, Progress) IN
         Quiet(n) /\ n.phase = m.phase /\ n.live = m.live /\ n.run = m.run
<1> DEFINE r == PushEvent(m.events, Progress)
<1>1. /\ r \in Seq(Event) /\ Len(r) \in 1..MaxPending /\ r[Len(r)] = Progress
      /\ \A i \in 1..(Len(r) - 1) : ~IsTerminal(r[i])
  BY PushedIsLast, EventTypes DEF Quiet, MachineOK
<1>2. \A i \in DOMAIN r : ~IsTerminal(r[i])
  BY <1>1, EventTypes, PendingAssumption
<1>3. Push(m, Progress) = [m EXCEPT !.events = r]
  BY DEF Push
<1> QED
  BY <1>1, <1>2, <1>3, PendingAssumption DEF Quiet, MachineOK

LEMMA PushTerminal ==
  ASSUME NEW m, Quiet(m), NEW result \in Results
  PROVE  LET n == Push(m, Terminal(m.run, result)) IN
         Ends(n, m.run, result) /\ n.phase = m.phase /\ n.live = m.live /\ n.run = m.run
<1> DEFINE e == Terminal(m.run, result)
           r == PushEvent(m.events, e)
<1>1. e \in Event /\ IsTerminal(e) /\ e.run = m.run /\ m.run \in 0..MaxRuns
  BY EventTypes DEF Quiet, MachineOK, Terminal
<1>2. /\ r \in Seq(Event) /\ Len(r) \in 1..MaxPending /\ r[Len(r)] = e
      /\ \A i \in 1..(Len(r) - 1) : ~IsTerminal(r[i])
  BY <1>1, PushedIsLast DEF Quiet, MachineOK
<1>3. Len(r) \in DOMAIN r /\ \A j \in DOMAIN r : IsTerminal(r[j]) => j = Len(r)
  BY <1>2, PendingAssumption
<1>4. Push(m, e) = [m EXCEPT !.events = r]
  BY DEF Push
<1>5. MachineOK([m EXCEPT !.events = r])
  BY <1>1, <1>2, <1>3, PendingAssumption DEF Quiet, MachineOK
<1> QED
  BY <1>2, <1>3, <1>4, <1>5 DEF Ends, Quiet, MachineOK

LEMMA EnterFailedEnds ==
  ASSUME NEW m, Quiet(m), NEW result \in Results
  PROVE  LET n == EnterFailed(m, result) IN
         Ends(n, m.run, result) /\ n.phase = "failed" /\ n.live = FALSE /\ n.run = m.run
<1> DEFINE dropped == [m EXCEPT !.live = FALSE]
           failed == SetPhase(dropped, "failed")
<1>1. Quiet(dropped) /\ dropped.live = FALSE /\ dropped.run = m.run
  BY DEF Quiet, MachineOK
<1>2. Quiet(failed) /\ failed.phase = "failed" /\ failed.live = FALSE /\ failed.run = m.run
  BY <1>1, SetPhaseQuiet DEF Phases
<1>3. EnterFailed(m, result) = Push(failed, Terminal(failed.run, result))
  BY <1>2 DEF EnterFailed
<1> QED
  BY <1>2, <1>3, PushTerminal

LEMMA FinishOutputEnds ==
  ASSUME NEW m, Quiet(m), m.live = FALSE, NEW result \in Results
  PROVE  LET n == FinishOutput(m, result) IN
         /\ Ends(n, m.run, result) /\ n.phase \in {"finished", "failed"}
         /\ n.live = FALSE /\ n.run = m.run
<1>1. CASE result = "complete"
  <2> DEFINE finished == SetPhase(m, "finished")
  <2>1. Quiet(finished) /\ finished.phase = "finished" /\ finished.live = FALSE /\ finished.run = m.run
    BY SetPhaseQuiet DEF Phases
  <2>2. FinishOutput(m, result) = Push(finished, Terminal(finished.run, result))
    BY <1>1, <2>1 DEF FinishOutput
  <2> QED
    BY <2>1, <2>2, PushTerminal
<1>2. CASE result # "complete"
  BY <1>2, EnterFailedEnds DEF FinishOutput
<1> QED
  BY <1>1, <1>2

LEMMA BeginFinalisingQuiet ==
  ASSUME NEW m, Quiet(m)
  PROVE  LET n == BeginFinalising(m) IN
         Quiet(n) /\ n.phase = "finalising" /\ n.live = FALSE /\ n.run = m.run
<1> DEFINE dropped == [m EXCEPT !.live = FALSE]
<1>1. Quiet(dropped) /\ dropped.live = FALSE /\ dropped.run = m.run
  BY DEF Quiet, MachineOK
<1>2. BeginFinalising(m) = SetPhase(dropped, "finalising")
  BY DEF BeginFinalising
<1> HIDE DEF dropped
<1> QED
  BY <1>1, <1>2, SetPhaseQuiet DEF Phases

LEMMA ResetQuiet ==
  ASSUME NEW m, Quiet(m)
  PROVE  LET n == Reset(m) IN
         /\ Quiet(n) /\ n.run = m.run
         /\ IF m.phase \in {"finished", "failed"} THEN n.phase = "idle" /\ n.live = FALSE
            ELSE n = m
<1> DEFINE dropped == [m EXCEPT !.live = FALSE]
<1>1. Quiet(dropped) /\ dropped.live = FALSE /\ dropped.run = m.run
  BY DEF Quiet, MachineOK
<1>2. Reset(m) = IF m.phase \in {"finished", "failed"} THEN SetPhase(dropped, "idle") ELSE m
  BY DEF Reset
<1> HIDE DEF dropped
<1> QED
  BY <1>1, <1>2, SetPhaseQuiet DEF Phases

LEMMA BeginSelectionQuiet ==
  ASSUME NEW m, Quiet(m), NEW run \in 0..MaxRuns
  PROVE  LET n == BeginSelection(m, run) IN
         Quiet(n) /\ n.phase = "selecting" /\ n.live = FALSE /\ n.run = run
<1> DEFINE cleared == [m EXCEPT !.live = FALSE, !.run = run]
<1>1. cleared.live = FALSE /\ cleared.run = run /\ cleared.phase = m.phase
      /\ cleared.events = m.events
  BY DEF Quiet, MachineOK
<1>2. cleared \in [phase : Phases, live : BOOLEAN, run : 0..MaxRuns, events : Seq(Event)]
  BY DEF Quiet, MachineOK
<1>3. Quiet(cleared)
  BY <1>1, <1>2 DEF Quiet, MachineOK
<1>4. BeginSelection(m, run) = SetPhase(cleared, "selecting")
  BY DEF BeginSelection
<1> HIDE DEF cleared
<1> QED
  BY <1>1, <1>3, <1>4, SetPhaseQuiet DEF Phases

\* the session that starts, or what fails to
LEMMA StartRequestStarts ==
  ASSUME NEW m, Quiet(m), NEW starts \in BOOLEAN
  PROVE  LET n == StartRequest(m, starts) IN
         /\ n.run = m.run
         /\ IF starts THEN Quiet(n) /\ n.phase = "recording" /\ n.live = TRUE
            ELSE Ends(n, m.run, "error") /\ n.phase = "failed" /\ n.live = FALSE
<1>1. CASE starts
  <2>1. Quiet([m EXCEPT !.live = TRUE])
    BY DEF Quiet, MachineOK
  <2> QED
    BY <1>1, <2>1, SetPhaseQuiet, ZenonT(60) DEF StartRequest, Phases, Quiet, MachineOK
<1>2. CASE ~starts
  BY <1>2, EnterFailedEnds DEF StartRequest, Results
<1> QED
  BY <1>1, <1>2

\* what a recording that begins makes of the machine m
Begun(n, m, run, how) ==
  /\ n.run = run /\ (n.live = TRUE <=> how = "starts") /\ n.live \in BOOLEAN
  /\ how = "invalid" => Quiet(n) /\ n.phase = m.phase
  /\ how = "countdown" => Quiet(n) /\ n.phase = "countdown"
  /\ how = "starts" => Quiet(n) /\ n.phase = "recording"
  /\ how = "fails" => Ends(n, run, "error") /\ n.phase = "failed"

LEMMA BeginBegins ==
  ASSUME NEW m, Quiet(m), NEW run \in 0..MaxRuns,
         NEW how \in {"invalid", "countdown", "fails", "starts"}
  PROVE  Begun(Begin(m, run, how), m, run, how)
<1> USE DEF Begun
<1> DEFINE cleared == [m EXCEPT !.live = FALSE, !.run = run]
<1>1. cleared.live = FALSE /\ cleared.run = run /\ cleared.phase = m.phase
      /\ cleared.events = m.events
  BY DEF Quiet, MachineOK
<1>2. cleared \in [phase : Phases, live : BOOLEAN, run : 0..MaxRuns, events : Seq(Event)]
  BY DEF Quiet, MachineOK
<1>3. Quiet(cleared)
  BY <1>1, <1>2 DEF Quiet, MachineOK
<1>4. Begin(m, run, how) =
        CASE how = "invalid" -> cleared
          [] how = "countdown" -> SetPhase(cleared, "countdown")
          [] OTHER -> StartRequest(cleared, how = "starts")
  BY DEF Begin
<1> HIDE DEF cleared
<1>5. CASE how = "invalid"
  BY <1>1, <1>3, <1>4, <1>5
<1>6. CASE how = "countdown"
  <2>1. Begin(m, run, how) = SetPhase(cleared, "countdown")
    BY <1>4, <1>6
  <2>2. "countdown" \in Phases
    BY DEF Phases
  <2>3. LET n == SetPhase(cleared, "countdown") IN
        Quiet(n) /\ n.phase = "countdown" /\ n.live = FALSE /\ n.run = run
    BY <1>1, <1>3, <2>2, SetPhaseQuiet
  <2> QED
    BY <1>6, <2>1, <2>3
<1>7. CASE how \in {"starts", "fails"}
  <2>1. Begin(m, run, how) = StartRequest(cleared, how = "starts")
    BY <1>4, <1>7
  <2>2. LET n == StartRequest(cleared, how = "starts") IN
        /\ n.run = run
        /\ IF how = "starts" THEN Quiet(n) /\ n.phase = "recording" /\ n.live = TRUE
           ELSE Ends(n, run, "error") /\ n.phase = "failed" /\ n.live = FALSE
    <3>1. (how = "starts") \in BOOLEAN
      OBVIOUS
    <3> QED
      BY <1>1, <1>3, <3>1, StartRequestStarts
  <2> QED
    BY <1>7, <2>1, <2>2
<1> QED
  BY <1>5, <1>6, <1>7

LEMMA PollSessionPolls ==
  ASSUME NEW m, Quiet(m), NEW signal \in {"none", "progress"} \union Results
  PROVE  LET n == PollSession(m, signal) IN
         /\ n.run = m.run
         /\ signal \in {"none", "progress"} => Quiet(n) /\ n.phase = m.phase /\ n.live = m.live
         /\ signal \in Results =>
              Ends(n, m.run, signal) /\ n.phase \in {"finished", "failed"} /\ n.live = FALSE
<1>1. CASE signal = "none"
  BY <1>1 DEF PollSession, Results
<1>2. CASE signal = "progress"
  BY <1>2, PushProgress DEF PollSession, Results
<1>3. CASE signal \in Results
  <2> DEFINE dropped == [m EXCEPT !.live = FALSE]
             finalising == SetPhase(dropped, "finalising")
  <2>1. Quiet(dropped) /\ dropped.live = FALSE /\ dropped.run = m.run
    BY DEF Quiet, MachineOK
  <2>2. PollSession(m, signal) = FinishOutput(finalising, signal)
    BY <1>3 DEF PollSession, Results
  <2>3. Quiet(finalising) /\ finalising.live = FALSE /\ finalising.run = m.run
    <3> HIDE DEF dropped
    <3> QED BY <2>1, SetPhaseQuiet DEF Phases
  <2>4. signal \notin {"none", "progress"}
    BY <1>3 DEF Results
  <2> HIDE DEF finalising
  <2> QED
    BY <1>3, <2>2, <2>3, <2>4, FinishOutputEnds, ZenonT(60)
<1> QED
  BY <1>1, <1>2, <1>3

LEMMA DrainedIsQuiet ==
  ASSUME NEW m, MachineOK(m)
  PROVE  LET n == Drained(m) IN
         Quiet(n) /\ n.phase = m.phase /\ n.live = m.live /\ n.run = m.run
<1> DEFINE n == [m EXCEPT !.events = <<>>]
<1>1. n \in [phase : Phases, live : BOOLEAN, run : 0..MaxRuns, events : Seq(Event)]
  <2>1. <<>> \in Seq(Event)
    OBVIOUS
  <2> DEFINE none == <<>>
  <2> HIDE DEF none
  <2>2. none \in Seq(Event) => [m EXCEPT !.events = none]
          \in [phase : Phases, live : BOOLEAN, run : 0..MaxRuns, events : Seq(Event)]
    BY DEF MachineOK
  <2> QED
    BY <2>1, <2>2 DEF none
<1>2. n.events = <<>> /\ Len(n.events) = 0 /\ DOMAIN n.events = {}
  BY DEF MachineOK
<1>3. Quiet(n)
  BY <1>1, <1>2, PendingAssumption DEF Quiet, MachineOK
<1> QED
  BY <1>3 DEF Drained, MachineOK

-----------------------------------------------------------------------------
(* What the application keeps                                              *)

AppOK(a) ==
  a \in
    [selection : Selections \union {None}, armed : ArmedStarts \union {None},
     finalisation : {"none", "running", "sent", "lost"},
     message : [result : Results, handoff : BOOLEAN],
     completion : Outcomes \union {None}, replies : SUBSET Stops,
     editor : {"none", "open", "exporting"}, overlay : BOOLEAN,
     handoff : 0..MaxRuns \union {None}, row : 0..MaxRuns \union {None},
     run : 0..MaxRuns, told : [Stops -> [run : 0..MaxRuns, answer : Answers]],
     saves : Seq(0..MaxRuns),
     card : [media : 0..MaxRuns \union {None}, row : 0..MaxRuns \union {None}]]

\* what of the application an ending leaves alone
Rest(a) ==
  <<a.selection, a.armed, a.finalisation, a.message, a.overlay, a.run>>

\* the card's media are those of its row
Paired(a) == a.card.row \in {None, a.card.media}

Answered2(a, b) ==
  IF a.completion = None THEN b.replies = a.replies /\ b.told = a.told
  ELSE /\ b.replies = {}
       /\ \A c \in Stops :
            b.told[c] = IF c \in a.replies THEN [a.told[c] EXCEPT !.answer = a.completion]
                                           ELSE a.told[c]

LEMMA ReplyWaitersAnswers ==
  ASSUME NEW a, AppOK(a)
  PROVE  LET b == ReplyWaiters(a) IN
         /\ AppOK(b) /\ Rest(b) = Rest(a) /\ Answered2(a, b)
         /\ b.saves = a.saves /\ b.completion = a.completion /\ b.handoff = a.handoff
         /\ b.card = a.card /\ b.editor = a.editor
<1>1. CASE a.completion = None
  BY <1>1 DEF ReplyWaiters, Answered2
<1>2. CASE a.completion # None
  <2> DEFINE told == [c \in Stops |->
                        IF c \in a.replies THEN [a.told[c] EXCEPT !.answer = a.completion]
                                           ELSE a.told[c]]
             b == [a EXCEPT !.replies = {}, !.told = told]
  <2>1. told \in [Stops -> [run : 0..MaxRuns, answer : Answers]]
    BY <1>2 DEF AppOK, Outcomes, Answers
  <2>2. ReplyWaiters(a) = b
    BY <1>2 DEF ReplyWaiters
  <2>3. /\ Rest(b) = Rest(a) /\ b.told = told /\ b.replies = {}
        /\ b.saves = a.saves /\ b.completion = a.completion /\ b.handoff = a.handoff
        /\ b.card = a.card /\ b.editor = a.editor
    <3> HIDE DEF told
    <3> QED BY DEF AppOK, Rest
  <2>4. AppOK(b)
    <3> HIDE DEF told
    <3> QED BY <2>1 DEF AppOK
  <2>5. Answered2(a, b)
    BY <1>2, <2>3 DEF Answered2
  <2> HIDE DEF b
  <2> QED
    BY <2>2, <2>3, <2>4, <2>5
<1> QED
  BY <1>1, <1>2

LEMMA PresentPairs ==
  ASSUME NEW a, AppOK(a)
  PROVE  LET b == Present(a) IN
         /\ AppOK(b) /\ Rest(b) = Rest(a) /\ b.handoff = None
         /\ Paired(a) /\ (a.handoff # None => a.row \in {None, a.handoff}) => Paired(b)
         /\ b.replies = a.replies /\ b.told = a.told /\ b.saves = a.saves
         /\ b.completion = a.completion /\ b.editor = a.editor
<1>1. CASE a.handoff = None
  BY <1>1 DEF Present
<1>2. CASE a.handoff # None
  <2> DEFINE card == [media |-> a.handoff, row |-> a.row]
             b == [a EXCEPT !.handoff = None, !.row = None, !.card = card]
  <2>1. Present(a) = b
    BY <1>2 DEF Present
  <2>2. /\ card \in [media : 0..MaxRuns \union {None}, row : 0..MaxRuns \union {None}]
        /\ a.row \in {None, a.handoff} => card.row \in {None, card.media}
    BY <1>2 DEF AppOK
  <2> HIDE DEF card
  <2>3. /\ Rest(b) = Rest(a) /\ b.card = card /\ b.handoff = None
        /\ b.replies = a.replies /\ b.told = a.told /\ b.saves = a.saves
        /\ b.completion = a.completion /\ b.editor = a.editor
    BY DEF AppOK, Rest
  <2>4. AppOK(b)
    BY <2>2 DEF AppOK
  <2> HIDE DEF b
  <2> QED
    BY <1>2, <2>1, <2>2, <2>3, <2>4 DEF Paired
<1> QED
  BY <1>1, <1>2

LEMMA RetainKeeps ==
  ASSUME NEW a, AppOK(a), NEW run \in 0..MaxRuns, NEW luck \in Luck
  PROVE  LET b == Retain(a, run, luck) IN
         /\ AppOK(b) /\ Rest(b) = Rest(a) /\ b.handoff = None
         /\ Paired(a) /\ a.handoff \in {None, run} => Paired(b)
         /\ b.replies = a.replies /\ b.told = a.told /\ b.saves = Append(a.saves, run)
         /\ b.completion \in Outcomes
<1> DEFINE editor == IF luck.opens THEN "open" ELSE "none"
           row == IF luck.files THEN run ELSE None
           completion == IF luck.reports THEN "finished" ELSE "failed"
           kept == [a EXCEPT !.editor = editor, !.row = row,
                             !.saves = Append(@, run), !.completion = completion]
           dropped == [kept EXCEPT !.handoff = None, !.row = None]
<1>1. Append(a.saves, run) \in Seq(0..MaxRuns)
  BY DEF AppOK
<1>2. AppOK(kept)
  <2>1. /\ editor \in {"none", "open", "exporting"} /\ row \in 0..MaxRuns \union {None}
        /\ completion \in Outcomes \union {None}
    BY DEF Outcomes
  <2> HIDE DEF editor, row, completion
  <2> QED
    BY <1>1, <2>1, ZenonT(60) DEF AppOK
<1>3. /\ Rest(kept) = Rest(a) /\ kept.card = a.card /\ kept.handoff = a.handoff
      /\ kept.replies = a.replies /\ kept.told = a.told /\ kept.saves = Append(a.saves, run)
      /\ kept.completion \in Outcomes /\ kept.row \in {None, run} /\ kept.overlay = a.overlay
  BY DEF AppOK, Rest, Outcomes
<1>4. Retain(a, run, luck) = IF a.overlay THEN Present(kept) ELSE dropped
  BY DEF Retain
<1> HIDE DEF kept
<1>5. CASE a.overlay
  <2>1. Paired(a) /\ a.handoff \in {None, run} =>
          Paired(kept) /\ (kept.handoff # None => kept.row \in {None, kept.handoff})
    BY <1>3 DEF Paired
  <2> QED
    BY <1>2, <1>3, <1>4, <1>5, <2>1, PresentPairs
<1>6. CASE ~a.overlay
  <2>1. AppOK(dropped)
    BY <1>2 DEF AppOK
  <2>2. /\ Rest(dropped) = Rest(kept) /\ dropped.card = kept.card /\ dropped.handoff = None
        /\ dropped.replies = kept.replies /\ dropped.told = kept.told
        /\ dropped.saves = kept.saves /\ dropped.completion = kept.completion
    BY <1>2 DEF AppOK, Rest
  <2> HIDE DEF dropped
  <2> QED
    BY <1>3, <1>4, <1>6, <2>1, <2>2 DEF Paired
<1> QED
  BY <1>5, <1>6

LEMMA QuietHasNoEndings == ASSUME NEW m, Quiet(m) PROVE Endings(m) = {}
  BY DEF Quiet, Endings

LEMMA DrainEnded ==
  ASSUME NEW a, AppOK(a), NEW run \in 0..MaxRuns, NEW result \in Results,
         NEW m, Ends(m, run, result), NEW luck \in Luck
  PROVE  LET b == Drain(a, m, luck) IN
         /\ AppOK(b) /\ Rest(b) = Rest(a)
         /\ Paired(a) /\ a.handoff \in {None, run} => Paired(b)
         /\ b.handoff = IF result = "error" THEN a.handoff ELSE None
         /\ b.completion \in Outcomes /\ b.replies = {}
         /\ b.saves \in {a.saves, Append(a.saves, run)}
         /\ b.completion = "finished" => b.saves = Append(a.saves, run)
         /\ result = "error" => b.saves = a.saves
         /\ \A c \in Stops : b.told[c] = IF c \in a.replies
                                           THEN [a.told[c] EXCEPT !.answer = b.completion]
                                           ELSE a.told[c]
<1> DEFINE e == m.events[CHOOSE i \in Endings(m) : TRUE]
           ended == IF e.result \in {"complete", "partial"} THEN Retain(a, e.run, luck)
                    ELSE [a EXCEPT !.completion = "failed"]
<1>1. PICK i \in DOMAIN m.events : m.events[i] = Terminal(run, result)
                                   /\ \A j \in DOMAIN m.events : IsTerminal(m.events[j]) => j = i
  BY DEF Ends
<1>2. Endings(m) = {i}
  BY <1>1, EventTypes DEF Endings
<1>3. e.run = run /\ e.result = result
  BY <1>1, <1>2 DEF Terminal
<1>4. Drain(a, m, luck) = ReplyWaiters(ended)
  BY <1>2 DEF Drain
<1>5. /\ AppOK(ended) /\ Rest(ended) = Rest(a)
      /\ Paired(a) /\ a.handoff \in {None, run} => Paired(ended)
      /\ ended.handoff = IF result = "error" THEN a.handoff ELSE None
      /\ ended.replies = a.replies /\ ended.told = a.told
      /\ ended.saves \in {a.saves, Append(a.saves, run)} /\ ended.completion \in Outcomes
      /\ ended.completion = "finished" => ended.saves = Append(a.saves, run)
      /\ result = "error" => ended.saves = a.saves
  <2>1. CASE result \in {"complete", "partial"}
    <3>1. ended = Retain(a, run, luck)
      BY <1>3, <2>1
    <3> HIDE DEF ended
    <3> QED
      BY <2>1, <3>1, RetainKeeps
  <2>2. CASE result = "error"
    <3> DEFINE b == [a EXCEPT !.completion = "failed"]
    <3>1. ended = b
      BY <1>3, <2>2
    <3>2. AppOK(b)
      BY DEF AppOK, Outcomes
    <3>3. /\ Rest(b) = Rest(a) /\ b.card = a.card /\ b.handoff = a.handoff
          /\ b.replies = a.replies /\ b.told = a.told /\ b.saves = a.saves
          /\ b.completion = "failed"
      BY DEF AppOK, Rest
    <3> HIDE DEF ended, b
    <3> QED
      BY <2>2, <3>1, <3>2, <3>3 DEF Paired, Outcomes
  <2> QED
    BY <2>1, <2>2 DEF Results
<1> HIDE DEF ended
<1>6. ended.completion # None
  BY <1>5, RecordingAssumption
<1> QED
  BY <1>4, <1>5, <1>6, ReplyWaitersAnswers DEF Answered2, Paired

\* draining a queue of progress answers whoever an outcome is there for
LEMMA DrainsQuiet ==
  ASSUME NEW a, NEW m, Quiet(m), Drains(a, m)
  PROVE  app' = ReplyWaiters(a) /\ machine' = Drained(m)
  BY QuietHasNoEndings DEF Drains, Drain

-----------------------------------------------------------------------------
(* The inductive invariant                                                 *)

\* phases of a recording that has been begun and not ended
Busy(a, m) ==
  a.armed # None \/ m.phase \in {"selecting", "countdown", "recording", "finalising"}

\* the machine and what the application keeps beside it
Fit(a, m) ==
  /\ a.selection # None <=> m.phase = "selecting"
  /\ a.armed # None => m.phase = "idle"
  /\ a.finalisation # "none" <=> m.phase = "finalising"
  /\ m.live <=> m.phase = "recording"
  /\ a.replies = {c \in Stops : a.told[c].answer = "waiting"}
  /\ a.replies # {} => a.selection # None \/ a.finalisation # "none"
  /\ a.replies # {} /\ a.selection # None => a.selection.cancelled
  /\ \A c \in Stops : a.told[c].answer = "waiting" => a.told[c].run = a.run
  /\ Busy(a, m) => a.completion = None
  /\ m.phase \in {"countdown", "recording", "finalising"} => m.run = a.run
  /\ a.message.handoff => a.message.result # "error"

\* the ending that a tick has taken from the session and not yet handed on
Pending ==
  /\ machine.phase \in {"finished", "failed"} /\ app.completion = None
  /\ \E result \in Results : Ends(machine, app.run, result)

AtOK ==
  /\ at \in {"idle", "export", "select", "start", "clock", "settle", "down"}
  /\ Quiet(machine) \/ (at = "settle" /\ Pending)
  /\ at # "down" => Paired(app) /\ app.handoff = None
  /\ at = "select" => app.selection # None
  /\ at = "start" => app.armed # None

SessionOK == session \in [over : BOOLEAN, result : Results \union {None}]

IInv == AppOK(app) /\ MachineOK(machine) /\ Fit(app, machine) /\ AtOK /\ SessionOK

LEMMA InitIInv == Init => IInv
  BY RecordingAssumption, PendingAssumption DEF Init, IInv, AppOK, MachineOK, Fit, AtOK, SessionOK,
    NewMachine, NoMessage, NoCard, NoSession, Busy, Quiet, Paired, Phases, Results, Answers

LEMMA IInvImplies == IInv => TypeOK /\ Coupled /\ CardsPair
<1> SUFFICES ASSUME IInv PROVE TypeOK /\ Coupled /\ CardsPair
  OBVIOUS
<1>1. TypeOK
  BY DEF IInv, TypeOK, AppOK, MachineOK, AtOK, SessionOK
<1>2. \A i, j \in Endings(machine) : i = j
  BY DEF IInv, AtOK, Pending, Ends, Quiet, Endings
<1>3. Endings(machine) # {} => at = "settle" /\ ~machine.live /\ app.finalisation = "none"
  BY QuietHasNoEndings DEF IInv, AtOK, Pending, Fit
<1>4. Coupled
  BY <1>2, <1>3 DEF IInv, Coupled, Fit, AtOK
<1> QED
  BY <1>1, <1>4 DEF IInv, CardsPair, AtOK, Paired

-----------------------------------------------------------------------------
(* Steps of the contract                                                   *)

StageOf(a, m) ==
  IF a.selection # None \/ a.armed # None \/ m.phase = "countdown" THEN "setup"
  ELSE IF m.live \/ a.finalisation # "none" \/ Endings(m) # {} THEN "capturing"
  ELSE "over"

Stage == StageOf(app, machine)

LEMMA StageOfQuiet ==
  ASSUME NEW a, NEW m, AppOK(a), Quiet(m), Fit(a, m)
  PROVE  StageOf(a, m) =
           IF a.armed # None \/ m.phase \in {"selecting", "countdown"} THEN "setup"
           ELSE IF m.phase \in {"recording", "finalising"} THEN "capturing" ELSE "over"
  BY QuietHasNoEndings DEF StageOf, Fit, Quiet

LEMMA StagePending == ASSUME IInv, Pending PROVE Stage = "capturing"
<1>1. Endings(machine) # {}
  BY EventTypes DEF Pending, Ends, Endings, IInv, AppOK
<1> QED
  BY <1>1 DEF IInv, Fit, Pending, Stage, StageOf

\* how a recording may go on
Proceeds ==
  \/ app'.run = app.run /\ Stage' = Stage /\ app'.saves = app.saves
  \/ app'.run = app.run + 1 /\ Stage = "over" /\ Stage' = "setup" /\ app'.saves = app.saves
  \/ app'.run = app.run /\ Stage = "setup" /\ Stage' \in {"capturing", "over"}
     /\ app'.saves = app.saves
  \/ app'.run = app.run /\ Stage = "capturing" /\ Stage' = "over"
     /\ app'.saves \in {app.saves, Append(app.saves, app.run)}

\* what a stop may hear
Tells(c) ==
  \/ app'.told[c] = app.told[c]
  \/ app.told[c].answer = "new" /\ app'.told[c] = [run |-> app.run, answer |-> "refused"]
  \/ /\ app.told[c].answer = "new" /\ app'.told[c] = [run |-> app.run, answer |-> "waiting"]
     /\ Stage # "over"
  \/ /\ app.told[c].answer = "new" /\ app'.told[c] = [run |-> app.run, answer |-> "failed"]
     /\ Stage = "setup" /\ Stage' = "over"
  \/ /\ app.told[c].answer = "waiting"
     /\ \E answer \in {"finished", "failed", "dropped"} :
          /\ app'.told[c] = [app.told[c] EXCEPT !.answer = answer]
          /\ answer = "finished" => \E i \in DOMAIN app'.saves : app'.saves[i] = app.told[c].run
          /\ answer = "failed" => Stage' = "over"

ContractStep == [Contract!Next]_(Contract!vars)

LEMMA ContractSteps ==
  ASSUME AppOK(app), AppOK(app)', Proceeds, \A c \in Stops : Tells(c) PROVE ContractStep
<1>1. \/ Contract!Begin \/ Contract!Capture \/ Contract!Abandon \/ Contract!End
      \/ (app'.run = app.run /\ Stage' = Stage /\ app'.saves = app.saves)
  BY DEF Proceeds, Stage, StageOf, Contract!Begin, Contract!Capture, Contract!Abandon, Contract!End
<1>2. DOMAIN app'.told = Stops
  BY DEF AppOK
<1>3. \A c \in Stops :
        \/ app'.told[c] = app.told[c]
        \/ Contract!Asked(c)
        \/ \E answer \in {"finished", "failed", "dropped"} : Contract!Heard(c, answer)
  <2> SUFFICES ASSUME NEW c \in Stops, app'.told[c] # app.told[c]
               PROVE  \/ Contract!Asked(c)
                      \/ \E answer \in {"finished", "failed", "dropped"} : Contract!Heard(c, answer)
    OBVIOUS
  <2>1. CASE app.told[c].answer = "new"
    BY <2>1 DEF Tells, Stage, StageOf, Contract!Asked
  <2>2. CASE app.told[c].answer = "waiting"
    <3>1. PICK answer \in {"finished", "failed", "dropped"} :
            /\ app'.told[c] = [app.told[c] EXCEPT !.answer = answer]
            /\ answer = "finished" => \E i \in DOMAIN app'.saves : app'.saves[i] = app.told[c].run
            /\ answer = "failed" => Stage' = "over"
      BY <2>2 DEF Tells
    <3>2. app'.told[c].run = app.told[c].run
      BY <3>1 DEF AppOK
    <3>3. Contract!Heard(c, answer)
      BY <2>2, <3>1, <3>2 DEF Contract!Heard, Contract!Kept, Stage, StageOf
    <3> QED
      BY <3>3
  <2> QED
    BY <2>1, <2>2 DEF Tells
<1> QED
  BY <1>1, <1>2, <1>3 DEF ContractStep, Contract!Next, Contract!Answers, Stage, StageOf

\* nothing that the contract speaks of changes
LEMMA SilentSteps ==
  ASSUME AppOK(app), AppOK(app)', app'.run = app.run, Stage' = Stage,
         app'.saves = app.saves, app'.told = app.told
  PROVE  ContractStep
  BY ContractSteps DEF Proceeds, Tells

-----------------------------------------------------------------------------
(* Stopping                                                                *)

LEMMA ParkedParks ==
  ASSUME NEW a, AppOK(a), NEW cs, cs \subseteq Stops
  PROVE  LET b == Parked(a, cs) IN
         /\ AppOK(b) /\ Rest(b) = Rest(a)
         /\ b.completion = a.completion /\ b.replies = a.replies \union cs
         /\ b.handoff = a.handoff /\ b.saves = a.saves /\ b.card = a.card
         /\ b.told = [c \in Stops |-> IF c \in cs THEN [run |-> a.run, answer |-> "waiting"]
                                      ELSE a.told[c]]
<1> DEFINE told == [c \in Stops |-> IF c \in cs THEN [run |-> a.run, answer |-> "waiting"]
                                    ELSE a.told[c]]
<1>1. told \in [Stops -> [run : 0..MaxRuns, answer : Answers]]
  BY DEF AppOK, Answers
<1>2. Parked(a, cs) = [a EXCEPT !.replies = @ \union cs, !.told = told]
  BY DEF Parked
<1> HIDE DEF told
<1>3. AppOK(Parked(a, cs))
  BY <1>1, <1>2, ZenonT(60) DEF AppOK
<1>4. LET b == Parked(a, cs) IN
      /\ Rest(b) = Rest(a) /\ b.told = told
      /\ b.completion = a.completion /\ b.replies = a.replies \union cs
      /\ b.handoff = a.handoff /\ b.saves = a.saves /\ b.card = a.card
  BY <1>2 DEF AppOK, Rest
<1> QED
  BY <1>3, <1>4 DEF told

LEMMA ToldIs ==
  ASSUME NEW a, AppOK(a), NEW told \in [Stops -> [run : 0..MaxRuns, answer : Answers]]
  PROVE  AppOK([a EXCEPT !.told = told])
  BY DEF AppOK

LEMMA FinalisationIs ==
  ASSUME NEW a, AppOK(a)
  PROVE  AppOK([a EXCEPT !.finalisation = "running"])
  BY DEF AppOK

\* Where a recording could not be stopped, or is being set up or recorded, its
\* stops are refused, answered with it, or wait.
LEMMA BeginFinalisationKeeps ==
  ASSUME IInv, Quiet(machine), at \in {"idle", "settle"}, at' = "idle", SessionOK',
         NEW cs, cs \subseteq Stops, \A c \in cs : app.told[c].answer = "new",
         BeginFinalisation(cs)
  PROVE  IInv' /\ ContractStep
<1> USE RecordingAssumption
<1>0. AppOK(app) /\ MachineOK(machine) /\ Fit(app, machine) /\ Paired(app) /\ app.handoff = None
      /\ app.told \in [Stops -> [run : 0..MaxRuns, answer : Answers]]
      /\ cs \intersect app.replies = {}
  BY DEF IInv, AtOK, Fit, AppOK
<1>1. CASE app.selection # None
  <2> DEFINE sel == [app EXCEPT !.selection.cancelled = TRUE]
  <2>1. app' = Parked(sel, cs) /\ machine' = machine
    BY <1>1 DEF BeginFinalisation
  <2>2. app.selection \in Selections
    BY <1>0, <1>1 DEF AppOK
  <2>3. [app.selection EXCEPT !.cancelled = TRUE] \in Selections
    BY <2>2 DEF Selections
  <2>4. /\ AppOK(sel) /\ sel.selection # None /\ sel.selection.cancelled /\ sel.armed = app.armed
        /\ sel.finalisation = app.finalisation /\ sel.message = app.message
        /\ sel.completion = app.completion /\ sel.replies = app.replies
        /\ sel.handoff = app.handoff /\ sel.run = app.run /\ sel.saves = app.saves
        /\ sel.card = app.card /\ sel.told = app.told
    <3>1. sel = [app EXCEPT !.selection = [app.selection EXCEPT !.cancelled = TRUE]]
      OBVIOUS
    <3>2. [app.selection EXCEPT !.cancelled = TRUE].cancelled = TRUE
      BY <2>2 DEF Selections
    <3> HIDE DEF sel
    <3>3. AppOK(sel)
      BY <1>0, <2>3, <3>1, ZenonT(60) DEF AppOK
    <3> QED
      BY <1>0, <2>3, <3>1, <3>2, <3>3, ZenonT(60) DEF AppOK
  <2> HIDE DEF sel
  <2>5. /\ AppOK(app') /\ Rest(app') = Rest(sel)
        /\ app'.completion = app.completion /\ app'.replies = app.replies \union cs
        /\ app'.handoff = app.handoff /\ app'.saves = app.saves /\ app'.card = app.card
        /\ app'.told = [c \in Stops |-> IF c \in cs THEN [run |-> app.run, answer |-> "waiting"]
                                        ELSE app.told[c]]
    BY <2>1, <2>4, ParkedParks
  <2>6. Fit(app', machine')
    BY <1>0, <1>1, <2>1, <2>4, <2>5 DEF Fit, Busy, Rest
  <2>7. IInv'
    BY <1>0, <2>1, <2>5, <2>6 DEF IInv, AtOK, Paired
  <2>8. Stage' = Stage /\ Stage # "over"
    BY <1>1, <2>1, <2>4, <2>5 DEF Stage, StageOf, Endings, Rest
  <2>9. ContractStep
    BY <1>0, <2>4, <2>5, <2>8, ContractSteps DEF Proceeds, Tells, Rest
  <2> QED
    BY <2>7, <2>9
<1>2. CASE app.selection = None /\ app.armed # None
  <2> DEFINE left == Parked([app EXCEPT !.armed = None], cs)
             failed == [left EXCEPT !.completion = "failed"]
  <2>1. app' = ReplyWaiters(failed) /\ machine' = machine
    BY <1>2 DEF BeginFinalisation, Fail
  <2>2. AppOK(left)
        /\ left.selection = app.selection /\ left.armed = None
        /\ left.finalisation = app.finalisation /\ left.message = app.message
        /\ left.replies = app.replies \union cs
        /\ left.handoff = app.handoff
        /\ left.run = app.run /\ left.saves = app.saves /\ left.card = app.card
        /\ left.told = [c \in Stops |-> IF c \in cs THEN [run |-> app.run, answer |-> "waiting"]
                                        ELSE app.told[c]]
    <3> DEFINE idle == [app EXCEPT !.armed = None]
    <3>1. AppOK(idle)
      BY <1>0, ZenonT(60) DEF AppOK
    <3>2. /\ idle.selection = app.selection /\ idle.armed = None
          /\ idle.finalisation = app.finalisation /\ idle.message = app.message
          /\ idle.replies = app.replies /\ idle.handoff = app.handoff
          /\ idle.run = app.run /\ idle.saves = app.saves /\ idle.card = app.card
          /\ idle.told = app.told
      BY <1>0 DEF AppOK
    <3>3. left = Parked(idle, cs)
      OBVIOUS
    <3> HIDE DEF idle, left
    <3> QED
      BY <3>1, <3>2, <3>3, ParkedParks DEF Rest
  <2> HIDE DEF left
  <2>3. /\ AppOK(failed)
        /\ failed.selection = app.selection /\ failed.armed = None
        /\ failed.finalisation = app.finalisation /\ failed.message = app.message
        /\ failed.completion = "failed" /\ failed.replies = app.replies \union cs
        /\ failed.handoff = app.handoff
        /\ failed.run = app.run /\ failed.saves = app.saves /\ failed.card = app.card
        /\ failed.told = left.told
    BY <2>2, ZenonT(60) DEF AppOK, Outcomes
  <2> HIDE DEF failed
  <2>4. machine.phase = "idle" /\ app.replies = {} /\ app.finalisation = "none"
    BY <1>0, <1>2 DEF Fit
  <2>5. /\ AppOK(app') /\ Rest(app') = Rest(failed) /\ app'.replies = {}
        /\ app'.saves = app.saves /\ app'.completion = "failed" /\ app'.handoff = app.handoff
        /\ app'.card = app.card
        /\ \A c \in Stops : app'.told[c] =
             IF c \in cs THEN [run |-> app.run, answer |-> "failed"] ELSE app.told[c]
    <3>1. /\ AppOK(app') /\ Rest(app') = Rest(failed) /\ Answered2(failed, app')
          /\ app'.saves = app.saves /\ app'.completion = "failed" /\ app'.handoff = app.handoff
          /\ app'.card = app.card
      BY <2>1, <2>3, ReplyWaitersAnswers
    <3>2. failed.completion # None /\ failed.replies = cs
      BY <2>3, <2>4
    <3>3. app'.replies = {}
          /\ \A c \in Stops : app'.told[c] =
               IF c \in cs THEN [failed.told[c] EXCEPT !.answer = "failed"] ELSE failed.told[c]
      BY <2>3, <3>1, <3>2 DEF Answered2
    <3>4. \A c \in cs : failed.told[c] = [run |-> app.run, answer |-> "waiting"]
      BY <2>2, <2>3
    <3> QED
      BY <2>2, <2>3, <3>1, <3>3, <3>4
  <2>6. Fit(app', machine')
    BY <1>0, <1>2, <2>1, <2>3, <2>4, <2>5 DEF Fit, Busy, Rest
  <2>7. IInv'
    BY <1>0, <2>1, <2>3, <2>5, <2>6 DEF IInv, AtOK, Paired
  <2>8. Stage = "setup" /\ Stage' = "over"
    BY <1>0, <1>2, <2>1, <2>3, <2>4, <2>5, <2>6, StageOfQuiet DEF Stage, Rest
  <2>9. ContractStep
    BY <1>0, <2>3, <2>5, <2>8, ContractSteps DEF Proceeds, Tells, Rest
  <2> QED
    BY <2>7, <2>9
<1>3. CASE app.selection = None /\ app.armed = None /\ machine.phase # "recording"
  <2>1. app' = Refused(app, cs) /\ machine' = machine
    BY <1>3 DEF BeginFinalisation
  <2> DEFINE told == [c \in Stops |-> IF c \in cs THEN [run |-> app.run, answer |-> "refused"]
                                      ELSE app.told[c]]
  <2>0. app' = [app EXCEPT !.told = told] /\ told \in [Stops -> [run : 0..MaxRuns, answer : Answers]]
    <3>1. told \in [Stops -> [run : 0..MaxRuns, answer : Answers]]
      BY <1>0 DEF AppOK, Answers
    <3> QED
      BY <2>1, <3>1 DEF Refused
  <2> HIDE DEF told
  <2>2. /\ Rest(app') = Rest(app)
        /\ app'.completion = app.completion /\ app'.replies = app.replies
        /\ app'.handoff = app.handoff /\ app'.saves = app.saves /\ app'.card = app.card
        /\ app'.told = [c \in Stops |-> IF c \in cs THEN [run |-> app.run, answer |-> "refused"]
                                        ELSE app.told[c]]
    <3>1. /\ Rest(app') = Rest(app)
          /\ app'.completion = app.completion /\ app'.replies = app.replies
          /\ app'.handoff = app.handoff /\ app'.saves = app.saves /\ app'.card = app.card
          /\ app'.told = told
      BY <1>0, <2>0 DEF AppOK, Rest
    <3> QED
      BY <3>1 DEF told
  <2>3. AppOK(app')
    <3>1. AppOK(app)
      BY <1>0
    <3> QED
      BY <2>0, <3>1, ToldIs
  <2>4. Fit(app', machine')
    BY <1>0, <2>1, <2>2 DEF Fit, Busy, Rest
  <2>5. IInv'
    BY <1>0, <2>1, <2>2, <2>3, <2>4 DEF IInv, AtOK, Paired
  <2>6. Stage' = Stage
    BY <2>1, <2>2 DEF Stage, StageOf, Endings, Rest
  <2>7. ContractStep
    BY <1>0, <2>2, <2>3, <2>6, ContractSteps DEF Proceeds, Tells, Rest
  <2> QED
    BY <2>5, <2>7
<1>4. CASE app.selection = None /\ app.armed = None /\ machine.phase = "recording"
  <2> DEFINE parked == Parked([app EXCEPT !.finalisation = "running"], cs)
             m == BeginFinalising(machine)
  <2>1. Drains(parked, m)
    BY <1>4 DEF BeginFinalisation
  <2> DEFINE stopped == [app EXCEPT !.finalisation = "running"]
  <2>2. /\ AppOK(parked) /\ parked.selection = None /\ parked.armed = None
        /\ parked.finalisation = "running" /\ parked.message = app.message
        /\ parked.completion = app.completion /\ parked.replies = app.replies \union cs
        /\ parked.handoff = app.handoff
        /\ parked.run = app.run /\ parked.saves = app.saves /\ parked.card = app.card
        /\ parked.told = [c \in Stops |-> IF c \in cs THEN [run |-> app.run, answer |-> "waiting"]
                                          ELSE app.told[c]]
    <3>1. AppOK(stopped)
      <4>1. AppOK(app)
        BY <1>0
      <4> QED
        BY <4>1, FinalisationIs
    <3>2. /\ stopped.selection = None /\ stopped.armed = None
          /\ stopped.finalisation = "running" /\ stopped.message = app.message
          /\ stopped.completion = app.completion /\ stopped.replies = app.replies
          /\ stopped.handoff = app.handoff /\ stopped.run = app.run
          /\ stopped.saves = app.saves /\ stopped.card = app.card /\ stopped.told = app.told
      BY <1>0, <1>4 DEF AppOK
    <3>3. parked = Parked(stopped, cs)
      OBVIOUS
    <3> HIDE DEF stopped, parked
    <3> QED
      BY <3>1, <3>2, <3>3, ParkedParks DEF Rest
  <2> HIDE DEF parked
  <2>4. Quiet(m) /\ m.phase = "finalising" /\ m.live = FALSE /\ m.run = machine.run
    BY BeginFinalisingQuiet
  <2> HIDE DEF m
  <2>5. /\ app' = ReplyWaiters(parked) /\ Quiet(machine') /\ machine'.phase = "finalising"
        /\ machine'.live = FALSE /\ machine'.run = machine.run /\ MachineOK(machine')
    BY <2>1, <2>4, DrainsQuiet, DrainedIsQuiet DEF Quiet
  <2>6. app.completion = None /\ machine.run = app.run
    BY <1>0, <1>4 DEF Fit, Busy
  <2>7. app' = parked
    BY <2>2, <2>5, <2>6 DEF ReplyWaiters
  <2>8. Fit(app', machine')
    BY <1>0, <1>4, <2>2, <2>5, <2>6, <2>7 DEF Fit, Busy
  <2>9. IInv'
    BY <1>0, <2>2, <2>5, <2>7, <2>8 DEF IInv, AtOK, Paired
  <2>10. Stage = "capturing" /\ Stage' = "capturing"
    BY <1>0, <1>4, <2>2, <2>5, <2>7, <2>8, StageOfQuiet DEF Stage
  <2>11. ContractStep
    BY <1>0, <2>2, <2>7, <2>10, ContractSteps DEF Proceeds, Tells
  <2> QED
    BY <2>9, <2>11
<1> QED
  BY <1>1, <1>2, <1>3, <1>4

LEMMA ForwardStopKeeps ==
  ASSUME IInv, NEW c \in Stops, ForwardStop(c) PROVE IInv' /\ ContractStep
<1> USE RecordingAssumption
<1>1. at = "idle" /\ at' = "idle" /\ Quiet(machine) /\ SessionOK' /\ app.told[c].answer = "new"
  BY DEF ForwardStop, IInv, AtOK, SessionOK
<1>2. CASE BeginFinalisation({c})
  BY <1>1, <1>2, BeginFinalisationKeeps
<1>3. CASE ~IsBusy /\ app' = Refused(app, {c}) /\ UNCHANGED machine
  <2>1. BeginFinalisation({c})
    BY <1>3 DEF BeginFinalisation, IsBusy, IsActive
  <2> QED
    BY <1>1, <2>1, BeginFinalisationKeeps
<1> QED
  BY <1>2, <1>3 DEF ForwardStop

-----------------------------------------------------------------------------
(* Starting                                                                *)

\* what holds where a recording may begin
LEMMA MayBeginOver ==
  ASSUME IInv, at = "idle", MayBegin
  PROVE  /\ Quiet(machine) /\ AppOK(app) /\ MachineOK(machine) /\ Fit(app, machine)
         /\ Paired(app) /\ app.handoff = None
         /\ app.selection = None /\ app.armed = None /\ app.finalisation = "none"
         /\ app.replies = {} /\ \A c \in Stops : app.told[c].answer # "waiting"
         /\ app.run + 1 \in 0..MaxRuns
         /\ Quiet(Reset(machine)) /\ Reset(machine).run = machine.run
         /\ Reset(machine).phase = "idle" /\ Reset(machine).live = FALSE
         /\ Stage = "over"
<1> USE RecordingAssumption
<1>1. /\ Quiet(machine) /\ AppOK(app) /\ MachineOK(machine) /\ Fit(app, machine)
      /\ Paired(app) /\ app.handoff = None
      /\ machine.phase \in {"idle", "finished", "failed"} /\ app.armed = None
  BY DEF IInv, AtOK, MayBegin
<1>2. app.selection = None /\ app.finalisation = "none" /\ app.replies = {}
  BY <1>1 DEF Fit
<1>3. \A c \in Stops : app.told[c].answer # "waiting"
  BY <1>1, <1>2 DEF Fit
<1>4. app.run + 1 \in 0..MaxRuns
  BY <1>1 DEF MayBegin, AppOK
<1>5. /\ Quiet(Reset(machine)) /\ Reset(machine).run = machine.run
      /\ Reset(machine).phase = "idle" /\ Reset(machine).live = FALSE
  <2>1. machine.live = FALSE
    BY <1>1 DEF Fit, MachineOK
  <2> QED
    BY <1>1, <2>1, ResetQuiet
<1>6. Stage = "over"
  BY <1>1, StageOfQuiet DEF Stage
<1> QED
  BY <1>1, <1>2, <1>3, <1>4, <1>5, <1>6

LEMMA PreparedApp ==
  ASSUME NEW a, AppOK(a), a.run + 1 \in 0..MaxRuns
  PROVE  LET b == Prepared(a) IN
         /\ AppOK(b) /\ b.selection = a.selection /\ b.armed = a.armed
         /\ b.finalisation = a.finalisation /\ b.message = a.message
         /\ b.completion = None /\ b.replies = a.replies /\ b.handoff = a.handoff
         /\ b.run = a.run + 1 /\ b.told = a.told /\ b.saves = a.saves /\ b.card = a.card
<1> DEFINE b == [a EXCEPT !.editor = "none", !.completion = None, !.run = @ + 1]
<1>1. AppOK(b)
  BY DEF AppOK
<1>2. /\ b.selection = a.selection /\ b.armed = a.armed
      /\ b.finalisation = a.finalisation /\ b.message = a.message
      /\ b.completion = None /\ b.replies = a.replies /\ b.handoff = a.handoff
      /\ b.run = a.run + 1 /\ b.told = a.told /\ b.saves = a.saves /\ b.card = a.card
  BY DEF AppOK
<1> QED
  BY <1>1, <1>2 DEF Prepared

LEMMA SelectKeeps ==
  ASSUME IInv, at = "idle", at' = "idle", SessionOK', NEW start \in Starts, Select(start)
  PROVE  IInv' /\ ContractStep
<1> USE RecordingAssumption
<1> DEFINE p == Prepared(app)
           sel == [start |-> start, answer |-> None, cancelled |-> FALSE]
           r == Reset(machine)
<1>1. MayBegin /\ app' = [p EXCEPT !.selection = sel]
      /\ machine' = BeginSelection(r, app.run + 1)
  BY DEF Select
<1>2. sel \in Selections /\ sel # None
  <2>1. sel \in Selections
    BY DEF Selections
  <2> HIDE DEF sel
  <2> QED
    BY <2>1
<1>3. /\ AppOK(p) /\ p.selection = app.selection /\ p.armed = app.armed
      /\ p.finalisation = app.finalisation /\ p.message = app.message
      /\ p.completion = None /\ p.replies = app.replies /\ p.handoff = app.handoff
      /\ p.run = app.run + 1 /\ p.told = app.told /\ p.saves = app.saves /\ p.card = app.card
  BY <1>1, MayBeginOver, PreparedApp
<1> HIDE DEF p, sel
<1>4. AppOK(app')
  BY <1>1, <1>2, <1>3, ZenonT(60) DEF AppOK
<1>5. /\ app'.selection = sel /\ app'.armed = None /\ app'.finalisation = "none"
      /\ app'.message = app.message /\ app'.completion = None /\ app'.replies = {}
      /\ app'.handoff = None /\ app'.run = app.run + 1 /\ app'.told = app.told
      /\ app'.saves = app.saves /\ app'.card = app.card
  BY <1>1, <1>3, MayBeginOver DEF AppOK
<1>6. /\ Quiet(machine') /\ machine'.phase = "selecting" /\ machine'.live = FALSE
      /\ machine'.run = app.run + 1 /\ MachineOK(machine')
  <2>1. Quiet(r) /\ app.run + 1 \in 0..MaxRuns
    BY <1>1, MayBeginOver
  <2> HIDE DEF r
  <2> QED
    BY <1>1, <2>1, BeginSelectionQuiet DEF Quiet
<1>7. Fit(app', machine')
  BY <1>1, <1>2, <1>5, <1>6, MayBeginOver DEF Fit, Busy
<1>8. IInv'
  BY <1>1, <1>4, <1>5, <1>6, <1>7, MayBeginOver DEF IInv, AtOK, Paired
<1>9. Stage = "over" /\ Stage' = "setup"
  BY <1>1, <1>4, <1>6, <1>7, MayBeginOver, StageOfQuiet DEF Stage
<1> QED
  BY <1>1, <1>4, <1>5, <1>8, <1>9, MayBeginOver, ContractSteps DEF Proceeds, Tells

LEMMA ArmKeeps ==
  ASSUME IInv, at = "idle", at' = "idle", SessionOK', Arm PROVE IInv' /\ ContractStep
<1> USE RecordingAssumption
<1> DEFINE p == Prepared(app)
           armed == [start |-> "request", ready |-> FALSE]
<1>1. MayBegin /\ app' = [p EXCEPT !.armed = armed] /\ machine' = Reset(machine)
  BY DEF Arm
<1>2. armed \in ArmedStarts /\ armed # None
  <2>1. armed \in ArmedStarts
    BY DEF ArmedStarts, Starts
  <2> HIDE DEF armed
  <2> QED
    BY <2>1
<1>3. /\ AppOK(p) /\ p.selection = app.selection /\ p.armed = app.armed
      /\ p.finalisation = app.finalisation /\ p.message = app.message
      /\ p.completion = None /\ p.replies = app.replies /\ p.handoff = app.handoff
      /\ p.run = app.run + 1 /\ p.told = app.told /\ p.saves = app.saves /\ p.card = app.card
  BY <1>1, MayBeginOver, PreparedApp
<1> HIDE DEF p, armed
<1>4. AppOK(app')
  BY <1>1, <1>2, <1>3, ZenonT(60) DEF AppOK
<1>5. /\ app'.selection = None /\ app'.armed = armed /\ app'.finalisation = "none"
      /\ app'.message = app.message /\ app'.completion = None /\ app'.replies = {}
      /\ app'.handoff = None /\ app'.run = app.run + 1 /\ app'.told = app.told
      /\ app'.saves = app.saves /\ app'.card = app.card
  BY <1>1, <1>3, MayBeginOver DEF AppOK
<1>6. /\ Quiet(machine') /\ machine'.phase = "idle" /\ machine'.live = FALSE
      /\ MachineOK(machine')
  BY <1>1, MayBeginOver DEF Quiet
<1>7. Fit(app', machine')
  BY <1>1, <1>2, <1>5, <1>6, MayBeginOver DEF Fit, Busy
<1>8. IInv'
  BY <1>1, <1>4, <1>5, <1>6, <1>7, MayBeginOver DEF IInv, AtOK, Paired
<1>9. Stage = "over" /\ Stage' = "setup"
  BY <1>1, <1>2, <1>4, <1>5, <1>6, <1>7, MayBeginOver, StageOfQuiet DEF Stage
<1> QED
  BY <1>1, <1>4, <1>5, <1>8, <1>9, MayBeginOver, ContractSteps DEF Proceeds, Tells

LEMMA BeginFailsKeeps ==
  ASSUME IInv, at = "idle", at' = "idle", SessionOK', BeginFails PROVE IInv' /\ ContractStep
<1> USE RecordingAssumption
<1>1. MayBegin /\ app' = [app EXCEPT !.editor = "none", !.completion = None]
      /\ machine' = Reset(machine)
  BY DEF BeginFails
<1>2. AppOK(app')
  BY <1>1, MayBeginOver DEF AppOK
<1>3. /\ app'.selection = None /\ app'.armed = None /\ app'.finalisation = "none"
      /\ app'.message = app.message /\ app'.completion = None /\ app'.replies = {}
      /\ app'.handoff = None /\ app'.run = app.run /\ app'.told = app.told
      /\ app'.saves = app.saves /\ app'.card = app.card
  BY <1>1, MayBeginOver DEF AppOK
<1>4. /\ Quiet(machine') /\ machine'.phase = "idle" /\ machine'.live = FALSE
      /\ MachineOK(machine')
  BY <1>1, MayBeginOver DEF Quiet
<1>5. Fit(app', machine')
  BY <1>1, <1>3, <1>4, MayBeginOver DEF Fit, Busy
<1>6. IInv'
  BY <1>1, <1>2, <1>3, <1>4, <1>5, MayBeginOver DEF IInv, AtOK, Paired
<1>7. Stage = "over" /\ Stage' = "over"
  BY <1>1, <1>2, <1>3, <1>4, <1>5, MayBeginOver, StageOfQuiet DEF Stage
<1> QED
  BY <1>1, <1>2, <1>3, <1>6, <1>7, MayBeginOver, SilentSteps

LEMMA ForwardStartKeeps == ASSUME IInv, ForwardStart PROVE IInv' /\ ContractStep
<1>1. at = "idle" /\ at' = "idle" /\ SessionOK' /\ "request" \in Starts
  BY DEF ForwardStart, IInv, SessionOK, Starts
<1> QED
  BY <1>1, SelectKeeps, ArmKeeps, BeginFailsKeeps DEF ForwardStart

LEMMA ToggleKeeps == ASSUME IInv, Toggle PROVE IInv' /\ ContractStep
<1> USE RecordingAssumption
<1>1. /\ at = "idle" /\ at' = "idle" /\ SessionOK' /\ Quiet(machine) /\ AppOK(app)
      /\ Fit(app, machine) /\ MachineOK(machine) /\ Paired(app) /\ app.handoff = None
  BY DEF Toggle, IInv, SessionOK, AtOK
<1>2. CASE BeginFinalisation({})
  BY <1>1, <1>2, BeginFinalisationKeeps
<1>3. CASE Select("settings") \/ BeginFails
  BY <1>1, <1>3, SelectKeeps, BeginFailsKeeps DEF Starts
<1>4. CASE /\ machine.phase = "selecting"
           /\ app' = [app EXCEPT !.selection.cancelled = TRUE] /\ UNCHANGED machine
  <2> DEFINE sel == [app.selection EXCEPT !.cancelled = TRUE]
  <2>1. sel \in Selections /\ sel # None /\ sel.cancelled
    <3>1. app.selection \in Selections
      BY <1>1, <1>4 DEF AppOK, Fit
    <3>2. sel \in Selections /\ sel.cancelled
      BY <3>1 DEF Selections
    <3> HIDE DEF sel
    <3> QED
      BY <3>2
  <2>2. app' = [app EXCEPT !.selection = sel]
    BY <1>4
  <2> HIDE DEF sel
  <2>3. AppOK(app')
    BY <1>1, <2>1, <2>2, ZenonT(60) DEF AppOK
  <2>4. /\ app'.selection = sel /\ app'.armed = app.armed
        /\ app'.finalisation = app.finalisation /\ app'.message = app.message
        /\ app'.completion = app.completion /\ app'.replies = app.replies
        /\ app'.handoff = app.handoff /\ app'.run = app.run /\ app'.told = app.told
        /\ app'.saves = app.saves /\ app'.card = app.card
    BY <1>1, <2>1, <2>2 DEF AppOK
  <2>5. Fit(app', machine')
    <3>1. Fit(app, machine) /\ machine' = machine /\ machine.phase = "selecting"
          /\ app'.selection # None /\ app'.selection.cancelled
      BY <1>1, <1>4, <2>1, <2>4
    <3> QED
      BY <2>4, <3>1 DEF Fit, Busy
  <2>6. IInv'
    BY <1>1, <1>4, <2>3, <2>4, <2>5 DEF IInv, AtOK, Paired
  <2>7. Stage' = Stage
    BY <1>1, <1>4, <2>3, <2>4, <2>5, StageOfQuiet DEF Stage
  <2> QED
    BY <1>1, <2>3, <2>4, <2>6, <2>7, SilentSteps
<1>5. CASE machine.phase = "countdown" /\ Drains(app, CancelCountdown(machine))
  <2> DEFINE m == CancelCountdown(machine)
  <2>1. Quiet(m) /\ m.phase = "idle" /\ m.live = machine.live /\ m.run = machine.run
    BY <1>1, SetPhaseQuiet DEF CancelCountdown, Phases
  <2> HIDE DEF m
  <2>2. /\ app' = ReplyWaiters(app) /\ Quiet(machine') /\ machine'.phase = "idle"
        /\ machine'.live = machine.live /\ machine'.run = machine.run /\ MachineOK(machine')
    BY <1>5, <2>1, DrainsQuiet, DrainedIsQuiet DEF Quiet, m
  <2>3. app.completion = None /\ app.replies = {} /\ app.armed = None
    BY <1>1, <1>5 DEF Fit, Busy
  <2>4. app' = app
    BY <2>2, <2>3 DEF ReplyWaiters
  <2>5. Fit(app', machine')
    BY <1>1, <1>5, <2>2, <2>3, <2>4 DEF Fit, Busy
  <2>6. IInv'
    BY <1>1, <2>2, <2>4, <2>5 DEF IInv, AtOK
  <2>7. Stage = "setup" /\ Stage' = "over"
    BY <1>1, <1>5, <2>2, <2>3, <2>4, <2>5, StageOfQuiet DEF Stage
  <2> QED
    BY <1>1, <2>4, <2>6, <2>7, ContractSteps DEF Proceeds, Tells
<1> QED
  BY <1>2, <1>3, <1>4, <1>5 DEF Toggle

LEMMA EditorIs ==
  ASSUME NEW a, AppOK(a), NEW editor \in {"none", "open", "exporting"}
  PROVE  AppOK([a EXCEPT !.editor = editor])
  BY DEF AppOK

LEMMA EditorKeeps ==
  ASSUME IInv, OpenEditor \/ Export \/ CloseEditor PROVE IInv' /\ ContractStep
<1> USE RecordingAssumption
<1>1. /\ at = "idle" /\ at' = "idle" /\ SessionOK' /\ Quiet(machine) /\ AppOK(app)
      /\ Fit(app, machine) /\ MachineOK(machine) /\ Paired(app) /\ app.handoff = None
  BY DEF OpenEditor, Export, CloseEditor, IInv, SessionOK, AtOK
<1>2. PICK editor \in {"none", "open", "exporting"} : app' = [app EXCEPT !.editor = editor]
  BY DEF OpenEditor, Export, CloseEditor
<1>3. AppOK(app')
  <2>1. AppOK(app)
    BY <1>1
  <2> QED
    BY <1>2, <2>1, EditorIs
<1>4. /\ app'.selection = app.selection /\ app'.armed = app.armed
      /\ app'.finalisation = app.finalisation /\ app'.message = app.message
      /\ app'.completion = app.completion /\ app'.replies = app.replies
      /\ app'.handoff = app.handoff /\ app'.run = app.run /\ app'.told = app.told
      /\ app'.saves = app.saves /\ app'.card = app.card
  BY <1>1, <1>2, ZenonT(60) DEF AppOK
<1>5. machine' = machine \/ machine' = Reset(machine)
  BY DEF OpenEditor, Export, CloseEditor
<1>6. /\ Quiet(machine') /\ MachineOK(machine') /\ machine'.run = machine.run
      /\ IF machine.phase \in {"finished", "failed"}
           THEN machine'.phase \in {"idle", "finished", "failed"} /\ machine'.live = FALSE
           ELSE machine' = machine
  <2>1. machine.phase \in {"finished", "failed"} => machine.live = FALSE
    BY <1>1 DEF Fit, MachineOK
  <2> QED
    BY <1>1, <1>5, <2>1, ResetQuiet DEF Quiet
<1>7. Fit(app', machine')
  BY <1>1, <1>4, <1>6 DEF Fit, Busy
<1>8. IInv'
  BY <1>1, <1>3, <1>4, <1>6, <1>7 DEF IInv, AtOK, Paired
<1>9. Stage' = Stage
  BY <1>1, <1>3, <1>4, <1>6, <1>7, StageOfQuiet DEF Stage, Fit
<1> QED
  BY <1>1, <1>3, <1>4, <1>8, <1>9, SilentSteps

-----------------------------------------------------------------------------
(* Endings                                                                 *)

\* How a recording's ending leaves the application, before the next one.
Over(b, n) ==
  /\ AppOK(b) /\ Fit(b, n) /\ b.run = app.run /\ b.replies = {}
  /\ StageOf(b, n) = "over"
  /\ b.saves = app.saves \/ (Stage = "capturing" /\ b.saves = Append(app.saves, app.run))
  /\ \A c \in Stops :
       \/ b.told[c] = app.told[c]
       \/ /\ app.told[c].answer = "waiting"
          /\ \E answer \in {"finished", "failed"} :
               /\ b.told[c] = [app.told[c] EXCEPT !.answer = answer]
               /\ answer = "finished" => \E i \in DOMAIN b.saves : b.saves[i] = app.told[c].run

\* What the machine m and the application a are when an ending is drained into
\* the machine n.
Ending(a, result, m, n) ==
  /\ result \in Results
  /\ AppOK(a) /\ a.selection = None /\ a.armed = None /\ a.finalisation = "none"
  /\ a.replies = app.replies /\ a.told = app.told /\ a.saves = app.saves /\ a.run = app.run
  /\ a.message.handoff => a.message.result # "error"
  /\ Ends(m, app.run, result)
  /\ Quiet(n) /\ n.phase \in {"finished", "failed"} /\ n.live = FALSE
  /\ Stage = "capturing" \/ (Stage = "setup" /\ result = "error")

LEMMA EndingIsOver ==
  ASSUME AppOK(app), Fit(app, machine), NEW a, NEW result, NEW m, NEW n, Ending(a, result, m, n),
         NEW luck \in Luck
  PROVE  LET b == Drain(a, m, luck) IN
         /\ Over(b, n)
         /\ Paired(a) /\ a.handoff \in {None, app.run} => Paired(b)
         /\ b.handoff = IF result = "error" THEN a.handoff ELSE None
<1> USE RecordingAssumption
<1> DEFINE b == Drain(a, m, luck)
<1>1. app.run \in 0..MaxRuns
  BY DEF AppOK
<1> USE DEF Ending
<1>2. /\ AppOK(b) /\ Rest(b) = Rest(a)
      /\ Paired(a) /\ a.handoff \in {None, app.run} => Paired(b)
      /\ b.handoff = IF result = "error" THEN a.handoff ELSE None
      /\ b.completion \in Outcomes /\ b.replies = {}
      /\ b.saves \in {app.saves, Append(app.saves, app.run)}
      /\ b.completion = "finished" => b.saves = Append(app.saves, app.run)
      /\ result = "error" => b.saves = app.saves
      /\ \A c \in Stops : b.told[c] = IF c \in app.replies
                                        THEN [app.told[c] EXCEPT !.answer = b.completion]
                                        ELSE app.told[c]
  <2>1. /\ AppOK(b) /\ Rest(b) = Rest(a)
        /\ Paired(a) /\ a.handoff \in {None, app.run} => Paired(b)
        /\ b.handoff = IF result = "error" THEN a.handoff ELSE None
        /\ b.completion \in Outcomes /\ b.replies = {}
        /\ b.saves \in {a.saves, Append(a.saves, app.run)}
        /\ b.completion = "finished" => b.saves = Append(a.saves, app.run)
        /\ result = "error" => b.saves = a.saves
        /\ \A c \in Stops : b.told[c] = IF c \in a.replies
                                          THEN [a.told[c] EXCEPT !.answer = b.completion]
                                          ELSE a.told[c]
    BY <1>1, DrainEnded
  <2> HIDE DEF b
  <2> QED
    BY <2>1
<1> HIDE DEF b
<1>3. \A c \in Stops : b.told[c].answer # "waiting"
  <2> SUFFICES ASSUME NEW c \in Stops PROVE b.told[c].answer # "waiting"
    OBVIOUS
  <2>1. app.told[c] \in [run : 0..MaxRuns, answer : Answers]
    BY DEF AppOK
  <2>2. CASE c \in app.replies
    BY <1>2, <2>1, <2>2 DEF Outcomes
  <2>3. CASE c \notin app.replies
    BY <1>2, <2>3 DEF Fit
  <2> QED
    BY <2>2, <2>3
<1>4. Fit(b, n)
  BY <1>2, <1>3 DEF Fit, Busy, Rest
<1>5. StageOf(b, n) = "over"
  BY <1>2, <1>4, StageOfQuiet DEF Rest
<1>6. b.run = app.run
  BY <1>2 DEF Rest
<1>7. ASSUME NEW c \in Stops, b.told[c] # app.told[c]
      PROVE  /\ app.told[c].answer = "waiting"
             /\ \E answer \in {"finished", "failed"} :
                  /\ b.told[c] = [app.told[c] EXCEPT !.answer = answer]
                  /\ answer = "finished" =>
                       \E i \in DOMAIN b.saves : b.saves[i] = app.told[c].run
  <2>1. c \in app.replies /\ app.told[c].answer = "waiting" /\ app.told[c].run = app.run
    BY <1>2, <1>7 DEF Fit
  <2>2. b.told[c] = [app.told[c] EXCEPT !.answer = b.completion]
    BY <1>2, <2>1
  <2>3. b.completion = "finished" => \E i \in DOMAIN b.saves : b.saves[i] = app.run
    <3>1. app.saves \in Seq(0..MaxRuns)
      BY DEF AppOK
    <3>2. LET t == Append(app.saves, app.run) IN
          Len(app.saves) + 1 \in DOMAIN t /\ t[Len(app.saves) + 1] = app.run
      BY <1>1, <3>1
    <3> QED
      BY <1>2, <3>2
  <2> QED
    BY <1>2, <2>1, <2>2, <2>3 DEF Outcomes
<1> QED
  BY <1>2, <1>4, <1>5, <1>6, <1>7 DEF Over, b

\* ... and what that is to the contract
LEMMA OverIsEnd ==
  ASSUME AppOK(app), Over(app', machine'), Stage \in {"setup", "capturing"} PROVE ContractStep
<1>1. AppOK(app') /\ Stage' = "over"
  BY DEF Over, Stage
<1>2. Proceeds
  BY <1>1 DEF Over, Proceeds
<1>3. \A c \in Stops : Tells(c)
  BY <1>1 DEF Over, Tells
<1> QED
  BY <1>1, <1>2, <1>3, ContractSteps

LEMMA OverKeeps ==
  ASSUME Over(app', machine'), Quiet(machine'), SessionOK',
         at' \in {"idle", "export", "clock", "down"},
         at' # "down" => Paired(app') /\ app'.handoff = None
  PROVE  IInv'
  BY DEF Over, IInv, AtOK, Quiet, MachineOK

\* A handler that drains an ending.
LEMMA DrainsEnding ==
  ASSUME NEW a, NEW m, NEW run \in 0..MaxRuns, NEW result \in Results, Ends(m, run, result),
         Drains(a, m)
  PROVE  \E luck \in Luck : app' = Drain(a, m, luck) /\ machine' = Drained(m)
<1>1. Endings(m) # {}
  BY EventTypes DEF Ends, Endings
<1> QED
  BY <1>1 DEF Drains

LEMMA StepsOn ==
  ASSUME NEW step \in {"finish", "export"}, NEW a
  PROVE  LET t == StepAfter(step, a) IN
         /\ t \in {"export", "select", "start", "clock"}
         /\ t = "select" => a.selection # None
         /\ t = "start" => a.armed # None
  BY DEF StepAfter, Answered, Ready

-----------------------------------------------------------------------------
(* A tick                                                                  *)

\* an outcome is there only for whoever has not waited for it
LEMMA NothingToAnswer ==
  ASSUME AppOK(app), Fit(app, machine)
  PROVE  LET b == ReplyWaiters(app) IN
         /\ AppOK(b) /\ Fit(b, machine) /\ Rest(b) = Rest(app) /\ b.card = app.card
         /\ b.handoff = app.handoff /\ b.saves = app.saves /\ b.told = app.told
<1> USE RecordingAssumption
<1>1. CASE app.completion = None
  BY <1>1 DEF ReplyWaiters
<1>2. CASE app.completion # None
  <2> DEFINE b == ReplyWaiters(app)
  <2>1. app.replies = {}
    BY <1>2 DEF Fit, Busy
  <2>2. /\ AppOK(b) /\ Rest(b) = Rest(app) /\ b.replies = {} /\ b.completion = app.completion
        /\ b.handoff = app.handoff /\ b.saves = app.saves /\ b.card = app.card
        /\ \A c \in Stops : b.told[c] = app.told[c]
    BY <1>2, <2>1, ReplyWaitersAnswers DEF Answered2
  <2> HIDE DEF b
  <2>3. b.told = app.told
    BY <2>2 DEF AppOK
  <2>4. Fit(b, machine)
    BY <1>2, <2>1, <2>2, <2>3 DEF Fit, Busy, Rest
  <2> QED
    BY <2>2, <2>3, <2>4 DEF b
<1> QED
  BY <1>1, <1>2

SettledWith(a, message) == [a EXCEPT !.finalisation = "none", !.message = message]

LEMMA SettledApp ==
  ASSUME NEW a, AppOK(a), NEW message \in [result : Results, handoff : BOOLEAN]
  PROVE  LET b == SettledWith(a, message) IN
         /\ AppOK(b) /\ b.finalisation = "none" /\ b.message = message
         /\ b.selection = a.selection /\ b.armed = a.armed /\ b.replies = a.replies
         /\ b.told = a.told /\ b.saves = a.saves /\ b.run = a.run
         /\ b.handoff = a.handoff /\ b.card = a.card
<1> DEFINE b == [a EXCEPT !.finalisation = "none", !.message = message]
<1>1. AppOK(b)
  BY DEF AppOK
<1>2. /\ b.finalisation = "none" /\ b.message = message
      /\ b.selection = a.selection /\ b.armed = a.armed /\ b.replies = a.replies
      /\ b.told = a.told /\ b.saves = a.saves /\ b.run = a.run
      /\ b.handoff = a.handoff /\ b.card = a.card
  BY DEF AppOK
<1> QED
  BY <1>1, <1>2 DEF SettledWith

LEMMA TickFinishKeeps == ASSUME IInv, TickFinish PROVE IInv' /\ ContractStep
<1> USE RecordingAssumption
<1> DEFINE ticked == IF app.armed = None THEN app ELSE [app EXCEPT !.armed.ready = TRUE]
           settled == [ticked EXCEPT !.finalisation = "none", !.message = NoMessage]
<1>1. /\ AppOK(app) /\ MachineOK(machine) /\ Quiet(machine) /\ Fit(app, machine)
      /\ Paired(app) /\ app.handoff = None /\ SessionOK'
  BY DEF TickFinish, IInv, AtOK, SessionOK
<1>2. /\ at' \in {"export", "select", "start", "clock"}
      /\ at' = "select" => app'.selection # None
      /\ at' = "start" => app'.armed # None
  BY StepsOn DEF TickFinish
<1>3. CASE app' = ticked /\ UNCHANGED machine
  <2>1. /\ AppOK(app') /\ (app'.armed = None <=> app.armed = None)
        /\ app'.selection = app.selection /\ app'.finalisation = app.finalisation
        /\ app'.message = app.message /\ app'.completion = app.completion
        /\ app'.replies = app.replies /\ app'.handoff = app.handoff /\ app'.run = app.run
        /\ app'.told = app.told /\ app'.saves = app.saves /\ app'.card = app.card
    <3>1. CASE app.armed = None
      BY <1>1, <1>3, <3>1
    <3>2. CASE app.armed # None
      <4> DEFINE armed == [app.armed EXCEPT !.ready = TRUE]
      <4>1. armed \in ArmedStarts
        BY <1>1, <3>2 DEF AppOK, ArmedStarts
      <4>2. app' = [app EXCEPT !.armed = armed]
        BY <1>3, <3>2
      <4> HIDE DEF armed, ticked
      <4>3. armed # None
        BY <4>1
      <4>4. AppOK(app')
        BY <1>1, <4>1, <4>2, ZenonT(60) DEF AppOK
      <4> QED
        BY <1>1, <3>2, <4>2, <4>3, <4>4, ZenonT(60) DEF AppOK
    <3> QED
      BY <3>1, <3>2
  <2> HIDE DEF ticked
  <2>2. Fit(app', machine')
    BY <1>1, <1>3, <2>1 DEF Fit, Busy
  <2>3. IInv'
    BY <1>1, <1>2, <1>3, <2>1, <2>2 DEF IInv, AtOK, Paired
  <2>4. Stage' = Stage
    BY <1>1, <1>3, <2>1, <2>2, StageOfQuiet DEF Stage
  <2> QED
    BY <1>1, <2>1, <2>3, <2>4, SilentSteps
<1>4. ASSUME NEW a, NEW result \in Results, app.finalisation # "none",
             \/ a = settled /\ result = "error"
             \/ /\ a = [settled EXCEPT !.handoff = IF app.message.handoff THEN machine.run ELSE @]
                /\ result = app.message.result,
             Drains(a, CompleteFinalising(machine, result))
      PROVE  IInv' /\ ContractStep
  <2> DEFINE m == CompleteFinalising(machine, result)
  <2>1. /\ app.selection = None /\ app.armed = None /\ machine.phase = "finalising"
        /\ machine.live = FALSE /\ machine.run = app.run /\ app.run \in 0..MaxRuns
    BY <1>1, <1>4 DEF Fit, MachineOK, AppOK
  <2>2. /\ AppOK(settled) /\ settled.finalisation = "none" /\ settled.message = NoMessage
        /\ settled.selection = None /\ settled.armed = None /\ settled.replies = app.replies
        /\ settled.told = app.told /\ settled.saves = app.saves /\ settled.run = app.run
        /\ settled.handoff = None /\ settled.card = app.card
    <3>1. NoMessage \in [result : Results, handoff : BOOLEAN]
      BY DEF NoMessage, Results
    <3>2. settled = SettledWith(app, NoMessage)
      BY <2>1 DEF SettledWith
    <3> HIDE DEF settled
    <3>3. AppOK(app)
      BY <1>1
    <3>4. /\ AppOK(settled) /\ settled.finalisation = "none" /\ settled.message = NoMessage
          /\ settled.selection = app.selection /\ settled.armed = app.armed
          /\ settled.replies = app.replies
          /\ settled.told = app.told /\ settled.saves = app.saves /\ settled.run = app.run
          /\ settled.handoff = app.handoff /\ settled.card = app.card
      BY <3>1, <3>2, <3>3, SettledApp
    <3> QED
      BY <1>1, <2>1, <3>4
  <2> HIDE DEF settled, ticked
  <2>3. /\ AppOK(a) /\ a.finalisation = "none" /\ a.message = NoMessage
        /\ a.selection = None /\ a.armed = None /\ a.replies = app.replies
        /\ a.told = app.told /\ a.saves = app.saves /\ a.run = app.run
        /\ a.card = app.card /\ a.handoff \in {None, app.run}
        /\ result = "error" => a.handoff = None
    <3>1. CASE a = settled /\ result = "error"
      BY <2>2, <3>1
    <3>2. CASE /\ a = [settled EXCEPT !.handoff = IF app.message.handoff THEN machine.run ELSE @]
               /\ result = app.message.result
      <4> DEFINE h == IF app.message.handoff THEN machine.run ELSE None
      <4>1. h \in {None, app.run} /\ (result = "error" => h = None)
        BY <1>1, <2>1, <3>2 DEF Fit
      <4>2. a = [settled EXCEPT !.handoff = h]
        BY <2>2, <3>2
      <4> HIDE DEF h
      <4>3. AppOK(a)
        BY <2>1, <2>2, <4>1, <4>2 DEF AppOK
      <4> QED
        BY <2>2, <4>1, <4>2, <4>3 DEF AppOK
    <3> QED
      BY <1>4, <3>1, <3>2
  <2>4. Ends(m, app.run, result) /\ m.phase \in {"finished", "failed"} /\ m.live = FALSE
    BY <1>1, <2>1, FinishOutputEnds DEF CompleteFinalising
  <2> HIDE DEF m
  <2>5. PICK luck \in Luck : app' = Drain(a, m, luck) /\ machine' = Drained(m)
    BY <1>4, <2>1, <2>4, DrainsEnding DEF m
  <2>6. Quiet(machine') /\ machine'.phase = m.phase /\ machine'.live = FALSE
    BY <2>4, <2>5, DrainedIsQuiet DEF Ends
  <2>7. Stage = "capturing"
    BY <1>1, <2>1, StageOfQuiet DEF Stage
  <2>8. Over(app', machine') /\ Paired(app') /\ app'.handoff = None
    <3>1. Paired(a) /\ ~a.message.handoff
      BY <1>1, <2>3 DEF Paired, NoMessage
    <3>2. machine'.phase \in {"finished", "failed"}
      BY <2>4, <2>6
    <3>3. AppOK(app) /\ Fit(app, machine)
      BY <1>1
    <3>4. /\ Over(Drain(a, m, luck), machine')
          /\ Paired(a) /\ a.handoff \in {None, app.run} => Paired(Drain(a, m, luck))
          /\ Drain(a, m, luck).handoff = IF result = "error" THEN a.handoff ELSE None
      <4>1. Ending(a, result, m, machine')
        BY <1>4, <2>3, <2>4, <2>6, <2>7, <3>1, <3>2 DEF Ending
      <4> QED
        BY <3>3, <4>1, EndingIsOver
    <3> QED
      BY <2>3, <2>5, <3>1, <3>4
  <2>9. at' \in {"export", "clock"}
    <3>1. app'.selection = None /\ app'.armed = None
      BY <2>6, <2>8, <2>4 DEF Over, Fit
    <3> QED
      BY <1>2, <3>1
  <2>10. IInv'
    BY <1>1, <2>6, <2>8, <2>9, OverKeeps
  <2>11. ContractStep
    BY <1>1, <2>7, <2>8, OverIsEnd
  <2> QED
    BY <2>10, <2>11
<1>5. CASE app.finalisation = "lost" /\ Drains(settled, CompleteFinalising(machine, "error"))
  <2>1. "error" \in Results
    BY DEF Results
  <2> HIDE DEF settled
  <2> QED
    BY <1>4, <1>5, <2>1
<1>6. CASE /\ app.finalisation = "sent"
           /\ Drains([settled EXCEPT !.handoff = IF app.message.handoff THEN machine.run ELSE @],
                     CompleteFinalising(machine, app.message.result))
  <2>1. app.message.result \in Results
    BY <1>1 DEF AppOK
  <2> HIDE DEF settled
  <2> QED
    BY <1>4, <1>6, <2>1
<1> QED
  BY <1>3, <1>5, <1>6 DEF TickFinish

\* What an export leaves: itself, perhaps a row and perhaps media.
LEMMA ExportedApp ==
  ASSUME NEW a, AppOK(a), NEW filed \in BOOLEAN, NEW handed \in BOOLEAN
  PROVE  LET b == Exported(a, filed, handed) IN
         /\ AppOK(b) /\ Rest(b) = Rest(a) /\ b.completion = a.completion
         /\ b.replies = a.replies /\ b.told = a.told /\ b.saves = a.saves /\ b.card = a.card
         /\ b.row \in {None, ExportId}
         /\ b.handoff = IF handed THEN ExportId ELSE a.handoff
<1> DEFINE row == IF filed THEN ExportId ELSE None
           handoff == IF handed THEN ExportId ELSE a.handoff
           b == [a EXCEPT !.editor = "open", !.row = row, !.handoff = handoff]
<1>1. Exported(a, filed, handed) = b
  BY DEF Exported, AppOK
<1>2. row \in {None, ExportId} /\ ExportId \in 0..MaxRuns
  BY RecordingAssumption DEF ExportId
<1>3. handoff \in 0..MaxRuns \union {None}
  BY <1>2 DEF AppOK
<1> HIDE DEF row, handoff
<1>4. AppOK(b)
  BY <1>2, <1>3 DEF AppOK
<1>5. /\ Rest(b) = Rest(a) /\ b.completion = a.completion
      /\ b.replies = a.replies /\ b.told = a.told /\ b.saves = a.saves /\ b.card = a.card
      /\ b.row = row /\ b.handoff = handoff
  BY DEF AppOK, Rest
<1> QED
  BY <1>1, <1>2, <1>4, <1>5 DEF row, handoff

\* the same recording, coupled as before
LEMMA SameFit ==
  ASSUME NEW a, NEW b, NEW m, Fit(a, m), Rest(b) = Rest(a), b.completion = a.completion,
         b.replies = a.replies, b.told = a.told
  PROVE  Fit(b, m) /\ StageOf(b, m) = StageOf(a, m)
<1>1. /\ b.selection = a.selection /\ b.armed = a.armed /\ b.finalisation = a.finalisation
      /\ b.message = a.message /\ b.run = a.run
  BY DEF Rest
<1> QED
  BY <1>1 DEF Fit, Busy, StageOf

LEMMA TickExportKeeps == ASSUME IInv, TickExport PROVE IInv' /\ ContractStep
<1> USE RecordingAssumption
<1>1. /\ AppOK(app) /\ MachineOK(machine) /\ Quiet(machine) /\ Fit(app, machine)
      /\ Paired(app) /\ app.handoff = None /\ SessionOK' /\ machine' = machine
  BY DEF TickExport, IInv, AtOK, SessionOK
<1>2. /\ at' \in {"export", "select", "start", "clock"}
      /\ at' = "select" => app'.selection # None
      /\ at' = "start" => app'.armed # None
  BY StepsOn DEF TickExport
<1>3. /\ AppOK(app') /\ Rest(app') = Rest(app) /\ app'.completion = app.completion
      /\ app'.replies = app.replies /\ app'.told = app.told /\ app'.saves = app.saves
      /\ Paired(app') /\ app'.handoff = None
  <2>1. CASE app' = app
    BY <1>1, <2>1
  <2>2. CASE app' = [app EXCEPT !.editor = "open"]
    <3>1. AppOK(app')
      <4>1. AppOK(app) /\ "open" \in {"none", "open", "exporting"}
        BY <1>1
      <4> QED
        BY <2>2, <4>1, EditorIs
    <3>2. /\ Rest(app') = Rest(app) /\ app'.completion = app.completion
          /\ app'.replies = app.replies /\ app'.told = app.told /\ app'.saves = app.saves
          /\ app'.card = app.card /\ app'.handoff = None
      BY <1>1, <2>2 DEF AppOK, Rest
    <3> QED
      BY <1>1, <3>1, <3>2 DEF Paired
  <2>3. ASSUME NEW filed \in BOOLEAN, NEW handed \in BOOLEAN,
               app' = Present(Exported(app, filed, handed))
        PROVE  /\ AppOK(app') /\ Rest(app') = Rest(app) /\ app'.completion = app.completion
               /\ app'.replies = app.replies /\ app'.told = app.told /\ app'.saves = app.saves
               /\ Paired(app') /\ app'.handoff = None
    <3> DEFINE b == Exported(app, filed, handed)
    <3>1. /\ AppOK(b) /\ Rest(b) = Rest(app) /\ b.completion = app.completion
          /\ b.replies = app.replies /\ b.told = app.told /\ b.saves = app.saves
          /\ b.card = app.card /\ b.row \in {None, ExportId}
          /\ b.handoff = IF handed THEN ExportId ELSE app.handoff
      BY <1>1, ExportedApp
    <3> HIDE DEF b
    <3>2. Paired(b) /\ (b.handoff # None => b.row \in {None, b.handoff})
      BY <1>1, <3>1 DEF Paired
    <3>3. app' = Present(b)
      BY <2>3 DEF b
    <3> QED
      BY <3>1, <3>2, <3>3, PresentPairs
  <2> QED
    BY <2>1, <2>2, <2>3 DEF TickExport
<1>4. Fit(app', machine') /\ Stage' = Stage
  BY <1>1, <1>3, SameFit DEF Stage
<1>5. IInv'
  BY <1>1, <1>2, <1>3, <1>4 DEF IInv, AtOK
<1> QED
  BY <1>1, <1>3, <1>4, <1>5, SilentSteps DEF Rest

LEMMA TickSelectKeeps == ASSUME IInv, TickSelect PROVE IInv' /\ ContractStep
<1> USE RecordingAssumption
<1> DEFINE left == [app EXCEPT !.selection = None]
           sel == app.selection
<1>1. /\ AppOK(app) /\ MachineOK(machine) /\ Quiet(machine) /\ Fit(app, machine)
      /\ Paired(app) /\ app.handoff = None /\ SessionOK' /\ at' = "clock"
      /\ app.selection # None
  BY DEF TickSelect, IInv, AtOK, SessionOK
<1>2. /\ machine.phase = "selecting" /\ sel \in Selections /\ app.armed = None
      /\ app.finalisation = "none" /\ app.completion = None /\ machine.live = FALSE
  BY <1>1 DEF Fit, AppOK, Busy, MachineOK
<1>3. /\ Quiet(machine') /\ MachineOK(machine') /\ machine'.phase = "idle"
      /\ machine'.live = FALSE /\ machine'.run = machine.run
  BY <1>1, <1>2, SetPhaseQuiet DEF TickSelect, FinishSelection, CancelSelection, Phases, Quiet
<1>4. AppOK(left)
  BY <1>1, ZenonT(60) DEF AppOK
<1>5. /\ left.selection = None /\ left.armed = None /\ left.finalisation = "none"
      /\ left.message = app.message /\ left.completion = None /\ left.replies = app.replies
      /\ left.told = app.told /\ left.saves = app.saves /\ left.run = app.run
      /\ left.handoff = app.handoff /\ left.card = app.card
  BY <1>1, <1>2 DEF AppOK
<1>6. Stage = "setup"
  BY <1>1, <1>2, StageOfQuiet DEF Stage
<1>7. CASE app' = Fail(left)
  <2> DEFINE failed == [left EXCEPT !.completion = "failed"]
  <2> HIDE DEF left
  <2>1. app' = ReplyWaiters(failed)
    BY <1>7 DEF Fail
  <2>2. AppOK(failed)
    BY <1>4 DEF AppOK, Outcomes
  <2>3. /\ failed.selection = None /\ failed.armed = None /\ failed.finalisation = "none"
        /\ failed.message = app.message /\ failed.completion = "failed"
        /\ failed.replies = app.replies
        /\ failed.told = app.told /\ failed.saves = app.saves /\ failed.run = app.run
        /\ failed.handoff = app.handoff /\ failed.card = app.card
    BY <1>4, <1>5 DEF AppOK
  <2> HIDE DEF failed
  <2>4. failed.completion # None
    BY <2>3 DEF Outcomes
  <2>5. /\ AppOK(app') /\ Rest(app') = Rest(failed) /\ app'.replies = {}
        /\ app'.saves = app.saves /\ app'.completion = "failed" /\ app'.handoff = None
        /\ app'.card = app.card
        /\ \A c \in Stops : app'.told[c] =
             IF c \in app.replies THEN [app.told[c] EXCEPT !.answer = "failed"] ELSE app.told[c]
    BY <1>1, <2>1, <2>2, <2>3, <2>4, ReplyWaitersAnswers DEF Answered2
  <2>6. \A c \in Stops : app'.told[c].answer # "waiting"
    <3> SUFFICES ASSUME NEW c \in Stops PROVE app'.told[c].answer # "waiting"
      OBVIOUS
    <3>1. app.told[c] \in [run : 0..MaxRuns, answer : Answers]
      BY <1>1 DEF AppOK
    <3> QED
      BY <1>1, <2>5, <3>1 DEF Fit
  <2>7. Fit(app', machine')
    BY <1>1, <1>3, <2>3, <2>5, <2>6 DEF Fit, Busy, Rest
  <2>8. IInv'
    BY <1>1, <1>3, <2>5, <2>7 DEF IInv, AtOK, Paired
  <2>9. Stage' = "over"
    BY <1>3, <2>3, <2>5, <2>7, StageOfQuiet DEF Stage, Rest
  <2>10. \A c \in Stops : Tells(c)
    BY <1>1, <2>5, <2>9 DEF Tells, Fit
  <2>11. Proceeds
    BY <1>6, <2>3, <2>5, <2>9 DEF Proceeds, Rest
  <2> QED
    BY <1>1, <2>5, <2>8, <2>10, <2>11, ContractSteps
<1>8. CASE /\ ~sel.cancelled
           /\ app' = [left EXCEPT !.armed = [start |-> sel.start, ready |-> FALSE]]
  <2> DEFINE armed == [start |-> sel.start, ready |-> FALSE]
  <2>1. armed \in ArmedStarts
    BY <1>2 DEF ArmedStarts, Selections
  <2>2. app' = [left EXCEPT !.armed = armed]
    BY <1>8
  <2> HIDE DEF armed, left
  <2>3. armed # None
    BY <2>1
  <2>4. AppOK(app')
    BY <1>4, <2>1, <2>2 DEF AppOK
  <2>5. /\ app'.selection = None /\ app'.armed = armed /\ app'.finalisation = "none"
        /\ app'.message = app.message /\ app'.completion = None /\ app'.replies = app.replies
        /\ app'.told = app.told /\ app'.saves = app.saves /\ app'.run = app.run
        /\ app'.handoff = app.handoff /\ app'.card = app.card
    BY <1>4, <1>5, <2>2 DEF AppOK
  <2>6. app.replies = {}
    BY <1>1, <1>8 DEF Fit
  <2>7. Fit(app', machine')
    BY <1>1, <1>3, <2>3, <2>5, <2>6 DEF Fit, Busy
  <2>8. IInv'
    BY <1>1, <1>3, <2>4, <2>5, <2>7 DEF IInv, AtOK, Paired
  <2>9. Stage' = "setup"
    BY <1>3, <2>3, <2>4, <2>5, <2>7, StageOfQuiet DEF Stage
  <2> QED
    BY <1>1, <1>6, <2>4, <2>5, <2>8, <2>9, SilentSteps
<1> QED
  BY <1>7, <1>8 DEF TickSelect, FinishSelection

LEMMA FailAnswers ==
  ASSUME NEW a, AppOK(a)
  PROVE  LET b == Fail(a) IN
         /\ AppOK(b) /\ Rest(b) = Rest(a) /\ b.completion = "failed" /\ b.replies = {}
         /\ b.saves = a.saves /\ b.handoff = a.handoff /\ b.card = a.card
         /\ a.replies = {} => b.told = a.told
<1> DEFINE failed == [a EXCEPT !.completion = "failed"]
<1>1. Fail(a) = ReplyWaiters(failed)
  BY DEF Fail
<1>2. AppOK(failed)
  BY DEF AppOK, Outcomes
<1>3. /\ Rest(failed) = Rest(a) /\ failed.completion = "failed" /\ failed.replies = a.replies
      /\ failed.saves = a.saves /\ failed.handoff = a.handoff /\ failed.card = a.card
      /\ failed.told = a.told
  BY DEF AppOK, Rest
<1> HIDE DEF failed
<1>4. failed.completion # None
  BY <1>3, RecordingAssumption DEF Outcomes
<1> DEFINE b == ReplyWaiters(failed)
<1>5. /\ AppOK(b) /\ Rest(b) = Rest(a) /\ b.completion = "failed" /\ b.replies = {}
      /\ b.saves = a.saves /\ b.handoff = a.handoff /\ b.card = a.card
      /\ \A c \in Stops :
           b.told[c] = IF c \in a.replies THEN [a.told[c] EXCEPT !.answer = "failed"]
                                          ELSE a.told[c]
  BY <1>2, <1>3, <1>4, ReplyWaitersAnswers DEF Answered2
<1> HIDE DEF b
<1>6. a.replies = {} => b.told = a.told
  BY <1>5 DEF AppOK
<1> QED
  BY <1>1, <1>5, <1>6 DEF b

\* the start is taken, with what is known of the overlay then
Taken(a, overlay) == [a EXCEPT !.armed = None, !.overlay = overlay]

LEMMA TakenApp ==
  ASSUME NEW a, AppOK(a), NEW overlay \in BOOLEAN
  PROVE  LET b == Taken(a, overlay) IN
         /\ AppOK(b) /\ b.armed = None /\ b.selection = a.selection
         /\ b.finalisation = a.finalisation /\ b.message = a.message /\ b.run = a.run
         /\ b.completion = a.completion /\ b.replies = a.replies /\ b.told = a.told
         /\ b.saves = a.saves /\ b.handoff = a.handoff /\ b.card = a.card
<1> DEFINE b == [a EXCEPT !.armed = None, !.overlay = overlay]
<1>1. AppOK(b)
  BY DEF AppOK
<1>2. /\ b.armed = None /\ b.selection = a.selection
      /\ b.finalisation = a.finalisation /\ b.message = a.message /\ b.run = a.run
      /\ b.completion = a.completion /\ b.replies = a.replies /\ b.told = a.told
      /\ b.saves = a.saves /\ b.handoff = a.handoff /\ b.card = a.card
  BY DEF AppOK
<1> QED
  BY <1>1, <1>2 DEF Taken

LEMMA TickStartKeeps == ASSUME IInv, TickStart PROVE IInv' /\ ContractStep
<1> USE RecordingAssumption
<1>1. /\ AppOK(app) /\ MachineOK(machine) /\ Quiet(machine) /\ Fit(app, machine)
      /\ Paired(app) /\ app.handoff = None /\ at' = "clock" /\ app.armed # None /\ SessionOK'
  <2>1. session' = session \/ session' = NoSession
    BY DEF TickStart
  <2>2. SessionOK'
    <3>1. SessionOK
      BY DEF IInv
    <3>2. CASE session' = session
      BY <3>1, <3>2 DEF SessionOK
    <3>3. CASE session' = NoSession
      BY <3>3 DEF SessionOK, NoSession
    <3> QED
      BY <2>1, <3>2, <3>3
  <2> QED
    BY <2>2 DEF TickStart, IInv, AtOK
<1>2. /\ machine.phase = "idle" /\ machine.live = FALSE /\ app.selection = None
      /\ app.finalisation = "none" /\ app.completion = None /\ app.replies = {}
      /\ app.run \in 0..MaxRuns
  BY <1>1 DEF Fit, Busy, MachineOK, AppOK
<1>3. Stage = "setup"
  BY <1>1, StageOfQuiet DEF Stage
<1>4. ASSUME NEW overlay \in BOOLEAN
      PROVE  LET t == Taken(app, overlay) IN
             /\ AppOK(t) /\ t.armed = None /\ t.selection = None
             /\ t.finalisation = "none" /\ t.message = app.message /\ t.run = app.run
             /\ t.completion = None /\ t.replies = {} /\ t.told = app.told
             /\ t.saves = app.saves /\ t.handoff = None /\ t.card = app.card
  BY <1>1, <1>2, TakenApp
\* nothing has started
<1>5. ASSUME NEW overlay \in BOOLEAN, AppOK(app'), Rest(app') = Rest(Taken(app, overlay)),
             app'.completion = "failed", app'.replies = {}, app'.saves = app.saves,
             app'.told = app.told, app'.handoff = None, app'.card = app.card,
             Quiet(machine'), machine'.phase = "idle", machine'.live = FALSE
      PROVE  IInv' /\ ContractStep
  <2> DEFINE t == Taken(app, overlay)
  <2>1. /\ app'.armed = None /\ app'.selection = None /\ app'.finalisation = "none"
        /\ app'.message = app.message /\ app'.run = app.run
    BY <1>4, <1>5 DEF Rest
  <2>2. Fit(app', machine')
    BY <1>1, <1>2, <1>5, <2>1 DEF Fit, Busy
  <2>3. StageOf(app', machine') = "over"
    BY <1>5, <2>1, <2>2, StageOfQuiet
  <2>4. Over(app', machine')
    BY <1>5, <2>1, <2>2, <2>3 DEF Over
  <2>5. Paired(app')
    BY <1>1, <1>5 DEF Paired
  <2> QED
    BY <1>1, <1>3, <1>5, <2>4, <2>5, OverIsEnd, OverKeeps
<1>6. CASE app' = Fail([app EXCEPT !.armed = None]) /\ UNCHANGED machine
  <2> DEFINE t == Taken(app, app.overlay)
  <2>1. app.overlay \in BOOLEAN /\ [app EXCEPT !.armed = None] = t
    BY <1>1, ZenonT(60) DEF AppOK, Taken
  <2>2. app' = Fail(t)
    BY <1>6, <2>1
  <2>3. /\ AppOK(t) /\ t.replies = {} /\ t.told = app.told
        /\ t.saves = app.saves /\ t.handoff = None /\ t.card = app.card
    BY <1>4, <2>1
  <2> HIDE DEF t
  <2>4. /\ AppOK(app') /\ Rest(app') = Rest(t)
        /\ app'.completion = "failed" /\ app'.replies = {} /\ app'.saves = app.saves
        /\ app'.told = app.told /\ app'.handoff = None /\ app'.card = app.card
    BY <2>2, <2>3, FailAnswers
  <2> QED
    BY <1>1, <1>2, <1>5, <1>6, <2>1, <2>4 DEF t
<1>7. ASSUME NEW overlay \in BOOLEAN, NEW how \in {"invalid", "countdown", "fails", "starts"},
             Drains(IF how \in {"invalid", "fails"} THEN Fail(Taken(app, overlay))
                                                    ELSE Taken(app, overlay),
                    Begin(machine, app.run, how))
      PROVE  IInv' /\ ContractStep
  <2> DEFINE t == Taken(app, overlay)
             m == Begin(machine, app.run, how)
  <2>1. /\ AppOK(t) /\ t.armed = None /\ t.selection = None
        /\ t.finalisation = "none" /\ t.message = app.message /\ t.run = app.run
        /\ t.completion = None /\ t.replies = {} /\ t.told = app.told
        /\ t.saves = app.saves /\ t.handoff = None /\ t.card = app.card
    BY <1>4
  <2>2. /\ m.run = app.run /\ (m.live = TRUE <=> how = "starts") /\ m.live \in BOOLEAN
        /\ how = "invalid" => Quiet(m) /\ m.phase = machine.phase
        /\ how = "countdown" => Quiet(m) /\ m.phase = "countdown"
        /\ how = "starts" => Quiet(m) /\ m.phase = "recording"
        /\ how = "fails" => Ends(m, app.run, "error") /\ m.phase = "failed"
    <3> HIDE DEF t
    <3> DEFINE run == app.run
    <3>1. Quiet(machine) /\ run \in 0..MaxRuns
      BY <1>1, <1>2
    <3> HIDE DEF run
    <3>2. Begun(Begin(machine, run, how), machine, run, how)
      BY <3>1, BeginBegins
    <3> QED
      BY <3>2 DEF run, Begun
  <2>3. Drains(IF how \in {"invalid", "fails"} THEN Fail(t) ELSE t, m)
    BY <1>7
  <2> HIDE DEF m
  <2>4. LET f == Fail(t) IN
        /\ AppOK(f) /\ Rest(f) = Rest(t) /\ f.completion = "failed" /\ f.replies = {}
        /\ f.saves = app.saves /\ f.handoff = None /\ f.card = app.card /\ f.told = app.told
    BY <2>1, FailAnswers
  <2> HIDE DEF t
  <2>5. CASE how = "invalid"
    <3> DEFINE f == Fail(t)
    <3>1. app' = ReplyWaiters(f) /\ machine' = Drained(m) /\ Quiet(m)
      BY <2>2, <2>3, <2>5, DrainsQuiet
    <3>2. Quiet(machine') /\ machine'.phase = "idle" /\ machine'.live = FALSE
      BY <1>2, <2>2, <2>5, <3>1, DrainedIsQuiet DEF Quiet
    <3>3. /\ AppOK(f) /\ Rest(f) = Rest(t) /\ f.completion = "failed" /\ f.replies = {}
          /\ f.saves = app.saves /\ f.handoff = None /\ f.card = app.card /\ f.told = app.told
      BY <2>4
    <3> HIDE DEF f
    <3>4. f.completion # None
      BY <3>3 DEF Outcomes
    <3>5. /\ AppOK(app') /\ Rest(app') = Rest(f) /\ Answered2(f, app')
          /\ app'.saves = f.saves /\ app'.completion = f.completion
          /\ app'.handoff = f.handoff /\ app'.card = f.card
      BY <3>1, <3>3, ReplyWaitersAnswers
    <3>6. app'.replies = {} /\ \A c \in Stops : app'.told[c] = app.told[c]
      BY <3>3, <3>4, <3>5 DEF Answered2
    <3>7. app'.told = app.told
      BY <1>1, <3>5, <3>6 DEF AppOK
    <3>8. Rest(app') = Rest(Taken(app, overlay))
      BY <3>3, <3>5 DEF t
    <3> QED
      BY <1>5, <3>2, <3>3, <3>5, <3>6, <3>7, <3>8
  <2>6. CASE how \in {"countdown", "starts"}
    <3>1. app' = ReplyWaiters(t) /\ machine' = Drained(m) /\ Quiet(m)
      BY <2>2, <2>3, <2>6, DrainsQuiet
    <3>2. app' = t
      BY <2>1, <3>1 DEF ReplyWaiters
    <3>3. /\ Quiet(machine') /\ machine'.phase = m.phase /\ machine'.live = m.live
          /\ machine'.run = app.run /\ MachineOK(machine')
      BY <2>2, <3>1, DrainedIsQuiet DEF Quiet
    <3>4. /\ machine'.phase \in {"countdown", "recording"}
          /\ machine'.live <=> machine'.phase = "recording"
      BY <2>2, <2>6, <3>3
    <3>5. Fit(app', machine')
      BY <1>1, <1>2, <2>1, <3>2, <3>3, <3>4 DEF Fit, Busy
    <3>6. IInv'
      BY <1>1, <2>1, <3>2, <3>3, <3>5 DEF IInv, AtOK, Paired
    <3>7. Stage' \in {"setup", "capturing"}
      BY <2>1, <3>2, <3>3, <3>4, <3>5, StageOfQuiet DEF Stage
    <3> QED
      BY <1>1, <1>3, <2>1, <3>2, <3>6, <3>7, ContractSteps DEF Proceeds, Tells
  <2>7. CASE how = "fails"
    <3> DEFINE f == Fail(t)
    <3>1. "error" \in Results /\ Ends(m, app.run, "error") /\ Drains(f, m)
      BY <2>2, <2>3, <2>7 DEF Results
    <3>2. PICK luck \in Luck : app' = Drain(f, m, luck) /\ machine' = Drained(m)
      BY <1>2, <3>1, DrainsEnding
    <3>3. Quiet(machine') /\ machine'.phase = "failed" /\ machine'.live = FALSE
      BY <2>2, <2>7, <3>1, <3>2, DrainedIsQuiet DEF Ends
    <3>4. /\ AppOK(f) /\ Rest(f) = Rest(t) /\ f.replies = {}
          /\ f.saves = app.saves /\ f.handoff = None /\ f.card = app.card /\ f.told = app.told
      BY <2>4
    <3> HIDE DEF f
    <3>5. /\ f.selection = None /\ f.armed = None /\ f.finalisation = "none"
          /\ f.message = app.message /\ f.run = app.run
      BY <2>1, <3>4 DEF Rest
    <3>6. app.message.handoff => app.message.result # "error"
      BY <1>1 DEF Fit
    <3>7. Ending(f, "error", m, machine')
      BY <1>2, <1>3, <3>1, <3>3, <3>4, <3>5, <3>6 DEF Ending
    <3>8. Paired(f)
      BY <1>1, <3>4 DEF Paired
    <3>9. Over(app', machine') /\ Paired(app') /\ app'.handoff = None
      <4>1. AppOK(app) /\ Fit(app, machine)
        BY <1>1
      <4> QED
        BY <3>2, <3>4, <3>7, <3>8, <4>1, EndingIsOver
    <3> QED
      BY <1>1, <1>3, <3>3, <3>9, OverIsEnd, OverKeeps
  <2> QED
    BY <2>5, <2>6, <2>7
<1>8. CASE app.editor = "none"
  <2>1. PICK overlay \in BOOLEAN, how \in {"invalid", "countdown", "fails", "starts"} :
          LET ready == [[app EXCEPT !.armed = None] EXCEPT !.overlay = overlay] IN
          Drains(IF how \in {"invalid", "fails"} THEN Fail(ready) ELSE ready,
                 Begin(machine, app.run, how))
    BY <1>8 DEF TickStart
  <2>2. [[app EXCEPT !.armed = None] EXCEPT !.overlay = overlay] = Taken(app, overlay)
    BY <1>1 DEF AppOK, Taken
  <2> QED
    BY <1>7, <2>1, <2>2
<1> QED
  BY <1>6, <1>8 DEF TickStart

\* what the clock ends waits for the end of the tick
LEMMA PendingKeeps ==
  ASSUME IInv, Quiet(machine), app' = app, at = "clock", at' = "settle", SessionOK',
         machine.phase \in {"countdown", "recording"},
         NEW result \in Results, Ends(machine', app.run, result),
         machine'.phase \in {"finished", "failed"}, machine'.live = FALSE
  PROVE  IInv' /\ ContractStep
<1> USE RecordingAssumption
<1>1. AppOK(app) /\ Fit(app, machine) /\ Paired(app) /\ app.handoff = None /\ MachineOK(machine')
  BY DEF IInv, AtOK, Ends
<1>2. /\ app.selection = None /\ app.armed = None /\ app.finalisation = "none"
      /\ app.completion = None /\ app.replies = {}
  BY <1>1 DEF Fit, Busy
<1>3. Fit(app', machine')
  BY <1>1, <1>2 DEF Fit, Busy
<1>4. Pending'
  BY <1>2 DEF Pending
<1>5. IInv'
  BY <1>1, <1>3, <1>4 DEF IInv, AtOK
<1>6. Stage' = "capturing"
  <2>1. Endings(machine') # {}
    BY <1>1, EventTypes DEF Ends, Endings, AppOK
  <2> QED
    BY <1>2, <2>1 DEF Stage, StageOf
<1>7. Stage \in {"setup", "capturing"}
  BY <1>1, StageOfQuiet DEF Stage
<1> QED
  BY <1>1, <1>5, <1>6, <1>7, ContractSteps DEF Proceeds, Tells

LEMMA TickClockKeeps == ASSUME IInv, TickClock PROVE IInv' /\ ContractStep
<1> USE RecordingAssumption
<1>1. /\ AppOK(app) /\ MachineOK(machine) /\ Quiet(machine) /\ Fit(app, machine)
      /\ Paired(app) /\ app.handoff = None /\ at = "clock" /\ at' = "settle" /\ app' = app
  BY DEF TickClock, IInv, AtOK
<1>2. SessionOK /\ SessionOK'
  <2>1. SessionOK
    BY DEF IInv
  <2>2. CASE session' = session
    BY <2>1, <2>2 DEF SessionOK
  <2>3. CASE session' = NoSession
    BY <2>1, <2>3 DEF SessionOK, NoSession
  <2> QED
    BY <2>1, <2>2, <2>3 DEF TickClock
\* still recording, or nothing to do
<1>3. ASSUME Quiet(machine'), machine'.run = machine.run,
             machine'.live <=> machine'.phase = "recording",
             \/ machine'.phase = machine.phase
             \/ machine.phase = "countdown" /\ machine'.phase = "recording"
      PROVE  IInv' /\ ContractStep
  <2>1. Fit(app', machine')
    BY <1>1, <1>3 DEF Fit, Busy
  <2>2. IInv'
    BY <1>1, <1>2, <1>3, <2>1 DEF IInv, AtOK, Quiet
  <2>3. Stage' = Stage \/ (Stage = "setup" /\ Stage' = "capturing")
    BY <1>1, <1>3, <2>1, StageOfQuiet DEF Stage, Fit
  <2> QED
    BY <1>1, <2>2, <2>3, ContractSteps DEF Proceeds, Tells
<1>4. CASE machine' = machine
  BY <1>1, <1>3, <1>4 DEF Fit
<1>5. CASE machine.phase = "countdown" /\ \E starts \in BOOLEAN : machine' = StartRequest(machine, starts)
  <2>1. machine.run = app.run
    BY <1>1, <1>5 DEF Fit
  <2>2. CASE machine' = StartRequest(machine, TRUE)
    BY <1>1, <1>3, <1>5, <2>2, StartRequestStarts
  <2>3. CASE machine' = StartRequest(machine, FALSE)
    <3>1. Ends(machine', app.run, "error") /\ machine'.phase = "failed" /\ machine'.live = FALSE
      BY <1>1, <2>1, <2>3, StartRequestStarts
    <3>2. "error" \in Results
      BY DEF Results
    <3> QED
      BY <1>1, <1>2, <1>5, <3>1, <3>2, PendingKeeps
  <2> QED
    BY <1>5, <2>2, <2>3
<1>6. CASE machine.phase = "recording" /\ \E signal \in Signals : machine' = PollSession(machine, signal)
  <2>1. PICK signal \in {"none", "progress"} \union Results : machine' = PollSession(machine, signal)
    BY <1>2, <1>6 DEF Signals, SessionOK
  <2>2. machine.run = app.run
    BY <1>1, <1>6 DEF Fit
  <2>3. /\ machine'.run = machine.run
        /\ signal \in {"none", "progress"} =>
             Quiet(machine') /\ machine'.phase = machine.phase /\ machine'.live = machine.live
        /\ signal \in Results =>
             /\ Ends(machine', machine.run, signal)
             /\ machine'.phase \in {"finished", "failed"} /\ machine'.live = FALSE
    BY <1>1, <2>1, PollSessionPolls
  <2>4. CASE signal \in {"none", "progress"}
    BY <1>1, <1>3, <1>6, <2>3, <2>4 DEF Fit
  <2>5. CASE signal \in Results
    BY <1>1, <1>2, <1>6, <2>2, <2>3, <2>5, PendingKeeps
  <2> QED
    BY <2>4, <2>5
<1> QED
  BY <1>4, <1>5, <1>6 DEF TickClock

LEMMA TickSettleKeeps == ASSUME IInv, TickSettle PROVE IInv' /\ ContractStep
<1> USE RecordingAssumption
<1>1. /\ AppOK(app) /\ MachineOK(machine) /\ Fit(app, machine)
      /\ Paired(app) /\ app.handoff = None /\ at = "settle" /\ at' = "idle"
      /\ Quiet(machine) \/ Pending
  BY DEF TickSettle, IInv, AtOK
<1>2. SessionOK'
  BY DEF TickSettle, IInv, SessionOK
<1>3. CASE RequiresFinalisation /\ BeginFinalisation({})
  <2>1. Quiet(machine)
    BY <1>1, <1>3 DEF RequiresFinalisation, Pending
  <2> QED
    BY <1>1, <1>2, <1>3, <2>1, BeginFinalisationKeeps
<1>4. CASE Drains(app, machine) /\ Quiet(machine)
  <2>1. app' = ReplyWaiters(app) /\ machine' = Drained(machine)
    BY <1>4, DrainsQuiet
  <2>2. /\ Quiet(machine') /\ machine'.phase = machine.phase /\ machine'.live = machine.live
        /\ machine'.run = machine.run /\ MachineOK(machine')
    BY <1>1, <2>1, DrainedIsQuiet DEF Quiet
  <2>3. /\ AppOK(app') /\ Fit(app', machine) /\ Rest(app') = Rest(app) /\ app'.card = app.card
        /\ app'.handoff = app.handoff /\ app'.saves = app.saves /\ app'.told = app.told
    BY <1>1, <2>1, NothingToAnswer
  <2>4. Fit(app', machine')
    BY <2>2, <2>3 DEF Fit, Busy
  <2>5. IInv'
    BY <1>1, <1>2, <2>2, <2>3, <2>4 DEF IInv, AtOK, Paired
  <2>6. app'.run = app.run /\ app'.armed = app.armed
    BY <2>3 DEF Rest
  <2>7. Stage' = Stage
    BY <1>1, <1>4, <2>2, <2>3, <2>4, <2>6, StageOfQuiet DEF Stage
  <2> QED
    BY <1>1, <2>3, <2>5, <2>6, <2>7, SilentSteps
<1>5. CASE Drains(app, machine) /\ Pending
  <2>1. PICK result \in Results : Ends(machine, app.run, result)
    BY <1>5 DEF Pending
  <2>2. app.run \in 0..MaxRuns
    BY <1>1 DEF AppOK
  <2>3. PICK luck \in Luck : app' = Drain(app, machine, luck) /\ machine' = Drained(machine)
    BY <1>5, <2>1, <2>2, DrainsEnding
  <2>4. machine.phase \in {"finished", "failed"} /\ machine.live = FALSE
    BY <1>1, <1>5 DEF Pending, Fit, MachineOK
  <2>5. Quiet(machine') /\ machine'.phase = machine.phase /\ machine'.live = FALSE
    BY <1>1, <2>3, <2>4, DrainedIsQuiet
  <2>6. Stage = "capturing"
    BY <1>5, StagePending
  <2>7. app.selection = None /\ app.armed = None /\ app.finalisation = "none"
    BY <1>1, <2>4 DEF Fit
  <2>8. app.message.handoff => app.message.result # "error"
    BY <1>1 DEF Fit
  <2>9. Ending(app, result, machine, machine')
    BY <1>1, <2>1, <2>4, <2>5, <2>6, <2>7, <2>8 DEF Ending
  <2>10. Over(app', machine') /\ Paired(app') /\ app'.handoff = None
    <3>1. AppOK(app) /\ Fit(app, machine) /\ Paired(app) /\ app.handoff = None
      BY <1>1
    <3> QED
      BY <2>3, <2>9, <3>1, EndingIsOver
  <2> QED
    BY <1>1, <1>2, <2>5, <2>6, <2>10, OverIsEnd, OverKeeps
<1> QED
  BY <1>1, <1>3, <1>4, <1>5 DEF TickSettle

-----------------------------------------------------------------------------
(* The other threads                                                       *)

LEMMA SelectorKeeps == ASSUME IInv, Selector PROVE IInv' /\ ContractStep
<1> USE RecordingAssumption
<1>1. /\ AppOK(app) /\ Fit(app, machine) /\ machine' = machine /\ session' = session /\ at' = at
      /\ app.selection \in Selections
  BY DEF Selector, IInv, AppOK
<1>2. PICK answer \in {"target", "error"} : app' = [app EXCEPT !.selection.answer = answer]
  BY DEF Selector
<1> DEFINE sel == [app.selection EXCEPT !.answer = answer]
<1>3. sel \in Selections /\ sel.cancelled = app.selection.cancelled
  BY <1>1 DEF Selections
<1>4. app' = [app EXCEPT !.selection = sel]
  BY <1>2
<1> HIDE DEF sel
<1>5. sel # None
  BY <1>3
<1>6. AppOK(app')
  BY <1>1, <1>3, <1>4 DEF AppOK
<1>7. /\ app'.selection = sel /\ app'.armed = app.armed
      /\ app'.finalisation = app.finalisation /\ app'.message = app.message
      /\ app'.completion = app.completion /\ app'.replies = app.replies
      /\ app'.handoff = app.handoff /\ app'.run = app.run /\ app'.told = app.told
      /\ app'.saves = app.saves /\ app'.card = app.card
  BY <1>1, <1>4 DEF AppOK
<1>8. Fit(app', machine')
  BY <1>1, <1>3, <1>5, <1>7 DEF Fit, Busy
<1>9. IInv'
  BY <1>1, <1>5, <1>6, <1>7, <1>8 DEF IInv, AtOK, Paired, Pending, SessionOK
<1>10. Stage' = Stage
  <2>1. app.selection # None /\ app'.selection # None
    BY <1>5, <1>7 DEF Selector
  <2> QED
    BY <2>1 DEF Stage, StageOf
<1> QED
  BY <1>1, <1>6, <1>7, <1>9, <1>10, SilentSteps

LEMMA SessionKeeps ==
  ASSUME IInv, SessionStops \/ SessionEnds \/ SessionDies PROVE IInv' /\ ContractStep
<1>1. machine' = machine /\ app' = app /\ at' = at
  BY DEF SessionStops, SessionEnds, SessionDies
<1>2. SessionOK'
  <2>1. SessionOK /\ "error" \in Results
    BY DEF IInv, Results
  <2>2. CASE session' = [session EXCEPT !.over = TRUE]
    BY <2>1, <2>2 DEF SessionOK
  <2>3. ASSUME NEW result \in Results, session' = [session EXCEPT !.result = result]
        PROVE  SessionOK'
    BY <2>1, <2>3 DEF SessionOK
  <2> QED
    BY <2>1, <2>2, <2>3 DEF SessionStops, SessionEnds, SessionDies
<1>3. IInv'
  BY <1>1, <1>2 DEF IInv, AtOK, Pending
<1> QED
  BY <1>1, <1>3, SilentSteps DEF IInv, Stage

LEMMA FinaliserKeeps ==
  ASSUME IInv, Finaliser \/ FinaliserLost PROVE IInv' /\ ContractStep
<1> USE RecordingAssumption
<1>1. /\ AppOK(app) /\ Fit(app, machine) /\ Quiet(machine) /\ SessionOK
      /\ machine' = machine /\ at' = at /\ session' = NoSession
      /\ app.finalisation = "running"
  BY DEF Finaliser, FinaliserLost, IInv, AtOK, Pending, Fit
<1>2. SessionOK'
  BY <1>1 DEF SessionOK, NoSession
<1>3. PICK finalisation \in {"sent", "lost"}, result \in Results, handoff \in BOOLEAN :
        /\ app' = [app EXCEPT !.finalisation = finalisation,
                              !.message = [result |-> result, handoff |-> handoff]]
        /\ handoff => result # "error"
  <2>1. CASE Finaliser
    <3>1. Stopped \subseteq Results
      BY <1>1 DEF Stopped, SessionOK
    <3> QED
      BY <2>1, <3>1 DEF Finaliser
  <2>2. CASE FinaliserLost
    <3>1. app.message \in [result : Results, handoff : BOOLEAN]
          /\ app.message = [result |-> app.message.result, handoff |-> app.message.handoff]
          /\ (app.message.handoff => app.message.result # "error")
      BY <1>1 DEF AppOK, Fit
    <3>2. app' = [app EXCEPT !.finalisation = "lost",
                             !.message = [result |-> app.message.result,
                                          handoff |-> app.message.handoff]]
      BY <1>1, <2>2, <3>1, ZenonT(60) DEF FinaliserLost, AppOK
    <3> QED
      BY <3>1, <3>2
  <2> QED
    BY <2>1, <2>2
<1> DEFINE message == [result |-> result, handoff |-> handoff]
<1>4. message \in [result : Results, handoff : BOOLEAN]
      /\ (message.handoff => message.result # "error")
  BY <1>3
<1>5. app' = [app EXCEPT !.finalisation = finalisation, !.message = message]
  BY <1>3
<1> HIDE DEF message
<1>6. AppOK(app')
  BY <1>1, <1>4, <1>5 DEF AppOK
<1>7. /\ app'.selection = app.selection /\ app'.armed = app.armed
      /\ app'.finalisation = finalisation /\ app'.message = message
      /\ app'.completion = app.completion /\ app'.replies = app.replies
      /\ app'.handoff = app.handoff /\ app'.run = app.run /\ app'.told = app.told
      /\ app'.saves = app.saves /\ app'.card = app.card
  BY <1>1, <1>5 DEF AppOK
<1>8. Fit(app', machine')
  BY <1>1, <1>4, <1>7 DEF Fit, Busy
<1>9. IInv'
  BY <1>1, <1>2, <1>6, <1>7, <1>8 DEF IInv, AtOK, Paired
<1>10. Stage' = Stage
  BY <1>1, <1>6, <1>7, <1>8, StageOfQuiet DEF Stage
<1> QED
  BY <1>1, <1>6, <1>7, <1>9, <1>10, SilentSteps

-----------------------------------------------------------------------------
(* Quitting                                                                *)

LEMMA DroppedApp ==
  ASSUME NEW a, AppOK(a)
  PROVE  LET b == Dropped(a) IN
         /\ AppOK(b) /\ Rest(b) = Rest(a) /\ b.replies = {} /\ b.saves = a.saves
         /\ b.completion = a.completion
         /\ \A c \in Stops :
              b.told[c] = IF c \in a.replies THEN [a.told[c] EXCEPT !.answer = "dropped"]
                                             ELSE a.told[c]
         /\ a.replies = {} => b.told = a.told
<1> DEFINE told == [c \in Stops |-> IF c \in a.replies
                                      THEN [a.told[c] EXCEPT !.answer = "dropped"]
                                      ELSE a.told[c]]
           b == [a EXCEPT !.replies = {}, !.editor = "none", !.told = told]
<1>1. Dropped(a) = b
  BY DEF Dropped
<1>2. told \in [Stops -> [run : 0..MaxRuns, answer : Answers]]
  BY DEF AppOK, Answers
<1>3. a.replies = {} => told = a.told
  BY DEF AppOK
<1>4. \A c \in Stops : told[c] = IF c \in a.replies THEN [a.told[c] EXCEPT !.answer = "dropped"]
                                 ELSE a.told[c]
  OBVIOUS
<1> HIDE DEF told
<1>5. AppOK(b)
  BY <1>2 DEF AppOK
<1>6. /\ Rest(b) = Rest(a) /\ b.replies = {} /\ b.saves = a.saves
      /\ b.completion = a.completion /\ b.told = told
  BY DEF AppOK, Rest
<1> HIDE DEF b
<1> QED
  BY <1>1, <1>3, <1>4, <1>5, <1>6

\* the recording that a quit settles is over like any other
LEMMA QuitEnds ==
  ASSUME AppOK(app), Fit(app, machine), SessionOK', at' = "down",
         NEW a, NEW result, NEW m, NEW luck \in Luck, Ending(a, result, m, machine'),
         app' = Dropped(Drain(a, m, luck))
  PROVE  IInv' /\ ContractStep
<1> DEFINE b == Drain(a, m, luck)
<1>1. Over(b, machine')
  BY EndingIsOver
<1>2. app' = Dropped(b)
  OBVIOUS
<1> HIDE DEF b
<1>3. /\ AppOK(app') /\ Rest(app') = Rest(b) /\ app'.replies = {} /\ app'.saves = b.saves
      /\ app'.completion = b.completion /\ app'.told = b.told
  BY <1>1, <1>2, DroppedApp DEF Over
<1>4. Fit(app', machine') /\ StageOf(app', machine') = StageOf(b, machine')
  <2>1. Fit(b, machine') /\ b.replies = {}
    BY <1>1 DEF Over
  <2> DEFINE c == app'
             n == machine'
  <2>2. /\ Fit(b, n) /\ Rest(c) = Rest(b) /\ c.completion = b.completion
        /\ c.replies = b.replies /\ c.told = b.told
    BY <1>3, <2>1
  <2> HIDE DEF c, n
  <2>3. Fit(c, n) /\ StageOf(c, n) = StageOf(b, n)
    BY <2>2, SameFit
  <2> QED
    BY <2>3 DEF c, n
<1>5. Over(app', machine')
  BY <1>1, <1>3, <1>4 DEF Over, Rest
<1>6. Quiet(machine') /\ Stage \in {"setup", "capturing"}
  BY DEF Ending
<1> QED
  BY <1>5, <1>6, OverIsEnd, OverKeeps

LEMMA QuitKeeps == ASSUME IInv, Quit PROVE IInv' /\ ContractStep
<1> USE RecordingAssumption
<1>1. /\ AppOK(app) /\ MachineOK(machine) /\ Quiet(machine) /\ Fit(app, machine)
      /\ at = "idle" /\ at' = "down" /\ app.run \in 0..MaxRuns
  BY DEF Quit, IInv, AtOK, AppOK
<1>2. SessionOK'
  BY DEF Quit, SessionOK, NoSession
<1>3. PICK a \in AfterExport :
        \/ /\ app.finalisation # "none"
           /\ QuitFinalises([a EXCEPT !.finalisation = "none", !.message = NoMessage,
                                !.handoff = IF app.message.handoff THEN machine.run ELSE @],
                            machine)
        \/ /\ app.finalisation = "none" /\ machine.phase = "recording"
           /\ QuitFinalises(a, BeginFinalising(machine))
        \/ /\ app.finalisation = "none" /\ machine.phase # "recording"
           /\ app' = Dropped(a) /\ UNCHANGED machine
  BY DEF Quit
<1>4. /\ AppOK(a) /\ Rest(a) = Rest(app) /\ a.completion = app.completion
      /\ a.replies = app.replies /\ a.told = app.told /\ a.saves = app.saves
  <2>1. CASE a = app
    BY <1>1, <2>1
  <2>2. ASSUME NEW filed \in BOOLEAN, NEW handed \in BOOLEAN, a = Exported(app, filed, handed)
        PROVE  /\ AppOK(a) /\ Rest(a) = Rest(app) /\ a.completion = app.completion
               /\ a.replies = app.replies /\ a.told = app.told /\ a.saves = app.saves
    BY <1>1, <2>2, ExportedApp
  <2> QED
    BY <2>1, <2>2 DEF AfterExport
<1>5. /\ a.selection = app.selection /\ a.armed = app.armed
      /\ a.finalisation = app.finalisation /\ a.message = app.message /\ a.run = app.run
  BY <1>4 DEF Rest
<1>6. Fit(a, machine) /\ StageOf(a, machine) = Stage
  BY <1>1, <1>4, SameFit DEF Stage
<1>7. ASSUME NEW b, NEW m, QuitFinalises(b, m), Quiet(m), m.live = FALSE, m.run = app.run,
             AppOK(b), b.selection = None, b.armed = None, b.finalisation = "none",
             b.replies = app.replies, b.told = app.told, b.saves = app.saves, b.run = app.run,
             b.message.handoff => b.message.result # "error",
             Stage = "capturing"
      PROVE  IInv' /\ ContractStep
  <2>1. PICK result \in Results, luck \in Luck :
          /\ machine' = Drained(CompleteFinalising(m, result))
          /\ app' = Dropped(Drain(b, CompleteFinalising(m, result), luck))
    <3>1. app.message.result \in Results
      BY <1>1 DEF AppOK
    <3> QED
      BY <1>7, <3>1 DEF QuitFinalises
  <2> DEFINE ended == CompleteFinalising(m, result)
  <2>2. /\ Ends(ended, app.run, result) /\ ended.phase \in {"finished", "failed"}
        /\ ended.live = FALSE
    BY <1>7, FinishOutputEnds DEF CompleteFinalising
  <2>3. machine' = Drained(ended) /\ app' = Dropped(Drain(b, ended, luck))
    BY <2>1
  <2> HIDE DEF ended
  <2>4. Quiet(machine') /\ machine'.phase \in {"finished", "failed"} /\ machine'.live = FALSE
    BY <2>2, <2>3, DrainedIsQuiet DEF Ends
  <2>5. Ending(b, result, ended, machine')
    BY <1>7, <2>2, <2>4 DEF Ending
  <2> QED
    BY <1>1, <1>2, <2>3, <2>5, QuitEnds
<1>8. CASE /\ app.finalisation # "none"
           /\ QuitFinalises([a EXCEPT !.finalisation = "none", !.message = NoMessage,
                                !.handoff = IF app.message.handoff THEN machine.run ELSE @],
                            machine)
  <2>1. /\ machine.phase = "finalising" /\ machine.live = FALSE /\ machine.run = app.run
        /\ app.selection = None /\ app.armed = None
    BY <1>1, <1>8 DEF Fit, MachineOK
  <2>2. Stage = "capturing"
    BY <1>1, <2>1, StageOfQuiet DEF Stage
  <2> DEFINE handoff == IF app.message.handoff THEN machine.run ELSE a.handoff
             b == [a EXCEPT !.finalisation = "none", !.message = NoMessage, !.handoff = handoff]
  <2>3. handoff \in 0..MaxRuns \union {None}
    BY <1>1, <1>4, <2>1 DEF AppOK
  <2>4. NoMessage \in [result : Results, handoff : BOOLEAN] /\ ~NoMessage.handoff
    BY DEF NoMessage, Results
  <2>5. QuitFinalises(b, machine)
    BY <1>4, <1>8 DEF AppOK
  <2> HIDE DEF handoff
  <2>6. AppOK(b)
    BY <1>4, <2>3, <2>4 DEF AppOK
  <2>7. /\ b.selection = a.selection /\ b.armed = a.armed /\ b.finalisation = "none"
        /\ b.replies = a.replies /\ b.told = a.told /\ b.saves = a.saves /\ b.run = a.run
        /\ b.message = NoMessage
    BY <1>4 DEF AppOK
  <2> HIDE DEF b
  <2> QED
    BY <1>1, <1>4, <1>5, <1>7, <2>1, <2>2, <2>4, <2>5, <2>6, <2>7
<1>9. CASE /\ app.finalisation = "none" /\ machine.phase = "recording"
           /\ QuitFinalises(a, BeginFinalising(machine))
  <2> DEFINE m == BeginFinalising(machine)
  <2>1. Quiet(m) /\ m.live = FALSE /\ m.run = app.run
    BY <1>1, <1>9, BeginFinalisingQuiet DEF Fit
  <2>2. QuitFinalises(a, m)
    BY <1>9
  <2> HIDE DEF m
  <2>3. app.selection = None /\ app.armed = None
        /\ (app.message.handoff => app.message.result # "error")
    BY <1>1, <1>9 DEF Fit
  <2>4. Stage = "capturing"
    BY <1>1, <1>9, <2>3, StageOfQuiet DEF Stage
  <2> QED
    BY <1>4, <1>5, <1>7, <1>9, <2>1, <2>2, <2>3, <2>4
<1>10. CASE /\ app.finalisation = "none" /\ machine.phase # "recording"
            /\ app' = Dropped(a) /\ UNCHANGED machine
  <2>1. /\ AppOK(app') /\ Rest(app') = Rest(a) /\ app'.replies = {} /\ app'.saves = app.saves
        /\ app'.completion = app.completion
        /\ \A c \in Stops :
             app'.told[c] = IF c \in app.replies THEN [app.told[c] EXCEPT !.answer = "dropped"]
                                                 ELSE app.told[c]
    BY <1>4, <1>10, DroppedApp
  <2>2. /\ app'.selection = app.selection /\ app'.armed = app.armed
        /\ app'.finalisation = app.finalisation /\ app'.message = app.message
        /\ app'.run = app.run
    BY <1>5, <2>1 DEF Rest
  <2>3. \A c \in Stops : app'.told[c].answer # "waiting"
    <3> SUFFICES ASSUME NEW c \in Stops PROVE app'.told[c].answer # "waiting"
      OBVIOUS
    <3>1. app.told[c] \in [run : 0..MaxRuns, answer : Answers]
      BY <1>1 DEF AppOK
    <3> QED
      BY <1>1, <2>1, <3>1, ZenonT(60) DEF Fit
  <2>4. Fit(app', machine')
    BY <1>1, <1>10, <2>1, <2>2, <2>3 DEF Fit, Busy
  <2>5. IInv'
    BY <1>1, <1>2, <1>10, <2>1, <2>4 DEF IInv, AtOK
  <2>6. Stage' = Stage
    BY <1>10, <2>2 DEF Stage, StageOf, Endings
  <2>7. \A c \in Stops : Tells(c)
    BY <1>1, <2>1 DEF Tells, Fit
  <2> QED
    BY <1>1, <2>1, <2>2, <2>5, <2>6, <2>7, ContractSteps DEF Proceeds
<1> QED
  BY <1>3, <1>8, <1>9, <1>10

-----------------------------------------------------------------------------
(* The specification                                                       *)

LEMMA StepKeeps == ASSUME IInv, [Next]_vars PROVE IInv' /\ ContractStep
<1>1. CASE UNCHANGED vars
  <2>1. IInv'
    BY <1>1 DEF vars, IInv, AtOK, SessionOK, Pending
  <2>2. AppOK(app) /\ Stage' = Stage
    BY <1>1 DEF vars, IInv, Stage
  <2> QED
    BY <1>1, <2>1, <2>2, SilentSteps DEF vars
<1>2. CASE \E c \in Stops : ForwardStop(c)
  BY <1>2, ForwardStopKeeps
<1>3. CASE ForwardStart
  BY <1>3, ForwardStartKeeps
<1>4. CASE Toggle
  BY <1>4, ToggleKeeps
<1>5. CASE OpenEditor \/ Export \/ CloseEditor
  BY <1>5, EditorKeeps
<1>6. CASE Tick
  BY <1>6, TickFinishKeeps, TickExportKeeps, TickSelectKeeps, TickStartKeeps, TickClockKeeps,
     TickSettleKeeps DEF Tick
<1>7. CASE Selector
  BY <1>7, SelectorKeeps
<1>8. CASE SessionStops \/ SessionEnds \/ SessionDies
  BY <1>8, SessionKeeps
<1>9. CASE Finaliser \/ FinaliserLost
  BY <1>9, FinaliserKeeps
<1>10. CASE Quit
  BY <1>10, QuitKeeps
<1>11. CASE Ended
  BY <1>1, <1>11 DEF Ended
<1> QED
  BY <1>1, <1>2, <1>3, <1>4, <1>5, <1>6, <1>7, <1>8, <1>9, <1>10, <1>11 DEF Next

\* What holds of the machine and the application at each step of a tick is kept
\* by every handler, every step of the tick, every thread and the quit.
THEOREM Inductive == Spec => []IInv
<1>1. Init => IInv
  BY InitIInv
<1>2. IInv /\ [Next]_vars => IInv'
  BY StepKeeps
<1> QED
  BY <1>1, <1>2, PTL DEF Spec

\* The machine's event queue never passes its limit, and all that the machine
\* and RecordingState hold keeps to its type.
THEOREM TypeCorrect == Spec => []TypeOK
<1>1. IInv => TypeOK
  BY IInvImplies
<1> QED
  BY <1>1, Inductive, PTL

\* The machine and what the application keeps beside it never part, however
\* requests, ticks, the threads and the quit interleave.
THEOREM StaysCoupled == Spec => []Coupled
<1>1. IInv => Coupled
  BY IInvImplies
<1> QED
  BY <1>1, Inductive, PTL

\* No card shows the media of one recording with the history row of another.
THEOREM CardsArePaired == Spec => []CardsPair
<1>1. IInv => CardsPair
  BY IInvImplies
<1> QED
  BY <1>1, Inductive, PTL

\* Whoever asks for a recording to be stopped hears how that recording ended,
\* and each recording ends once and is kept at most once.
THEOREM ImplementsContract == Spec => KeepsContract
<1>1. Init => Contract!Init
  BY RecordingAssumption, PendingAssumption DEF Init, Contract!Init, NewMachine, Endings, IsTerminal
<1>2. IInv /\ [Next]_vars => ContractStep
  BY StepKeeps
<1>3. IInv /\ [Next]_vars => [Contract!Next]_(Contract!vars)
  BY <1>2 DEF ContractStep
<1> QED
  BY <1>1, <1>3, Inductive, PTL DEF Spec, KeepsContract, Contract!Spec
=============================================================================

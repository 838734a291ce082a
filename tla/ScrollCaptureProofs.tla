------------------------- MODULE ScrollCaptureProofs -------------------------
(***************************************************************************)
(* That a scrolling capture ends as it was asked to, keeps what was        *)
(* stitched and obeys its own requests only, and that the frames it takes  *)
(* are what the producer sent last, since the delivery before and before   *)
(* the end of the stream: for every producer, number of captures and       *)
(* requests, limit of frames, and queue that callbacks leave.              *)
(*                                                                         *)
(* The first part is about FrameStream.  Its operators that go through a   *)
(* queue are recursive functions: what they return is shown by induction   *)
(* over its events.                                                        *)
(***************************************************************************)
EXTENDS ScrollCapture, TLAPS, FiniteSetTheorems, SequenceTheorems

-----------------------------------------------------------------------------
(* Induction, and functions defined by recursion                           *)

\* every set of numbers has a least one, as subsets of finite sets run out
LEMMA LeastNat == ASSUME NEW T, T \subseteq Nat, T # {} PROVE \E m \in T : \A k \in T : m <= k
<1> DEFINE U == {0..k : k \in T}
<1>1. U \subseteq FiniteSubsetsOf(Nat) /\ U # {}
  <2>1. \A k \in T : IsFiniteSet(0..k) /\ 0..k \subseteq Nat BY FS_Interval
  <2> QED BY <2>1 DEF FiniteSubsetsOf
<1>2. \E s \in U : \A r \in U : ~(<<r, s>> \in StrictSubsetOrdering(Nat))
  <2> HIDE DEF U
  <2> QED BY <1>1, FS_StrictSubsetOrderingWellFounded, WFMin
<1>3. PICK m \in T : \A k \in T : ~(<<0..k, 0..m>> \in StrictSubsetOrdering(Nat)) BY <1>2
<1>4. ASSUME NEW k \in T, k < m PROVE FALSE
  <2>1. 0..k \subseteq 0..m /\ m \in 0..m /\ m \notin 0..k BY <1>4
  <2>2. 0..k \in SUBSET Nat /\ 0..m \in SUBSET Nat OBVIOUS
  <2> QED BY <1>3, <2>1, <2>2 DEF StrictSubsetOrdering
<1> QED BY <1>4

\* induction, over the set of the numbers that have the property
LEMMA SetInduction ==
  ASSUME NEW A, 0 \in A, \A n \in Nat : n \in A => n + 1 \in A PROVE Nat \subseteq A
<1> SUFFICES ASSUME ~(Nat \subseteq A) PROVE FALSE OBVIOUS
<1>1. PICK m \in Nat \ A : \A k \in Nat \ A : m <= k BY LeastNat
<1>2. m # 0 /\ m - 1 \in Nat BY <1>1
<1>3. m - 1 \in A BY <1>1, <1>2
<1> QED BY <1>1, <1>2, <1>3

\* what a function makes of base in k steps, up to n of them
Iterates(g, A, base, n, step) ==
  g \in [0..n -> A] /\ g[0] = base /\ \A k \in 1..n : g[k] = step[k][g[k-1]]

\* there is such a function, so CHOOSE finds it
LEMMA IteratesExist ==
  ASSUME NEW A, NEW base \in A, NEW n \in Nat, NEW step \in [1..n -> [A -> A]]
  PROVE  \E g : Iterates(g, A, base, n, step)
<1> DEFINE G == {k \in Nat : k <= n => \E g : Iterates(g, A, base, k, step)}
<1>1. 0 \in G
  <2>1. Iterates([k \in 0..0 |-> base], A, base, 0, step) BY DEF Iterates
  <2> QED BY <2>1
<1>2. ASSUME NEW k \in Nat, k \in G PROVE k + 1 \in G
  <2>1. ASSUME k + 1 <= n PROVE \E g : Iterates(g, A, base, k + 1, step)
    <3>1. PICK g : Iterates(g, A, base, k, step) BY <1>2, <2>1
    <3> DEFINE h == [i \in 0..(k+1) |-> IF i <= k THEN g[i] ELSE step[k+1][g[k]]]
    <3>2. g \in [0..k -> A] /\ g[k] \in A /\ step[k+1] \in [A -> A] BY <2>1, <3>1 DEF Iterates
    <3>3. h \in [0..(k+1) -> A] BY <3>2
    <3>4. h[0] = base BY <3>1 DEF Iterates
    <3>5. ASSUME NEW i \in 1..(k+1) PROVE h[i] = step[i][h[i-1]]
      <4>1. i - 1 \in 0..k /\ h[i-1] = g[i-1] OBVIOUS
      <4>2. CASE i <= k
        <5>1. i \in 1..k /\ h[i] = g[i] BY <4>2
        <5> QED BY <4>1, <5>1, <3>1 DEF Iterates
      <4>3. CASE i = k + 1 BY <4>1, <4>3
      <4> QED BY <4>2, <4>3
    <3> HIDE DEF h
    <3>6. Iterates(h, A, base, k + 1, step) BY <3>3, <3>4, <3>5 DEF Iterates
    <3> QED BY <3>6
  <2> QED BY <2>1
<1>3. n \in G
  <2> HIDE DEF G
  <2> QED BY <1>1, <1>2, SetInduction
<1> QED BY <1>3

\* what holds at first and is kept by every step holds in the end
LEMMA IteratesWithin ==
  ASSUME NEW n \in Nat, NEW g, NEW J,
         g[0] \in J[0],
         \A k \in 1..n : g[k-1] \in J[k-1] => g[k] \in J[k]
  PROVE  g[n] \in J[n]
<1> DEFINE G == {k \in Nat : k <= n => g[k] \in J[k]}
<1>1. 0 \in G OBVIOUS
<1>2. ASSUME NEW k \in Nat, k \in G PROVE k + 1 \in G
  <2>1. CASE k + 1 <= n
    <3>1. k + 1 \in 1..n /\ (k + 1) - 1 = k BY <2>1
    <3> QED BY <1>2, <3>1, <2>1
  <2> QED BY <2>1
<1>3. n \in G
  <2> HIDE DEF G
  <2> QED BY <1>1, <1>2, SetInduction
<1> QED BY <1>3

-----------------------------------------------------------------------------
(* Going through a queue                                                   *)

LEMMA ObserveType ==
  ASSUME NEW l \in Lifecycles, NEW e \in Events PROVE Observe(e)[l] \in Lifecycles
  BY DEF Observe, Lifecycles, Events, States, Terminal

\* What Lifecycle::observe makes of one event after another stays within
\* sets that each event leads on from.
LEMMA ObserveAllWithin ==
  ASSUME NEW life \in Lifecycles, NEW events \in Seq(Events), NEW J,
         life \in J[0],
         \A k \in 1..Len(events) : \A l \in Lifecycles \cap J[k-1] : Observe(events[k])[l] \in J[k]
  PROVE  ObserveAll(life, events) \in Lifecycles \cap J[Len(events)]
<1> DEFINE n == Len(events)
           Is(g) == g = [k \in 0..n |-> IF k = 0 THEN life ELSE Observe(events[k])[g[k-1]]]
           upto == CHOOSE g : Is(g)
<1>1. n \in Nat /\ \A k \in 1..n : events[k] \in Events OBVIOUS
<1>2. ObserveAll(life, events) = upto[n] BY DEF ObserveAll
<1> HIDE DEF n
<1>3. \E g : Is(g)
  <2> DEFINE step == [k \in 1..n |-> [l \in Lifecycles |-> Observe(events[k])[l]]]
  <2>1. step \in [1..n -> [Lifecycles -> Lifecycles]]
    <3>1. \A k \in 1..n : \A l \in Lifecycles : Observe(events[k])[l] \in Lifecycles
      BY <1>1, ObserveType
    <3> QED BY <3>1
  <2>2. PICK g : Iterates(g, Lifecycles, life, n, step)
    <3> HIDE DEF step
    <3> QED BY <1>1, <2>1, IteratesExist
  <2>3. g \in [0..n -> Lifecycles] /\ g[0] = life BY <2>2 DEF Iterates
  <2>4. ASSUME NEW k \in 1..n PROVE g[k] = Observe(events[k])[g[k-1]]
    <3>1. g[k] = step[k][g[k-1]] BY <2>2 DEF Iterates
    <3>2. g[k-1] \in Lifecycles BY <2>3, <1>1
    <3> QED BY <3>1, <3>2
  <2>5. \A k \in 0..n : g[k] = IF k = 0 THEN life ELSE Observe(events[k])[g[k-1]]
    BY <2>3, <2>4, <1>1
  <2>6. Is(g)
    <3> HIDE DEF step
    <3> QED BY <2>3, <2>5
  <2> QED BY <2>6
<1>4. Is(upto)
  <2> HIDE DEF Is
  <2> QED BY <1>3
<1> HIDE DEF upto
<1>5. upto[0] = life /\ \A k \in 1..n : upto[k] = Observe(events[k])[upto[k-1]]
  BY <1>1, <1>4
<1> DEFINE K == [k \in 0..n |-> Lifecycles \cap J[k]]
<1>6. upto[0] \in K[0] BY <1>1, <1>5
<1>7. ASSUME NEW k \in 1..n, upto[k-1] \in K[k-1] PROVE upto[k] \in K[k]
  <2>1. upto[k-1] \in Lifecycles \cap J[k-1] BY <1>1, <1>7
  <2>2. upto[k] \in Lifecycles BY <2>1, <1>1, <1>5, ObserveType
  <2>3. upto[k] \in J[k] BY <2>1, <1>5 DEF n
  <2> QED BY <2>2, <2>3, <1>1
<1>8. upto[n] \in K[n]
  <2> HIDE DEF K
  <2> QED BY <1>1, <1>6, <1>7, IteratesWithin
<1> QED BY <1>1, <1>2, <1>8 DEF n

\* t are the events at these places up to k, as they were: f says where each is from
PicksUpto(t, f, events, these, k) ==
  /\ f \in [1..Len(t) -> these \cap 1..k]
  /\ \A i \in 1..Len(t) : t[i] = events[f[i]]
  /\ \A i, j \in 1..Len(t) : f[i] = f[j] => i = j
  /\ \A j \in these \cap 1..k : \E i \in 1..Len(t) : f[i] = j

\* Selected takes every event of these places once
LEMMA SelectedPicks ==
  ASSUME NEW A, NEW events \in Seq(A), NEW these
  PROVE  /\ Selected(events, these) \in Seq(A)
         /\ \E f : PicksUpto(Selected(events, these), f, events, these, Len(events))
<1> DEFINE n == Len(events)
           Is(g) == g = [k \in 0..n |-> IF k = 0 THEN <<>>
                                        ELSE IF k \in these THEN Append(g[k-1], events[k])
                                        ELSE g[k-1]]
           upto == CHOOSE g : Is(g)
<1>1. n \in Nat /\ \A k \in 1..n : events[k] \in A OBVIOUS
<1>2. Selected(events, these) = upto[n] BY DEF Selected
<1> HIDE DEF n
<1>3. \E g : Is(g)
  <2> DEFINE step == [k \in 1..n |-> [t \in Seq(A) |->
                        IF k \in these THEN Append(t, events[k]) ELSE t]]
  <2>1. step \in [1..n -> [Seq(A) -> Seq(A)]]
    <3>1. \A k \in 1..n : \A t \in Seq(A) : Append(t, events[k]) \in Seq(A)
      BY <1>1, AppendProperties
    <3> QED BY <3>1
  <2>2. PICK g : Iterates(g, Seq(A), <<>>, n, step)
    <3>1. <<>> \in Seq(A) BY EmptySeq
    <3> HIDE DEF step
    <3> QED BY <1>1, <2>1, <3>1, IteratesExist
  <2>3. g \in [0..n -> Seq(A)] /\ g[0] = <<>> BY <2>2 DEF Iterates
  <2>4. ASSUME NEW k \in 1..n
        PROVE  g[k] = IF k \in these THEN Append(g[k-1], events[k]) ELSE g[k-1]
    <3>1. g[k] = step[k][g[k-1]] BY <2>2 DEF Iterates
    <3>2. g[k-1] \in Seq(A) BY <2>3, <1>1
    <3> QED BY <3>1, <3>2
  <2>5. ASSUME NEW k \in 0..n
        PROVE  g[k] = IF k = 0 THEN <<>>
                      ELSE IF k \in these THEN Append(g[k-1], events[k]) ELSE g[k-1]
    <3>1. CASE k = 0 BY <3>1, <2>3
    <3>2. CASE k # 0
      <4>1. k \in 1..n BY <3>2, <1>1
      <4> QED BY <4>1, <3>2, <2>4, Zenon
    <3> QED BY <3>1, <3>2
  <2>6. Is(g)
    <3> HIDE DEF step
    <3> QED BY <2>3, <2>5
  <2> QED BY <2>6
<1>4. Is(upto)
  <2> HIDE DEF Is
  <2> QED BY <1>3
<1> HIDE DEF upto
<1>5. /\ upto[0] = <<>>
      /\ \A k \in 1..n : upto[k] = IF k \in these THEN Append(upto[k-1], events[k]) ELSE upto[k-1]
  <2>1. \A k \in 0..n : upto[k] = IF k = 0 THEN <<>>
                                  ELSE IF k \in these THEN Append(upto[k-1], events[k])
                                  ELSE upto[k-1]
    BY <1>4, Zenon
  <2>2. 0 \in 0..n /\ \A k \in 1..n : k \in 0..n /\ k # 0 BY <1>1
  <2>3. upto[0] = <<>> BY <2>1, <2>2, Zenon
  <2>4. ASSUME NEW k \in 1..n
        PROVE  upto[k] = IF k \in these THEN Append(upto[k-1], events[k]) ELSE upto[k-1]
    BY <2>1, <2>2, Zenon
  <2> QED BY <2>3, <2>4
<1> DEFINE J == [k \in 0..n |-> {t \in Seq(A) : \E f : PicksUpto(t, f, events, these, k)}]
<1>6. upto[0] \in J[0]
  <2>1. <<>> \in Seq(A) /\ Len(<<>>) = 0 BY EmptySeq
  <2>2. PicksUpto(<<>>, [i \in 1..0 |-> 0], events, these, 0) BY <2>1 DEF PicksUpto
  <2> QED BY <2>1, <2>2, <1>1, <1>5
<1>7. ASSUME NEW k \in 1..n, upto[k-1] \in J[k-1] PROVE upto[k] \in J[k]
  <2>1. k \in Nat /\ k - 1 \in 0..n /\ k \in 0..n BY <1>1
  <2> DEFINE t == upto[k-1]
  <2>2. t \in Seq(A) /\ \E f : PicksUpto(t, f, events, these, k-1) BY <1>7, <2>1
  <2>3. PICK f : PicksUpto(t, f, events, these, k-1) BY <2>2
  <2> HIDE DEF t
  <2>4. CASE k \notin these
    <3>1. these \cap 1..k = these \cap 1..(k-1) BY <2>1, <2>4
    <3>2. PicksUpto(t, f, events, these, k) BY <2>3, <3>1 DEF PicksUpto
    <3>3. upto[k] = t BY <1>5, <2>4 DEF t
    <3> QED BY <3>2, <3>3, <2>1, <2>2
  <2>5. CASE k \in these
    <3> DEFINE u == Append(t, events[k])
               h == [i \in 1..(Len(t) + 1) |-> IF i = Len(t) + 1 THEN k ELSE f[i]]
    <3>1. /\ u \in Seq(A) /\ Len(t) \in Nat /\ Len(u) = Len(t) + 1
          /\ \A i \in 1..Len(t) : u[i] = t[i]
          /\ u[Len(t) + 1] = events[k]
      BY <2>2, <1>1, AppendProperties
    <3>2. \A i \in 1..Len(t) : f[i] \in these \cap 1..(k-1) BY <2>3 DEF PicksUpto
    <3>3. h \in [1..Len(u) -> these \cap 1..k] BY <2>1, <2>5, <3>1, <3>2
    <3>4. \A i \in 1..Len(u) : u[i] = events[h[i]] BY <2>3, <3>1 DEF PicksUpto
    <3>5. \A i, j \in 1..Len(u) : h[i] = h[j] => i = j
      <4>1. \A i \in 1..Len(u) : h[i] = k <=> i = Len(t) + 1 BY <3>1, <3>2, <2>1
      <4>2. \A i \in 1..Len(u) : i # Len(t) + 1 => i \in 1..Len(t) /\ h[i] = f[i] BY <3>1
      <4>3. \A i, j \in 1..Len(t) : f[i] = f[j] => i = j BY <2>3 DEF PicksUpto
      <4> HIDE DEF h
      <4> QED BY <4>1, <4>2, <4>3
    <3>6. ASSUME NEW j \in these \cap 1..k PROVE \E i \in 1..Len(u) : h[i] = j
      <4>1. CASE j = k BY <4>1, <3>1
      <4>2. CASE j # k
        <5>1. j \in these \cap 1..(k-1) BY <4>2, <2>1
        <5>2. PICK i \in 1..Len(t) : f[i] = j BY <5>1, <2>3 DEF PicksUpto
        <5> QED BY <5>2, <3>1
      <4> QED BY <4>1, <4>2
    <3> HIDE DEF h, u
    <3>7. PicksUpto(u, h, events, these, k) BY <3>3, <3>4, <3>5, <3>6 DEF PicksUpto
    <3>8. upto[k] = u BY <1>5, <2>5 DEF t, u
    <3> QED BY <3>1, <3>7, <3>8, <2>1
  <2> QED BY <2>4, <2>5
<1>8. upto[n] \in J[n]
  <2> HIDE DEF J
  <2> QED BY <1>1, <1>6, <1>7, IteratesWithin
<1> QED BY <1>1, <1>2, <1>8 DEF n
-----------------------------------------------------------------------------
(* What holds of the shared state                                          *)

Frames == [sequence : Nat, format : Formats, page : {None} \union (0..MaxPages)]

Shareds ==
  [events : Seq(Queueable), negotiated : Formats \union {None}, next : Nat, delivered : Nat,
   state : States \union {None}, streamed : BOOLEAN, frame : Frames \union {None}]

HasTerminal(events) == \E i \in DOMAIN events : IsTerminal(events[i])

OneMedia(events) ==
  \A i, j \in DOMAIN events : events[i].kind \in Media /\ events[j].kind \in Media => i = j

\* the timeline is in order, and one event of a buffer is queued at most
Loose(s) == s \in Shareds /\ s.delivered <= s.next /\ OneMedia(s.events)

\* The frame is what was sent last, in the format that was agreed on; news says
\* that something was sent since the delivery before.
FrameSound(s, sent, news) ==
  s.frame # None => /\ s.frame.sequence <= s.next /\ s.frame.format = s.negotiated
                    /\ s.frame.page = sent
                    /\ Fresh(s, s.frame.sequence) => news

\* An event of a frame is as new as the frame.
QueueSound(s, news) ==
  \A i \in DOMAIN s.events : s.events[i].kind \in {"ready", "nodamage"} =>
    /\ s.events[i].sequence <= s.next
    /\ Fresh(s, s.events[i].sequence) => news
    /\ s.frame # None => s.frame.sequence <= s.events[i].sequence

Sound(s, sent, news) == Loose(s) /\ FrameSound(s, sent, news) /\ QueueSound(s, news)

-----------------------------------------------------------------------------
(* Queues                                                                  *)

LEMMA Kinds ==
  ASSUME NEW e \in Queueable
  PROVE  /\ e.kind \in {"ready", "nodamage"} =>
              /\ e.sequence \in Nat
              /\ [e EXCEPT !.kind = "ready"] \in Events
              /\ [e EXCEPT !.kind = "ready"].kind = "ready"
              /\ [e EXCEPT !.kind = "ready"].sequence = e.sequence
         /\ e.kind \notin {"empty", "nodamage"} => e \in Events
         /\ e.kind = "state" => e.state \in States
  BY DEF Queueable, Events

\* what is selected was queued, and nothing of these places is left out
LEMMA SelectedKeeps ==
  ASSUME NEW events \in Seq(Queueable), NEW these \in SUBSET DOMAIN events
  PROVE  LET t == Selected(events, these)
         IN  /\ t \in Seq(Queueable)
             /\ \A i \in DOMAIN t : \E j \in these : t[i] = events[j]
             /\ \A j \in these : \E i \in DOMAIN t : t[i] = events[j]
             /\ OneMedia(events) => OneMedia(t)
<1> DEFINE t == Selected(events, these)
<1>1. t \in Seq(Queueable) BY SelectedPicks
<1>2. PICK f : PicksUpto(t, f, events, these, Len(events)) BY SelectedPicks
<1>3. DOMAIN t = 1..Len(t) /\ these \cap 1..Len(events) = these BY <1>1
<1> HIDE DEF t
<1>4. \A i \in DOMAIN t : f[i] \in these /\ t[i] = events[f[i]] BY <1>2, <1>3 DEF PicksUpto
<1>5. \A j \in these : \E i \in DOMAIN t : t[i] = events[j]
  <2> TAKE j \in these
  <2>1. PICK i \in DOMAIN t : f[i] = j BY <1>2, <1>3 DEF PicksUpto
  <2> QED BY <2>1, <1>4
<1>6. ASSUME OneMedia(events) PROVE OneMedia(t)
  <2>1. ASSUME NEW i \in DOMAIN t, NEW j \in DOMAIN t, t[i].kind \in Media, t[j].kind \in Media
        PROVE  i = j
    <3>1. f[i] \in DOMAIN events /\ f[j] \in DOMAIN events BY <1>4
    <3>2. f[i] = f[j] BY <1>4, <1>6, <2>1, <3>1 DEF OneMedia
    <3> QED BY <3>2, <1>2, <1>3 DEF PicksUpto
  <2> QED BY <2>1 DEF OneMedia
<1> QED BY <1>1, <1>4, <1>5, <1>6 DEF t

LEMMA WithoutKeeps ==
  ASSUME NEW events \in Seq(Queueable), NEW kinds, "state" \notin kinds
  PROVE  LET t == Without(events, kinds)
         IN  /\ t \in Seq(Queueable)
             /\ \A i \in DOMAIN t : t[i].kind \notin kinds /\ \E j \in DOMAIN events : t[i] = events[j]
             /\ HasTerminal(events) => HasTerminal(t)
             /\ OneMedia(events) => OneMedia(t)
<1> DEFINE these == DOMAIN events \ Queued(events, kinds)
           t == Selected(events, these)
<1>1. t = Without(events, kinds) BY DEF Without
<1>2. these \in SUBSET DOMAIN events /\ \A j \in these : events[j].kind \notin kinds BY DEF Queued
<1>3. \A j \in DOMAIN events : IsTerminal(events[j]) => j \in these BY DEF Queued, IsTerminal
<1> HIDE DEF these
<1>4. /\ t \in Seq(Queueable)
      /\ \A i \in DOMAIN t : \E j \in these : t[i] = events[j]
      /\ \A j \in these : \E i \in DOMAIN t : t[i] = events[j]
      /\ OneMedia(events) => OneMedia(t)
  BY <1>2, SelectedKeeps
<1> HIDE DEF t
<1>5. ASSUME NEW i \in DOMAIN t
      PROVE  t[i].kind \notin kinds /\ \E j \in DOMAIN events : t[i] = events[j]
  BY <1>2, <1>4
<1>6. HasTerminal(events) => HasTerminal(t)
  BY <1>3, <1>4 DEF HasTerminal
<1> QED BY <1>1, <1>4, <1>5, <1>6

LEMMA AppendKeeps ==
  ASSUME NEW events \in Seq(Queueable), NEW e \in Queueable
  PROVE  LET t == Append(events, e)
         IN  /\ t \in Seq(Queueable) /\ DOMAIN t = 1..(Len(events) + 1)
             /\ \A i \in DOMAIN events : i \in DOMAIN t /\ t[i] = events[i]
             /\ t[Len(events) + 1] = e
             /\ \A i \in DOMAIN t : i \in DOMAIN events \/ i = Len(events) + 1
             /\ HasTerminal(events) \/ IsTerminal(e) => HasTerminal(t)
             /\ OneMedia(events) /\ (e.kind \in Media => Queued(events, Media) = {}) => OneMedia(t)
<1> DEFINE t == Append(events, e)
<1>1. /\ t \in Seq(Queueable) /\ DOMAIN t = 1..(Len(events) + 1) /\ DOMAIN events = 1..Len(events)
      /\ Len(events) \in Nat
      /\ \A i \in DOMAIN events : i \in DOMAIN t /\ t[i] = events[i]
      /\ t[Len(events) + 1] = e
  BY AppendProperties
<1>2. \A i \in DOMAIN t : i \in DOMAIN events \/ i = Len(events) + 1 BY <1>1
<1> HIDE DEF t
<1>3. HasTerminal(events) \/ IsTerminal(e) => HasTerminal(t)
  BY <1>1 DEF HasTerminal
<1>4. OneMedia(events) /\ (e.kind \in Media => Queued(events, Media) = {}) => OneMedia(t)
  BY <1>1, <1>2 DEF OneMedia, Queued
<1> QED BY <1>1, <1>2, <1>3, <1>4 DEF t

\* the event that e is coalesced with, and what becomes of the two
LEMMA CoalescedKeeps ==
  ASSUME NEW events \in Seq(Queueable), NEW kinds \in {Media, {"state"}},
         NEW e \in Queueable, e.kind \in kinds, OneMedia(events)
  PROVE  LET t == Coalesced(events, kinds, e)
         IN  /\ t \in Seq(Queueable) /\ OneMedia(t)
             /\ HasTerminal(events) \/ IsTerminal(e) => HasTerminal(t)
             /\ \A i \in DOMAIN t :
                  \/ i \in DOMAIN events /\ t[i] = events[i] /\ t[i].kind \notin kinds
                  \/ kinds = {"state"} /\ i \in DOMAIN events /\ t[i] = events[i]
                  \/ t[i] = e
                  \/ kinds = Media /\ \E c \in Queueable :
                       /\ \E j \in DOMAIN events : c = events[j]
                       /\ c.kind \in Media /\ t[i] = PreferMedia(c, e)
<1> DEFINE t == Coalesced(events, kinds, e)
<1>1. CASE Queued(events, kinds) = {}
  <2>1. t = Append(events, e) BY <1>1 DEF Coalesced
  <2>2. e.kind \in Media => Queued(events, Media) = {} BY <1>1 DEF Media
  <2>3. \A i \in DOMAIN events : events[i].kind \notin kinds BY <1>1 DEF Queued
  <2> HIDE DEF t
  <2> QED BY <2>1, <2>2, <2>3, AppendKeeps DEF t
<1>2. CASE Queued(events, kinds) # {}
  <2> DEFINE q == CHOOSE q \in Queued(events, kinds) : TRUE
             c == events[q]
             w == IF e.kind = "state" THEN PreferState(c, e) ELSE PreferMedia(c, e)
  <2>1. q \in Queued(events, kinds) BY <1>2
  <2>2. q \in DOMAIN events /\ c.kind \in kinds /\ c \in Queueable BY <2>1 DEF Queued
  <2>3. t = [events EXCEPT ![q] = w] BY <1>2 DEF Coalesced
  <2>4. w \in {c, e} BY DEF PreferState, PreferMedia
  <2>5. IsTerminal(c) \/ IsTerminal(e) => IsTerminal(w)
    BY <2>2 DEF IsTerminal, PreferState, Media
  <2>6. e.kind = "state" <=> kinds = {"state"} BY DEF Media
  <2>a. kinds = Media => w = PreferMedia(c, e) BY <2>6 DEF Media
  <2> HIDE DEF t, q, w
  <2>7. /\ t \in Seq(Queueable) /\ DOMAIN t = DOMAIN events /\ t[q] = w
        /\ \A i \in DOMAIN events : i # q => t[i] = events[i]
    BY <2>2, <2>3, <2>4, ExceptSeq
  <2>8. OneMedia(t)
    <3>1. w.kind \in Media => c.kind \in Media BY <2>2, <2>4 DEF Media
    <3> QED BY <2>2, <2>7, <3>1 DEF OneMedia
  <2>9. HasTerminal(events) \/ IsTerminal(e) => HasTerminal(t)
    BY <2>2, <2>5, <2>7 DEF HasTerminal
  <2>10. ASSUME NEW i \in DOMAIN t
         PROVE  \/ i \in DOMAIN events /\ t[i] = events[i] /\ t[i].kind \notin kinds
                \/ kinds = {"state"} /\ i \in DOMAIN events /\ t[i] = events[i]
                \/ t[i] = e
                \/ kinds = Media /\ \E d \in Queueable :
                       /\ \E j \in DOMAIN events : d = events[j]
                       /\ d.kind \in Media /\ t[i] = PreferMedia(d, e)
    <3>1. CASE kinds = {"state"} BY <3>1, <2>2, <2>4, <2>7
    <3>2. CASE kinds = Media /\ i = q BY <3>2, <2>a, <2>2, <2>7
    <3>3. CASE kinds = Media /\ i # q
      <4>1. t[i].kind \notin Media BY <3>3, <2>2, <2>7 DEF OneMedia
      <4> QED BY <4>1, <3>3, <2>7
    <3> QED BY <3>1, <3>2, <3>3
  <2> QED BY <2>7, <2>8, <2>9, <2>10 DEF t
<1> QED BY <1>1, <1>2

\* What a call observes: events of frames that are news to it, and the end of
\* the stream before everything else.
LEMMA NormalizedIs ==
  ASSUME NEW s \in Shareds
  PROVE  /\ Normalized(s) \in Seq(Events)
         /\ \A i \in DOMAIN Normalized(s) : Normalized(s)[i].kind = "ready" =>
              \E j \in DOMAIN s.events :
                 /\ s.events[j].kind \in {"ready", "nodamage"}
                 /\ Normalized(s)[i].sequence = s.events[j].sequence
                 /\ Fresh(s, s.events[j].sequence)
         /\ HasTerminal(s.events) => Len(Normalized(s)) >= 1 /\ IsTerminal(Normalized(s)[1])
<1> DEFINE Says(e) == IF e.kind = "nodamage" THEN [e EXCEPT !.kind = "ready"] ELSE e
           ready == [i \in DOMAIN s.events |-> Says(s.events[i])]
           these == {i \in DOMAIN s.events : Kept(s, s.events[i])}
           kept == Selected(ready, these)
<1>1. Normalized(s) = TerminalFirst(kept) BY DEF Normalized
<1>2. s.events \in Seq(Queueable) /\ \A i \in DOMAIN s.events : s.events[i] \in Queueable
  BY DEF Shareds
<1>3. \A e \in Queueable : Says(e) \in Queueable
  BY Kinds DEF Queueable
<1>4. ready \in Seq(Queueable) /\ DOMAIN ready = DOMAIN s.events
  <2>1. \A i \in DOMAIN s.events : Says(s.events[i]) \in Queueable BY <1>2, <1>3
  <2>2. DOMAIN s.events = 1..Len(s.events) /\ Len(s.events) \in Nat BY <1>2
  <2> QED BY <2>1, <2>2
<1>5. \A i \in these : i \in DOMAIN s.events /\ ready[i] = Says(s.events[i]) /\ Kept(s, s.events[i])
  OBVIOUS
<1>6. \A i \in these : ready[i] \in Events
  <2> TAKE i \in these
  <2>1. s.events[i] \in Queueable /\ s.events[i].kind # "empty" BY <1>2, <1>5 DEF Kept
  <2> QED BY <2>1, <1>5, Kinds
<1>7. ASSUME NEW i \in these, ready[i].kind = "ready"
      PROVE  /\ s.events[i].kind \in {"ready", "nodamage"}
             /\ ready[i].sequence = s.events[i].sequence
             /\ Fresh(s, s.events[i].sequence)
  <2>1. s.events[i] \in Queueable BY <1>2, <1>5
  <2>2. s.events[i].kind \in {"ready", "nodamage"} BY <1>5, <1>7
  <2>3. ready[i].sequence = s.events[i].sequence BY <1>5, <2>1, <2>2, Kinds
  <2>4. Fresh(s, s.events[i].sequence) BY <1>5, <2>2 DEF Kept
  <2> QED BY <2>2, <2>3, <2>4
<1>8. \A i \in DOMAIN s.events : IsTerminal(s.events[i]) => i \in these /\ IsTerminal(ready[i])
  BY DEF IsTerminal, Kept
<1>a. these \in SUBSET DOMAIN ready BY <1>4
<1> HIDE DEF these
<1>9. /\ kept \in Seq(Queueable)
      /\ \A i \in DOMAIN kept : \E j \in these : kept[i] = ready[j]
      /\ \A j \in these : \E i \in DOMAIN kept : kept[i] = ready[j]
  <2> HIDE DEF ready
  <2> QED BY <1>4, <1>a, SelectedKeeps
<1> HIDE DEF kept, ready
<1>10. kept \in Seq(Events)
  <2>1. \A i \in DOMAIN kept : kept[i] \in Events BY <1>6, <1>9
  <2> QED BY <1>9, <2>1
<1>11. ASSUME HasTerminal(s.events) PROVE HasTerminal(kept)
  <2>1. PICK j \in DOMAIN s.events : IsTerminal(s.events[j]) BY <1>11 DEF HasTerminal
  <2>2. PICK i \in DOMAIN kept : kept[i] = ready[j] BY <2>1, <1>8, <1>9
  <2> QED BY <2>1, <2>2, <1>8 DEF HasTerminal
<1>12. /\ TerminalFirst(kept) \in Seq(Events)
       /\ \A i \in DOMAIN TerminalFirst(kept) : \E j \in DOMAIN kept : TerminalFirst(kept)[i] = kept[j]
       /\ HasTerminal(kept) => Len(TerminalFirst(kept)) >= 1 /\ IsTerminal(TerminalFirst(kept)[1])
  <2>1. CASE \A i \in DOMAIN kept : ~IsTerminal(kept[i])
    BY <2>1, <1>10 DEF TerminalFirst, HasTerminal
  <2>2. CASE ~ \A i \in DOMAIN kept : ~IsTerminal(kept[i])
    <3> DEFINE i == CHOOSE i \in DOMAIN kept : IsTerminal(kept[i])
               t == [kept EXCEPT ![1] = kept[i], ![i] = kept[1]]
    <3>1. i \in DOMAIN kept /\ IsTerminal(kept[i]) BY <2>2
    <3>2. TerminalFirst(kept) = t BY <2>2 DEF TerminalFirst
    <3>3. DOMAIN kept = 1..Len(kept) /\ Len(kept) \in Nat /\ 1 \in DOMAIN kept BY <3>1, <1>10
    <3> HIDE DEF i
    <3>4. /\ DOMAIN t = DOMAIN kept /\ t[1] = kept[i]
          /\ \A k \in DOMAIN kept : t[k] \in {kept[1], kept[i], kept[k]}
      BY <3>1, <3>3
    <3>5. \A k \in DOMAIN t : \E j \in DOMAIN kept : t[k] = kept[j] BY <3>1, <3>3, <3>4
    <3>6. t \in Seq(Events) /\ Len(t) >= 1
      <4>1. t \in [1..Len(kept) -> Events] BY <1>10, <3>1, <3>3
      <4> HIDE DEF t
      <4>2. t \in Seq(Events) BY <4>1, <3>3
      <4>3. DOMAIN t = 1..Len(t) /\ Len(t) \in Nat BY <4>2
      <4> QED BY <4>2, <4>3, <3>3, <3>4
    <3> HIDE DEF t
    <3> QED BY <3>1, <3>2, <3>4, <3>5, <3>6
  <2> QED BY <2>1, <2>2
<1>13. ASSUME NEW i \in DOMAIN Normalized(s), Normalized(s)[i].kind = "ready"
       PROVE  \E j \in DOMAIN s.events :
                 /\ s.events[j].kind \in {"ready", "nodamage"}
                 /\ Normalized(s)[i].sequence = s.events[j].sequence
                 /\ Fresh(s, s.events[j].sequence)
  <2>1. PICK k \in DOMAIN kept : Normalized(s)[i] = kept[k] BY <1>1, <1>12
  <2>2. PICK j \in these : kept[k] = ready[j] BY <1>9
  <2>3. j \in DOMAIN s.events BY <1>5
  <2>4. ready[j].kind = "ready" /\ Normalized(s)[i].sequence = ready[j].sequence
    BY <2>1, <2>2, <1>13
  <2> QED BY <2>3, <2>4, <1>7
<1> QED BY <1>1, <1>11, <1>12, <1>13

-----------------------------------------------------------------------------
(* What callbacks do to the shared state                                   *)

LEMMA InvalidatedSound ==
  ASSUME NEW s, Loose(s), NEW sent, NEW news
  PROVE  LET t == Invalidated(s)
         IN  /\ Sound(t, sent, news)
             /\ t.state = s.state /\ t.negotiated = s.negotiated /\ t.next = s.next
             /\ t.frame = None
             /\ \A i \in DOMAIN t.events : t.events[i].kind \notin {"ready", "nodamage"}
             /\ HasTerminal(s.events) => HasTerminal(t.events)
<1> DEFINE t == Invalidated(s)
           w == Without(s.events, {"ready", "nodamage"})
<1>1. s.events \in Seq(Queueable) BY DEF Loose, Shareds
<1>2. /\ w \in Seq(Queueable)
      /\ \A i \in DOMAIN w : w[i].kind \notin {"ready", "nodamage"}
      /\ HasTerminal(s.events) => HasTerminal(w)
      /\ OneMedia(w)
  BY <1>1, WithoutKeeps DEF Loose
<1>3. t = [s EXCEPT !.frame = None, !.events = w] BY DEF Invalidated
<1> HIDE DEF t, w
<1>4. /\ t \in Shareds /\ t.events = w /\ t.frame = None
      /\ t.state = s.state /\ t.negotiated = s.negotiated /\ t.next = s.next
      /\ t.delivered = s.delivered
  BY <1>2, <1>3 DEF Loose, Shareds
<1>5. Sound(t, sent, news)
  BY <1>2, <1>4 DEF Sound, Loose, FrameSound, QueueSound
<1> QED BY <1>2, <1>4, <1>5 DEF t

LEMMA PushedStateSound ==
  ASSUME NEW s, NEW sent, NEW news, Sound(s, sent, news), NEW state \in States
  PROVE  LET t == PushedState(s, state)
         IN  /\ Sound(t, sent, news)
             /\ s.state \in Terminal \/ state \in Terminal => t.state \in Terminal
             /\ HasTerminal(s.events) \/ state \in Terminal => HasTerminal(t.events)
<1> DEFINE t == PushedState(s, state)
           e == [kind |-> "state", state |-> state]
           w == Coalesced(s.events, {"state"}, e)
           after == IF s.state \in Terminal THEN s.state ELSE state
<1>1. s.events \in Seq(Queueable) /\ OneMedia(s.events) BY DEF Sound, Loose, Shareds
<1>2. e \in Queueable /\ (state \in Terminal => IsTerminal(e)) BY DEF Queueable, Events, IsTerminal
<1>3. e.kind = "state" /\ "state" \notin Media BY DEF Media
<1>4. t = [s EXCEPT !.state = after, !.streamed = @ \/ state = "streaming", !.events = w]
  BY DEF PushedState
<1> HIDE DEF e
<1>5. /\ w \in Seq(Queueable) /\ OneMedia(w)
      /\ HasTerminal(s.events) \/ state \in Terminal => HasTerminal(w)
      /\ \A i \in DOMAIN w : w[i].kind \in {"ready", "nodamage"} =>
           i \in DOMAIN s.events /\ w[i] = s.events[i]
  <2>1. {"state"} # Media BY <1>3
  <2>2. /\ w \in Seq(Queueable) /\ OneMedia(w)
        /\ HasTerminal(s.events) \/ IsTerminal(e) => HasTerminal(w)
        /\ \A i \in DOMAIN w : (i \in DOMAIN s.events /\ w[i] = s.events[i]) \/ w[i] = e
    BY <1>1, <1>2, <1>3, <2>1, CoalescedKeeps
  <2> QED BY <2>2, <1>2, <1>3
<1> HIDE DEF t, w
<1>6. after \in States BY DEF Sound, Loose, Shareds, States
<1> HIDE DEF after
<1>7. s \in Shareds BY DEF Sound, Loose
<1>8. /\ t \in Shareds /\ t.events = w /\ t.state = after /\ t.frame = s.frame
      /\ t.negotiated = s.negotiated /\ t.next = s.next /\ t.delivered = s.delivered
  BY <1>4, <1>5, <1>6, <1>7 DEF Shareds
<1>9. Sound(t, sent, news)
  BY <1>5, <1>8 DEF Sound, Loose, FrameSound, QueueSound, Fresh
<1>10. s.state \in Terminal \/ state \in Terminal => after \in Terminal BY DEF after
<1> QED BY <1>5, <1>8, <1>9, <1>10 DEF t

LEMMA PushedAgreedSound ==
  ASSUME NEW s, NEW sent, NEW news, Sound(s, sent, news), NEW format \in Formats
  PROVE  LET t == PushedAgreed(s, format)
         IN  /\ Sound(t, sent, news) /\ t.state = s.state
             /\ HasTerminal(s.events) => HasTerminal(t.events)
<1> DEFINE t == PushedAgreed(s, format)
           e == [kind |-> "agreed", format |-> format]
           u == Without(s.events, {"agreed"})
           w == Append(u, e)
<1>1. s \in Shareds /\ s.events \in Seq(Queueable) /\ OneMedia(s.events)
  BY DEF Sound, Loose, Shareds
<1>2. e \in Queueable /\ e.kind = "agreed" /\ "agreed" \notin Media
  BY DEF Queueable, Events, Media
<1>3. t = [s EXCEPT !.events = w] BY DEF PushedAgreed
<1> HIDE DEF e
<1>4. /\ u \in Seq(Queueable) /\ OneMedia(u)
      /\ \A i \in DOMAIN u : \E j \in DOMAIN s.events : u[i] = s.events[j]
      /\ HasTerminal(s.events) => HasTerminal(u)
  BY <1>1, WithoutKeeps
<1> HIDE DEF u
<1>5. /\ w \in Seq(Queueable) /\ OneMedia(w)
      /\ HasTerminal(s.events) => HasTerminal(w)
      /\ \A i \in DOMAIN w : (i \in DOMAIN u /\ w[i] = u[i]) \/ w[i] = e
  BY <1>2, <1>4, AppendKeeps
<1> HIDE DEF t, w
<1>6. \A i \in DOMAIN w : w[i].kind \in {"ready", "nodamage"} =>
        \E j \in DOMAIN s.events : w[i] = s.events[j]
  BY <1>2, <1>4, <1>5
<1>7. /\ t \in Shareds /\ t.events = w /\ t.state = s.state /\ t.frame = s.frame
      /\ t.negotiated = s.negotiated /\ t.next = s.next /\ t.delivered = s.delivered
  BY <1>1, <1>3, <1>5 DEF Shareds
<1>8. Sound(t, sent, news)
  BY <1>5, <1>6, <1>7 DEF Sound, Loose, FrameSound, QueueSound, Fresh
<1> QED BY <1>5, <1>7, <1>8 DEF t

LEMMA Unagreed ==
  ASSUME NEW s, Loose(s)
  PROVE  LET t == [s EXCEPT !.negotiated = None]
         IN  Loose(t) /\ t.state = s.state /\ t.events = s.events
  BY DEF Loose, Shareds

LEMMA PushedRejectedSound ==
  ASSUME NEW s, NEW sent, NEW news, Loose(s)
  PROVE  LET t == PushedRejected(s)
         IN  /\ Sound(t, sent, news) /\ t.state = s.state
             /\ HasTerminal(s.events) => HasTerminal(t.events)
<1> DEFINE b == [s EXCEPT !.negotiated = None]
           c == Invalidated(b)
           e == [kind |-> "rejected"]
           w == Append(c.events, e)
           t == PushedRejected(s)
<1>1. Loose(b) /\ b.state = s.state /\ b.events = s.events BY Unagreed
<1>2. e \in Queueable /\ e.kind = "rejected" /\ "rejected" \notin Media
  BY DEF Queueable, Events, Media
<1>3. t = IF Queued(c.events, {"rejected"}) # {} THEN c ELSE [c EXCEPT !.events = w]
  BY DEF PushedRejected
<1> HIDE DEF b, e
<1>4. /\ Sound(c, sent, news) /\ c.state = s.state /\ c.frame = None
      /\ \A i \in DOMAIN c.events : c.events[i].kind \notin {"ready", "nodamage"}
      /\ HasTerminal(s.events) => HasTerminal(c.events)
  BY <1>1, InvalidatedSound
<1> HIDE DEF c
<1>5. c \in Shareds /\ c.events \in Seq(Queueable) /\ OneMedia(c.events)
  BY <1>4 DEF Sound, Loose, Shareds
<1>6. /\ w \in Seq(Queueable) /\ OneMedia(w)
      /\ HasTerminal(c.events) => HasTerminal(w)
      /\ \A i \in DOMAIN w : (i \in DOMAIN c.events /\ w[i] = c.events[i]) \/ w[i] = e
  BY <1>2, <1>5, AppendKeeps
<1> HIDE DEF t, w
<1>7. CASE t = c BY <1>4, <1>7 DEF t
<1>8. CASE t = [c EXCEPT !.events = w]
  <2>1. /\ t \in Shareds /\ t.events = w /\ t.state = c.state /\ t.frame = c.frame
        /\ t.negotiated = c.negotiated /\ t.next = c.next /\ t.delivered = c.delivered
    BY <1>5, <1>6, <1>8 DEF Shareds
  <2>2. \A i \in DOMAIN w : w[i].kind \notin {"ready", "nodamage"} BY <1>2, <1>4, <1>6
  <2>3. Sound(t, sent, news)
    BY <1>4, <1>6, <2>1, <2>2 DEF Sound, Loose, FrameSound, QueueSound
  <2> QED BY <1>4, <1>6, <2>1, <2>3 DEF t
<1> QED BY <1>3, <1>7, <1>8

PageSound(s, page) == s.frame # None => s.frame.page = page

\* t and e are what one or more buffers made of s: an event for the newest
\* frame, or of a buffer that could not be read, or of one that says nothing
ReadSound(s, t, e) ==
  /\ t \in Shareds /\ t.events = s.events /\ t.state = s.state
  /\ t.delivered = s.delivered /\ t.next >= s.next /\ t.negotiated = s.negotiated
  /\ t.frame # None => t.frame.sequence <= t.next /\ t.frame.format = t.negotiated
  /\ e \in Queueable
  /\ \/ e.kind = "bad"
     \/ e.kind = "empty" /\ t = s /\ s.frame = None
     \/ e.kind \in {"ready", "nodamage"} /\ e.sequence = t.next /\ t.next > s.next

\* a buffer whose chunk is empty repeats what was sent before it
LEMMA ReadKeeps ==
  ASSUME NEW s \in Shareds, source.page \in 0..MaxPages, NEW buffer \in Buffers,
         s.frame # None => s.frame.sequence <= s.next /\ s.frame.format = s.negotiated
  PROVE  LET r == Read(s, s.negotiated, buffer)
         IN  /\ ReadSound(s, r.shared, r.event)
             /\ r.event.kind # "bad" /\ (buffer = "unchanged" => PageSound(s, source.page))
                  => PageSound(r.shared, source.page)
<1> DEFINE format == s.negotiated
           r == Read(s, format, buffer)
<1>1. CASE format = None
  <2>1. r = [shared |-> s, event |-> [kind |-> "empty"]] BY <1>1 DEF Read
  <2>2. s.frame = None BY <1>1, StreamAssumption DEF Shareds, Frames
  <2>3. [kind |-> "empty"] \in Queueable BY DEF Queueable
  <2> QED BY <2>1, <2>2, <2>3 DEF ReadSound, PageSound, Shareds
<1>2. CASE format # None /\ buffer = "unreadable"
  <2>1. r = [shared |-> s, event |-> [kind |-> "bad"]] BY <1>2 DEF Read
  <2>3. [kind |-> "bad"] \in Queueable BY DEF Queueable, Events
  <2> QED BY <2>1, <2>3 DEF ReadSound, Shareds
<1>3. CASE format # None /\ buffer = "pixels"
  <2> DEFINE frame == [sequence |-> s.next + 1, format |-> format, page |-> source.page]
             t == [s EXCEPT !.next = @ + 1, !.frame = frame]
             e == [kind |-> "ready", sequence |-> s.next + 1]
  <2>1. r = [shared |-> t, event |-> e] BY <1>3 DEF Read
  <2>2. frame \in Frames /\ format \in Formats BY <1>3 DEF Frames, Shareds
  <2>3. e \in Queueable /\ e.kind = "ready" /\ e.sequence = s.next + 1
    BY DEF Queueable, Events, Shareds
  <2>4. frame.sequence = s.next + 1 /\ frame.format = format /\ frame.page = source.page OBVIOUS
  <2>6. s.next \in Nat BY DEF Shareds
  <2>7. s.next + 1 \in Nat BY <2>6
  <2> DEFINE next == s.next + 1
  <2> HIDE DEF frame, e
  <2>8. t = [s EXCEPT !.next = next, !.frame = frame] OBVIOUS
  <2>9. next \in Nat BY <2>7
  <2> HIDE DEF next, t
  <2>5. /\ t \in Shareds /\ t.events = s.events /\ t.state = s.state
        /\ t.delivered = s.delivered /\ t.next = next /\ t.negotiated = s.negotiated
        /\ t.frame = frame
    BY <2>2, <2>8, <2>9 DEF Shareds
  <2>10. next = s.next + 1 BY DEF next
  <2> QED BY <2>1, <2>3, <2>4, <2>5, <2>6, <2>10 DEF ReadSound, PageSound
<1>4. CASE format # None /\ buffer = "unchanged"
  <2> DEFINE t == [s EXCEPT !.next = @ + 1]
             e == [kind |-> "nodamage", sequence |-> s.next + 1]
  <2>1. r = IF s.frame # None /\ s.frame.format = format
              THEN [shared |-> t, event |-> e]
              ELSE [shared |-> s, event |-> [kind |-> "empty"]]
    BY <1>4 DEF Read
  <2>2. CASE s.frame # None /\ s.frame.format = format
    <3>1. e \in Queueable /\ e.kind = "nodamage" /\ e.sequence = s.next + 1
      BY DEF Queueable, Shareds
    <3>2. /\ t \in Shareds /\ t.events = s.events /\ t.state = s.state
          /\ t.delivered = s.delivered /\ t.next = s.next + 1 /\ t.negotiated = s.negotiated
          /\ t.frame = s.frame
      BY DEF Shareds
    <3>3. r = [shared |-> t, event |-> e] BY <2>1, <2>2
    <3> HIDE DEF e, t
    <3>4. s.next \in Nat /\ s.frame \in Frames BY <2>2 DEF Shareds
    <3>5. s.frame.sequence \in Nat BY <3>4 DEF Frames
    <3> QED BY <1>4, <2>2, <3>1, <3>2, <3>3, <3>4, <3>5 DEF ReadSound, PageSound
  <2>3. CASE ~(s.frame # None /\ s.frame.format = format)
    <3>1. r = [shared |-> s, event |-> [kind |-> "empty"]] BY <2>1, <2>3
    <3>2. s.frame = None BY <2>3
    <3>3. [kind |-> "empty"] \in Queueable BY DEF Queueable
    <3> QED BY <3>1, <3>2, <3>3 DEF ReadSound, PageSound, Shareds
  <2> QED BY <2>2, <2>3
<1> QED BY <1>1, <1>2, <1>3, <1>4 DEF Buffers

LEMMA Prefers ==
  ASSUME NEW c \in Queueable, NEW e \in Queueable, c.kind \in Media, e.kind \in Media
  PROVE  /\ PreferMedia(c, e) \in {c, e}
         /\ c.kind = "bad" \/ e.kind = "bad" => PreferMedia(c, e).kind = "bad"
         /\ e.kind \in {"ready", "nodamage"} /\ c.kind = "empty" => PreferMedia(c, e) = e
         /\ e.kind = "empty" => PreferMedia(c, e) = c
         /\ /\ e.kind \in {"ready", "nodamage"} /\ c.kind \in {"ready", "nodamage"}
            /\ e.sequence > c.sequence
            => PreferMedia(c, e) = e
  BY DEF PreferMedia, Priority, Media

\* of two buffers, the event of the second counts, unless it says less
LEMMA ReadTwice ==
  ASSUME NEW s \in Shareds, NEW t, NEW u, NEW c, NEW e, ReadSound(s, t, c), ReadSound(t, u, e)
  PROVE  /\ ReadSound(s, u, PreferMedia(c, e))
         /\ PreferMedia(c, e).kind # "bad" => c.kind # "bad" /\ e.kind # "bad"
<1> DEFINE w == PreferMedia(c, e)
<1>1. c \in Queueable /\ e \in Queueable /\ c.kind \in Media /\ e.kind \in Media
  BY DEF ReadSound, Media
<1>2. w \in {c, e} /\ w \in Queueable BY <1>1, Prefers
<1>3. w.kind # "bad" => c.kind # "bad" /\ e.kind # "bad" BY <1>1, Prefers
<1>a. /\ e.kind \in {"ready", "nodamage"} /\ c.kind = "empty" => w = e
      /\ e.kind = "empty" => w = c
      /\ e.kind \in {"ready", "nodamage"} /\ c.kind \in {"ready", "nodamage"} /\ e.sequence > c.sequence
         => w = e
  BY <1>1, Prefers
<1>4. /\ u \in Shareds /\ t \in Shareds /\ u.events = s.events /\ u.state = s.state
      /\ u.delivered = s.delivered /\ u.negotiated = s.negotiated
      /\ u.frame # None => u.frame.sequence <= u.next /\ u.frame.format = u.negotiated
      /\ u.next >= t.next /\ t.next >= s.next
  BY DEF ReadSound
<1>5. u.next \in Nat /\ t.next \in Nat /\ s.next \in Nat BY <1>4 DEF Shareds
<1> HIDE DEF w
<1>6. \/ w.kind = "bad"
      \/ w.kind = "empty" /\ u = s /\ s.frame = None
      \/ w.kind \in {"ready", "nodamage"} /\ w.sequence = u.next /\ u.next > s.next
  <2>1. CASE w.kind = "bad" BY <2>1
  <2>2. CASE w.kind # "bad" /\ e.kind = "empty"
    <3>1. w = c /\ u = t BY <2>2, <1>a DEF ReadSound
    <3> QED BY <3>1, <2>2 DEF ReadSound
  <2>3. CASE w.kind # "bad" /\ e.kind \in {"ready", "nodamage"}
    <3>1. e.sequence = u.next /\ u.next > t.next BY <2>3 DEF ReadSound
    <3>2. c.kind = "empty" \/ (c.kind \in {"ready", "nodamage"} /\ c.sequence = t.next)
      BY <2>3, <1>3 DEF ReadSound
    <3>3. w = e BY <3>1, <3>2, <2>3, <1>a
    <3> QED BY <3>1, <3>3, <2>3, <1>4, <1>5
  <2> QED BY <2>1, <2>2, <2>3, <1>1, <1>3 DEF Media
<1>7. u.next >= s.next BY <1>4, <1>5
<1>8. ReadSound(s, u, w) BY <1>2, <1>4, <1>6, <1>7 DEF ReadSound
<1> QED BY <1>3, <1>8 DEF w

LEMMA PushedMediaSound ==
  ASSUME NEW s, NEW sent, NEW news, Sound(s, sent, news), NEW t, NEW e, ReadSound(s, t, e),
         NEW page, e.kind # "bad" => PageSound(t, page)
  PROVE  LET u == PushedMedia(t, e)
         IN  /\ Sound(u, page, TRUE) /\ u.state = s.state
             /\ HasTerminal(s.events) => HasTerminal(u.events)
<1> DEFINE b == IF e.kind = "bad" THEN Invalidated(t) ELSE t
           w == Coalesced(b.events, Media, e)
           u == PushedMedia(t, e)
<1>1. u = [b EXCEPT !.events = w] BY DEF PushedMedia
<1>2. e \in Queueable /\ e.kind \in Media BY DEF ReadSound, Media
<1>3. s \in Shareds /\ t \in Shareds /\ s.delivered <= s.next /\ OneMedia(s.events)
  BY DEF Sound, Loose, ReadSound
<1>4. /\ s.delivered \in Nat /\ s.next \in Nat /\ t.next \in Nat /\ t.next >= s.next
      /\ t.delivered = s.delivered /\ t.events = s.events /\ t.state = s.state
  BY <1>3 DEF ReadSound, Shareds
<1>5. Loose(t) BY <1>3, <1>4 DEF Loose
<1>6. /\ Loose(b) /\ b.state = s.state /\ b.next = t.next
      /\ HasTerminal(s.events) => HasTerminal(b.events)
      /\ e.kind = "bad" => /\ b.frame = None
                           /\ \A i \in DOMAIN b.events : b.events[i].kind \notin {"ready", "nodamage"}
      /\ e.kind # "bad" => b = t
  <2>1. CASE e.kind = "bad" BY <2>1, <1>4, <1>5, InvalidatedSound DEF Sound
  <2>2. CASE e.kind # "bad" BY <2>2, <1>4, <1>5
  <2> QED BY <2>1, <2>2
<1> HIDE DEF u, b
<1>7. b \in Shareds /\ b.events \in Seq(Queueable) /\ OneMedia(b.events) BY <1>6 DEF Loose, Shareds
<1>8. /\ w \in Seq(Queueable) /\ OneMedia(w)
      /\ HasTerminal(b.events) => HasTerminal(w)
      /\ \A i \in DOMAIN w :
           \/ w[i].kind \notin Media
           \/ w[i] = e
           \/ \E c \in Queueable : /\ \E j \in DOMAIN b.events : c = b.events[j]
                                   /\ c.kind \in Media /\ w[i] = PreferMedia(c, e)
  <2>1. Media # {"state"} BY DEF Media
  <2>2. /\ w \in Seq(Queueable) /\ OneMedia(w)
        /\ HasTerminal(b.events) \/ IsTerminal(e) => HasTerminal(w)
        /\ \A i \in DOMAIN w :
             \/ i \in DOMAIN b.events /\ w[i] = b.events[i] /\ w[i].kind \notin Media
             \/ Media = {"state"} /\ i \in DOMAIN b.events /\ w[i] = b.events[i]
             \/ w[i] = e
             \/ Media = Media /\ \E c \in Queueable :
                  /\ \E j \in DOMAIN b.events : c = b.events[j]
                  /\ c.kind \in Media /\ w[i] = PreferMedia(c, e)
    BY <1>2, <1>7, CoalescedKeeps, Zenon
  <2> HIDE DEF w
  <2> QED BY <2>1, <2>2
<1> HIDE DEF w
<1>9. /\ u \in Shareds /\ u.events = w /\ u.state = b.state /\ u.frame = b.frame
      /\ u.negotiated = b.negotiated /\ u.next = b.next /\ u.delivered = b.delivered
  BY <1>1, <1>7, <1>8 DEF Shareds
<1>10. Loose(u) BY <1>6, <1>8, <1>9 DEF Loose
<1>11. FrameSound(u, page, TRUE)
  <2>1. CASE e.kind = "bad" BY <2>1, <1>6, <1>9 DEF FrameSound
  <2>2. CASE e.kind # "bad"
    <3>1. t.frame # None => t.frame.sequence <= t.next /\ t.frame.format = t.negotiated
      BY DEF ReadSound
    <3> QED BY <2>2, <3>1, <1>6, <1>9 DEF FrameSound, PageSound
  <2> QED BY <2>1, <2>2
<1>12. ASSUME NEW i \in DOMAIN w, w[i].kind \in {"ready", "nodamage"}
       PROVE  w[i].sequence <= u.next /\ (u.frame # None => u.frame.sequence <= w[i].sequence)
  <2>1. \/ w[i] = e
        \/ \E c \in Queueable : /\ \E j \in DOMAIN b.events : c = b.events[j]
                                /\ c.kind \in Media /\ w[i] = PreferMedia(c, e)
    BY <1>8, <1>12 DEF Media
  <2>2. CASE e.kind = "bad"
    <3>1. PICK c \in Queueable : /\ \E j \in DOMAIN b.events : c = b.events[j]
                                 /\ c.kind \in Media /\ w[i] = PreferMedia(c, e)
      BY <2>1, <2>2, <1>12
    <3> QED BY <3>1, <2>2, <1>2, <1>12, Prefers
  <2>3. CASE e.kind = "empty"
    <3>1. t = s /\ s.frame = None /\ b = t BY <2>3, <1>6 DEF ReadSound
    <3>2. PICK c \in Queueable : /\ \E j \in DOMAIN b.events : c = b.events[j]
                                 /\ c.kind \in Media /\ w[i] = PreferMedia(c, e)
      BY <2>1, <2>3, <1>12
    <3>3. w[i] = c BY <3>2, <2>3, <1>2, Prefers
    <3>4. c.sequence <= s.next BY <3>1, <3>2, <3>3, <1>12 DEF Sound, QueueSound
    <3> QED BY <3>1, <3>3, <3>4, <1>9
  <2>4. CASE e.kind \in {"ready", "nodamage"}
    <3>1. e.sequence = t.next /\ t.next > s.next /\ b = t BY <2>4, <1>6 DEF ReadSound
    <3>2. w[i] = e
      <4>1. ASSUME NEW c \in Queueable, NEW j \in DOMAIN b.events, c = b.events[j],
                   c.kind \in Media, w[i] = PreferMedia(c, e)
            PROVE  w[i] = e
        <5>1. c.kind \in {"ready", "nodamage"} => c.sequence <= s.next /\ c.sequence \in Nat
          BY <4>1, <3>1, <1>4, Kinds DEF Sound, QueueSound
        <5>2. c.kind \in {"ready", "nodamage"} => e.sequence > c.sequence
          BY <5>1, <3>1, <1>4
        <5> QED BY <4>1, <5>2, <2>4, <1>2, <1>12, Prefers DEF Media
      <4> QED BY <2>1, <4>1
    <3>3. t.frame # None => t.frame.sequence <= t.next BY DEF ReadSound
    <3> QED BY <3>1, <3>2, <3>3, <1>4, <1>9
  <2> QED BY <2>2, <2>3, <2>4, <1>2 DEF Media
<1>13. QueueSound(u, TRUE) BY <1>9, <1>12 DEF QueueSound
<1> QED BY <1>6, <1>8, <1>9, <1>10, <1>11, <1>13 DEF u, Sound

-----------------------------------------------------------------------------
(* The stream's invariant                                                  *)

Sources ==
  [page : 0..MaxPages, sent : {None} \union (0..MaxPages), sends : Nat, taken : Nat,
   ended : BOOLEAN, buffers : Nat, notices : Nat]

\* something was sent since the delivery before
Unseen == source.sends > source.taken

\* A call that waits has seen no frame yet, and the end of the stream is known
\* to the next call, or queued for the one that waits.
StreamInv ==
  /\ source \in Sources /\ source.taken <= source.sends
  /\ Sound(shared, source.sent, Unseen)
  /\ call.life \in Lifecycles
  /\ call.at = "waiting" => ~Settled(call.life) /\ call.life.sequence = None
  /\ source.ended => /\ shared.state \in Terminal
                     /\ call.at = "waiting" => HasTerminal(shared.events)

LEMMA StreamInvTypes == ASSUME StreamInv PROVE StreamTypeOK
<1>1. shared \in Shareds /\ source \in Sources BY DEF StreamInv, Sound, Loose
<1>2. shared.delivered <= shared.next BY DEF StreamInv, Sound, Loose
<1>3. shared.frame # None => /\ shared.frame.sequence <= shared.next
                             /\ shared.frame.format = shared.negotiated
  BY DEF StreamInv, Sound, FrameSound
<1> QED BY <1>1, <1>2, <1>3 DEF StreamTypeOK, StreamInv, Shareds, Sources

LEMMA StartsStreamInv ==
  ASSUME source \in Sources, source.sends = 0, source.taken = 0, ~source.ended,
         shared = NoShared, call = NoCall
  PROVE  StreamInv
<1>1. NoShared \in Shareds /\ NoShared.events = <<>> /\ NoShared.frame = None
      /\ NoShared.delivered = 0 /\ NoShared.next = 0
  BY EmptySeq DEF NoShared, Shareds
<1>2. NewLifecycle \in Lifecycles BY DEF NewLifecycle, Lifecycles
<1> QED BY <1>1, <1>2 DEF StreamInv, Sound, Loose, FrameSound, QueueSound, OneMedia, NoCall

LEMMA DisconnectKeeps == ASSUME StreamInv, Disconnect PROVE StreamInv'
<1>1. source' \in Sources /\ source'.sends = 0 /\ source'.taken = 0 /\ ~source'.ended
  BY DEF StreamInv, Disconnect, Sources
<1>2. shared' = NoShared /\ call' = NoCall BY DEF Disconnect
<1>3. NoShared \in Shareds /\ NoShared.events = <<>> /\ NoShared.frame = None
      /\ NoShared.delivered = 0 /\ NoShared.next = 0
  BY EmptySeq DEF NoShared, Shareds
<1>4. NewLifecycle \in Lifecycles BY DEF NewLifecycle, Lifecycles
<1> QED
  BY <1>1, <1>2, <1>3, <1>4
  DEF StreamInv, Sound, Loose, FrameSound, QueueSound, OneMedia, NoCall

\* a call whose result was taken
LEMMA TakenKeeps ==
  ASSUME StreamInv, call' = NoCall, UNCHANGED <<source, shared>> PROVE StreamInv'
<1>1. NewLifecycle \in Lifecycles BY DEF NewLifecycle, Lifecycles
<1> QED BY <1>1 DEF StreamInv, NoCall, Unseen

\* what callbacks leave
LEMMA CallbackKeeps ==
  ASSUME StreamInv, source' \in Sources, source'.taken = source.taken, source'.sends >= source.sends,
         UNCHANGED call,
         Sound(shared', source'.sent, source'.sends > source'.taken),
         source'.ended => /\ shared'.state \in Terminal
                          /\ call.at = "waiting" => HasTerminal(shared'.events)
  PROVE  StreamInv'
  BY DEF StreamInv, Unseen, Sources

LEMMA NoticeIs ==
  ASSUME StreamInv, Notice
  PROVE  /\ source' \in Sources /\ source'.taken = source.taken /\ source'.sends = source.sends
         /\ source'.sent = source.sent /\ source'.ended = source.ended /\ UNCHANGED call
  BY DEF StreamInv, Notice, Sources

LEMMA StateChangesKeeps ==
  ASSUME StreamInv, NEW state \in States, StateChanges(state) PROVE StreamInv'
<1>1. /\ source' \in Sources /\ source'.taken = source.taken /\ source'.sends = source.sends
      /\ source'.sent = source.sent /\ UNCHANGED call
      /\ source'.ended => source.ended \/ state \in Terminal
      /\ shared' = PushedState(shared, state)
  <2> DEFINE ended == source.ended \/ state \in Terminal
             notices == source.notices - 1
  <2>1. source' = [source EXCEPT !.notices = notices, !.ended = ended] BY DEF StateChanges
  <2>2. source \in Sources /\ notices \in Nat /\ ended \in BOOLEAN
    BY DEF StreamInv, StateChanges, Sources
  <2>3. ended => source.ended \/ state \in Terminal OBVIOUS
  <2> HIDE DEF ended, notices
  <2>4. /\ source' \in Sources /\ source'.taken = source.taken /\ source'.sends = source.sends
        /\ source'.sent = source.sent /\ source'.ended = ended
    BY <2>1, <2>2 DEF Sources
  <2> QED BY <2>3, <2>4 DEF StateChanges
<1>2. /\ Sound(shared', source.sent, Unseen)
      /\ shared.state \in Terminal \/ state \in Terminal => shared'.state \in Terminal
      /\ HasTerminal(shared.events) \/ state \in Terminal => HasTerminal(shared'.events)
  BY <1>1, PushedStateSound DEF StreamInv
<1>3. source'.sends >= source.sends BY <1>1 DEF Sources
<1>4. source'.ended => /\ shared'.state \in Terminal
                       /\ call.at = "waiting" => HasTerminal(shared'.events)
  BY <1>1, <1>2 DEF StreamInv
<1> QED BY <1>1, <1>2, <1>3, <1>4, CallbackKeeps DEF Unseen

\* a notice that leaves the state alone and queues no less of its end
LEMMA NoticeKeeps ==
  ASSUME StreamInv, Notice, Sound(shared', source.sent, Unseen), shared'.state = shared.state,
         HasTerminal(shared.events) => HasTerminal(shared'.events)
  PROVE  StreamInv'
<1>1. source'.sends >= source.sends BY NoticeIs DEF Sources
<1>2. Sound(shared', source'.sent, source'.sends > source'.taken) BY NoticeIs DEF Unseen
<1>3. source'.ended => /\ shared'.state \in Terminal
                       /\ call.at = "waiting" => HasTerminal(shared'.events)
  BY NoticeIs DEF StreamInv
<1> QED BY <1>1, <1>2, <1>3, NoticeIs, CallbackKeeps

LEMMA FormatClearsKeeps == ASSUME StreamInv, FormatClears PROVE StreamInv'
<1> DEFINE b == [shared EXCEPT !.negotiated = None]
<1>1. Loose(shared) BY DEF StreamInv, Sound
<1>2. Loose(b) /\ b.state = shared.state /\ b.events = shared.events BY <1>1, Unagreed
<1>3. shared' = Invalidated(b) BY DEF FormatClears
<1> HIDE DEF b
<1>4. /\ Sound(shared', source.sent, Unseen) /\ shared'.state = shared.state
      /\ HasTerminal(shared.events) => HasTerminal(shared'.events)
  BY <1>2, <1>3, InvalidatedSound
<1> QED BY <1>4, NoticeKeeps DEF FormatClears

LEMMA FormatRejectsKeeps == ASSUME StreamInv, FormatRejects PROVE StreamInv'
<1>1. Loose(shared) BY DEF StreamInv, Sound
<1>2. /\ Sound(shared', source.sent, Unseen) /\ shared'.state = shared.state
      /\ HasTerminal(shared.events) => HasTerminal(shared'.events)
  BY <1>1, PushedRejectedSound DEF FormatRejects
<1> QED BY <1>2, NoticeKeeps DEF FormatRejects

LEMMA FormatAgreesKeeps ==
  ASSUME StreamInv, NEW format \in Formats, FormatAgrees(format) PROVE StreamInv'
<1> DEFINE known == IF shared.negotiated \notin {None, format} THEN Invalidated(shared) ELSE shared
           b == [known EXCEPT !.negotiated = format]
           agreed == PushedAgreed(b, format)
           c == [agreed EXCEPT !.negotiated = None]
<1>0. Notice /\ shared' \in {agreed, PushedRejected(c)} BY DEF FormatAgrees
<1>1. Sound(shared, source.sent, Unseen) /\ Loose(shared) BY DEF StreamInv, Sound
<1>2. /\ Sound(known, source.sent, Unseen) /\ known.state = shared.state
      /\ HasTerminal(shared.events) => HasTerminal(known.events)
      /\ known.frame # None => known.negotiated = format
  <2>1. CASE shared.negotiated \notin {None, format}
    BY <1>1, <2>1, InvalidatedSound
  <2>2. CASE shared.negotiated = format BY <1>1, <2>2
  <2>3. CASE shared.negotiated = None
    <3>1. shared.frame = None
      BY <1>1, <2>3, StreamAssumption DEF FrameSound, Sound, Loose, Shareds, Frames
    <3> QED BY <1>1, <2>3, <3>1
  <2> QED BY <2>1, <2>2, <2>3
<1> HIDE DEF known
<1>3. known \in Shareds BY <1>2 DEF Sound, Loose
<1>4. /\ b \in Shareds /\ b.events = known.events /\ b.state = known.state /\ b.frame = known.frame
      /\ b.negotiated = format /\ b.next = known.next /\ b.delivered = known.delivered
  BY <1>3 DEF Shareds
<1> HIDE DEF b
<1>5. Sound(b, source.sent, Unseen)
  <2>1. Loose(b) BY <1>2, <1>4 DEF Sound, Loose
  <2>2. FrameSound(b, source.sent, Unseen) BY <1>2, <1>4 DEF Sound, FrameSound, Fresh
  <2>3. QueueSound(b, Unseen) BY <1>2, <1>4 DEF Sound, QueueSound, Fresh
  <2> QED BY <2>1, <2>2, <2>3 DEF Sound
<1>6. /\ Sound(agreed, source.sent, Unseen) /\ agreed.state = shared.state
      /\ HasTerminal(shared.events) => HasTerminal(agreed.events)
  BY <1>2, <1>4, <1>5, PushedAgreedSound
<1> HIDE DEF agreed
<1>7. Loose(c) /\ c.state = agreed.state /\ c.events = agreed.events
  BY <1>6, Unagreed DEF Sound
<1> HIDE DEF c
<1>8. /\ Sound(PushedRejected(c), source.sent, Unseen) /\ PushedRejected(c).state = c.state
      /\ HasTerminal(c.events) => HasTerminal(PushedRejected(c).events)
  BY <1>7, PushedRejectedSound
<1>9. /\ Sound(shared', source.sent, Unseen) /\ shared'.state = shared.state
      /\ HasTerminal(shared.events) => HasTerminal(shared'.events)
  BY <1>0, <1>6, <1>7, <1>8
<1> QED BY <1>0, <1>9, NoticeKeeps

LEMMA ProcessKeeps ==
  ASSUME StreamInv, NEW buffers \in Piles, Process(buffers) PROVE StreamInv'
<1> DEFINE first == Read(shared, shared.negotiated, buffers[1])
           second == Read(first.shared, shared.negotiated, buffers[2])
<1>1. /\ Len(buffers) \in {1, 2} /\ buffers[1] \in Buffers
      /\ Len(buffers) = 2 => buffers[2] \in Buffers
  BY DEF Piles
<1>2. /\ source' \in Sources /\ source'.taken = source.taken
      /\ source'.sends = source.sends + Len(buffers)
      /\ source'.sent = source.page /\ source'.ended = source.ended /\ UNCHANGED call
  <2> DEFINE left == source.buffers - Len(buffers)
             sends == source.sends + Len(buffers)
  <2>1. source \in Sources /\ left \in Nat /\ sends \in Nat
    BY <1>1 DEF StreamInv, Process, Sources
  <2>2. source' = [source EXCEPT !.buffers = left, !.sends = sends, !.sent = source.page]
    BY DEF Process
  <2>3. sends = source.sends + Len(buffers) OBVIOUS
  <2> HIDE DEF left, sends
  <2>4. /\ source' \in Sources /\ source'.taken = source.taken /\ source'.sends = sends
        /\ source'.sent = source.page /\ source'.ended = source.ended
    BY <2>1, <2>2 DEF Sources
  <2> QED BY <2>3, <2>4 DEF Process
<1>3. source'.sends > source'.taken /\ source'.sends >= source.sends
  BY <1>1, <1>2 DEF StreamInv, Sources
<1>4. source.page \in 0..MaxPages BY DEF StreamInv, Sources
<1>5. Sound(shared, source.sent, Unseen) /\ shared \in Shareds BY DEF StreamInv, Sound, Loose
<1>6. shared.frame # None => /\ shared.frame.sequence <= shared.next
                             /\ shared.frame.format = shared.negotiated
                             /\ shared.frame.page = source.sent
  BY <1>5 DEF Sound, FrameSound
<1>7. buffers[1] = "unchanged" => PageSound(shared, source.page)
  BY <1>6 DEF Process, Sendable, PageSound
<1>8. /\ ReadSound(shared, first.shared, first.event)
      /\ first.event.kind # "bad" => PageSound(first.shared, source.page)
  <2>1. first.event.kind # "bad" => first.event.kind # "bad" OBVIOUS
  <2> QED BY <1>1, <1>4, <1>5, <1>6, <1>7, ReadKeeps
<1>9. Len(buffers) = 1 => shared' = PushedMedia(first.shared, first.event) BY DEF Process
<1>10. Len(buffers) = 2 => shared' = PushedMedia(second.shared, PreferMedia(first.event, second.event))
  BY DEF Process
<1> HIDE DEF first
<1>11. ASSUME Sound(shared', source.page, TRUE), shared'.state = shared.state,
              HasTerminal(shared.events) => HasTerminal(shared'.events)
       PROVE  StreamInv'
  <2>1. Sound(shared', source'.sent, source'.sends > source'.taken)
    <3>1. (source'.sends > source'.taken) = TRUE BY <1>3
    <3> QED BY <3>1, <1>2, <1>11
  <2>2. source'.ended => /\ shared'.state \in Terminal
                         /\ call.at = "waiting" => HasTerminal(shared'.events)
    BY <1>2, <1>11 DEF StreamInv
  <2> QED BY <1>2, <1>3, <2>1, <2>2, CallbackKeeps
<1>12. CASE Len(buffers) = 1
  <2>2. shared' = PushedMedia(first.shared, first.event) BY <1>9, <1>12
  <2>1. /\ Sound(shared', source.page, TRUE) /\ shared'.state = shared.state
        /\ HasTerminal(shared.events) => HasTerminal(shared'.events)
    BY <2>2, <1>5, <1>8, PushedMediaSound, Zenon
  <2> QED BY <2>1, <1>11
<1>13. CASE Len(buffers) = 2
  <2> DEFINE t == first.shared
             e == PreferMedia(first.event, second.event)
  <2>1. t \in Shareds /\ t.negotiated = shared.negotiated
        /\ (t.frame # None => t.frame.sequence <= t.next /\ t.frame.format = t.negotiated)
    BY <1>8 DEF ReadSound
  <2>2. second = Read(t, t.negotiated, buffers[2]) BY <2>1
  <2>3. buffers[2] \in Buffers BY <1>1, <1>13
  <2> HIDE DEF second, t
  <2>4. /\ ReadSound(t, second.shared, second.event)
        /\ second.event.kind # "bad" /\ (buffers[2] = "unchanged" => PageSound(t, source.page))
             => PageSound(second.shared, source.page)
    BY <2>1, <2>2, <2>3, <1>4, ReadKeeps
  <2>5. /\ ReadSound(shared, second.shared, e)
        /\ e.kind # "bad" => first.event.kind # "bad" /\ second.event.kind # "bad"
    BY <2>4, <1>5, <1>8, ReadTwice DEF t
  <2>6. e.kind # "bad" => PageSound(second.shared, source.page) BY <2>4, <2>5, <1>8 DEF t
  <2>8. shared' = PushedMedia(second.shared, e) BY <1>10, <1>13
  <2> HIDE DEF e
  <2>7. /\ Sound(shared', source.page, TRUE) /\ shared'.state = shared.state
        /\ HasTerminal(shared.events) => HasTerminal(shared'.events)
    BY <1>5, <2>8, <2>5, <2>6, PushedMediaSound, Zenon
  <2> QED BY <2>7, <1>11
<1> QED BY <1>1, <1>12, <1>13

LEMMA ProducerKeeps == ASSUME StreamInv, Producer PROVE StreamInv'
<1>1. CASE Moves
  <2>1. /\ source' \in Sources /\ source'.taken = source.taken /\ source'.sends = source.sends
        /\ source'.sent = source.sent /\ source'.ended = source.ended /\ UNCHANGED <<call, shared>>
    <3>1. source.page + 1 \in 0..MaxPages BY <1>1, StreamAssumption DEF Moves, StreamInv, Sources
    <3> QED BY <1>1, <3>1 DEF Moves, StreamInv, Sources
  <2> QED BY <2>1 DEF StreamInv, Unseen
<1> QED
  BY <1>1, StateChangesKeeps, FormatClearsKeeps, FormatRejectsKeeps, FormatAgreesKeeps, ProcessKeeps
  DEF Producer

-----------------------------------------------------------------------------
(* What a call observes                                                    *)

\* a frame with this sequence may be delivered
Deliverable(sequence) ==
  /\ sequence <= shared.next /\ Unseen
  /\ shared.frame # None => shared.frame.sequence <= sequence

TellsTrue(events) ==
  /\ events \in Seq(Events)
  /\ \A i \in DOMAIN events : events[i].kind = "ready" => Deliverable(events[i].sequence)

\* the lifecycle of a call that was told the truth
Truthful(life) ==
  /\ life \in Lifecycles
  /\ life.sequence # None => life.phase = "captured" /\ Deliverable(life.sequence)
  /\ source.ended => life.sequence = None

Sequenced(life) == Truthful(life) /\ (source.ended => Settled(life))

LEMMA ObserveKeeps ==
  ASSUME NEW l, Truthful(l), NEW e \in Events,
         e.kind = "ready" => Deliverable(e.sequence) /\ (source.ended => Settled(l))
  PROVE  /\ Truthful(Observe(e)[l])
         /\ Settled(l) => Observe(e)[l] = l
         /\ IsTerminal(e) => Settled(Observe(e)[l])
<1>1. l \in Lifecycles BY DEF Truthful
<1>2. CASE Settled(l)
  <2>1. Observe(e)[l] = l BY <1>1, <1>2 DEF Observe
  <2> QED BY <1>2, <2>1
<1>3. CASE ~Settled(l)
  <2>1. l.sequence = None BY <1>3 DEF Truthful, Settled
  <2>2. CASE e.kind = "state"
    <3> DEFINE phase == CASE e.state = "streaming" -> "streaming"
                          [] e.state = "error" -> "stream"
                          [] e.state = "gone" -> "gone"
                          [] e.state = "paused" -> l.phase
    <3>1. Observe(e)[l] = [l EXCEPT !.phase = phase] BY <1>1, <1>3, <2>2 DEF Observe
    <3>2. e.state \in States BY <2>2 DEF Events
    <3>3. /\ phase \in {"streaming", "stream", "gone", l.phase}
          /\ e.state \in Terminal => phase \in {"stream", "gone"}
      BY <3>2 DEF States, Terminal
    <3> HIDE DEF phase
    <3>4. /\ Observe(e)[l] \in Lifecycles /\ Observe(e)[l].sequence = None
          /\ Observe(e)[l].phase = phase
      BY <1>1, <2>1, <3>1, <3>3 DEF Lifecycles
    <3> QED BY <1>3, <2>2, <3>3, <3>4 DEF Truthful, Settled, Failed, IsTerminal
  <2>3. CASE e.kind = "agreed"
    <3>1. Observe(e)[l] = [l EXCEPT !.format = e.format, !.phase = "streaming"]
      BY <1>1, <1>3, <2>3 DEF Observe
    <3>2. Observe(e)[l].sequence = None BY <1>1, <2>1, <3>1 DEF Lifecycles
    <3>3. Observe(e)[l] \in Lifecycles BY <1>1, ObserveType
    <3> QED BY <1>3, <2>3, <3>2, <3>3 DEF Truthful, IsTerminal
  <2>4. CASE e.kind = "rejected"
    <3>1. Observe(e)[l] = [l EXCEPT !.phase = "format"] BY <1>1, <1>3, <2>4 DEF Observe
    <3>2. Observe(e)[l].sequence = None BY <1>1, <2>1, <3>1 DEF Lifecycles
    <3>3. Observe(e)[l] \in Lifecycles BY <1>1, ObserveType
    <3> QED BY <1>3, <2>4, <3>2, <3>3 DEF Truthful, IsTerminal
  <2>5. CASE e.kind = "bad"
    <3>1. Observe(e)[l] = [l EXCEPT !.phase = "buffer"] BY <1>1, <1>3, <2>5 DEF Observe
    <3>2. Observe(e)[l].sequence = None BY <1>1, <2>1, <3>1 DEF Lifecycles
    <3>3. Observe(e)[l] \in Lifecycles BY <1>1, ObserveType
    <3> QED BY <1>3, <2>5, <3>2, <3>3 DEF Truthful, IsTerminal
  <2>6. CASE e.kind = "ready"
    <3>1. Observe(e)[l] = IF l.format = None THEN [l EXCEPT !.phase = "format"]
                          ELSE [l EXCEPT !.sequence = e.sequence, !.phase = "captured"]
      BY <1>1, <1>3, <2>6 DEF Observe
    <3>2. \/ Observe(e)[l].sequence = None
          \/ Observe(e)[l].sequence = e.sequence /\ Observe(e)[l].phase = "captured"
      BY <1>1, <2>1, <3>1 DEF Lifecycles
    <3>3. Observe(e)[l] \in Lifecycles BY <1>1, ObserveType
    <3> QED BY <1>3, <2>6, <3>2, <3>3 DEF Truthful, IsTerminal
  <2> QED BY <2>2, <2>3, <2>4, <2>5, <2>6 DEF Events
<1> QED BY <1>2, <1>3

\* A stream that has ended settles a call with what it observes first, if it is
\* not settled yet.
LEMMA ObservesAll ==
  ASSUME NEW life, Truthful(life), NEW events, TellsTrue(events),
         source.ended => Settled(life) \/ (Len(events) >= 1 /\ IsTerminal(events[1]))
  PROVE  Sequenced(ObserveAll(life, events))
<1> DEFINE n == Len(events)
           Reached(k, l) == Truthful(l) /\ (source.ended /\ (k >= 1 \/ Settled(life)) => Settled(l))
           J == [k \in 0..n |-> {l \in Lifecycles : Reached(k, l)}]
<1>1. /\ life \in Lifecycles /\ events \in Seq(Events) /\ n \in Nat
      /\ \A k \in 1..n : k \in DOMAIN events /\ events[k] \in Events
  BY DEF Truthful, TellsTrue
<1>2. life \in J[0] BY <1>1
<1>3. ASSUME NEW k \in 1..n, NEW l \in Lifecycles, Reached(k-1, l)
      PROVE  Observe(events[k])[l] \in Lifecycles /\ Reached(k, Observe(events[k])[l])
  <2> DEFINE e == events[k]
  <2>1. e \in Events /\ (e.kind = "ready" => Deliverable(e.sequence)) BY <1>1 DEF TellsTrue
  <2>2. source.ended => Settled(l) \/ IsTerminal(e)
    <3>1. CASE k = 1 BY <3>1, <1>3
    <3>2. CASE k # 1
      <4>1. k - 1 >= 1 BY <3>2, <1>1
      <4> QED BY <4>1, <1>3
    <3> QED BY <3>1, <3>2
  <2>3. e.kind = "ready" => ~IsTerminal(e) BY DEF IsTerminal
  <2> HIDE DEF e
  <2>4. /\ Truthful(Observe(e)[l]) /\ (Settled(l) => Observe(e)[l] = l)
        /\ IsTerminal(e) => Settled(Observe(e)[l])
    BY <1>3, <2>1, <2>2, <2>3, ObserveKeeps
  <2>5. source.ended => Settled(Observe(e)[l]) BY <2>2, <2>4
  <2> QED BY <2>4, <2>5 DEF e, Truthful
<1>4. \A k \in 1..n : \A l \in Lifecycles \cap J[k-1] : Observe(events[k])[l] \in J[k]
  <2> TAKE k \in 1..n
  <2> TAKE l \in Lifecycles \cap J[k-1]
  <2>1. k - 1 \in 0..n /\ k \in 0..n BY <1>1
  <2>2. Reached(k-1, l) BY <2>1
  <2>3. Observe(events[k])[l] \in Lifecycles /\ Reached(k, Observe(events[k])[l]) BY <1>3, <2>2
  <2> QED BY <2>1, <2>3
<1>5. ObserveAll(life, events) \in J[n]
  <2> HIDE DEF J
  <2> QED BY <1>1, <1>2, <1>4, ObserveAllWithin DEF n
<1>6. Reached(n, ObserveAll(life, events)) BY <1>1, <1>5
<1>7. source.ended => n >= 1 \/ Settled(life) OBVIOUS
<1> QED BY <1>6, <1>7 DEF Sequenced

LEMMA NormalizedTellsTrue ==
  ASSUME StreamInv PROVE TellsTrue(Normalized(shared))
<1>1. shared \in Shareds /\ QueueSound(shared, Unseen) BY DEF StreamInv, Sound, Loose
<1>2. Normalized(shared) \in Seq(Events) BY <1>1, NormalizedIs
<1>3. ASSUME NEW i \in DOMAIN Normalized(shared), Normalized(shared)[i].kind = "ready"
      PROVE  Deliverable(Normalized(shared)[i].sequence)
  <2>1. PICK j \in DOMAIN shared.events :
          /\ shared.events[j].kind \in {"ready", "nodamage"}
          /\ Normalized(shared)[i].sequence = shared.events[j].sequence
          /\ Fresh(shared, shared.events[j].sequence)
    BY <1>1, <1>3, NormalizedIs
  <2> QED BY <1>1, <2>1 DEF QueueSound, Deliverable
<1> QED BY <1>2, <1>3 DEF TellsTrue

LEMMA PendingTellsTrue ==
  ASSUME StreamInv PROVE TellsTrue(Pending(shared))
<1> DEFINE events == Normalized(shared)
           e == [kind |-> "ready", sequence |-> shared.frame.sequence]
<1>1. TellsTrue(events) BY NormalizedTellsTrue
<1> HIDE DEF events
<1>2. CASE Pending(shared) = events BY <1>1, <1>2
<1>3. CASE Pending(shared) = Append(events, e) /\ shared.frame # None
           /\ Fresh(shared, shared.frame.sequence)
  <2>1. shared.frame \in Frames /\ FrameSound(shared, source.sent, Unseen)
    BY <1>3 DEF StreamInv, Sound, Loose, Shareds
  <2>2. shared.frame.sequence \in Nat BY <2>1 DEF Frames
  <2>3. e \in Events /\ e.sequence = shared.frame.sequence BY <2>2 DEF Events
  <2>4. Deliverable(e.sequence) BY <1>3, <2>1, <2>2, <2>3 DEF FrameSound, Deliverable
  <2> HIDE DEF e
  <2>5. events \in Seq(Events) BY <1>1 DEF TellsTrue
  <2>6. /\ Append(events, e) \in Seq(Events)
        /\ \A i \in DOMAIN Append(events, e) :
             (i \in DOMAIN events /\ Append(events, e)[i] = events[i]) \/ Append(events, e)[i] = e
    BY <2>3, <2>5, AppendProperties
  <2> QED BY <1>1, <1>3, <2>4, <2>6 DEF TellsTrue
<1> QED BY <1>2, <1>3 DEF Pending, events

LEMMA ResumedSequenced == ASSUME StreamInv PROVE Sequenced(Resumed(shared))
<1> DEFINE existing == IF shared.frame # None THEN shared.frame.format ELSE shared.negotiated
           begun == IF shared.streamed /\ existing # None
                      THEN [NewLifecycle EXCEPT !.phase = "streaming", !.format = existing]
                      ELSE NewLifecycle
           state == [kind |-> "state", state |-> shared.state]
           agreed == [kind |-> "agreed", format |-> existing]
           ended == IF shared.state \in Terminal THEN Observe(state)[begun] ELSE begun
           told == IF ~shared.streamed /\ existing # None THEN Observe(agreed)[ended] ELSE ended
           observed == ObserveAll(told, Pending(shared))
           resumed == IF shared.state # None THEN Observe(state)[observed] ELSE observed
<1>1. Resumed(shared) = resumed BY DEF Resumed
<1>2. shared \in Shareds /\ (source.ended => shared.state \in Terminal)
  BY DEF StreamInv, Sound, Loose
<1>3. existing \in Formats \union {None} BY <1>2 DEF Shareds, Frames
<1>4. existing # None => agreed \in Events /\ agreed.kind = "agreed" BY <1>3 DEF Events
<1>5. /\ shared.state # None => state \in Events /\ state.kind = "state"
      /\ shared.state \in Terminal => state \in Events /\ IsTerminal(state)
  BY <1>2 DEF Shareds, Events, IsTerminal, States
<1>6. Truthful(begun)
  <2>1. NewLifecycle \in Lifecycles /\ NewLifecycle.sequence = None
    BY DEF NewLifecycle, Lifecycles
  <2>2. begun \in Lifecycles /\ begun.sequence = None BY <1>3, <2>1 DEF Lifecycles
  <2> QED BY <2>2 DEF Truthful
<1>a. state.kind # "ready" /\ agreed.kind # "ready" OBVIOUS
<1> HIDE DEF existing, begun, state, agreed
<1>7. Sequenced(ended)
  <2>1. CASE shared.state \in Terminal
    <3>1. Truthful(Observe(state)[begun]) /\ Settled(Observe(state)[begun])
      BY <1>5, <1>6, <1>a, <2>1, ObserveKeeps
    <3> QED BY <3>1, <2>1 DEF Sequenced
  <2>2. CASE shared.state \notin Terminal BY <1>2, <1>6, <2>2 DEF Sequenced
  <2> QED BY <2>1, <2>2
<1> HIDE DEF ended
<1>8. Sequenced(told)
  <2>1. CASE ~shared.streamed /\ existing # None
    <3>1. /\ Truthful(Observe(agreed)[ended])
          /\ Settled(ended) => Observe(agreed)[ended] = ended
      BY <1>4, <1>7, <1>a, <2>1, ObserveKeeps DEF Sequenced
    <3>2. Sequenced(Observe(agreed)[ended]) BY <3>1, <1>7 DEF Sequenced
    <3> QED BY <3>2, <2>1
  <2>2. CASE ~(~shared.streamed /\ existing # None) BY <1>7, <2>2
  <2> QED BY <2>1, <2>2
<1> HIDE DEF told
<1>9. Sequenced(observed) BY <1>8, PendingTellsTrue, ObservesAll DEF Sequenced
<1> HIDE DEF observed
<1>10. Sequenced(resumed)
  <2>1. CASE shared.state # None
    <3>1. /\ Truthful(Observe(state)[observed])
          /\ Settled(observed) => Observe(state)[observed] = observed
      BY <1>5, <1>9, <1>a, <2>1, ObserveKeeps DEF Sequenced
    <3>2. Sequenced(Observe(state)[observed]) BY <3>1, <1>9 DEF Sequenced
    <3> QED BY <3>2, <2>1
  <2>2. CASE shared.state = None BY <1>9, <2>2
  <2> QED BY <2>1, <2>2
<1> HIDE DEF resumed
<1> QED BY <1>1, <1>10

LEMMA WokenSequenced ==
  ASSUME StreamInv, call.at = "waiting"
  PROVE  Sequenced(ObserveAll(call.life, Normalized(shared)))
<1>1. Truthful(call.life) BY DEF StreamInv, Truthful
<1>2. source.ended => Len(Normalized(shared)) >= 1 /\ IsTerminal(Normalized(shared)[1])
  BY NormalizedIs DEF StreamInv, Sound, Loose
<1> QED BY <1>1, <1>2, NormalizedTellsTrue, ObservesAll

-----------------------------------------------------------------------------
(* Steps of a call                                                         *)

\* what is delivered was sent last, since the delivery before and by a stream
\* that has not ended
DeliversNews == Delivers => /\ call'.page = source.sent /\ source.sends > source.taken
                            /\ ~source.ended

LEMMA OutcomeIs ==
  ASSUME NEW life, NEW page, NEW error
  PROVE  /\ Outcome(life, page, error).at = "returned" /\ Outcome(life, page, error).life = life
         /\ Outcome(life, page, error).page = page /\ Outcome(life, page, error).error = error
  BY DEF Outcome

LEMMA LeavesKeeps ==
  ASSUME StreamInv, NEW life \in Lifecycles, NEW error \in CallErrors, Leaves(life, error)
  PROVE  StreamInv' /\ DeliversNews
<1>1. call'.at = "returned" /\ call'.life = life /\ call'.error = error
  BY OutcomeIs DEF Leaves
<1>2. error # None BY StreamAssumption
<1> QED BY <1>1, <1>2 DEF StreamInv, Leaves, DeliversNews, Delivers, Unseen

\* the queue is emptied, or left as it is
LEMMA DrainedSound ==
  ASSUME NEW s, NEW sent, NEW news, Sound(s, sent, news), NEW events \in {<<>>, s.events}
  PROVE  LET t == [s EXCEPT !.events = events]
         IN  /\ Sound(t, sent, news) /\ t.state = s.state /\ t.frame = s.frame
             /\ t.delivered = s.delivered /\ t.next = s.next /\ t.events = events
<1> DEFINE t == [s EXCEPT !.events = events]
<1>1. s \in Shareds /\ s.events \in Seq(Queueable) /\ OneMedia(s.events)
  BY DEF Sound, Loose, Shareds
<1>2. /\ events \in Seq(Queueable) /\ OneMedia(events)
      /\ \A i \in DOMAIN events : i \in DOMAIN s.events /\ events[i] = s.events[i]
  <2>1. CASE events = s.events BY <1>1, <2>1
  <2>2. CASE events = <<>>
    <3>1. <<>> \in Seq(Queueable) /\ DOMAIN <<>> = {} BY EmptySeq
    <3> QED BY <2>2, <3>1 DEF OneMedia
  <2> QED BY <2>1, <2>2
<1>3. /\ t \in Shareds /\ t.events = events /\ t.state = s.state /\ t.frame = s.frame
      /\ t.negotiated = s.negotiated /\ t.next = s.next /\ t.delivered = s.delivered
  BY <1>1, <1>2 DEF Shareds
<1> HIDE DEF t
<1>4. Sound(t, sent, news) BY <1>2, <1>3 DEF Sound, Loose, FrameSound, QueueSound, Fresh
<1> QED BY <1>3, <1>4 DEF t

LEMMA ConcludesKeeps ==
  ASSUME StreamInv, NEW life, Truthful(life), NEW events \in {<<>>, shared.events},
         life.sequence # None => events = <<>>, Concludes(life, events)
  PROVE  StreamInv' /\ DeliversNews
<1> DEFINE s == [shared EXCEPT !.events = events]
<1>1. /\ Sound(s, source.sent, Unseen) /\ s.state = shared.state /\ s.frame = shared.frame
      /\ s.delivered = shared.delivered /\ s.next = shared.next /\ s.events = events
  BY DrainedSound DEF StreamInv
<1>2. life \in Lifecycles BY DEF Truthful
<1>3. CASE \E error \in CallErrors :
             call' = Outcome(life, None, error) /\ shared' = s /\ UNCHANGED source
  <2>1. PICK error \in CallErrors :
          call' = Outcome(life, None, error) /\ shared' = s /\ UNCHANGED source
    BY <1>3
  <2>2. call'.at = "returned" /\ call'.life = life /\ call'.error = error BY <2>1, OutcomeIs
  <2>3. error # None BY StreamAssumption
  <2> HIDE DEF s
  <2> QED BY <1>1, <1>2, <2>1, <2>2, <2>3 DEF StreamInv, DeliversNews, Delivers, Unseen
<1>4. CASE /\ life.sequence # None /\ s.frame # None
           /\ call' = Outcome(life, s.frame.page, None)
           /\ shared' = [s EXCEPT !.delivered = IF Fresh(s, life.sequence)
                                                THEN life.sequence ELSE @]
           /\ source' = [source EXCEPT !.taken = source.sends]
  <2> DEFINE delivered == IF Fresh(s, life.sequence) THEN life.sequence ELSE s.delivered
  <2>1. /\ s \in Shareds /\ s.delivered <= s.next /\ OneMedia(s.events)
        /\ FrameSound(s, source.sent, Unseen)
    BY <1>1 DEF Sound, Loose
  <2> HIDE DEF s
  <2>2. /\ life.sequence \in Nat /\ life.sequence <= s.next /\ s.frame.sequence <= life.sequence
        /\ Unseen /\ ~source.ended
    BY <1>1, <1>2, <1>4 DEF Truthful, Deliverable, Lifecycles
  <2>3. s.delivered \in Nat /\ s.frame.sequence \in Nat /\ s.frame \in Frames
    BY <1>4, <2>1 DEF Shareds, Frames
  <2>4. delivered \in Nat /\ delivered <= s.next /\ delivered >= s.frame.sequence
    BY <2>1, <2>2, <2>3 DEF Fresh
  <2>5. shared' = [s EXCEPT !.delivered = delivered] BY <1>4
  <2> HIDE DEF delivered
  <2>6. /\ shared' \in Shareds /\ shared'.events = s.events /\ shared'.state = s.state
        /\ shared'.frame = s.frame /\ shared'.negotiated = s.negotiated /\ shared'.next = s.next
        /\ shared'.delivered = delivered
    BY <2>1, <2>4, <2>5 DEF Shareds
  <2>7. /\ source' \in Sources /\ source'.taken = source.sends /\ source'.sends = source.sends
        /\ source'.sent = source.sent /\ source'.ended = source.ended
    BY <1>4 DEF StreamInv, Sources
  <2>8. call'.at = "returned" /\ call'.life = life /\ call'.page = s.frame.page
    BY <1>4, OutcomeIs
  <2>9. events = <<>> BY <1>4
  <2>10. Loose(shared') BY <2>1, <2>4, <2>6 DEF Loose
  <2>11. FrameSound(shared', source'.sent, Unseen')
    <3>1. ~Fresh(shared', shared'.frame.sequence) BY <2>3, <2>4, <2>6 DEF Fresh
    <3> QED BY <2>1, <2>6, <2>7, <3>1 DEF FrameSound
  <2>12. QueueSound(shared', Unseen') BY <1>1, <2>6, <2>9 DEF QueueSound
  <2>13. source'.taken <= source'.sends BY <2>7 DEF Sources
  <2>14. StreamInv'
    BY <1>2, <2>2, <2>7, <2>8, <2>10, <2>11, <2>12, <2>13 DEF StreamInv, Sound
  <2>15. call'.page = source.sent BY <1>4, <2>1, <2>8 DEF FrameSound
  <2> QED BY <2>2, <2>14, <2>15 DEF DeliversNews, Unseen
<1> HIDE DEF s
<1> QED
  <2>1. {"unsequenced", "no pixels", "format changed"} \subseteq CallErrors BY DEF CallErrors
  <2> QED BY <1>3, <1>4, <2>1 DEF Concludes, s

LEMMA DrainsKeeps ==
  ASSUME StreamInv, NEW life, Sequenced(life), Drains(life)
  PROVE  StreamInv' /\ DeliversNews
<1>1. CASE Settled(life) /\ Concludes(life, <<>>)
  BY <1>1, ConcludesKeeps DEF Sequenced
<1>2. CASE /\ ~Settled(life)
           /\ call' = [NoCall EXCEPT !.at = "waiting", !.life = life]
           /\ shared' = [shared EXCEPT !.events = <<>>] /\ UNCHANGED source
  <2>1. call'.at = "waiting" /\ call'.life = life BY <1>2 DEF NoCall
  <2>2. /\ Sound(shared', source.sent, Unseen) /\ shared'.state = shared.state
    BY <1>2, DrainedSound DEF StreamInv
  <2>3. life \in Lifecycles /\ life.sequence = None /\ ~source.ended
    BY <1>2 DEF Sequenced, Truthful, Settled
  <2> QED BY <1>2, <2>1, <2>2, <2>3 DEF StreamInv, DeliversNews, Delivers, Unseen
<1> QED BY <1>1, <1>2 DEF Drains

LEMMA CaptureFrameKeeps ==
  ASSUME StreamInv, NEW cancelled, CaptureFrame(cancelled) PROVE StreamInv' /\ DeliversNews
<1>1. CASE Leaves(NewLifecycle, "cancelled")
  <2>1. NewLifecycle \in Lifecycles BY DEF NewLifecycle, Lifecycles
  <2> QED BY <1>1, <2>1, LeavesKeeps DEF CallErrors
<1>2. CASE Drains(Resumed(shared)) BY <1>2, ResumedSequenced, DrainsKeeps
<1> QED BY <1>1, <1>2 DEF CaptureFrame

LEMMA WakesKeeps ==
  ASSUME StreamInv, NEW cancelled, Wakes(cancelled) PROVE StreamInv' /\ DeliversNews
<1>1. CASE Leaves(call.life, "cancelled") BY <1>1, LeavesKeeps DEF StreamInv, CallErrors
<1>2. CASE Drains(ObserveAll(call.life, Normalized(shared)))
  BY <1>2, WokenSequenced, DrainsKeeps DEF Wakes
<1> QED BY <1>1, <1>2 DEF Wakes

LEMMA TimesOutKeeps ==
  ASSUME StreamInv, NEW cancelled, TimesOut(cancelled) PROVE StreamInv' /\ DeliversNews
<1>1. CASE Leaves(call.life, "wait") BY <1>1, LeavesKeeps DEF StreamInv, CallErrors
<1>2. CASE Concludes([call.life EXCEPT !.phase = "timeout"], shared.events)
  <2> DEFINE life == [call.life EXCEPT !.phase = "timeout"]
  <2>1. life \in Lifecycles /\ life.sequence = None
    BY DEF StreamInv, TimesOut, Lifecycles
  <2>2. Concludes(life, shared.events) BY <1>2
  <2> HIDE DEF life
  <2> QED BY <2>1, <2>2, ConcludesKeeps DEF Truthful
<1> QED BY <1>1, <1>2 DEF TimesOut

-----------------------------------------------------------------------------
(* The inductive invariant                                                 *)

\* what discarding an acquisition takes: a HUD cancels the token only with Abort
Needed == IF user.by = "hud" THEN Abort ELSE Keep

Active == session.at \notin {"none", "returning"}

\* before the boundary: the request can still be obeyed
Working == Active /\ session.at # "publishing"

Shape ==
  /\ user \in [by : {"hud", "terminal"}, captures : Nat, requests : Nat]
  /\ main \in [at : {"off", "choosing", "starting", "running", "down"}, cancelling : BOOLEAN]
  /\ request \in 0..3 /\ token \in BOOLEAN
  /\ session \in [at : {session.at}, frames : {session.frames}, stalls : {session.stalls},
                  frame : {session.frame}, latest : {session.latest}, advanced : BOOLEAN,
                  automatic : {session.automatic}, reason : {session.reason},
                  error : {session.error}, asked : 0..2]

\* The request is this capture's: while it goes on the two agree, then the
\* boundary tells a published capture from a failed one.
InForce ==
  /\ Active => IF session.at = "publishing" THEN request = Sealed /\ session.error = None
               ELSE request = session.asked
  /\ ~Active /\ main.at = "running" =>
       IF session.error = None THEN request = Sealed ELSE request = session.asked
  /\ main.at \in {"off", "choosing", "starting"} => ~Active /\ user.by = "hud"

\* the token is cancelled for a request, or, in a terminal, too late to matter
TokenAsked ==
  main.cancelling \/ (token /\ session.at # "none") =>
    session.asked >= Needed \/ (user.by = "terminal" /\ request = Sealed)

CancelsRunning == main.cancelling => main.at \notin {"off", "choosing", "starting"}

\* a call goes on where its frame is waited for, and only the token cancels it
CallCancelled ==
  /\ call.at # "idle" => session.at \in {"first", "asking"}
  /\ call.error = "cancelled" => token /\ session.at \in {"first", "asking"}

ErrorAsked ==
  /\ session.error = "cancelled" /\ session.at # "none" => session.asked >= Needed
  /\ session.at = "faltered" => session.error # None

AdvancedLate == session.advanced => session.at \notin {"queued", "first", "began"}

IInv ==
  /\ Shape /\ InForce /\ TokenAsked /\ CancelsRunning /\ CallCancelled /\ ErrorAsked /\ AdvancedLate
  /\ EndsAsAsked /\ PrefixKept

-----------------------------------------------------------------------------
(* Calls                                                                   *)

\* None is no reason and no error, which the provers cannot see by itself
LEMMA NoneIsNoError ==
  /\ None # "cancelled" /\ None # "refused" /\ None # "unprepared" /\ None # "nothing moved"
  /\ None # "unscrolled" /\ None # "no overlap" /\ None # "unstitched" /\ None # "assembly"
  /\ None # "kept" /\ None # "interrupted"
  BY ScrollAssumption DEF Reasons, Errors

LEMMA ConcludesUncancelled ==
  ASSUME NEW life, NEW events, Concludes(life, events) PROVE call'.error # "cancelled"
<1> DEFINE s == [shared EXCEPT !.events = events]
<1>1. \E page, error : /\ call' = Outcome(life, page, error)
                       /\ error \in {"unsequenced", "no pixels", "format changed", None}
  <2>1. CASE life.sequence = None BY <2>1 DEF Concludes
  <2>2. CASE life.sequence # None /\ s.frame = None BY <2>2 DEF Concludes
  <2>3. CASE life.sequence # None /\ s.frame # None /\ s.frame.format # life.format
    BY <2>3 DEF Concludes
  <2>4. CASE life.sequence # None /\ s.frame # None /\ s.frame.format = life.format
    BY <2>4 DEF Concludes
  <2> QED BY <2>1, <2>2, <2>3, <2>4
<1>2. PICK page, error : /\ call' = Outcome(life, page, error)
                         /\ error \in {"unsequenced", "no pixels", "format changed", None}
  BY <1>1
<1>3. call'.error = error BY <1>2 DEF Outcome
<1>4. error # "cancelled" BY <1>2, NoneIsNoError
<1> QED BY <1>3, <1>4

LEMMA DrainsUncancelled ==
  ASSUME NEW life, Drains(life) PROVE call'.error # "cancelled"
  BY NoneIsNoError, ConcludesUncancelled DEF Drains, NoCall

\* a call is cancelled by its token only
LEMMA CallsCancelled ==
  ASSUME NEW t \in BOOLEAN, CaptureFrame(t) \/ TimesOut(t) \/ Wakes(t), ~t
  PROVE  call'.error # "cancelled"
<1>1. CASE CaptureFrame(t) BY <1>1, DrainsUncancelled DEF CaptureFrame
<1>2. CASE TimesOut(t)
  <2>1. CASE Concludes([call.life EXCEPT !.phase = "timeout"], shared.events)
    BY <2>1, ConcludesUncancelled
  <2>2. CASE Leaves(call.life, "wait") BY <2>2 DEF Leaves, Outcome
  <2> QED BY <1>2, <2>1, <2>2 DEF TimesOut
<1>3. CASE Wakes(t) BY <1>3, DrainsUncancelled DEF Wakes
<1> QED BY <1>1, <1>2, <1>3

\* no callback touches a call
LEMMA ProducerKeepsCall == ASSUME Producer PROVE call' = call
  BY DEF Producer, StateChanges, FormatClears, FormatRejects, FormatAgrees, Notice, Process, Moves

-----------------------------------------------------------------------------
(* Steps of the session                                                    *)

USE DEF Keep, Abort, Sealed

\* a step that stays before the boundary
LEMMA StaysIInv ==
  ASSUME IInv, Worker, Working, Working',
         session' \in [at : {session'.at}, frames : {session'.frames}, stalls : {session'.stalls},
                       frame : {session'.frame}, latest : {session'.latest}, advanced : BOOLEAN,
                       automatic : {session'.automatic}, reason : {session'.reason},
                       error : {session'.error}, asked : {session.asked}],
         AdvancedLate', CallCancelled',
         session'.error = "cancelled" => session.asked >= Needed,
         session'.reason = "kept" => session.asked >= Keep,
         session'.at = "finishing" /\ session'.reason = "interrupted" => session'.error # "cancelled",
         session'.at = "faltered" => session'.error # None
  PROVE  IInv'
<1> USE DEF Working, Active, Worker, ui
<1>1. Shape' BY DEF IInv, Shape
<1>2. InForce' BY DEF IInv, InForce
<1>3. TokenAsked' BY DEF IInv, TokenAsked, Needed
<1>4. CancelsRunning' BY DEF IInv, CancelsRunning
<1>5. ErrorAsked' BY DEF ErrorAsked, Needed
<1>6. EndsAsAsked' BY DEF EndsAsAsked, Output
<1>7. PrefixKept' BY DEF PrefixKept
<1> QED BY <1>1, <1>2, <1>3, <1>4, <1>5, <1>6, <1>7 DEF IInv

LEMMA FailsIInv ==
  ASSUME IInv, Worker, Working, NEW error, Fails(error), error # None,
         error = "cancelled" => session.asked >= Needed,
         session.advanced => session.asked = Abort \/ error = "assembly"
  PROVE  IInv'
<1> USE DEF Working, Active, Worker, ui
<1>0. /\ session' = [session EXCEPT !.at = "returning", !.error = error]
      /\ call' = NoCall
  BY DEF Fails, Disconnect
<1>a. /\ session'.at = "returning" /\ session'.error = error /\ session'.asked = session.asked
      /\ session'.advanced = session.advanced /\ session'.reason = session.reason
  BY <1>0 DEF IInv, Shape
<1>1. Shape' BY <1>0 DEF IInv, Shape
<1>2. InForce' BY <1>a DEF IInv, InForce
<1>3. TokenAsked' BY <1>a DEF IInv, TokenAsked, Needed
<1>4. CancelsRunning' BY DEF IInv, CancelsRunning
<1>5. CallCancelled' BY <1>0, NoneIsNoError DEF CallCancelled, NoCall
<1>6. ErrorAsked' BY <1>a DEF ErrorAsked, Needed
<1>7. AdvancedLate' BY <1>a DEF AdvancedLate
<1>8. EndsAsAsked' BY <1>a DEF IInv, EndsAsAsked, Output, Needed
<1>9. PrefixKept' BY <1>a DEF PrefixKept
<1> QED BY <1>1, <1>2, <1>3, <1>4, <1>5, <1>6, <1>7, <1>8, <1>9 DEF IInv

LEMMA FinishesIInv ==
  ASSUME IInv, Worker, Working, session.at \notin {"first", "asking"},
         NEW reason, Finishes(reason), session.advanced,
         reason = "kept" => session.asked >= Keep,
         reason = "interrupted" => session.error # "cancelled"
  PROVE  IInv'
<1>0. /\ session' = [session EXCEPT !.at = "finishing", !.reason = reason]
      /\ call' = call
  BY DEF Finishes, Goes, stream
<1>1. /\ Working' /\ session'.at = "finishing" /\ session'.error = session.error
      /\ session'.reason = reason
      /\ session' \in [at : {session'.at}, frames : {session'.frames}, stalls : {session'.stalls},
                       frame : {session'.frame}, latest : {session'.latest}, advanced : BOOLEAN,
                       automatic : {session'.automatic}, reason : {session'.reason},
                       error : {session'.error}, asked : {session.asked}]
  BY <1>0 DEF IInv, Shape, Working, Active
<1>2. AdvancedLate' BY <1>1 DEF AdvancedLate
<1>3. CallCancelled' BY <1>0, <1>1 DEF IInv, CallCancelled, Worker
<1>4. session'.error = "cancelled" => session.asked >= Needed
  BY <1>1 DEF IInv, ErrorAsked, Working, Active
<1> QED BY <1>1, <1>2, <1>3, <1>4, StaysIInv

LEMMA RequestAsked ==
  ASSUME IInv, Working
  PROVE  request = session.asked /\ session.asked \in 0..2
  BY DEF IInv, InForce, Shape, Working, Active

LEMMA NeededIsAsked == Needed \in {Keep, Abort}
  BY DEF Needed

LEMMA ObeysIInv ==
  ASSUME IInv, Worker, Working, session.at \notin {"first", "asking"}, Obeys
  PROVE  IInv'
<1>1. CASE request = Abort /\ Fails("cancelled")
  <2>1. session.asked = Abort /\ session.asked >= Needed BY <1>1, RequestAsked, NeededIsAsked
  <2> QED BY <1>1, <2>1, FailsIInv, NoneIsNoError
<1>2. CASE request = Keep /\ session.advanced /\ Finishes("kept")
  BY <1>2, FinishesIInv, RequestAsked
<1>3. CASE request = Keep /\ ~session.advanced /\ Fails("nothing moved")
  BY <1>3, FailsIInv, RequestAsked, NoneIsNoError
<1> QED BY <1>1, <1>2, <1>3 DEF Obeys

\* before anything was asked, nothing ends for being cancelled
LEMMA UnaskedUncancelled ==
  ASSUME IInv, Working, Unasked PROVE session.error # "cancelled"
  BY RequestAsked, NeededIsAsked DEF IInv, ErrorAsked, Unasked, Working, Active

LEMMA SalvagesIInv ==
  ASSUME IInv, Worker, Working, session.at \notin {"first", "asking"},
         Unasked, NEW reason, NEW error, Salvages(reason, error),
         reason # "kept", error \notin {None, "cancelled"}
  PROVE  IInv'
<1>1. CASE session.advanced
  BY <1>1, FinishesIInv, UnaskedUncancelled DEF Salvages
<1>2. CASE ~session.advanced
  BY <1>2, FailsIInv DEF Salvages
<1> QED BY <1>1, <1>2

LEMMA CancelledAsked ==
  ASSUME IInv, Working, Error = "cancelled" PROVE session.asked >= Needed
<1>1. token BY DEF Error, IInv, CallCancelled
<1>2. session.asked >= Needed \/ (user.by = "terminal" /\ request = Sealed)
  BY <1>1 DEF IInv, TokenAsked, Working, Active
<1> QED BY <1>2, RequestAsked

LEMMA WaitingCallIInv == ASSUME IInv, WaitingCall PROVE IInv'
<1>1. CallCancelled'
  <2>1. ~token => call'.error # "cancelled" BY CallsCancelled DEF WaitingCall, IInv, Shape
  <2>2. session.at \in {"first", "asking"}
    BY DEF WaitingCall, TimesOut, Wakes, IInv, CallCancelled
  <2> QED BY <2>1, <2>2 DEF WaitingCall, Worker, IInv, Shape, CallCancelled
<1>2. Working
  BY DEF WaitingCall, TimesOut, Wakes, IInv, CallCancelled, Working, Active
<1> QED
  BY <1>1, <1>2, StaysIInv
  DEF WaitingCall, IInv, Shape, AdvancedLate, ErrorAsked, EndsAsAsked, Working, Active

LEMMA PickerIInv == ASSUME IInv, Opens \/ Closes PROVE IInv'
<1>1. Working /\ Worker /\ ~session.advanced /\ session.at = "queued"
  BY DEF Opens, Closes, Working, Active, IInv, AdvancedLate
<1>2. CASE Fails("refused") BY <1>1, <1>2, FailsIInv, NoneIsNoError
<1>3. CASE token /\ Fails("cancelled")
  <2>1. session.asked >= Needed BY <1>1, <1>3, RequestAsked DEF IInv, TokenAsked
  <2> QED BY <1>1, <1>3, <2>1, FailsIInv, NoneIsNoError
<1>4. CASE Goes([session EXCEPT !.at = "first"])
  BY <1>1, <1>4, StaysIInv
  DEF Goes, stream, Worker, IInv, Shape, AdvancedLate, CallCancelled, ErrorAsked, EndsAsAsked,
      Working, Active
<1> QED BY <1>2, <1>3, <1>4 DEF Opens, Closes

LEMMA AsksFirstIInv == ASSUME IInv, AsksFirst PROVE IInv'
<1>1. CallCancelled'
  <2>1. ~token => call'.error # "cancelled" BY CallsCancelled DEF AsksFirst, IInv, Shape
  <2> QED BY <2>1 DEF AsksFirst, Worker, IInv, Shape, CallCancelled
<1> QED
  BY <1>1, StaysIInv
  DEF AsksFirst, IInv, Shape, AdvancedLate, ErrorAsked, EndsAsAsked, Working, Active

LEMMA TakesFirstIInv == ASSUME IInv, TakesFirst PROVE IInv'
<1>1. Working /\ Worker /\ ~session.advanced
  BY DEF TakesFirst, Working, Active, IInv, AdvancedLate
<1>2. CASE Error # None /\ Fails(Error)
  BY <1>1, <1>2, FailsIInv, CancelledAsked
<1>3. CASE Takes([session EXCEPT !.at = "began", !.frames = 1, !.latest = call.page])
  BY <1>1, <1>3, StaysIInv, NoneIsNoError
  DEF Takes, NoCall, Worker, IInv, Shape, AdvancedLate, CallCancelled, ErrorAsked, EndsAsAsked,
      Working, Active
<1> QED BY <1>2, <1>3 DEF TakesFirst

LEMMA PreparesIInv == ASSUME IInv, Prepares PROVE IInv'
<1>1. Working /\ Worker /\ session.at = "began"
  BY DEF Prepares, Working, Active
<1>2. CASE Obeys BY <1>1, <1>2, ObeysIInv
<1>3. ASSUME NEW automatic \in BOOLEAN,
             Goes([session EXCEPT !.at = "loop", !.automatic = automatic])
      PROVE  IInv'
  BY <1>1, <1>3, StaysIInv
  DEF Goes, stream, Worker, IInv, Shape, AdvancedLate, CallCancelled, ErrorAsked, EndsAsAsked,
      Working, Active
<1>4. CASE Fails("unprepared")
  BY <1>1, <1>4, FailsIInv, NoneIsNoError DEF IInv, AdvancedLate
<1> QED BY <1>2, <1>3, <1>4 DEF Prepares

LEMMA ScrollsIInv == ASSUME IInv, Scrolls PROVE IInv'
<1>1. Working /\ Worker /\ session.at = "loop"
  BY DEF Scrolls, Working, Active
<1>2. CASE Obeys BY <1>1, <1>2, ObeysIInv
<1>3. CASE Unasked /\ Salvages("limit", "nothing moved")
  BY <1>1, <1>3, SalvagesIInv, NoneIsNoError
<1>4. ASSUME NEW at \in {"settling", "unscrolled"}, Goes([session EXCEPT !.at = at])
      PROVE  IInv'
  BY <1>1, <1>4, StaysIInv
  DEF Goes, stream, Worker, IInv, Shape, AdvancedLate, CallCancelled, ErrorAsked, EndsAsAsked,
      Working, Active
<1> QED BY <1>2, <1>3, <1>4 DEF Scrolls

LEMMA ScrollFailsIInv == ASSUME IInv, ScrollFails PROVE IInv'
<1>1. Working /\ Worker /\ session.at = "unscrolled"
  BY DEF ScrollFails, Working, Active
<1>2. CASE Obeys BY <1>1, <1>2, ObeysIInv
<1>3. CASE Unasked /\ Salvages("interrupted", "unscrolled")
  BY <1>1, <1>3, SalvagesIInv, NoneIsNoError
<1>4. CASE Goes([session EXCEPT !.at = "loop", !.automatic = FALSE])
  BY <1>1, <1>4, StaysIInv
  DEF Goes, stream, Worker, IInv, Shape, AdvancedLate, CallCancelled, ErrorAsked, EndsAsAsked,
      Working, Active
<1> QED BY <1>2, <1>3, <1>4 DEF ScrollFails

LEMMA AsksNextIInv == ASSUME IInv, AsksNext PROVE IInv'
<1>1. Working /\ Worker /\ session.at = "settling"
  BY DEF AsksNext, Working, Active
<1>2. CASE Obeys BY <1>1, <1>2, ObeysIInv
<1>3. CASE session' = [session EXCEPT !.at = "asking"] /\ CaptureFrame(token)
  <2>1. CallCancelled'
    <3>1. ~token => call'.error # "cancelled" BY <1>3, CallsCancelled DEF IInv, Shape
    <3> QED BY <1>1, <1>3, <3>1 DEF Worker, IInv, Shape, CallCancelled
  <2> QED
    BY <1>1, <1>3, <2>1, StaysIInv
    DEF IInv, Shape, AdvancedLate, ErrorAsked, EndsAsAsked, Working, Active
<1> QED BY <1>2, <1>3 DEF AsksNext

LEMMA TakesFrameIInv == ASSUME IInv, TakesFrame PROVE IInv'
<1>1. Working /\ Worker /\ session.at = "asking"
  BY DEF TakesFrame, Working, Active
<1>2. CASE Error # None /\ Takes([session EXCEPT !.at = "faltered", !.error = Error])
  BY <1>1, <1>2, StaysIInv, CancelledAsked, NoneIsNoError
  DEF Takes, NoCall, Worker, IInv, Shape, AdvancedLate, CallCancelled, EndsAsAsked, Working, Active
<1>3. CASE Takes([session EXCEPT !.at = "captured", !.frames = @ + 1, !.frame = call.page])
  BY <1>1, <1>3, StaysIInv, NoneIsNoError
  DEF Takes, NoCall, Worker, IInv, Shape, AdvancedLate, CallCancelled, ErrorAsked, EndsAsAsked,
      Working, Active
<1> QED BY <1>2, <1>3 DEF TakesFrame

LEMMA FaltersIInv == ASSUME IInv, Falters PROVE IInv'
<1>1. Working /\ Worker /\ session.at = "faltered"
  BY DEF Falters, Working, Active
<1>2. CASE Obeys BY <1>1, <1>2, ObeysIInv
<1>3. CASE session.advanced /\ Unasked /\ Finishes("interrupted")
  BY <1>1, <1>3, FinishesIInv, UnaskedUncancelled
<1>4. CASE ~session.advanced /\ Fails(session.error)
  BY <1>1, <1>4, FailsIInv DEF IInv, ErrorAsked
<1> QED BY <1>2, <1>3, <1>4 DEF Falters

LEMMA StitchesIInv == ASSUME IInv, Stitches PROVE IInv'
<1>1. Working /\ Worker /\ session.at = "captured"
  BY DEF Stitches, Working, Active
<1>2. CASE Obeys BY <1>1, <1>2, ObeysIInv
<1>3. CASE \E reason \in {"end", "overlap"}, error \in {"nothing moved", "no overlap"} :
             Unasked /\ Salvages(reason, error)
  BY <1>1, <1>3, SalvagesIInv, NoneIsNoError
<1>4. CASE \E stalls : Goes([session EXCEPT !.at = "loop", !.stalls = stalls])
  BY <1>1, <1>4, StaysIInv, ZenonT(60)
  DEF Goes, stream, Worker, IInv, Shape, AdvancedLate, CallCancelled, ErrorAsked, EndsAsAsked,
      Working, Active
<1>5. CASE Goes([session EXCEPT !.at = "loop", !.latest = session.frame, !.stalls = 0,
                                !.advanced = TRUE])
  BY <1>1, <1>5, StaysIInv
  DEF Goes, stream, Worker, IInv, Shape, AdvancedLate, CallCancelled, ErrorAsked, EndsAsAsked,
      Working, Active
<1>6. CASE Goes([session EXCEPT !.at = "faltered", !.error = "unstitched"])
  BY <1>1, <1>6, StaysIInv, NoneIsNoError
  DEF Goes, stream, Worker, IInv, Shape, AdvancedLate, CallCancelled, EndsAsAsked, Working, Active
<1> QED BY <1>2, <1>3, <1>4, <1>5, <1>6 DEF Stitches, Stationary, Moved

LEMMA ReasonAsked ==
  ASSUME IInv, Working, Reason = "kept" PROVE session.asked >= Keep
<1>1. CASE request = Keep BY <1>1, RequestAsked
<1>2. CASE request # Keep BY <1>2 DEF Reason, IInv, EndsAsAsked, Working, Active
<1> QED BY <1>1, <1>2

LEMMA AssemblesIInv == ASSUME IInv, Assembles PROVE IInv'
<1>1. Working /\ Worker /\ session.at = "finishing"
  BY DEF Assembles, Working, Active
<1>2. CASE request = Abort /\ Fails("cancelled")
  BY <1>1, <1>2, RequestAsked, ObeysIInv DEF Obeys
<1>3. CASE Fails("assembly") BY <1>1, <1>3, FailsIInv, NoneIsNoError
<1>4. CASE Goes([session EXCEPT !.at = "assembled", !.reason = Reason])
  BY <1>1, <1>4, StaysIInv, ReasonAsked
  DEF Goes, stream, Worker, IInv, Shape, AdvancedLate, CallCancelled, ErrorAsked,
      EndsAsAsked, Working, Active
<1> QED BY <1>2, <1>3, <1>4 DEF Assembles

LEMMA ChecksIInv == ASSUME IInv, Checks PROVE IInv'
<1>1. Working /\ Worker /\ session.at = "assembled"
  BY DEF Checks, Working, Active
<1>2. CASE request = Abort /\ Fails("cancelled")
  BY <1>1, <1>2, RequestAsked, ObeysIInv DEF Obeys
<1>3. CASE Disconnect /\ session' = [session EXCEPT !.at = "sealing", !.reason = Reason]
  BY <1>1, <1>3, StaysIInv, ReasonAsked, NoneIsNoError
  DEF Disconnect, NoCall, Worker, IInv, Shape, AdvancedLate, CallCancelled, ErrorAsked,
      EndsAsAsked, Working, Active
<1> QED BY <1>2, <1>3 DEF Checks

\* the boundary: what is published from here on is no longer refused
LEMMA SealsIInv == ASSUME IInv, Seals PROVE IInv'
<1> USE DEF Working, Active
<1>1. Working /\ session.at = "sealing" BY DEF Seals
<1>2. CASE request = Abort /\ Fails("cancelled") /\ UNCHANGED request
  <2>1. Worker
    BY <1>2, TRUE DEF Seals, Worker, ui, IInv, Shape
  <2> QED BY <1>1, <1>2, <2>1, ObeysIInv DEF Obeys
<1>3. CASE request # Abort
  <2>1. /\ session' = [session EXCEPT !.at = "publishing", !.error = None] /\ request' = Sealed
        /\ UNCHANGED <<user, main, token, call>>
    BY <1>3 DEF Seals, Goes, stream
  <2>2. session.asked < Abort BY <1>1, <1>3, RequestAsked
  <2>3. Shape'
    <3>1. request' \in 0..3 BY <2>1
    <3> QED BY <2>1, <3>1 DEF IInv, Shape
  <2>4. InForce' BY <1>1, <2>1 DEF IInv, Shape, InForce
  <2>5. TokenAsked' BY <1>1, <2>1, RequestAsked DEF IInv, Shape, TokenAsked, Needed
  <2>6. CancelsRunning' BY <2>1 DEF IInv, CancelsRunning
  <2>7. CallCancelled' BY <1>1, <2>1 DEF IInv, Shape, CallCancelled
  <2>8. ErrorAsked' BY <2>1, NoneIsNoError DEF IInv, Shape, ErrorAsked
  <2>9. AdvancedLate' BY <2>1 DEF IInv, Shape, AdvancedLate
  <2>10. EndsAsAsked' BY <1>1, <2>1, <2>2 DEF IInv, Shape, EndsAsAsked, Output
  <2>11. PrefixKept' BY <2>1 DEF IInv, Shape, PrefixKept
  <2> QED BY <2>3, <2>4, <2>5, <2>6, <2>7, <2>8, <2>9, <2>10, <2>11 DEF IInv
<1> QED BY <1>2, <1>3 DEF Seals

LEMMA PublishesIInv == ASSUME IInv, Publishes PROVE IInv'
<1> USE DEF Active, Worker, ui
<1>1. /\ session.at = "publishing" /\ session' = [session EXCEPT !.at = "returning"]
      /\ UNCHANGED <<user, main, request, token, call>>
  BY DEF Publishes, Goes, stream
<1>2. session.error = None BY <1>1 DEF IInv, InForce
<1>3. Shape' BY <1>1 DEF IInv, Shape
<1>4. InForce' BY <1>1, <1>2 DEF IInv, Shape, InForce
<1>5. TokenAsked' BY <1>1 DEF IInv, Shape, TokenAsked, Needed
<1>6. CancelsRunning' BY <1>1 DEF IInv, CancelsRunning
<1>7. CallCancelled' BY <1>1 DEF IInv, Shape, CallCancelled
<1>8. ErrorAsked' BY <1>1, <1>2, NoneIsNoError DEF IInv, Shape, ErrorAsked
<1>9. AdvancedLate' BY <1>1 DEF IInv, Shape, AdvancedLate
<1>10. EndsAsAsked' BY <1>1, <1>2, NoneIsNoError DEF IInv, Shape, EndsAsAsked, Output
<1>11. PrefixKept' BY <1>1, <1>2 DEF IInv, Shape, PrefixKept
<1> QED BY <1>3, <1>4, <1>5, <1>6, <1>7, <1>8, <1>9, <1>10, <1>11 DEF IInv

LEMMA ReturnsIInv == ASSUME IInv, Returns PROVE IInv'
<1> USE DEF Active
<1>1. /\ session.at = "returning" /\ session' = [session EXCEPT !.at = "none"]
      /\ UNCHANGED <<user, request, token, call>>
  BY DEF Returns, Goes, stream
<1>2. IF user.by = "terminal" THEN main' = [main EXCEPT !.at = "down"] ELSE main' = main
  BY DEF Returns
<1>3. Shape' BY <1>1, <1>2 DEF IInv, Shape
<1>4. InForce' BY <1>1, <1>2 DEF IInv, Shape, InForce
<1>5. TokenAsked' BY <1>1, <1>2 DEF IInv, Shape, TokenAsked, Needed
<1>6. CancelsRunning' BY <1>1, <1>2 DEF IInv, Shape, CancelsRunning
<1>7. CallCancelled' BY <1>1 DEF IInv, Shape, CallCancelled
<1>8. ErrorAsked' BY <1>1 DEF IInv, Shape, ErrorAsked
<1>9. AdvancedLate' BY <1>1 DEF IInv, Shape, AdvancedLate
<1>10. EndsAsAsked' BY <1>1 DEF IInv, Shape, EndsAsAsked, Output
<1>11. PrefixKept' BY <1>1 DEF IInv, Shape, PrefixKept
<1> QED BY <1>3, <1>4, <1>5, <1>6, <1>7, <1>8, <1>9, <1>10, <1>11 DEF IInv

-----------------------------------------------------------------------------
(* Steps of everybody else                                                 *)

\* what the coordinator or a callback does to no request, token or session
LEMMA AsideIInv ==
  ASSUME IInv, UNCHANGED <<call, user, request, token, session>>,
         main' \in [at : {"off", "choosing", "starting", "running", "down"}, cancelling : BOOLEAN],
         main'.at = "running" => main.at = "running",
         main'.at \in {"off", "choosing", "starting"} => ~Active /\ user.by = "hud",
         main'.cancelling => main.cancelling /\ main'.at = main.at
  PROVE  IInv'
<1> USE DEF Active
<1>1. Shape' BY DEF IInv, Shape
<1>2. InForce' BY DEF IInv, InForce
<1>3. TokenAsked' BY DEF IInv, TokenAsked, Needed
<1>4. CancelsRunning' BY DEF IInv, CancelsRunning
<1>5. CallCancelled' BY DEF IInv, CallCancelled
<1>6. ErrorAsked' BY DEF IInv, ErrorAsked, Needed
<1>7. AdvancedLate' BY DEF IInv, AdvancedLate
<1>8. EndsAsAsked' BY DEF IInv, EndsAsAsked, Output
<1>9. PrefixKept' BY DEF IInv, PrefixKept
<1> QED BY <1>1, <1>2, <1>3, <1>4, <1>5, <1>6, <1>7, <1>8, <1>9 DEF IInv

LEMMA CoordinatorIInv ==
  ASSUME IInv, Begins \/ Starts \/ CancelsStart \/ TakesOutcome PROVE IInv'
<1>1. UNCHANGED <<call, user, request, token, session>>
  BY DEF Begins, Starts, CancelsStart, TakesOutcome, Coordinator, stream
<1>2. ~Active /\ user.by = "hud"
  BY DEF Begins, Starts, CancelsStart, TakesOutcome, IInv, InForce, Active, Coordinator
<1>3. ~main.cancelling
  BY DEF Begins, Starts, CancelsStart, TakesOutcome, IInv, CancelsRunning, Shape
<1>4. main' \in [at : {"off", "choosing", "starting"}, cancelling : {FALSE}]
  <2>1. NoCapture \in [at : {"off", "choosing", "starting"}, cancelling : {FALSE}]
    BY DEF NoCapture
  <2>2. ASSUME NEW at \in {"choosing", "starting"}, main' = [main EXCEPT !.at = at]
        PROVE  main' \in [at : {"off", "choosing", "starting"}, cancelling : {FALSE}]
    BY <1>3, <2>2 DEF IInv, Shape
  <2> QED BY <2>1, <2>2 DEF Begins, Starts, CancelsStart, TakesOutcome
<1> QED BY <1>1, <1>2, <1>4, AsideIInv

LEMMA EnvironmentIInv == ASSUME IInv, Environment PROVE IInv'
<1>1. UNCHANGED <<call, user, main, request, token, session>>
  BY ProducerKeepsCall DEF Environment, ui
<1> QED BY <1>1, AsideIInv DEF IInv, Shape, InForce

\* what is asked for is never less than before, and counts until the boundary
LEMMA CancelAsks ==
  ASSUME IInv, NEW action \in {Keep, Abort}, Cancel(action)
  PROVE  /\ session' = [session EXCEPT !.asked = session'.asked]
         /\ request' \in 0..3 /\ session'.asked \in session.asked..2
         /\ IF request = Sealed THEN request' = Sealed /\ session' = session
            ELSE /\ request' # Sealed /\ session'.asked = Stronger(session.asked, action)
                 /\ request = session.asked => request' = session'.asked
  BY DEF IInv, Shape, Cancel, Stronger

LEMMA CancelIInv ==
  ASSUME IInv, NEW action \in {Keep, Abort}, Cancel(action),
         main.at = "running" \/ (action = Keep /\ ~Active),
         user' \in [by : {user.by}, captures : Nat, requests : Nat], UNCHANGED <<call, token>>,
         main' \in [at : {main.at, "down"}, cancelling : BOOLEAN],
         main'.at = "down" \/ main.at = "running",
         main'.cancelling => /\ main.at = "running"
                             /\ \/ session'.asked >= Needed
                                \/ user.by = "terminal" /\ request' = Sealed
  PROVE  IInv'
<1> USE DEF Active
<1>1. /\ session'.at = session.at /\ session'.error = session.error
      /\ session'.reason = session.reason /\ session'.advanced = session.advanced
      /\ user'.by = user.by
  BY CancelAsks DEF IInv, Shape
<1>2. /\ session.asked \in 0..2 /\ session'.asked \in 0..2 /\ session'.asked >= session.asked
      /\ Needed \in 1..2
  BY CancelAsks, NeededIsAsked DEF IInv, Shape
<1>3. Shape' BY <1>2, CancelAsks DEF IInv, Shape
<1>4. InForce' BY <1>1, CancelAsks DEF IInv, InForce
<1>5. TokenAsked'
  BY <1>1, <1>2, CancelAsks DEF IInv, TokenAsked, Needed
<1>6. CancelsRunning' BY DEF CancelsRunning
<1>7. CallCancelled' BY <1>1 DEF IInv, CallCancelled
<1>8. ErrorAsked' BY <1>1, <1>2 DEF IInv, ErrorAsked, Needed
<1>9. AdvancedLate' BY <1>1 DEF IInv, AdvancedLate
<1>10. EndsAsAsked'
  <2>1. Output => session'.asked # Abort
    BY <1>2, CancelAsks DEF IInv, InForce, EndsAsAsked, Output, Stronger
  <2> QED BY <1>1, <1>2, <2>1 DEF IInv, EndsAsAsked, Output
<1>11. PrefixKept' BY <1>1, <1>2 DEF IInv, PrefixKept
<1> QED BY <1>3, <1>4, <1>5, <1>6, <1>7, <1>8, <1>9, <1>10, <1>11 DEF IInv

LEMMA UserIInv == ASSUME IInv, KeepsCapture \/ AbortsCapture \/ Interrupts PROVE IInv'
<1>1. /\ main.at = "running" /\ ~main.cancelling /\ UNCHANGED <<call, token>>
      /\ user' \in [by : {user.by}, captures : Nat, requests : Nat]
  BY DEF KeepsCapture, AbortsCapture, Interrupts, Told, stream, IInv, Shape
<1>2. CASE KeepsCapture
  BY <1>1, <1>2, CancelIInv DEF KeepsCapture, IInv, Shape
<1>3. CASE AbortsCapture
  <2>1. main' \in [at : {main.at, "down"}, cancelling : BOOLEAN]
    BY <1>3 DEF AbortsCapture, IInv, Shape
  <2>2. main'.cancelling => session'.asked >= Needed
    BY <1>1, <1>3, CancelAsks, NeededIsAsked DEF AbortsCapture, Stronger, IInv, Shape
  <2> QED BY <1>1, <1>3, <2>1, <2>2, CancelIInv DEF AbortsCapture
<1>4. CASE Interrupts
  <2>1. main' \in [at : {main.at, "down"}, cancelling : BOOLEAN]
    BY <1>4 DEF Interrupts, IInv, Shape
  <2>2. user.by = "terminal" /\ Needed = Keep BY <1>4 DEF Interrupts, Needed
  <2>3. CASE request < Abort
    <3>1. request + 1 \in {Keep, Abort} /\ Cancel(request + 1)
      BY <1>4, <2>3 DEF Interrupts, IInv, Shape
    <3>2. session'.asked >= Needed
      BY <2>2, <2>3, <3>1, CancelAsks DEF Stronger, IInv, Shape
    <3> QED BY <1>1, <2>1, <3>1, <3>2, CancelIInv
  <2>4. CASE ~(request < Abort)
    <3>1. UNCHANGED <<request, session>> BY <1>4, <2>4 DEF Interrupts
    <3>2. request = Sealed \/ session.asked = Abort
      BY <1>1, <2>4 DEF IInv, InForce, Shape
    <3>3. Shape' BY <1>1, <2>1, <3>1 DEF IInv, Shape
    <3>4. user'.by = user.by /\ main'.at = main.at /\ session.asked \in 0..2
      BY <1>1, <1>4 DEF Interrupts, IInv, Shape
    <3>5. InForce' BY <3>1, <3>4 DEF IInv, InForce, Active
    <3>6. TokenAsked' BY <2>2, <3>1, <3>2, <3>4 DEF TokenAsked, Needed
    <3>7. CancelsRunning' BY <1>1, <3>4 DEF CancelsRunning
    <3>8. CallCancelled' BY <1>1, <3>1 DEF IInv, CallCancelled
    <3>9. ErrorAsked' BY <3>1, <3>4 DEF IInv, ErrorAsked, Needed
    <3>10. AdvancedLate' BY <3>1 DEF IInv, AdvancedLate
    <3>11. EndsAsAsked' BY <3>1, <3>4 DEF IInv, EndsAsAsked, Output
    <3>12. PrefixKept' BY <3>1 DEF IInv, PrefixKept
    <3> QED BY <3>3, <3>5, <3>6, <3>7, <3>8, <3>9, <3>10, <3>11, <3>12 DEF IInv
  <2> QED BY <2>3, <2>4
<1> QED BY <1>2, <1>3, <1>4

LEMMA QuitsIInv == ASSUME IInv, Quits PROVE IInv'
<1>1. /\ main' \in [at : {"down"}, cancelling : {FALSE}] /\ UNCHANGED <<call, user, token>>
  BY DEF Quits, Coordinator, NoCapture, stream
<1>2. CASE main.at \in {"starting", "running"}
  BY <1>1, <1>2, CancelIInv DEF Quits, IInv, Shape, InForce
<1>3. CASE main.at \notin {"starting", "running"}
  BY <1>1, <1>3, AsideIInv DEF Quits
<1> QED BY <1>2, <1>3

LEMMA CancelsTokenIInv == ASSUME IInv, CancelsToken PROVE IInv'
<1>1. /\ main.cancelling /\ token' = TRUE /\ main' = [main EXCEPT !.cancelling = FALSE]
      /\ UNCHANGED <<call, user, request, session>>
  BY DEF CancelsToken, stream
<1>2. main'.at = main.at /\ ~main'.cancelling BY <1>1 DEF IInv, Shape
<1>3. Shape' BY <1>1 DEF IInv, Shape
<1>4. InForce' BY <1>1, <1>2 DEF IInv, InForce, Active
<1>5. TokenAsked' BY <1>1, <1>2 DEF IInv, TokenAsked, Needed
<1>6. CancelsRunning' BY <1>2 DEF CancelsRunning
<1>7. CallCancelled' BY <1>1 DEF IInv, CallCancelled
<1>8. ErrorAsked' BY <1>1 DEF IInv, ErrorAsked, Needed
<1>9. AdvancedLate' BY <1>1 DEF IInv, AdvancedLate
<1>10. EndsAsAsked' BY <1>1 DEF IInv, EndsAsAsked, Output
<1>11. PrefixKept' BY <1>1 DEF IInv, PrefixKept
<1> QED BY <1>3, <1>4, <1>5, <1>6, <1>7, <1>8, <1>9, <1>10, <1>11 DEF IInv

LEMMA NewSessionShape ==
  ASSUME NEW s, s \in {NoSession, [NoSession EXCEPT !.at = "queued"]}
  PROVE  s \in [at : {s.at}, frames : {s.frames}, stalls : {s.stalls}, frame : {s.frame},
                latest : {s.latest}, advanced : BOOLEAN, automatic : {s.automatic},
                reason : {s.reason}, error : {s.error}, asked : 0..2]
<1>1. NoSession \in
        [at : {NoSession.at}, frames : {NoSession.frames}, stalls : {NoSession.stalls},
         frame : {NoSession.frame}, latest : {NoSession.latest}, advanced : BOOLEAN,
         automatic : {NoSession.automatic}, reason : {NoSession.reason},
         error : {NoSession.error}, asked : 0..2]
  BY DEF NoSession
<1> QED BY <1>1

LEMMA PostsIInv == ASSUME IInv, Posts PROVE IInv'
<1> USE DEF Active
<1>1. /\ main.at = "starting" /\ user.by = "hud" /\ request' = 0 /\ call' = call
      /\ user' \in [by : {user.by}, captures : Nat, requests : Nat]
  BY DEF Posts, stream, IInv, Shape
<1>2. CASE session.at = "none" /\ main' = Running /\ token' = FALSE
           /\ session' = [NoSession EXCEPT !.at = "queued"]
  <2> USE DEF NoSession, Running, NoCapture
  <2>1. Shape'
    <3>1. main' \in [at : {"running"}, cancelling : BOOLEAN] BY <1>2
    <3>2. request' \in 0..3 BY <1>1
    <3>4. token' \in BOOLEAN BY <1>2
    <3>3. user' \in [by : {"hud", "terminal"}, captures : Nat, requests : Nat]
      BY <1>1 DEF IInv, Shape
    <3> HIDE DEF NoSession
    <3> QED BY <1>2, <3>1, <3>2, <3>3, <3>4, NewSessionShape DEF Shape
  <2>2. InForce' BY <1>2, <1>1 DEF InForce
  <2>3. TokenAsked' BY <1>2 DEF TokenAsked
  <2>4. CancelsRunning' BY <1>2 DEF CancelsRunning
  <2>5. CallCancelled' BY <1>1, <1>2 DEF IInv, CallCancelled
  <2>6. ErrorAsked' BY <1>2, NoneIsNoError DEF ErrorAsked
  <2>7. AdvancedLate' BY <1>2 DEF AdvancedLate
  <2>8. EndsAsAsked' BY <1>2, NoneIsNoError DEF EndsAsAsked, Output
  <2>9. PrefixKept' BY <1>2 DEF PrefixKept
  <2> QED BY <2>1, <2>2, <2>3, <2>4, <2>5, <2>6, <2>7, <2>8, <2>9 DEF IInv
<1>3. CASE main' = NoCapture /\ UNCHANGED <<token, session>>
  <2>1. user'.by = user.by /\ ~main.cancelling BY <1>1 DEF IInv, CancelsRunning
  <2>2. main'.at = "off" /\ ~main'.cancelling BY <1>3 DEF NoCapture
  <2>3. Shape' BY <1>1, <1>3 DEF IInv, Shape, NoCapture
  <2>4. InForce' BY <1>1, <1>3, <2>1, <2>2 DEF IInv, InForce
  <2>5. TokenAsked' BY <1>1, <1>3, <2>1, <2>2 DEF IInv, TokenAsked, Needed
  <2>6. CancelsRunning' BY <2>2 DEF CancelsRunning
  <2>7. CallCancelled' BY <1>1, <1>3 DEF IInv, CallCancelled
  <2>8. ErrorAsked' BY <1>3, <2>1 DEF IInv, ErrorAsked, Needed
  <2>9. AdvancedLate' BY <1>3 DEF IInv, AdvancedLate
  <2>10. EndsAsAsked' BY <1>3, <2>1 DEF IInv, EndsAsAsked, Output
  <2>11. PrefixKept' BY <1>3 DEF IInv, PrefixKept
  <2> QED BY <2>3, <2>4, <2>5, <2>6, <2>7, <2>8, <2>9, <2>10, <2>11 DEF IInv
<1> QED BY <1>2, <1>3 DEF Posts

-----------------------------------------------------------------------------
(* The inductive invariant holds                                           *)

LEMMA InitIInv == ASSUME Init PROVE IInv
<1> USE DEF Running, NoCapture, NoSession, Active
<1>1. PICK w \in Workloads :
        /\ user = [by |-> w.by, captures |-> w.captures, requests |-> w.requests]
        /\ main = IF w.by = "hud" THEN NoCapture ELSE Running
        /\ session = IF w.by = "hud" THEN NoSession ELSE [NoSession EXCEPT !.at = "queued"]
  BY DEF Init
<1>2. /\ user \in [by : {"hud", "terminal"}, captures : Nat, requests : Nat] /\ user.by = w.by
      /\ request = 0 /\ token = FALSE /\ call = NoCall
  BY <1>1, ScrollAssumption DEF Init, Workload
<1>3. /\ main \in [at : {"off", "running"}, cancelling : {FALSE}]
      /\ session.at \in {"none", "queued"} /\ session.reason = None /\ session.error = None
      /\ session.asked = 0 /\ ~session.advanced
      /\ user.by = "hud" => main.at = "off" /\ session.at = "none"
      /\ user.by # "hud" => main.at = "running" /\ session.at = "queued"
  BY <1>1, <1>2
<1>4. Shape
  <2>1. session \in {NoSession, [NoSession EXCEPT !.at = "queued"]} BY <1>1
  <2>2. request \in 0..3 BY <1>2
  <2>3. token \in BOOLEAN BY <1>2
  <2>4. main \in [at : {"off", "choosing", "starting", "running", "down"}, cancelling : BOOLEAN]
    BY <1>3
  <2> HIDE DEF NoSession
  <2> QED BY <1>2, <2>1, <2>2, <2>3, <2>4, NewSessionShape DEF Shape
<1>5. InForce BY <1>2, <1>3 DEF InForce
<1>6. TokenAsked /\ CancelsRunning BY <1>2, <1>3 DEF TokenAsked, CancelsRunning
<1>7. CallCancelled BY <1>2, NoneIsNoError DEF CallCancelled, NoCall
<1>8. ErrorAsked /\ AdvancedLate BY <1>3, NoneIsNoError DEF ErrorAsked, AdvancedLate
<1>9. EndsAsAsked /\ PrefixKept BY <1>3, NoneIsNoError DEF EndsAsAsked, PrefixKept, Output
<1> QED BY <1>4, <1>5, <1>6, <1>7, <1>8, <1>9 DEF IInv

LEMMA StutterIInv == ASSUME IInv, UNCHANGED vars PROVE IInv'
  BY AsideIInv DEF vars, ui, stream, IInv, Shape, InForce

LEMMA NextIInv == ASSUME IInv, [Next]_vars PROVE IInv'
<1>1. CASE User BY <1>1, UserIInv, CoordinatorIInv, QuitsIInv DEF User
<1>2. CASE CancelsToken \/ CancelsStart \/ Posts \/ TakesOutcome
  BY <1>2, CancelsTokenIInv, CoordinatorIInv, PostsIInv
<1>3. CASE Opens BY <1>3, PickerIInv
<1>4. CASE SessionStep
  BY <1>4, WaitingCallIInv, TakesFirstIInv, TakesFrameIInv, PickerIInv, AsksFirstIInv,
     PreparesIInv, ScrollsIInv, ScrollFailsIInv, AsksNextIInv, FaltersIInv, StitchesIInv,
     AssemblesIInv, ChecksIInv, SealsIInv, PublishesIInv, ReturnsIInv
  DEF SessionStep
<1>5. CASE Environment BY <1>5, EnvironmentIInv
<1>6. CASE UNCHANGED vars BY <1>6, StutterIInv
<1> QED BY <1>1, <1>2, <1>3, <1>4, <1>5, <1>6 DEF Next

LEMMA SpecIInv == Spec => []IInv
<1>1. Init => IInv BY InitIInv
<1>2. IInv /\ [Next]_vars => IInv' BY NextIInv
<1> QED BY <1>1, <1>2, PTL DEF Spec

-----------------------------------------------------------------------------
(* The stream and the frames of a session                                  *)

\* a frame is asked for only below the limit
Bounded ==
  /\ session.frames \in 0..MaxFrames
  /\ session.at \in {"settling", "asking"} => session.frames < MaxFrames
  /\ session.reason \in Reasons \union {None}

\* a step of the session that asks for nothing, and captures nothing
LEMMA GoesBounded ==
  ASSUME Shape, Bounded,
         NEW at, at \notin {"settling", "asking"}, session'.at = at,
         session'.frames = session.frames, session'.reason \in Reasons \union {None}
  PROVE  Bounded'
  BY DEF Bounded

LEMMA FailsKeeps ==
  ASSUME Shape, Bounded, StreamInv, NEW error, Fails(error)
  PROVE  Bounded' /\ StreamInv' /\ DeliversNews
<1>1. StreamInv' /\ call' = NoCall BY DisconnectKeeps DEF Fails, Disconnect
<1>2. session' = [session EXCEPT !.at = "returning", !.error = error] BY DEF Fails
<1>3. Bounded' BY <1>2, GoesBounded DEF Shape, Bounded
<1> QED BY <1>1, <1>3 DEF DeliversNews, Delivers, NoCall

LEMMA SameStream ==
  ASSUME StreamInv, UNCHANGED stream PROVE StreamInv' /\ DeliversNews
<1>1. UNCHANGED <<source, shared, call>> BY DEF stream
<1> QED BY <1>1 DEF StreamInv, DeliversNews, Delivers, Unseen

LEMMA FinishesKeeps ==
  ASSUME Shape, Bounded, StreamInv, NEW reason \in Reasons, Finishes(reason)
  PROVE  Bounded' /\ StreamInv' /\ DeliversNews
<1>1. session' = [session EXCEPT !.at = "finishing", !.reason = reason] BY DEF Finishes, Goes
<1>2. Bounded' BY <1>1, GoesBounded DEF Shape, Bounded
<1> QED BY <1>2, SameStream DEF Finishes, Goes

LEMMA ObeysKeeps ==
  ASSUME Shape, Bounded, StreamInv, Obeys PROVE Bounded' /\ StreamInv' /\ DeliversNews
  BY FailsKeeps, FinishesKeeps DEF Obeys, Reasons

LEMMA SalvagesKeeps ==
  ASSUME Shape, Bounded, StreamInv, NEW reason \in Reasons, NEW error, Salvages(reason, error)
  PROVE  Bounded' /\ StreamInv' /\ DeliversNews
  BY FailsKeeps, FinishesKeeps DEF Salvages

LEMMA TakesKeeps ==
  ASSUME StreamInv, NEW to, Takes(to) PROVE StreamInv' /\ DeliversNews
  BY TakenKeeps DEF Takes, DeliversNews, Delivers, NoCall

LEMMA CallStepKeeps ==
  ASSUME Shape, Bounded, StreamInv,
         WaitingCall \/ AsksFirst \/ TakesFirst \/ AsksNext \/ TakesFrame
  PROVE  Bounded' /\ StreamInv' /\ DeliversNews
<1>1. CASE WaitingCall \/ AsksFirst
  <2>1. Bounded' BY <1>1 DEF WaitingCall, AsksFirst, Bounded
  <2> QED BY <1>1, <2>1, WakesKeeps, TimesOutKeeps, CaptureFrameKeeps DEF WaitingCall, AsksFirst
<1>2. CASE TakesFirst
  <2>1. CASE Takes([session EXCEPT !.at = "began", !.frames = 1, !.latest = call.page])
    <3>1. session' = [session EXCEPT !.at = "began", !.frames = 1, !.latest = call.page]
      BY <2>1 DEF Takes
    <3>2. session'.at = "began" /\ session'.frames = 1 /\ session'.reason = session.reason
      BY <3>1 DEF Shape
    <3>3. 1 \in 0..MaxFrames BY ScrollAssumption
    <3> QED BY <2>1, <3>2, <3>3, TakesKeeps DEF Bounded
  <2> QED BY <1>2, <2>1, FailsKeeps DEF TakesFirst
<1>3. CASE AsksNext
  <2>1. CASE session' = [session EXCEPT !.at = "asking"] /\ CaptureFrame(token)
    <3>1. /\ session'.at = "asking" /\ session'.frames = session.frames
          /\ session'.reason = session.reason
      BY <2>1 DEF Shape
    <3>2. session.at = "settling" BY <1>3 DEF AsksNext
    <3> QED BY <2>1, <3>1, <3>2, CaptureFrameKeeps DEF Bounded
  <2> QED BY <1>3, <2>1, ObeysKeeps DEF AsksNext
<1>4. CASE TakesFrame
  <2> DEFINE to == IF Error # None THEN [session EXCEPT !.at = "faltered", !.error = Error]
                   ELSE [session EXCEPT !.at = "captured", !.frames = @ + 1, !.frame = call.page]
  <2>1. Takes(to) /\ session' = to /\ session.at = "asking" BY <1>4 DEF TakesFrame, Takes
  <2>2. /\ session'.at \in {"faltered", "captured"} /\ session'.reason = session.reason
        /\ session'.frames \in {session.frames, session.frames + 1}
    BY <2>1 DEF Shape
  <2>3. session.frames \in 0..MaxFrames /\ session.frames < MaxFrames BY <2>1 DEF Bounded
  <2>4. session'.frames \in 0..MaxFrames BY <2>2, <2>3, ScrollAssumption
  <2> HIDE DEF to
  <2> QED BY <2>1, <2>2, <2>4, TakesKeeps DEF Bounded
<1> QED BY <1>1, <1>2, <1>3, <1>4

LEMMA LoopStepKeeps ==
  ASSUME Shape, Bounded, StreamInv,
         Opens \/ Closes \/ Prepares \/ Scrolls \/ ScrollFails \/ Falters \/ Stitches
  PROVE  Bounded' /\ StreamInv' /\ DeliversNews
<1>1. ASSUME NEW to, Goes(to), to.at \notin {"asking"}, to.frames = session.frames,
             to.reason = session.reason, to.at = "settling" => session.frames < MaxFrames
      PROVE  Bounded' /\ StreamInv' /\ DeliversNews
  BY <1>1, SameStream DEF Goes, Bounded
<1>2. CASE Opens \/ Closes
  <2>1. CASE Goes([session EXCEPT !.at = "first"]) BY <2>1, <1>1 DEF Shape
  <2> QED BY <1>2, <2>1, FailsKeeps DEF Opens, Closes
<1>3. CASE Prepares
  <2>1. ASSUME NEW automatic \in BOOLEAN,
               Goes([session EXCEPT !.at = "loop", !.automatic = automatic])
        PROVE  Bounded' /\ StreamInv' /\ DeliversNews
    BY <2>1, <1>1 DEF Shape
  <2> QED BY <1>3, <2>1, ObeysKeeps, FailsKeeps DEF Prepares
<1>4. CASE Scrolls
  <2>1. CASE ~AtLimit /\ Goes([session EXCEPT !.at = "settling"])
    <3>1. session.frames < MaxFrames BY <2>1, ScrollAssumption DEF AtLimit, Bounded
    <3> QED BY <2>1, <3>1, <1>1 DEF Shape
  <2>2. CASE Goes([session EXCEPT !.at = "unscrolled"]) BY <2>2, <1>1 DEF Shape
  <2>3. CASE Salvages("limit", "nothing moved") BY <2>3, SalvagesKeeps DEF Reasons
  <2> QED BY <1>4, <2>1, <2>2, <2>3, ObeysKeeps DEF Scrolls
<1>5. CASE ScrollFails
  <2>1. CASE Goes([session EXCEPT !.at = "loop", !.automatic = FALSE]) BY <2>1, <1>1 DEF Shape
  <2>2. CASE Salvages("interrupted", "unscrolled") BY <2>2, SalvagesKeeps DEF Reasons
  <2> QED BY <1>5, <2>1, <2>2, ObeysKeeps DEF ScrollFails
<1>6. CASE Falters BY <1>6, ObeysKeeps, FinishesKeeps, FailsKeeps DEF Falters, Reasons
<1>7. CASE Stitches
  <2>1. ASSUME NEW stalls, Goes([session EXCEPT !.at = "loop", !.stalls = stalls])
        PROVE  Bounded' /\ StreamInv' /\ DeliversNews
    BY <2>1, <1>1 DEF Shape
  <2>2. CASE Goes([session EXCEPT !.at = "loop", !.latest = session.frame, !.stalls = 0,
                                  !.advanced = TRUE])
    BY <2>2, <1>1 DEF Shape
  <2>3. CASE Goes([session EXCEPT !.at = "faltered", !.error = "unstitched"])
    BY <2>3, <1>1 DEF Shape
  <2>4. CASE Salvages("end", "nothing moved") BY <2>4, SalvagesKeeps DEF Reasons
  <2>5. CASE Salvages("overlap", "no overlap") BY <2>5, SalvagesKeeps DEF Reasons
  <2> QED BY <1>7, <2>1, <2>2, <2>3, <2>4, <2>5, ObeysKeeps DEF Stitches, Stationary, Moved
<1> QED BY <1>2, <1>3, <1>4, <1>5, <1>6, <1>7

LEMMA EndStepKeeps ==
  ASSUME Shape, Bounded, StreamInv, Assembles \/ Checks \/ Seals \/ Publishes \/ Returns
  PROVE  Bounded' /\ StreamInv' /\ DeliversNews
<1>1. Reason \in Reasons \union {None} BY DEF Reason, Bounded, Reasons
<1>2. ASSUME NEW to, Goes(to), to.at \notin {"asking", "settling"}, to.frames = session.frames,
             to.reason \in Reasons \union {None}
      PROVE  Bounded' /\ StreamInv' /\ DeliversNews
  BY <1>2, SameStream DEF Goes, Bounded
<1>3. CASE Assembles
  <2>1. CASE Goes([session EXCEPT !.at = "assembled", !.reason = Reason])
    BY <2>1, <1>1, <1>2 DEF Shape
  <2> QED BY <1>3, <2>1, FailsKeeps DEF Assembles
<1>4. CASE Checks
  <2>1. CASE Disconnect /\ session' = [session EXCEPT !.at = "sealing", !.reason = Reason]
    <3>1. /\ session'.at = "sealing" /\ session'.frames = session.frames
          /\ session'.reason \in Reasons \union {None}
      BY <1>1, <2>1 DEF Shape
    <3>2. StreamInv' /\ call' = NoCall BY <2>1, DisconnectKeeps DEF Disconnect
    <3> QED BY <3>1, <3>2, GoesBounded DEF DeliversNews, Delivers, NoCall
  <2> QED BY <1>4, <2>1, FailsKeeps DEF Checks
<1>5. CASE Seals
  <2>1. CASE Goes([session EXCEPT !.at = "publishing", !.error = None])
    BY <2>1, <1>2 DEF Shape, Bounded
  <2> QED BY <1>5, <2>1, FailsKeeps DEF Seals
<1>6. CASE Publishes \/ Returns
  <2>1. ASSUME NEW at \in {"returning", "none"}, Goes([session EXCEPT !.at = at])
        PROVE  Bounded' /\ StreamInv' /\ DeliversNews
    BY <2>1, <1>2 DEF Shape, Bounded
  <2> QED BY <1>6, <2>1 DEF Publishes, Returns
<1> QED BY <1>3, <1>4, <1>5, <1>6

\* the user, the coordinator and the token leave the stream alone
LEMMA OthersKeep ==
  ASSUME Shape, Bounded, StreamInv,
         User \/ CancelsToken \/ CancelsStart \/ Posts \/ TakesOutcome \/ UNCHANGED vars
  PROVE  Bounded' /\ StreamInv' /\ DeliversNews
<1>1. UNCHANGED stream
  BY DEF User, KeepsCapture, AbortsCapture, Interrupts, Told, Begins, Starts, Quits, Coordinator,
         CancelsToken, CancelsStart, Posts, TakesOutcome, vars
<1>2. \/ session' = session
      \/ session' = [NoSession EXCEPT !.at = "queued"]
      \/ \E asked : session' = [session EXCEPT !.asked = asked]
  BY DEF User, KeepsCapture, AbortsCapture, Interrupts, Begins, Starts, Quits, Cancel,
         CancelsToken, CancelsStart, Posts, TakesOutcome, vars
<1>3. ASSUME session' = session PROVE Bounded' BY <1>3 DEF Bounded
<1>4. ASSUME session' = [NoSession EXCEPT !.at = "queued"] PROVE Bounded'
  <2>1. session'.at = "queued" /\ session'.frames = 0 /\ session'.reason = None
    BY <1>4 DEF NoSession
  <2>2. 0 \in 0..MaxFrames BY ScrollAssumption
  <2> QED BY <2>1, <2>2 DEF Bounded
<1>5. ASSUME \E asked : session' = [session EXCEPT !.asked = asked] PROVE Bounded'
  <2>1. /\ session'.at = session.at /\ session'.frames = session.frames
        /\ session'.reason = session.reason
    BY <1>5 DEF Shape
  <2> QED BY <2>1 DEF Bounded
<1>6. Bounded' BY <1>2, <1>3, <1>4, <1>5
<1> QED BY <1>1, <1>6, SameStream

LEMMA NextKeeps ==
  ASSUME IInv, Bounded, StreamInv, [Next]_vars PROVE Bounded' /\ StreamInv' /\ DeliversNews
<1>1. Shape BY DEF IInv
<1>2. CASE Environment
  <2>1. Bounded' BY <1>2 DEF Environment, Bounded
  <2>2. call' = call BY <1>2, ProducerKeepsCall DEF Environment
  <2> QED BY <1>2, <2>1, <2>2, ProducerKeeps DEF Environment, DeliversNews, Delivers
<1> QED
  BY <1>1, <1>2, CallStepKeeps, LoopStepKeeps, EndStepKeeps, OthersKeep DEF Next, SessionStep

LEMMA InitStream == ASSUME Init PROVE Bounded /\ StreamInv
<1>1. PICK w \in Workloads :
        /\ source = NewSource(w.buffers, w.notices)
        /\ session = IF w.by = "hud" THEN NoSession ELSE [NoSession EXCEPT !.at = "queued"]
  BY DEF Init
<1>2. w.buffers \in Nat /\ w.notices \in Nat BY ScrollAssumption DEF Workload
<1>3. source \in Sources /\ source.sends = 0 /\ source.taken = 0 /\ ~source.ended
  BY <1>1, <1>2, StreamAssumption DEF NewSource, Sources
<1>4. /\ session.at \in {"none", "queued"} /\ session.frames = 0 /\ session.reason = None
  BY <1>1 DEF NoSession
<1>5. 0 \in 0..MaxFrames BY ScrollAssumption
<1> QED BY <1>3, <1>4, <1>5, StartsStreamInv DEF Init, Bounded

LEMMA SpecStream == Spec => [](IInv /\ Bounded /\ StreamInv)
<1>1. Init => IInv /\ Bounded /\ StreamInv BY InitIInv, InitStream
<1>2. IInv /\ Bounded /\ StreamInv /\ [Next]_vars => (IInv /\ Bounded /\ StreamInv)'
  BY NextIInv, NextKeeps
<1> QED BY <1>1, <1>2, PTL DEF Spec

-----------------------------------------------------------------------------
(* The theorems                                                            *)

(* A capture ends the way its user asked for: one whose discarding was     *)
(* accepted before the boundary of AtomicCancellation is not published.    *)
THEOREM CapturesEndAsAsked == Spec => []EndsAsAsked
<1>1. IInv => EndsAsAsked BY DEF IInv
<1> QED BY <1>1, SpecIInv, PTL

(* Once the viewport has moved, what was stitched is returned unless it    *)
(* was to be discarded or cannot be assembled (ScrollSession::run).        *)
THEOREM PrefixIsKept == Spec => []PrefixKept
<1>1. IInv => PrefixKept BY DEF IInv
<1> QED BY <1>1, SpecIInv, PTL

(* The request in force is the one made of this capture: post_scrolling    *)
(* resets it, and only seal_output closes it.                              *)
THEOREM RequestsAreOwn == Spec => []OwnRequest
<1>1. IInv => OwnRequest
  BY DEF IInv, InForce, Active, OwnRequest, Shape
<1> QED BY <1>1, SpecIInv, PTL

(* Every variable keeps its type, the newest frame stays in the format that *)
(* was agreed on, and no session captures more frames than max_frames.      *)
THEOREM TypesHold == Spec => []TypeOK
<1>1. IInv /\ Bounded /\ StreamInv => TypeOK
  BY StreamInvTypes DEF IInv, Shape, Bounded, TypeOK
<1> QED BY <1>1, SpecStream, PTL

(* What capture_frame delivers is what the producer sent last, since the   *)
(* delivery before: no stale frame is taken for news (FrameTimeline and    *)
(* Shared::invalidate_frame).                                              *)
THEOREM FramesAreFresh == Spec => FreshFrames
<1>1. IInv /\ Bounded /\ StreamInv /\ [Next]_vars =>
        [Delivers => call'.page = source.sent /\ source.sends > source.taken]_stream
  BY NextKeeps DEF DeliversNews
<1> QED BY <1>1, SpecStream, PTL DEF Spec, FreshFrames

(* A stream that has ended delivers nothing more: its end is observed      *)
(* before everything else that is queued (Lifecycle::observe).             *)
THEOREM DeadStreamsStayDead == Spec => DeadStaysDead
<1>1. IInv /\ Bounded /\ StreamInv /\ [Next]_vars => [Delivers => ~source.ended]_stream
  BY NextKeeps DEF DeliversNews
<1> QED BY <1>1, SpecStream, PTL DEF Spec, DeadStaysDead
=============================================================================

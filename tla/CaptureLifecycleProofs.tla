------------------------ MODULE CaptureLifecycleProofs ------------------------
(***************************************************************************)
(* Proofs about CaptureLifecycle, for every window, interval, gap and      *)
(* bound, and any number of crashes.                                       *)
(***************************************************************************)
EXTENDS CaptureLifecycle, WellFoundedInduction, TLAPS

\* A window of samples.
Windows(size) == {q \in Seq(Samples) : Len(q) <= size}

\* The CaptureLifecycle object.
Lifecycles ==
    [phase: CapturePhase, draft: Windows(DraftWindow), game: Windows(GameWindow),
     drafted: BOOLEAN, played: BOOLEAN, next: Nat, map: 0 .. MaxMap,
     final: BOOLEAN, closeAt: Nat]

Rows == [event: Triggers, at: 1 .. MaxTime, map: 0 .. MaxMap]

-----------------------------------------------------------------------------
(* Induction over the rows of the manifest.                                *)

\* A non-empty set of natural numbers has a least element.
LEMMA LeastNatural ==
    ASSUME NEW S \in SUBSET Nat, S # {}
    PROVE  \E f \in S : \A g \in S : f <= g
  <1>1. PICK f \in S : \A g \in S : <<g, f>> \notin OpToRel(<, Nat)
    BY NatLessThanWellFounded, WFMin
  <1>2. \A g \in S : ~(g < f)
    BY <1>1 DEF OpToRel
  <1> QED
    BY <1>2

\* A set that holds zero, and with a number the next one, holds all of them.
LEMMA SetInduction ==
    ASSUME NEW S, 0 \in S, \A n \in Nat : n \in S => n + 1 \in S
    PROVE  \A n \in Nat : n \in S
  <1> DEFINE T == {n \in Nat : n \notin S}
  <1> SUFFICES ASSUME T # {} PROVE FALSE
    OBVIOUS
  <1>1. PICK f \in T : \A g \in T : f <= g
    BY LeastNatural
  <1>2. f \in Nat /\ f # 0 /\ f - 1 \in Nat /\ f - 1 \notin T
    BY <1>1
  <1>3. f - 1 \in S
    BY <1>2
  <1>4. (f - 1) + 1 \in S
    BY <1>2, <1>3
  <1> QED
    BY <1>1, <1>2, <1>4

\* The states of a replay: the fresh object, then one row after the other.
Replay(after, rows, n) ==
    after = [i \in 0 .. n |->
                IF i = 0 THEN Fresh ELSE RestoreRow(after[i - 1], rows[i])]

\* Every manifest can be replayed.
LEMMA ReplayExists ==
    ASSUME NEW rows, NEW n \in Nat
    PROVE  \E after : Replay(after, rows, n)
  <1> DEFINE S == {k \in Nat : \E after : Replay(after, rows, k)}
  <1>1. 0 \in S
    <2> DEFINE start == [i \in 0 .. 0 |-> Fresh]
    <2>1. start = [i \in 0 .. 0 |->
                    IF i = 0 THEN Fresh ELSE RestoreRow(start[i - 1], rows[i])]
      OBVIOUS
    <2> QED
      BY <2>1 DEF Replay
  <1>2. ASSUME NEW k \in Nat, k \in S PROVE k + 1 \in S
    <2>1. PICK after : Replay(after, rows, k)
      BY <1>2
    <2> DEFINE more == [i \in 0 .. k + 1 |->
                            IF i = k + 1 THEN RestoreRow(after[k], rows[k + 1])
                            ELSE after[i]]
    <2>2. \A i \in 0 .. k : after[i] =
                IF i = 0 THEN Fresh ELSE RestoreRow(after[i - 1], rows[i])
      BY <2>1 DEF Replay
    <2>3. \A i \in 0 .. k : more[i] = after[i]
      OBVIOUS
    <2>4. more[k + 1] = RestoreRow(after[k], rows[k + 1])
      BY <1>2
    <2>5. \A i \in 0 .. k + 1 : more[i] =
                IF i = 0 THEN Fresh ELSE RestoreRow(more[i - 1], rows[i])
      <3> SUFFICES ASSUME NEW i \in 0 .. k + 1
                   PROVE  more[i] = IF i = 0 THEN Fresh
                                    ELSE RestoreRow(more[i - 1], rows[i])
        OBVIOUS
      <3> HIDE DEF more
      <3>1. CASE i = k + 1
        <4>1. k \in 0 .. k /\ i - 1 = k /\ i # 0 /\ more[i - 1] = after[k]
          BY <2>3, <3>1
        <4> QED
          BY <2>4, <3>1, <4>1
      <3>2. CASE i # k + 1
        <4>1. i \in 0 .. k /\ more[i] = after[i]
          BY <2>3, <3>2
        <4>2. i # 0 => i - 1 \in 0 .. k /\ more[i - 1] = after[i - 1]
          BY <2>3, <4>1
        <4> QED
          BY <2>2, <4>1, <4>2
      <3> QED
        BY <3>1, <3>2
    <2>6. more = [i \in 0 .. k + 1 |->
                    IF i = 0 THEN Fresh ELSE RestoreRow(more[i - 1], rows[i])]
      BY <2>5
    <2>7. Replay(more, rows, k + 1)
      BY <2>6, Zenon DEF Replay
    <2> QED
      BY <2>7
  <1>3. n \in S
    <2> HIDE DEF S
    <2> QED
      BY <1>1, <1>2, SetInduction
  <1> QED
    BY <1>3

\* restore(rows) is the last state of a replay.
LEMMA RestoreReplays ==
    ASSUME NEW rows, Len(rows) \in Nat
    PROVE  \E after : /\ Replay(after, rows, Len(rows))
                      /\ restore(rows) = after[Len(rows)]
  <1>1. \E after : after = [i \in 0 .. Len(rows) |->
                IF i = 0 THEN Fresh ELSE RestoreRow(after[i - 1], rows[i])]
    BY ReplayExists DEF Replay
  <1> DEFINE chosen == CHOOSE after : after = [i \in 0 .. Len(rows) |->
                IF i = 0 THEN Fresh ELSE RestoreRow(after[i - 1], rows[i])]
  <1>2. Replay(chosen, rows, Len(rows))
    BY <1>1, Zenon DEF Replay
  <1>3. restore(rows) = chosen[Len(rows)]
    BY DEF restore
  <1> QED
    BY <1>2, <1>3

-----------------------------------------------------------------------------
(* Windows of samples.                                                     *)

\* A push keeps a window a window and puts the new sample at its end.
LEMMA PushWindow ==
    ASSUME NEW size \in Nat \ {0}, NEW q \in Windows(size), NEW s \in Samples
    PROVE  /\ Push(q, s, size) \in Windows(size)
           /\ Push(q, s, size) # <<>>
           /\ Last(Push(q, s, size)) = s
  <1> DEFINE base == IF Len(q) = size THEN Tail(q) ELSE q
  <1>1. q \in Seq(Samples) /\ Len(q) \in Nat /\ Len(q) <= size
    BY DEF Windows
  <1>2. base \in Seq(Samples) /\ Len(base) < size
    <2>1. CASE Len(q) = size
      <3>1. q # <<>>
        BY <1>1, <2>1
      <3> QED
        BY <1>1, <2>1, <3>1
    <2>2. CASE Len(q) # size
      BY <1>1, <2>2
    <2> QED
      BY <2>1, <2>2
  <1> HIDE DEF base
  <1>3. /\ Append(base, s) \in Seq(Samples)
        /\ Len(Append(base, s)) = Len(base) + 1
        /\ Append(base, s)[Len(base) + 1] = s
        /\ Len(base) \in Nat
    BY <1>2
  <1>4. Push(q, s, size) = Append(base, s)
    BY DEF Push, base
  <1> QED
    BY <1>2, <1>3, <1>4 DEF Windows, Last

\* An interruption leaves a window or the empty one.
LEMMA ContinuedWindow ==
    ASSUME NEW size \in Nat, NEW q \in Windows(size), NEW t
    PROVE  Continued(q, t) \in Windows(size)
  BY DEF Continued, Windows

\* Two empty windows are windows.
LEMMA EmptyWindow ==
    ASSUME NEW size \in Nat
    PROVE  <<>> \in Windows(size)
  BY DEF Windows

-----------------------------------------------------------------------------
(* One frame, stage by stage.                                              *)

Waiting == {"waiting_for_stream", "draft_candidate"}

\* What no stage before the last one changes.
SameEnd(k, l) == k.final = l.final /\ k.closeAt = l.closeAt

\* The draft stage confirms a draft only while the watcher waits for one, and
\* a confirmation starts a new interval.
LEMMA DraftStageMoves ==
    ASSUME NEW l \in Lifecycles, NEW t \in 1 .. MaxTime, NEW r \in Readings
    PROVE  LET k == DraftStage(l, t, r)
           IN  /\ k \in Lifecycles /\ SameEnd(k, l) /\ k.map = l.map
               /\ \/ k.phase = l.phase
                  \/ /\ l.phase \in Waiting
                     /\ k.phase \in Waiting \cup {"draft_started"}
               /\ \/ k.next = l.next /\ k.phase \in {l.phase} \cup Waiting
                  \/ k.next = t + Interval
  <1> DEFINE k == DraftStage(l, t, r)
  <1>0. DraftWindow \in Nat \ {0} /\ Interval \in Nat /\ t + Interval \in Nat
    BY WindowAssumption, PeriodAssumption
  <1>1. CASE /\ r.screen = "draft" /\ r.valid
             /\ l.phase \in {"waiting_for_stream", "draft_candidate",
                             "draft_started"}
    <2> DEFINE q == Push(Continued(l.draft, t), [at |-> t, ok |-> TRUE],
                         DraftWindow)
               c == /\ l.phase # "draft_started"
                    /\ Len(q) >= DraftWindow /\ Supported(q, DraftSupport)
                    /\ t - q[1].at >= DraftSpan
    <2>1. q \in Windows(DraftWindow)
      <3>1. [at |-> t, ok |-> TRUE] \in Samples
        BY DEF Samples
      <3>2. Continued(l.draft, t) \in Windows(DraftWindow)
        BY <1>0, ContinuedWindow DEF Lifecycles
      <3> QED
        BY <1>0, <3>1, <3>2, PushWindow
    <2>2. k = IF c THEN [l EXCEPT !.draft = q, !.phase = "draft_started",
                                  !.drafted = TRUE, !.next = t + Interval]
              ELSE [l EXCEPT !.draft = q,
                             !.phase = IF @ = "draft_started" THEN @
                                       ELSE "draft_candidate"]
      BY <1>1 DEF DraftStage, ValidDraft
    <2> HIDE DEF q, c, k
    <2>3. CASE c /\ l.phase # "draft_started"
      <3>1. k = [phase |-> "draft_started", draft |-> q, game |-> l.game,
                 drafted |-> TRUE, played |-> l.played,
                 next |-> t + Interval, map |-> l.map, final |-> l.final,
                 closeAt |-> l.closeAt]
        BY <2>2, <2>3 DEF Lifecycles
      <3>2. k \in Lifecycles
        BY <1>0, <2>1, <3>1 DEF Lifecycles, CapturePhase
      <3> QED
        BY <1>1, <2>3, <3>1, <3>2 DEF SameEnd, Waiting, k
    <2>4. CASE ~c
      <3>1. k = [phase |-> IF l.phase = "draft_started" THEN l.phase
                           ELSE "draft_candidate",
                 draft |-> q, game |-> l.game,
                 drafted |-> l.drafted, played |-> l.played,
                 next |-> l.next, map |-> l.map, final |-> l.final,
                 closeAt |-> l.closeAt]
        BY <2>2, <2>4 DEF Lifecycles
      <3>2. k \in Lifecycles
        BY <2>1, <3>1 DEF Lifecycles, CapturePhase
      <3> QED
        BY <1>1, <3>1, <3>2 DEF SameEnd, Waiting, k
    <2> QED
      BY <2>3, <2>4 DEF c
  <1>2. CASE ~(r.screen = "draft" /\ r.valid) /\ l.phase = "draft_candidate"
    <2> DEFINE q == Push(l.draft, [at |-> t, ok |-> FALSE], DraftWindow)
               c == ~Supported(q, 1)
                    \/ (l.draft # <<>> /\ t - Last(l.draft).at > GapLimit)
    <2>1. q \in Windows(DraftWindow)
      <3>1. [at |-> t, ok |-> FALSE] \in Samples
        BY DEF Samples
      <3> QED
        BY <1>0, <3>1, PushWindow DEF Lifecycles
    <2>2. k = IF c THEN [l EXCEPT !.draft = <<>>, !.phase = "waiting_for_stream"]
              ELSE [l EXCEPT !.draft = q]
      BY <1>2 DEF DraftStage, OtherThanDraft
    <2> HIDE DEF q, c, k
    <2>3. CASE c
      <3>1. k = [phase |-> "waiting_for_stream", draft |-> <<>>,
                 game |-> l.game, drafted |-> l.drafted, played |-> l.played,
                 next |-> l.next, map |-> l.map, final |-> l.final,
                 closeAt |-> l.closeAt]
        BY <2>2, <2>3 DEF Lifecycles
      <3>2. k \in Lifecycles
        BY <1>0, <3>1, EmptyWindow DEF Lifecycles, CapturePhase
      <3> QED
        BY <1>2, <3>1, <3>2 DEF SameEnd, Waiting, k
    <2>4. CASE ~c
      <3>1. k = [phase |-> l.phase, draft |-> q,
                 game |-> l.game, drafted |-> l.drafted, played |-> l.played,
                 next |-> l.next, map |-> l.map, final |-> l.final,
                 closeAt |-> l.closeAt]
        BY <2>2, <2>4 DEF Lifecycles
      <3>2. k \in Lifecycles
        BY <2>1, <3>1 DEF Lifecycles, CapturePhase
      <3> QED
        BY <1>2, <3>1, <3>2 DEF SameEnd, Waiting, k
    <2> QED
      BY <2>3, <2>4
  <1>3. CASE k = l
    BY <1>3 DEF SameEnd
  <1> QED
    BY <1>1, <1>2, <1>3 DEF DraftStage

\* The first capture starts the schedule, a later one leaves it.
LEMMA ScheduledMoves ==
    ASSUME NEW l \in Lifecycles, NEW t \in 1 .. MaxTime
    PROVE  LET k == Scheduled(l, t)
           IN  /\ k \in Lifecycles /\ SameEnd(k, l)
               /\ k.phase = l.phase /\ k.draft = l.draft /\ k.map = l.map
               /\ k.next # 0
               /\ k.next = l.next \/ (l.next = 0 /\ k.next = t + Interval)
  <1> DEFINE k == Scheduled(l, t)
  <1>1. t + Interval \in Nat /\ t + Interval # 0
    BY PeriodAssumption
  <1>2. k = [phase |-> l.phase, draft |-> l.draft, game |-> l.game,
             drafted |-> l.drafted, played |-> l.played,
             next |-> IF l.next = 0 THEN t + Interval ELSE l.next,
             map |-> l.map, final |-> l.final, closeAt |-> l.closeAt]
    BY DEF Scheduled, Lifecycles
  <1> HIDE DEF k
  <1>3. k \in Lifecycles
    BY <1>1, <1>2 DEF Lifecycles
  <1> QED
    BY <1>1, <1>2, <1>3 DEF SameEnd, k

\* The game is confirmed only before it started.
LEMMA GameStageMoves ==
    ASSUME NEW l \in Lifecycles, NEW t \in 1 .. MaxTime, NEW r \in Readings
    PROVE  LET k == GameStage(l, t, r)
           IN  /\ k \in Lifecycles /\ SameEnd(k, l) /\ k.draft = l.draft
               /\ k.map = l.map
               /\ \/ k.phase = l.phase
                  \/ /\ l.phase \in Waiting \cup {"draft_started"}
                     /\ k.phase = "game_started"
               /\ k.next = l.next \/ (l.next = 0 /\ k.next = t + Interval)
  <1> DEFINE k == GameStage(l, t, r)
             valid == r.screen = "game" /\ r.valid
             q == Push(IF valid THEN Continued(l.game, t) ELSE l.game,
                       [at |-> t, ok |-> valid], GameWindow)
             c == /\ valid /\ Len(q) >= GameSupport
                  /\ Supported(q, GameSupport) /\ t - q[1].at >= GameSpan
             begun == [l EXCEPT !.game = q, !.phase = "game_started",
                                !.played = TRUE]
  <1>0. GameWindow \in Nat \ {0}
    BY WindowAssumption
  <1>1. valid \in BOOLEAN
    BY DEF Readings
  <1>2. q \in Windows(GameWindow)
    <2>1. [at |-> t, ok |-> valid] \in Samples
      <3> HIDE DEF valid
      <3> QED
        BY <1>1 DEF Samples
    <2>2. Continued(l.game, t) \in Windows(GameWindow)
      BY <1>0, ContinuedWindow DEF Lifecycles
    <2>3. (IF valid THEN Continued(l.game, t) ELSE l.game) \in Windows(GameWindow)
      BY <2>2 DEF Lifecycles
    <2> QED
      BY <1>0, <2>1, <2>3, PushWindow
  <1>3. k = IF l.phase \notin {"waiting_for_stream", "draft_candidate",
                               "draft_started"}
            THEN l
            ELSE IF c THEN Scheduled(begun, t) ELSE [l EXCEPT !.game = q]
    BY DEF GameStage
  <1> HIDE DEF valid, q, c, k
  <1>4. CASE l.phase \notin {"waiting_for_stream", "draft_candidate",
                             "draft_started"}
    BY <1>3, <1>4 DEF SameEnd, k
  <1>5. CASE l.phase \in {"waiting_for_stream", "draft_candidate",
                          "draft_started"} /\ c
    <2>0. begun = [l EXCEPT !.game = q, !.phase = "game_started",
                            !.played = TRUE]
      OBVIOUS
    <2> HIDE DEF begun
    <2>1. begun = [phase |-> "game_started", draft |-> l.draft, game |-> q,
                   drafted |-> l.drafted, played |-> TRUE,
                   next |-> l.next, map |-> l.map, final |-> l.final,
                   closeAt |-> l.closeAt]
      BY <2>0 DEF Lifecycles
    <2>2. begun \in Lifecycles
      BY <1>2, <2>1 DEF Lifecycles, CapturePhase
    <2>3. begun.next = l.next /\ begun.draft = l.draft /\ SameEnd(begun, l)
          /\ begun.phase = "game_started" /\ begun.map = l.map
      BY <2>1 DEF SameEnd
    <2>4. k = Scheduled(begun, t)
      BY <1>3, <1>5 DEF begun
    <2> QED
      BY <1>5, <2>2, <2>3, <2>4, ScheduledMoves DEF SameEnd, Waiting, k
  <1>6. CASE l.phase \in {"waiting_for_stream", "draft_candidate",
                          "draft_started"} /\ ~c
    <2>1. k = [phase |-> l.phase, draft |-> l.draft, game |-> q,
               drafted |-> l.drafted, played |-> l.played,
               next |-> l.next, map |-> l.map, final |-> l.final,
               closeAt |-> l.closeAt]
      BY <1>3, <1>6 DEF Lifecycles
    <2>2. k \in Lifecycles
      BY <1>2, <2>1 DEF Lifecycles
    <2> QED
      BY <2>1, <2>2 DEF SameEnd, k
  <1> QED
    BY <1>4, <1>5, <1>6

\* A Map change leaves the phase.
LEMMA MapStageMoves ==
    ASSUME NEW l \in Lifecycles, NEW t \in 1 .. MaxTime, NEW r \in Readings
    PROVE  LET k == MapStage(l, t, r)
           IN  /\ k \in Lifecycles /\ SameEnd(k, l) /\ k.draft = l.draft
               /\ k.phase = l.phase
               /\ k.map = IF r.map = 0 THEN l.map ELSE r.map
               /\ k.next = l.next \/ (l.next = 0 /\ k.next = t + Interval)
  <1> DEFINE m == IF MapChanges(l, r) THEN Scheduled(l, t) ELSE l
             k == MapStage(l, t, r)
  <1>1. /\ m \in Lifecycles /\ SameEnd(m, l) /\ m.draft = l.draft
        /\ m.phase = l.phase /\ m.map = l.map
        /\ m.next = l.next \/ (l.next = 0 /\ m.next = t + Interval)
    BY ScheduledMoves DEF SameEnd
  <1>2. k = IF r.map = 0 THEN m ELSE [m EXCEPT !.map = r.map]
    BY DEF MapStage
  <1> HIDE DEF m, k
  <1>3. CASE r.map = 0
    BY <1>1, <1>2, <1>3 DEF k
  <1>4. CASE r.map # 0
    <2>1. k = [phase |-> m.phase, draft |-> m.draft, game |-> m.game,
               drafted |-> m.drafted, played |-> m.played,
               next |-> m.next, map |-> r.map, final |-> m.final,
               closeAt |-> m.closeAt]
      BY <1>1, <1>2, <1>4 DEF Lifecycles
    <2>2. r.map \in 0 .. MaxMap
      <3>1. MaxMap \in Nat
        BY PeriodAssumption
      <3>2. r.map \in 1 .. MaxMap \/ r.map = 0
        BY DEF Readings
      <3> QED
        BY <3>1, <3>2
    <2>3. k \in Lifecycles
      BY <1>1, <2>1, <2>2 DEF Lifecycles
    <2> QED
      BY <1>1, <1>4, <2>1, <2>3 DEF SameEnd, k
  <1> QED
    BY <1>3, <1>4

\* A periodic capture starts a new interval and changes nothing else.
LEMMA PeriodicStageMoves ==
    ASSUME NEW l \in Lifecycles, NEW t \in 1 .. MaxTime
    PROVE  LET k == PeriodicStage(l, t)
           IN  /\ k \in Lifecycles /\ SameEnd(k, l) /\ k.draft = l.draft
               /\ k.phase = l.phase /\ k.map = l.map
               /\ k.next = IF PeriodicDue(l, t) THEN t + Interval ELSE l.next
  <1> DEFINE k == PeriodicStage(l, t)
  <1>1. t + Interval \in Nat
    BY PeriodAssumption
  <1>2. CASE PeriodicDue(l, t)
    <2>1. k = [phase |-> l.phase, draft |-> l.draft, game |-> l.game,
               drafted |-> l.drafted, played |-> l.played,
               next |-> t + Interval, map |-> l.map, final |-> l.final,
               closeAt |-> l.closeAt]
      BY <1>2 DEF PeriodicStage, Lifecycles
    <2> HIDE DEF k
    <2>2. k \in Lifecycles
      BY <1>1, <2>1 DEF Lifecycles
    <2> QED
      BY <1>2, <2>1, <2>2 DEF SameEnd, k
  <1>3. CASE ~PeriodicDue(l, t)
    BY <1>3 DEF PeriodicStage, SameEnd
  <1> QED
    BY <1>2, <1>3

\* After the last stage an object in its grace period has its final capture.
LEMMA FinalStageMoves ==
    ASSUME NEW l \in Lifecycles, NEW t \in 1 .. MaxTime
    PROVE  LET k == FinalStage(l, t)
           IN  /\ k \in Lifecycles /\ k.closeAt = l.closeAt
               /\ k.draft = l.draft /\ k.phase = l.phase /\ k.map = l.map
               /\ k.final <=> l.final \/ FinalDue(l)
               /\ k.phase = "ended_grace" => k.final
               /\ k.next = l.next \/ (l.next = 0 /\ k.next = t + Interval)
  <1> DEFINE k == FinalStage(l, t)
             ended == [l EXCEPT !.final = TRUE]
  <1>1. CASE FinalDue(l)
    <2>0. ended = [l EXCEPT !.final = TRUE]
      OBVIOUS
    <2> HIDE DEF ended
    <2>1. ended = [phase |-> l.phase, draft |-> l.draft, game |-> l.game,
                   drafted |-> l.drafted, played |-> l.played,
                   next |-> l.next, map |-> l.map, final |-> TRUE,
                   closeAt |-> l.closeAt]
      BY <2>0 DEF Lifecycles
    <2>2. k = Scheduled(ended, t)
      BY <1>1 DEF FinalStage, ended
    <2> HIDE DEF k
    <2>3. ended \in Lifecycles
      BY <2>1 DEF Lifecycles
    <2>4. ended.next = l.next /\ ended.draft = l.draft /\ ended.final
          /\ ended.phase = l.phase /\ ended.closeAt = l.closeAt
          /\ ended.map = l.map
      BY <2>1
    <2> QED
      BY <1>1, <2>2, <2>3, <2>4, ScheduledMoves DEF SameEnd, k
  <1>2. CASE ~FinalDue(l)
    BY <1>2 DEF FinalStage, FinalDue, Lifecycles
  <1> QED
    BY <1>1, <1>2

-----------------------------------------------------------------------------
(* One frame as a whole.                                                   *)

\* The order in which observe() emits its triggers.
Rank(e) == CASE e = "draft_started" -> 1 [] e = "game_started" -> 2
             [] e = "map_changed" -> 3 [] e = "periodic_30s" -> 4 [] OTHER -> 5

Ranked(q) == \A i, j \in DOMAIN q : i < j => Rank(q[i]) < Rank(q[j])

\* A trigger of a higher rank may be joined.
LEMMA JoinTrigger ==
    ASSUME NEW q \in Seq(Triggers), Ranked(q), NEW e \in Triggers,
           \A x \in Range(q) : Rank(x) < Rank(e), NEW c \in BOOLEAN
    PROVE  LET p == q \o (IF c THEN <<e>> ELSE <<>>)
           IN  /\ p \in Seq(Triggers) /\ Ranked(p)
               /\ Range(p) = Range(q) \cup (IF c THEN {e} ELSE {})
  <1> DEFINE p == q \o (IF c THEN <<e>> ELSE <<>>)
  <1>1. CASE c
    <2>1. p = q \o <<e>>
      BY <1>1
    <2> HIDE DEF p
    <2>2. p \in Seq(Triggers) /\ Len(p) = Len(q) + 1 /\ p[Len(q) + 1] = e
          /\ DOMAIN p = 1 .. Len(q) + 1 /\ DOMAIN q = 1 .. Len(q)
          /\ Len(q) \in Nat
      BY <2>1
    <2>3. \A i \in 1 .. Len(q) : p[i] = q[i]
      BY <2>1
    <2>4. Ranked(p)
      <3> SUFFICES ASSUME NEW i \in DOMAIN p, NEW j \in DOMAIN p, i < j
                   PROVE  Rank(p[i]) < Rank(p[j])
        BY DEF Ranked
      <3>1. i \in DOMAIN q /\ p[i] = q[i] /\ q[i] \in Range(q)
        BY <2>2, <2>3 DEF Range
      <3>2. CASE j = Len(q) + 1
        BY <2>2, <3>1, <3>2
      <3>3. CASE j # Len(q) + 1
        <4>1. j \in DOMAIN q /\ p[j] = q[j]
          BY <2>2, <2>3, <3>3
        <4> QED
          BY <3>1, <4>1 DEF Ranked
      <3> QED
        BY <3>2, <3>3
    <2>5. Range(p) = Range(q) \cup {e}
      <3>1. ASSUME NEW x \in Range(p) PROVE x \in Range(q) \cup {e}
        BY <2>2, <2>3, <3>1 DEF Range
      <3>2. ASSUME NEW x \in Range(q) \cup {e} PROVE x \in Range(p)
        <4>1. CASE x = e
          BY <2>2, <4>1 DEF Range
        <4>2. CASE x \in Range(q)
          <5>1. PICK i \in DOMAIN q : x = q[i]
            BY <4>2 DEF Range
          <5>2. i \in DOMAIN p /\ p[i] = x
            BY <2>2, <2>3, <5>1
          <5> QED
            BY <5>2 DEF Range
        <4> QED
          BY <3>2, <4>1, <4>2
      <3> QED
        BY <3>1, <3>2
    <2> QED
      BY <1>1, <2>2, <2>4, <2>5 DEF p
  <1>2. CASE ~c
    <2>1. p = q
      BY <1>2
    <2> QED
      BY <1>2, <2>1
  <1> QED
    BY <1>1, <1>2

\* The triggers after the first one are ranked higher.
LEMMA RankedHead ==
    ASSUME NEW q \in Seq(Triggers), q # <<>>, Ranked(q)
    PROVE  /\ Head(q) \in Range(q)
           /\ Tail(q) \in Seq(Triggers) /\ Ranked(Tail(q))
           /\ \A x \in Range(Tail(q)) :
                 x \in Range(q) /\ Rank(Head(q)) < Rank(x)
  <1> DEFINE e == Head(q)
             rest == Tail(q)
  <1>1. /\ Len(q) \in Nat \ {0} /\ 1 \in DOMAIN q /\ q[1] = e /\ e \in Range(q)
        /\ DOMAIN q = 1 .. Len(q)
        /\ rest \in Seq(Triggers) /\ DOMAIN rest = 1 .. Len(q) - 1
        /\ \A i \in DOMAIN rest : rest[i] = q[i + 1] /\ i + 1 \in DOMAIN q
    BY DEF Range
  <1> HIDE DEF rest, e
  <1>2. \A x \in Range(rest) : x \in Range(q) /\ Rank(e) < Rank(x)
    <2> SUFFICES ASSUME NEW i \in DOMAIN rest
                 PROVE  rest[i] \in Range(q) /\ Rank(e) < Rank(rest[i])
      BY DEF Range
    <2>1. rest[i] = q[i + 1] /\ i + 1 \in DOMAIN q /\ 1 < i + 1
      BY <1>1
    <2> QED
      BY <1>1, <2>1 DEF Ranked, Range
  <1>3. Ranked(rest)
    <2> SUFFICES ASSUME NEW i \in DOMAIN rest, NEW j \in DOMAIN rest, i < j
                 PROVE  Rank(rest[i]) < Rank(rest[j])
      BY DEF Ranked
    <2>1. i + 1 < j + 1 /\ i + 1 \in DOMAIN q /\ j + 1 \in DOMAIN q
      BY <1>1
    <2> QED
      BY <1>1, <2>1 DEF Ranked
  <1> QED
    BY <1>1, <1>2, <1>3 DEF rest, e

\* What one frame at t makes of the object l: the object k and the captures q.
ObservedFrom(l, t, k, q) ==
    /\ k \in Lifecycles /\ k.closeAt = l.closeAt
    /\ q \in Seq(Triggers) /\ Ranked(q)
    /\ "draft_started" \in Range(q) =>
          l.phase \in Waiting /\ k.phase \in {"draft_started", "game_started"}
    /\ "game_started" \in Range(q) =>
          /\ l.phase \in Waiting \cup {"draft_started"}
          /\ k.phase = "game_started"
    /\ "ended_final" \in Range(q) => l.phase = "ended_grace" /\ ~l.final
    /\ k.final <=> l.final \/ "ended_final" \in Range(q)
    /\ k.phase = "ended_grace" => k.final
    /\ \/ k.phase = l.phase
       \/ l.phase \in Waiting /\ k.phase \in Waiting
       \/ /\ l.phase \in Waiting \cup {"draft_started"}
          /\ k.phase \in {"draft_started", "game_started"}
    /\ k.next = l.next \/ k.next = t + Interval
    /\ "periodic_30s" \in Range(q) => t >= l.next /\ k.next = t + Interval

\* Every frame is one of those.
LEMMA ObserveMoves ==
    ASSUME NEW l \in Lifecycles, NEW t \in 1 .. MaxTime, NEW r \in Readings
    PROVE  LET o == observe(l, t, r)
           IN  /\ ObservedFrom(l, t, o.object, o.triggers)
               /\ o.object.map = IF r.map = 0 THEN l.map ELSE r.map
               /\ "map_changed" \in Range(o.triggers) =>
                     r.map # 0 /\ l.map # 0 /\ r.map # l.map
  <1> DEFINE draft == DraftStage(l, t, r)
             game == GameStage(draft, t, r)
             mapped == MapStage(game, t, r)
             periodic == PeriodicStage(mapped, t)
             k == FinalStage(periodic, t)
             c1 == draft.phase = "draft_started" /\ l.phase # "draft_started"
             c2 == game.phase = "game_started" /\ draft.phase # "game_started"
             c3 == MapChanges(game, r)
             c4 == PeriodicDue(mapped, t)
             c5 == FinalDue(periodic)
             q1 == IF c1 THEN <<"draft_started">> ELSE <<>>
             q2 == q1 \o (IF c2 THEN <<"game_started">> ELSE <<>>)
             q3 == q2 \o (IF c3 THEN <<"map_changed">> ELSE <<>>)
             q4 == q3 \o (IF c4 THEN <<"periodic_30s">> ELSE <<>>)
             q == q4 \o (IF c5 THEN <<"ended_final">> ELSE <<>>)
  <1>1. observe(l, t, r).object = k /\ observe(l, t, r).triggers = q
    BY DEF observe
  <1>2. /\ draft \in Lifecycles /\ SameEnd(draft, l) /\ draft.map = l.map
        /\ \/ draft.phase = l.phase
           \/ /\ l.phase \in Waiting
              /\ draft.phase \in Waiting \cup {"draft_started"}
        /\ \/ draft.next = l.next /\ draft.phase \in {l.phase} \cup Waiting
           \/ draft.next = t + Interval
    BY DraftStageMoves
  <1>3. /\ game \in Lifecycles /\ SameEnd(game, draft) /\ game.map = draft.map
        /\ \/ game.phase = draft.phase
           \/ /\ draft.phase \in Waiting \cup {"draft_started"}
              /\ game.phase = "game_started"
        /\ game.next = draft.next \/ game.next = t + Interval
    <2> HIDE DEF draft
    <2> QED
      BY <1>2, GameStageMoves
  <1>4. /\ mapped \in Lifecycles /\ SameEnd(mapped, game)
        /\ mapped.phase = game.phase
        /\ mapped.map = IF r.map = 0 THEN game.map ELSE r.map
        /\ mapped.next = game.next \/ mapped.next = t + Interval
    <2> HIDE DEF game
    <2> QED
      BY <1>3, MapStageMoves
  <1>5. /\ periodic \in Lifecycles /\ SameEnd(periodic, mapped)
        /\ periodic.phase = mapped.phase /\ periodic.map = mapped.map
        /\ periodic.next = IF c4 THEN t + Interval ELSE mapped.next
    <2> HIDE DEF mapped
    <2> QED
      BY <1>4, PeriodicStageMoves
  <1>6. /\ k \in Lifecycles /\ k.closeAt = periodic.closeAt
        /\ k.phase = periodic.phase /\ k.map = periodic.map
        /\ k.final <=> periodic.final \/ c5
        /\ k.phase = "ended_grace" => k.final
        /\ k.next = periodic.next \/ (periodic.next = 0 /\ k.next = t + Interval)
    <2> HIDE DEF periodic
    <2> QED
      BY <1>5, FinalStageMoves
  <1>7. /\ c1 \in BOOLEAN /\ c2 \in BOOLEAN /\ c3 \in BOOLEAN /\ c4 \in BOOLEAN
        /\ c5 \in BOOLEAN
    BY <1>6 DEF MapChanges, PeriodicDue, FinalDue, Lifecycles
  <1>8. /\ c4 => t >= mapped.next
        /\ c3 => r.map # 0 /\ game.map # 0 /\ r.map # game.map
    BY DEF PeriodicDue, MapChanges
  <1>9. c5 <=> periodic.phase = "ended_grace" /\ ~periodic.final
    BY DEF FinalDue
  <1>10. /\ Interval \in Nat \ {0} /\ t \in Nat
         /\ l.next \in Nat /\ draft.next \in Nat /\ game.next \in Nat
         /\ mapped.next \in Nat /\ periodic.next \in Nat
    <2> HIDE DEF draft, game, mapped, periodic
    <2> QED
      BY <1>2, <1>3, <1>4, <1>5, PeriodAssumption DEF Lifecycles
  <1>11. c1 <=> draft.phase = "draft_started" /\ l.phase # "draft_started"
    OBVIOUS
  <1>12. c2 <=> game.phase = "game_started" /\ draft.phase # "game_started"
    OBVIOUS
  <1> HIDE DEF draft, game, mapped, periodic, k, c1, c2, c3, c4, c5
  <1>13. q1 \in Seq(Triggers) /\ Ranked(q1)
         /\ Range(q1) = (IF c1 THEN {"draft_started"} ELSE {})
    <2>1. CASE c1
      <3>1. q1 = <<"draft_started">> /\ DOMAIN q1 = 1 .. 1
        BY <2>1
      <3> QED
        BY <2>1, <3>1 DEF Ranked, Range, Triggers
    <2>2. CASE ~c1
      <3>1. q1 = <<>> /\ DOMAIN q1 = {}
        BY <2>2
      <3> QED
        BY <2>2, <3>1 DEF Ranked, Range
    <2> QED
      BY <2>1, <2>2
  <1> HIDE DEF q1
  <1>14. q2 \in Seq(Triggers) /\ Ranked(q2)
         /\ Range(q2) = Range(q1) \cup (IF c2 THEN {"game_started"} ELSE {})
    <2>1. \A x \in Range(q1) : Rank(x) < Rank("game_started")
      BY <1>13 DEF Rank
    <2>2. "game_started" \in Triggers
      BY DEF Triggers
    <2> QED
      BY <1>7, <1>13, <2>1, <2>2, JoinTrigger
  <1> HIDE DEF q2
  <1>15. q3 \in Seq(Triggers) /\ Ranked(q3)
         /\ Range(q3) = Range(q2) \cup (IF c3 THEN {"map_changed"} ELSE {})
    <2>1. \A x \in Range(q2) : Rank(x) < Rank("map_changed")
      BY <1>13, <1>14 DEF Rank
    <2>2. "map_changed" \in Triggers
      BY DEF Triggers
    <2> QED
      BY <1>7, <1>14, <2>1, <2>2, JoinTrigger
  <1> HIDE DEF q3
  <1>16. q4 \in Seq(Triggers) /\ Ranked(q4)
         /\ Range(q4) = Range(q3) \cup (IF c4 THEN {"periodic_30s"} ELSE {})
    <2>1. \A x \in Range(q3) : Rank(x) < Rank("periodic_30s")
      BY <1>13, <1>14, <1>15 DEF Rank
    <2>2. "periodic_30s" \in Triggers
      BY DEF Triggers
    <2> QED
      BY <1>7, <1>15, <2>1, <2>2, JoinTrigger
  <1> HIDE DEF q4
  <1>17. q \in Seq(Triggers) /\ Ranked(q)
         /\ Range(q) = Range(q4) \cup (IF c5 THEN {"ended_final"} ELSE {})
    <2>1. \A x \in Range(q4) : Rank(x) < Rank("ended_final")
      BY <1>13, <1>14, <1>15, <1>16 DEF Rank
    <2>2. "ended_final" \in Triggers
      BY DEF Triggers
    <2> QED
      BY <1>7, <1>16, <2>1, <2>2, JoinTrigger
  <1> HIDE DEF q
  <1>18. /\ "draft_started" \in Range(q) <=> c1
         /\ "game_started" \in Range(q) <=> c2
         /\ "map_changed" \in Range(q) <=> c3
         /\ "periodic_30s" \in Range(q) <=> c4
         /\ "ended_final" \in Range(q) <=> c5
    BY <1>13, <1>14, <1>15, <1>16, <1>17
  <1>19. /\ SameEnd(periodic, l) /\ k.phase = game.phase
         /\ periodic.phase = game.phase
    BY <1>2, <1>3, <1>4, <1>5, <1>6 DEF SameEnd
  <1>20. k.closeAt = l.closeAt
    BY <1>6, <1>19 DEF SameEnd
  <1>21. c1 => l.phase \in Waiting /\ k.phase \in {"draft_started", "game_started"}
    BY <1>2, <1>3, <1>11, <1>19 DEF Waiting
  <1>22. c2 => l.phase \in Waiting \cup {"draft_started"}
               /\ k.phase = "game_started"
    BY <1>2, <1>3, <1>12, <1>19 DEF Waiting
  <1>23. /\ c5 => l.phase = "ended_grace" /\ ~l.final
         /\ k.final <=> l.final \/ c5
    <2>1. periodic.final = l.final
      BY <1>19 DEF SameEnd
    <2>2. periodic.phase = "ended_grace" => l.phase = "ended_grace"
      BY <1>2, <1>3, <1>19 DEF Waiting
    <2> QED
      BY <1>6, <1>9, <2>1, <2>2, Zenon
  <1>24. \/ k.phase = l.phase
         \/ l.phase \in Waiting /\ k.phase \in Waiting
         \/ /\ l.phase \in Waiting \cup {"draft_started"}
            /\ k.phase \in {"draft_started", "game_started"}
    BY <1>2, <1>3, <1>19 DEF Waiting
  <1>25. k.next = l.next \/ k.next = t + Interval
    BY <1>2, <1>3, <1>4, <1>5, <1>6
  <1>26. c4 => t >= l.next /\ k.next = t + Interval
    BY <1>2, <1>3, <1>4, <1>5, <1>6, <1>8, <1>10
  <1>27. ObservedFrom(l, t, k, q)
    <2>1. k.phase = "ended_grace" => k.final
      BY <1>6
    <2> QED
      BY <1>6, <1>17, <1>18, <1>20, <1>21, <1>22, <1>23, <1>24, <1>25, <1>26,
         <2>1, Zenon DEF ObservedFrom
  <1>28. /\ k.map = IF r.map = 0 THEN l.map ELSE r.map
         /\ "map_changed" \in Range(q) => r.map # 0 /\ l.map # 0 /\ r.map # l.map
    BY <1>2, <1>3, <1>4, <1>5, <1>6, <1>8, <1>18
  <1> QED
    BY <1>1, <1>27, <1>28

-----------------------------------------------------------------------------
(* The replay of a manifest.                                               *)

\* Some of the first n rows records e.
Holds(rows, n, e) == \E k \in 1 .. n : rows[k].event = e

\* The rows are in the order of their times, and no milestone comes twice or
\* after a later one.
Ordered(rows) ==
    \A i, j \in DOMAIN rows :
        i < j =>
            /\ rows[i].at <= rows[j].at
            /\ rows[j].event = "draft_started" =>
                  rows[i].event \notin {"draft_started", "game_started",
                                        "ended_final"}
            /\ rows[j].event = "game_started" =>
                  rows[i].event \notin {"game_started", "ended_final"}
            /\ rows[j].event = "ended_final" => rows[i].event # "ended_final"

\* Each row sets the fields of its own event, and a first draft or game only.
LEMMA RestoreRowMoves ==
    ASSUME NEW l \in Lifecycles, NEW row \in Rows
    PROVE  LET k == RestoreRow(l, row)
           IN  /\ k \in Lifecycles /\ k.draft = l.draft /\ k.map = l.map
               /\ k.drafted <=> l.drafted \/ row.event = "draft_started"
               /\ k.played <=> l.played \/ row.event = "game_started"
               /\ k.final <=> l.final \/ row.event = "ended_final"
               /\ k.phase =
                    IF row.event = "draft_started" /\ ~l.drafted
                    THEN "draft_started"
                    ELSE IF \/ row.event = "game_started" /\ ~l.played
                            \/ row.event = "map_changed"
                    THEN "game_started"
                    ELSE IF row.event = "ended_final" THEN "ended_grace"
                    ELSE l.phase
               /\ k.next =
                    IF \/ row.event = "draft_started" /\ ~l.drafted
                       \/ row.event = "periodic_30s"
                    THEN row.at + Interval ELSE l.next
  <1> DEFINE k == RestoreRow(l, row)
  <1>1. /\ row.at + Interval \in Nat /\ row.at + Grace \in Nat
        /\ row.event \in Triggers
    BY PeriodAssumption DEF Rows
  <1>2. CASE row.event = "draft_started" /\ ~l.drafted
    <2>1. k = [l EXCEPT !.drafted = TRUE, !.phase = "draft_started",
                        !.next = row.at + Interval]
      BY <1>2 DEF RestoreRow
    <2> HIDE DEF k
    <2>2. k = [phase |-> "draft_started", draft |-> l.draft, game |-> l.game,
               drafted |-> TRUE, played |-> l.played,
               next |-> row.at + Interval, map |-> l.map, final |-> l.final,
               closeAt |-> l.closeAt]
      BY <2>1 DEF Lifecycles
    <2>3. k \in Lifecycles
      BY <1>1, <2>2 DEF Lifecycles, CapturePhase
    <2> QED
      BY <1>2, <2>2, <2>3 DEF k
  <1>3. CASE row.event = "game_started" /\ ~l.played
    <2>1. k = [l EXCEPT !.played = TRUE, !.phase = "game_started"]
      BY <1>3 DEF RestoreRow
    <2> HIDE DEF k
    <2>2. k = [phase |-> "game_started", draft |-> l.draft, game |-> l.game,
               drafted |-> l.drafted, played |-> TRUE,
               next |-> l.next, map |-> l.map, final |-> l.final,
               closeAt |-> l.closeAt]
      BY <2>1 DEF Lifecycles
    <2>3. k \in Lifecycles
      BY <2>2 DEF Lifecycles, CapturePhase
    <2> QED
      BY <1>3, <2>2, <2>3 DEF k
  <1>4. CASE row.event = "periodic_30s"
    <2>1. k = [l EXCEPT !.next = row.at + Interval]
      BY <1>4 DEF RestoreRow
    <2> HIDE DEF k
    <2>2. k = [phase |-> l.phase, draft |-> l.draft, game |-> l.game,
               drafted |-> l.drafted, played |-> l.played,
               next |-> row.at + Interval, map |-> l.map, final |-> l.final,
               closeAt |-> l.closeAt]
      BY <2>1 DEF Lifecycles
    <2>3. k \in Lifecycles
      BY <1>1, <2>2 DEF Lifecycles
    <2> QED
      BY <1>4, <2>2, <2>3 DEF k
  <1>5. CASE row.event = "map_changed"
    <2>1. k = [l EXCEPT !.phase = "game_started"]
      BY <1>5 DEF RestoreRow
    <2> HIDE DEF k
    <2>2. k = [phase |-> "game_started", draft |-> l.draft, game |-> l.game,
               drafted |-> l.drafted, played |-> l.played,
               next |-> l.next, map |-> l.map, final |-> l.final,
               closeAt |-> l.closeAt]
      BY <2>1 DEF Lifecycles
    <2>3. k \in Lifecycles
      BY <2>2 DEF Lifecycles, CapturePhase
    <2> QED
      BY <1>5, <2>2, <2>3 DEF k
  <1>6. CASE row.event = "ended_final"
    <2>1. k = [l EXCEPT !.final = TRUE, !.phase = "ended_grace",
                        !.closeAt = row.at + Grace]
      BY <1>6 DEF RestoreRow
    <2> HIDE DEF k
    <2>2. k = [phase |-> "ended_grace", draft |-> l.draft, game |-> l.game,
               drafted |-> l.drafted, played |-> l.played,
               next |-> l.next, map |-> l.map, final |-> TRUE,
               closeAt |-> row.at + Grace]
      BY <2>1 DEF Lifecycles
    <2>3. k \in Lifecycles
      BY <1>1, <2>2 DEF Lifecycles, CapturePhase
    <2> QED
      BY <1>6, <2>2, <2>3 DEF k
  <1>7. CASE \/ row.event = "draft_started" /\ l.drafted
             \/ row.event = "game_started" /\ l.played
    <2>1. k = l
      BY <1>7 DEF RestoreRow
    <2> HIDE DEF k
    <2> QED
      BY <1>7, <2>1 DEF k
  <1> QED
    BY <1>1, <1>2, <1>3, <1>4, <1>5, <1>6, <1>7 DEF Triggers

\* What the object knows after the first n rows.
Knows(rows, n, l) ==
    /\ l \in Lifecycles /\ l.draft = <<>> /\ l.map = 0
    /\ l.phase \in {"waiting_for_stream", "draft_started", "game_started",
                    "ended_grace"}
    /\ l.drafted <=> Holds(rows, n, "draft_started")
    /\ l.played <=> Holds(rows, n, "game_started")
    /\ l.final <=> Holds(rows, n, "ended_final")
    /\ l.phase = "ended_grace" => l.final
    /\ (\E k \in 1 .. n : rows[k].event # "periodic_30s")
          => l.phase # "waiting_for_stream"
    /\ Ordered(rows) =>
          /\ Holds(rows, n, "game_started") \/ Holds(rows, n, "ended_final")
                => l.phase \in {"game_started", "ended_grace"}
          /\ \A k \in 1 .. n : rows[k].event = "periodic_30s"
                => l.next >= rows[k].at + Interval

\* One more row, and it knows that too.
LEMMA KnowsMore ==
    ASSUME NEW rows \in Seq(Rows), NEW n \in Nat, n < Len(rows),
           NEW l, Knows(rows, n, l)
    PROVE  Knows(rows, n + 1, RestoreRow(l, rows[n + 1]))
  <1> DEFINE row == rows[n + 1]
             k == RestoreRow(l, row)
  <1>1. n + 1 \in DOMAIN rows /\ row \in Rows /\ DOMAIN rows = 1 .. Len(rows)
    OBVIOUS
  <1>2. l \in Lifecycles /\ l.draft = <<>> /\ l.map = 0
    BY DEF Knows
  <1>3. \A e : Holds(rows, n + 1, e) <=> Holds(rows, n, e) \/ row.event = e
    <2> SUFFICES ASSUME NEW e
                 PROVE  Holds(rows, n + 1, e) <=>
                            Holds(rows, n, e) \/ row.event = e
      OBVIOUS
    <2>1. \A i : i \in 1 .. n + 1 <=> i \in 1 .. n \/ i = n + 1
      OBVIOUS
    <2> QED
      BY <2>1, Zenon DEF Holds
  <1>4. /\ k \in Lifecycles /\ k.draft = l.draft /\ k.map = l.map
        /\ k.drafted <=> l.drafted \/ row.event = "draft_started"
        /\ k.played <=> l.played \/ row.event = "game_started"
        /\ k.final <=> l.final \/ row.event = "ended_final"
        /\ k.phase =
             IF row.event = "draft_started" /\ ~l.drafted
             THEN "draft_started"
             ELSE IF \/ row.event = "game_started" /\ ~l.played
                     \/ row.event = "map_changed"
             THEN "game_started"
             ELSE IF row.event = "ended_final" THEN "ended_grace"
             ELSE l.phase
        /\ k.next =
             IF \/ row.event = "draft_started" /\ ~l.drafted
                \/ row.event = "periodic_30s"
             THEN row.at + Interval ELSE l.next
    <2> HIDE DEF row
    <2> QED
      BY <1>1, <1>2, RestoreRowMoves
  <1>5. row.event \in Triggers /\ row.at \in Nat /\ Interval \in Nat
    BY <1>1, PeriodAssumption DEF Rows
  <1> HIDE DEF row, k
  <1>6. /\ k.drafted <=> Holds(rows, n + 1, "draft_started")
        /\ k.played <=> Holds(rows, n + 1, "game_started")
        /\ k.final <=> Holds(rows, n + 1, "ended_final")
    BY <1>3, <1>4, Zenon DEF Knows
  <1>7. k.phase \in {"waiting_for_stream", "draft_started", "game_started",
                     "ended_grace"}
    BY <1>4 DEF Knows
  <1>8. k.phase = "ended_grace" => k.final
    BY <1>4 DEF Knows
  <1>9. ASSUME NEW i \in 1 .. n + 1, rows[i].event # "periodic_30s"
        PROVE  k.phase # "waiting_for_stream"
    <2>1. CASE i = n + 1
      <3>1. row.event # "periodic_30s"
        BY <1>9, <2>1 DEF row
      <3>2. l.drafted \/ l.played => l.phase # "waiting_for_stream"
        <4>1. l.drafted \/ l.played =>
                  \E j \in 1 .. n : rows[j].event # "periodic_30s"
          BY DEF Knows, Holds
        <4> QED
          BY <4>1 DEF Knows
      <3> QED
        BY <1>4, <1>5, <3>1, <3>2 DEF Triggers
    <2>2. CASE i # n + 1
      <3>1. i \in 1 .. n
        BY <2>2
      <3>2. l.phase # "waiting_for_stream"
        BY <1>9, <3>1 DEF Knows
      <3> QED
        BY <1>4, <3>2
    <2> QED
      BY <2>1, <2>2
  <1>10. ASSUME Ordered(rows),
                \/ Holds(rows, n + 1, "game_started")
                \/ Holds(rows, n + 1, "ended_final")
         PROVE  k.phase \in {"game_started", "ended_grace"}
    <2>1. CASE row.event \in {"game_started", "ended_final"}
      <3>1. row.event = "game_started" => ~l.played
        <4> SUFFICES ASSUME row.event = "game_started",
                            Holds(rows, n, "game_started")
                     PROVE  FALSE
          BY DEF Knows
        <4>1. PICK j \in 1 .. n : rows[j].event = "game_started"
          BY DEF Holds
        <4>2. j \in DOMAIN rows /\ j < n + 1
          BY <1>1
        <4> QED
          BY <1>1, <1>10, <4>1, <4>2 DEF Ordered, row
      <3> QED
        BY <1>4, <2>1, <3>1
    <2>2. CASE row.event \notin {"game_started", "ended_final"}
      <3>1. Holds(rows, n, "game_started") \/ Holds(rows, n, "ended_final")
        BY <1>3, <1>10, <2>2
      <3>2. l.phase \in {"game_started", "ended_grace"}
        BY <1>10, <3>1 DEF Knows
      <3>3. row.event # "draft_started"
        <4> SUFFICES ASSUME row.event = "draft_started" PROVE FALSE
          OBVIOUS
        <4>1. PICK j \in 1 .. n : rows[j].event \in {"game_started",
                                                     "ended_final"}
          BY <3>1 DEF Holds
        <4>2. j \in DOMAIN rows /\ j < n + 1
          BY <1>1
        <4> QED
          BY <1>1, <1>10, <4>1, <4>2 DEF Ordered, row
      <3> QED
        BY <1>4, <2>2, <3>2, <3>3
    <2> QED
      BY <2>1, <2>2
  <1>11. ASSUME Ordered(rows), NEW i \in 1 .. n + 1,
                rows[i].event = "periodic_30s"
         PROVE  k.next >= rows[i].at + Interval
    <2>1. CASE i = n + 1
      <3>1. row.event = "periodic_30s" /\ k.next = row.at + Interval
        BY <1>4, <1>11, <2>1 DEF row
      <3> QED
        BY <1>5, <2>1, <3>1 DEF row
    <2>2. CASE i # n + 1
      <3>1. i \in 1 .. n /\ i \in DOMAIN rows /\ i < n + 1
        BY <1>1, <2>2
      <3>2. l.next >= rows[i].at + Interval
        BY <1>11, <3>1 DEF Knows
      <3>3. rows[i].at <= row.at
        BY <1>1, <1>11, <3>1 DEF Ordered, row
      <3>4. rows[i].at \in Nat
        <4>1. rows[i] \in Rows
          BY <1>1, <3>1
        <4> QED
          BY <4>1 DEF Rows
      <3> QED
        BY <1>4, <1>5, <3>2, <3>3, <3>4
    <2> QED
      BY <2>1, <2>2
  <1>12. Knows(rows, n + 1, k)
    BY <1>2, <1>4, <1>6, <1>7, <1>8, <1>9, <1>10, <1>11, Zenon DEF Knows
  <1> QED
    BY <1>12 DEF k, row

\* restore() knows every row.
LEMMA RestoreKnows ==
    ASSUME NEW rows \in Seq(Rows)
    PROVE  Knows(rows, Len(rows), restore(rows))
  <1>1. Len(rows) \in Nat
    OBVIOUS
  <1>2. PICK after : /\ Replay(after, rows, Len(rows))
                     /\ restore(rows) = after[Len(rows)]
    BY <1>1, RestoreReplays
  <1> DEFINE S == {n \in Nat : n <= Len(rows) => Knows(rows, n, after[n])}
  <1>3. \A i \in 0 .. Len(rows) : after[i] =
            IF i = 0 THEN Fresh ELSE RestoreRow(after[i - 1], rows[i])
    BY <1>2 DEF Replay
  <1>4. 0 \in S
    <2>1. after[0] = Fresh
      BY <1>1, <1>3
    <2>2. Fresh \in Lifecycles
      BY WindowAssumption, PeriodAssumption, EmptyWindow
         DEF Fresh, Lifecycles, CapturePhase
    <2>3. Knows(rows, 0, Fresh)
      <3>1. \A e : ~Holds(rows, 0, e)
        BY DEF Holds
      <3>2. /\ Fresh.draft = <<>> /\ Fresh.map = 0
            /\ Fresh.phase = "waiting_for_stream"
            /\ ~Fresh.drafted /\ ~Fresh.played /\ ~Fresh.final
        BY DEF Fresh
      <3> QED
        BY <2>2, <3>1, <3>2 DEF Knows
    <2> QED
      BY <2>1, <2>3
  <1>5. ASSUME NEW n \in Nat, n \in S PROVE n + 1 \in S
    <2> SUFFICES ASSUME n + 1 <= Len(rows)
                 PROVE  Knows(rows, n + 1, after[n + 1])
      OBVIOUS
    <2>1. n < Len(rows) /\ Knows(rows, n, after[n])
      BY <1>1, <1>5
    <2>2. after[n + 1] = RestoreRow(after[n], rows[n + 1])
      <3>1. n + 1 \in 0 .. Len(rows) /\ n + 1 # 0 /\ (n + 1) - 1 = n
        BY <1>1
      <3> QED
        BY <1>3, <3>1
    <2> QED
      BY <2>1, <2>2, KnowsMore
  <1>6. Len(rows) \in S
    <2> HIDE DEF S
    <2> QED
      BY <1>1, <1>4, <1>5, SetInduction
  <1> QED
    BY <1>1, <1>2, <1>6

-----------------------------------------------------------------------------
(* Types.                                                                  *)

\* The types of the variables, and what each place of the watcher implies.
Typed ==
    /\ managed \in BOOLEAN /\ awaiting \in BOOLEAN /\ rewound \in BOOLEAN
    /\ complete \in BOOLEAN
    /\ now \in 0 .. MaxTime /\ firstGame \in 0 .. MaxTime
    /\ lc \in Lifecycles
    /\ manifest \in Seq(Rows)
    /\ reading \in Readings \cup {NoReading}
    /\ pending \in Seq(Triggers)
    /\ recent \in Windows(DraftWindow)
    /\ pc \in {"frame", "write", "down", "exited"}
    /\ map \in 1 .. MaxMap /\ providerMap \in 1 .. MaxMap
    /\ storedMap \in 1 .. providerMap /\ since \in Nat
    /\ samples \in 0 .. CheckEvery - 1
    /\ crashes \in 0 .. MaxCrashes
    /\ pc = "write" => now \in 1 .. MaxTime
    /\ pc # "write" => pending = <<>>

\* The completion check changes at most the phase, to the grace period.
LEMMA CheckedMoves ==
    ASSUME NEW l \in Lifecycles, NEW t \in Nat
    PROVE  LET k == mark_provider_complete(l, t)
           IN  /\ k \in Lifecycles
               /\ k.final = l.final /\ k.next = l.next /\ k.draft = l.draft
               /\ k.map = l.map
               /\ \/ k = l
                  \/ /\ l.phase \notin {"closed", "ended_grace"}
                     /\ k.phase = "ended_grace" /\ k.closeAt = t + Grace
  <1> DEFINE k == mark_provider_complete(l, t)
  <1>1. CASE l.phase \in {"closed", "ended_grace"}
    BY <1>1 DEF mark_provider_complete
  <1>2. CASE l.phase \notin {"closed", "ended_grace"}
    <2>1. t + Grace \in Nat
      BY PeriodAssumption
    <2>2. k = [l EXCEPT !.phase = "ended_grace", !.closeAt = t + Grace]
      BY <1>2 DEF mark_provider_complete
    <2> HIDE DEF k
    <2>3. k = [phase |-> "ended_grace", draft |-> l.draft, game |-> l.game,
               drafted |-> l.drafted, played |-> l.played,
               next |-> l.next, map |-> l.map, final |-> l.final,
               closeAt |-> t + Grace]
      BY <2>2 DEF Lifecycles
    <2>4. k \in Lifecycles
      BY <2>1, <2>3 DEF Lifecycles, CapturePhase
    <2> QED
      BY <1>2, <2>3, <2>4 DEF k
  <1> QED
    BY <1>1, <1>2

\* An object may be closed at any time.
LEMMA ClosedIsLifecycle ==
    ASSUME NEW l \in Lifecycles
    PROVE  /\ [l EXCEPT !.phase = "closed"] \in Lifecycles
           /\ [l EXCEPT !.phase = "closed"].phase = "closed"
           /\ [l EXCEPT !.phase = "closed"].closeAt = l.closeAt
           /\ [l EXCEPT !.phase = "closed"].map = l.map
  <1> DEFINE k == [l EXCEPT !.phase = "closed"]
  <1>1. k = [phase |-> "closed", draft |-> l.draft, game |-> l.game,
             drafted |-> l.drafted, played |-> l.played,
             next |-> l.next, map |-> l.map, final |-> l.final,
             closeAt |-> l.closeAt]
    BY DEF Lifecycles
  <1> HIDE DEF k
  <1>2. k \in Lifecycles
    BY <1>1 DEF Lifecycles, CapturePhase
  <1> QED
    BY <1>1, <1>2 DEF k

\* The kept rows are rows; all of them are kept while they are few enough.
LEMMA LoadedRows ==
    ASSUME manifest \in Seq(Rows)
    PROVE  /\ load_manifest \in Seq(Rows)
           /\ Range(load_manifest) \subseteq Range(manifest)
           /\ Len(manifest) <= MaxRows => load_manifest = manifest
  <1> DEFINE first == IF Len(manifest) > MaxRows
                      THEN Len(manifest) - MaxRows + 1 ELSE 1
  <1>1. /\ MaxRows \in Nat \ {0} /\ Len(manifest) \in Nat
        /\ first \in 1 .. Len(manifest) + 1
    BY PeriodAssumption
  <1>2. load_manifest = SubSeq(manifest, first, Len(manifest))
    BY DEF load_manifest
  <1>3. ~(Len(manifest) > MaxRows) => first = 1
    OBVIOUS
  <1> HIDE DEF first
  <1>4. /\ load_manifest \in Seq(Rows)
        /\ Len(load_manifest) = Len(manifest) - first + 1
        /\ \A i \in 1 .. Len(manifest) - first + 1 :
              load_manifest[i] = manifest[first + i - 1]
    BY <1>1, <1>2
  <1>5. Range(load_manifest) \subseteq Range(manifest)
    <2> SUFFICES ASSUME NEW i \in DOMAIN load_manifest
                 PROVE  load_manifest[i] \in Range(manifest)
      BY DEF Range
    <2>1. i \in 1 .. Len(manifest) - first + 1
      BY <1>4
    <2>2. first + i - 1 \in DOMAIN manifest
      BY <1>1, <2>1
    <2> QED
      BY <1>4, <2>1, <2>2 DEF Range
  <1>6. Len(manifest) <= MaxRows => load_manifest = manifest
    BY <1>1, <1>2, <1>3, <1>4
  <1> QED
    BY <1>4, <1>5, <1>6

\* What a restart makes of the manifest and the output file.
LEMMA RestoredMoves ==
    ASSUME manifest \in Seq(Rows), firstGame \in 0 .. MaxTime
    PROVE  /\ Restored \in Lifecycles /\ Restored.draft = <<>>
           /\ Restored.map = 0
           /\ \/ Restored = restore(load_manifest)
              \/ /\ restore(load_manifest).phase = "waiting_for_stream"
                 /\ Restored.phase = "game_started"
                 /\ Restored.final = restore(load_manifest).final
  <1> DEFINE l == restore(load_manifest)
  <1>1. l \in Lifecycles /\ l.draft = <<>> /\ l.map = 0
    <2>1. Knows(load_manifest, Len(load_manifest), l)
      BY LoadedRows, RestoreKnows
    <2> QED
      BY <2>1 DEF Knows
  <1>2. CASE l.phase = "waiting_for_stream" /\ firstGame # 0
    <2>1. Restored = [l EXCEPT !.played = TRUE, !.phase = "game_started",
                               !.next = firstGame + Interval]
      BY <1>2 DEF Restored
    <2> HIDE DEF l
    <2>2. Restored = [phase |-> "game_started", draft |-> l.draft,
                      game |-> l.game, drafted |-> l.drafted, played |-> TRUE,
                      next |-> firstGame + Interval, map |-> l.map,
                      final |-> l.final, closeAt |-> l.closeAt]
      BY <1>1, <2>1 DEF Lifecycles
    <2>3. firstGame + Interval \in Nat
      BY PeriodAssumption
    <2>4. Restored \in Lifecycles
      BY <1>1, <2>2, <2>3 DEF Lifecycles, CapturePhase
    <2> QED
      BY <1>1, <1>2, <2>2, <2>4 DEF l
  <1>3. CASE ~(l.phase = "waiting_for_stream" /\ firstGame # 0)
    BY <1>1, <1>3 DEF Restored
  <1> QED
    BY <1>2, <1>3

\* A frame that is handed to the object.
LEMMA ObservedMoves ==
    ASSUME Typed, NEW g \in Gaps, now + g <= MaxTime, NEW m \in 1 .. MaxMap,
           Observed(g, m)
    PROVE  /\ Checked(now + g) \in Lifecycles
           /\ ObservedFrom(Checked(now + g), now + g, lc', pending')
           /\ reading' \in Readings /\ recent' \in Windows(DraftWindow)
           /\ map' = m /\ pc' = "write" /\ rewound' = FALSE
           /\ now + g \in 1 .. MaxTime
  <1>1. now + g \in 1 .. MaxTime
    BY BoundAssumption DEF Typed
  <1>2. Checked(now + g) \in Lifecycles
    BY <1>1, CheckedMoves DEF Checked, Typed
  <1>3. PICK r \in FrameReadings(m) :
            /\ lc' = observe(Checked(now + g), now + g, r).object
            /\ pending' = observe(Checked(now + g), now + g, r).triggers
            /\ reading' = r
            /\ recent' = Push(recent, [at |-> now + g,
                                       ok |-> r.screen = "draft" /\ r.valid],
                              DraftWindow)
            /\ map' = m /\ pc' = "write" /\ rewound' = FALSE
    BY DEF Observed
  <1>4. r \in Readings
    BY <1>3 DEF FrameReadings, Readings
  <1>5. recent' \in Windows(DraftWindow)
    <2> DEFINE ok == r.screen = "draft" /\ r.valid
    <2>1. ok \in BOOLEAN
      BY <1>4 DEF Readings
    <2> HIDE DEF ok
    <2>2. [at |-> now + g, ok |-> ok] \in Samples
      BY <1>1, <2>1 DEF Samples
    <2>3. recent' = Push(recent, [at |-> now + g, ok |-> ok], DraftWindow)
      BY <1>3 DEF ok
    <2> QED
      BY <2>2, <2>3, WindowAssumption, PushWindow DEF Typed
  <1>6. ObservedFrom(Checked(now + g), now + g, lc', pending')
    BY <1>1, <1>2, <1>3, <1>4, ObserveMoves
  <1> QED
    BY <1>1, <1>2, <1>3, <1>4, <1>5, <1>6

-----------------------------------------------------------------------------
(* The order of the captures, over one manifest.                           *)

Captured(rows, e) == Holds(rows, Len(rows), e)

\* A row before the i-th one tells how far the series is.
Told(rows, i) ==
    \E k \in DOMAIN rows : k < i /\ rows[k].event # "periodic_30s"

Spaced(rows) ==
    \A i, j \in DOMAIN rows :
        (/\ i < j /\ rows[i].event = "periodic_30s"
         /\ rows[j].event = "periodic_30s" /\ Told(rows, i))
            => rows[j].at - rows[i].at >= Interval

\* The object l and the captures q still to write fit the rows: a milestone
\* that was captured is behind the phase, one that waits comes in its order,
\* and the next periodic capture is due an interval after the last one.
Ready(rows, l, q, t) ==
    /\ Ranked(q)
    /\ \A e \in {"draft_started", "game_started", "ended_final"} :
          Captured(rows, e) \/ e \in Range(q) => l.phase \notin Waiting
    /\ \A e \in {"game_started", "ended_final"} :
          Captured(rows, e) \/ e \in Range(q)
              => l.phase \in {"game_started", "ended_grace", "closed"}
    /\ Captured(rows, "ended_final") \/ "ended_final" \in Range(q) => l.final
    /\ "draft_started" \in Range(q) =>
          /\ ~Captured(rows, "draft_started") /\ ~Captured(rows, "game_started")
          /\ ~Captured(rows, "ended_final")
    /\ "game_started" \in Range(q) =>
          ~Captured(rows, "game_started") /\ ~Captured(rows, "ended_final")
    /\ "ended_final" \in Range(q) => ~Captured(rows, "ended_final")
    /\ \A i \in DOMAIN rows :
          rows[i].event = "periodic_30s" /\ Told(rows, i) =>
              /\ l.next >= rows[i].at + Interval
              /\ "periodic_30s" \in Range(q) => rows[i].at + Interval <= t
    /\ "periodic_30s" \in Range(q) => l.next >= t + Interval

\* A new row is the last one.
LEMMA AppendRow ==
    ASSUME NEW rows \in Seq(Rows), NEW row \in Rows
    PROVE  LET more == Append(rows, row)
           IN  /\ more \in Seq(Rows) /\ Len(more) = Len(rows) + 1
               /\ Len(rows) \in Nat
               /\ DOMAIN more = 1 .. Len(rows) + 1
               /\ DOMAIN rows = 1 .. Len(rows)
               /\ \A i \in DOMAIN rows : more[i] = rows[i]
               /\ more[Len(rows) + 1] = row
               /\ \A e : Captured(more, e) <=> Captured(rows, e) \/ row.event = e
               /\ \A i \in DOMAIN rows : Told(more, i) <=> Told(rows, i)
  <1> DEFINE more == Append(rows, row)
  <1>1. /\ more \in Seq(Rows) /\ Len(more) = Len(rows) + 1
        /\ Len(rows) \in Nat
        /\ DOMAIN more = 1 .. Len(rows) + 1
        /\ DOMAIN rows = 1 .. Len(rows)
        /\ \A i \in DOMAIN rows : more[i] = rows[i]
        /\ more[Len(rows) + 1] = row
    OBVIOUS
  <1> HIDE DEF more
  <1>2. ASSUME NEW e
        PROVE  Captured(more, e) <=> Captured(rows, e) \/ row.event = e
    <2>1. \A i : i \in 1 .. Len(rows) + 1 <=> i \in DOMAIN rows \/ i = Len(rows) + 1
      BY <1>1
    <2>2. Captured(rows, e) <=> \E i \in DOMAIN rows : rows[i].event = e
      BY <1>1 DEF Captured, Holds
    <2>3. Captured(more, e) <=> \E i \in 1 .. Len(rows) + 1 : more[i].event = e
      BY <1>1 DEF Captured, Holds
    <2>4. ASSUME Captured(more, e) PROVE Captured(rows, e) \/ row.event = e
      <3>1. PICK i \in 1 .. Len(rows) + 1 : more[i].event = e
        BY <2>3, <2>4
      <3> QED
        BY <1>1, <2>1, <2>2, <3>1
    <2>5. ASSUME Captured(rows, e) \/ row.event = e PROVE Captured(more, e)
      BY <1>1, <2>1, <2>2, <2>3, <2>5
    <2> QED
      BY <2>4, <2>5
  <1>3. ASSUME NEW i \in DOMAIN rows
        PROVE  Told(more, i) <=> Told(rows, i)
    <2>1. \A k : k \in DOMAIN more /\ k < i <=> k \in DOMAIN rows /\ k < i
      BY <1>1
    <2> QED
      BY <1>1, <2>1 DEF Told
  <1>4. /\ \A e : Captured(more, e) <=> Captured(rows, e) \/ row.event = e
        /\ \A i \in DOMAIN rows : Told(more, i) <=> Told(rows, i)
    BY <1>2, <1>3
  <1> QED
    BY <1>1, <1>4 DEF more

\* A row that comes late enough and in its order keeps the rows in order.
LEMMA AppendOrdered ==
    ASSUME NEW rows \in Seq(Rows), NEW row \in Rows, Ordered(rows),
           \A i \in DOMAIN rows : rows[i].at <= row.at,
           row.event = "draft_started" =>
               /\ ~Captured(rows, "draft_started")
               /\ ~Captured(rows, "game_started")
               /\ ~Captured(rows, "ended_final"),
           row.event = "game_started" =>
               ~Captured(rows, "game_started") /\ ~Captured(rows, "ended_final"),
           row.event = "ended_final" => ~Captured(rows, "ended_final")
    PROVE  Ordered(Append(rows, row))
  <1> DEFINE more == Append(rows, row)
  <1>1. /\ Len(rows) \in Nat
        /\ DOMAIN more = 1 .. Len(rows) + 1
        /\ DOMAIN rows = 1 .. Len(rows)
        /\ \A i \in DOMAIN rows : more[i] = rows[i]
        /\ more[Len(rows) + 1] = row
    BY AppendRow
  <1> HIDE DEF more
  <1>2. \A e : Captured(rows, e) <=> \E i \in DOMAIN rows : rows[i].event = e
    BY <1>1 DEF Captured, Holds
  <1> SUFFICES ASSUME NEW i \in DOMAIN more, NEW j \in DOMAIN more, i < j
               PROVE  /\ more[i].at <= more[j].at
                      /\ more[j].event = "draft_started" =>
                            more[i].event \notin {"draft_started",
                                                  "game_started", "ended_final"}
                      /\ more[j].event = "game_started" =>
                            more[i].event \notin {"game_started", "ended_final"}
                      /\ more[j].event = "ended_final" =>
                            more[i].event # "ended_final"
    BY DEF Ordered, more
  <1>3. i \in DOMAIN rows /\ more[i] = rows[i]
    BY <1>1
  <1>4. CASE j = Len(rows) + 1
    BY <1>1, <1>2, <1>3, <1>4
  <1>5. CASE j # Len(rows) + 1
    <2>1. j \in DOMAIN rows /\ more[j] = rows[j]
      BY <1>1, <1>5
    <2> QED
      BY <1>3, <2>1 DEF Ordered
  <1> QED
    BY <1>4, <1>5

\* A periodic row that comes an interval after the others keeps them spaced.
LEMMA AppendSpaced ==
    ASSUME NEW rows \in Seq(Rows), NEW row \in Rows, Spaced(rows),
           row.event = "periodic_30s" =>
               \A i \in DOMAIN rows :
                   rows[i].event = "periodic_30s" /\ Told(rows, i)
                       => rows[i].at + Interval <= row.at
    PROVE  Spaced(Append(rows, row))
  <1> DEFINE more == Append(rows, row)
  <1>1. /\ Len(rows) \in Nat
        /\ DOMAIN more = 1 .. Len(rows) + 1
        /\ DOMAIN rows = 1 .. Len(rows)
        /\ \A i \in DOMAIN rows : more[i] = rows[i]
        /\ more[Len(rows) + 1] = row
        /\ \A i \in DOMAIN rows : Told(more, i) <=> Told(rows, i)
    BY AppendRow
  <1> HIDE DEF more
  <1>2. Interval \in Nat
    BY PeriodAssumption
  <1>3. \A i \in DOMAIN rows : rows[i].at \in Nat
    <2> SUFFICES ASSUME NEW i \in DOMAIN rows PROVE rows[i].at \in Nat
      OBVIOUS
    <2>1. rows[i] \in Rows
      BY <1>1
    <2> QED
      BY <2>1 DEF Rows
  <1>4. row.at \in Nat
    BY DEF Rows
  <1> SUFFICES ASSUME NEW i \in DOMAIN more, NEW j \in DOMAIN more, i < j,
                      more[i].event = "periodic_30s",
                      more[j].event = "periodic_30s", Told(more, i)
               PROVE  more[j].at - more[i].at >= Interval
    BY DEF Spaced, more
  <1>5. i \in DOMAIN rows /\ more[i] = rows[i] /\ Told(rows, i)
    BY <1>1
  <1>6. CASE j = Len(rows) + 1
    <2>1. rows[i].at + Interval <= row.at
      BY <1>1, <1>5, <1>6
    <2> QED
      BY <1>1, <1>2, <1>3, <1>4, <1>5, <1>6, <2>1
  <1>7. CASE j # Len(rows) + 1
    <2>1. j \in DOMAIN rows /\ more[j] = rows[j]
      BY <1>1, <1>7
    <2> QED
      BY <1>5, <2>1 DEF Spaced
  <1> QED
    BY <1>6, <1>7

\* The completion check leaves an object ready.
LEMMA CheckedReady ==
    ASSUME NEW rows, NEW l \in Lifecycles, NEW t \in Nat, NEW u,
           Ready(rows, l, <<>>, t)
    PROVE  Ready(rows, mark_provider_complete(l, u), <<>>, u)
  <1> DEFINE k == mark_provider_complete(l, u)
  <1>1. /\ k.final = l.final /\ k.next = l.next
        /\ k.phase = l.phase \/ k.phase = "ended_grace"
    BY DEF mark_provider_complete, Lifecycles
  <1>2. \A e : e \notin Range(<<>>)
    BY DEF Range
  <1> HIDE DEF k
  <1>3. Ready(rows, k, <<>>, u)
    BY <1>1, <1>2 DEF Ready, Waiting
  <1> QED
    BY <1>3 DEF k

\* A frame leaves the object ready for its captures.
LEMMA ObservedReady ==
    ASSUME NEW rows \in Seq(Rows), NEW l \in Lifecycles, NEW u,
           Ready(rows, l, <<>>, u), NEW t \in 1 .. MaxTime,
           \A i \in DOMAIN rows : rows[i].at <= t,
           NEW k, NEW q, ObservedFrom(l, t, k, q)
    PROVE  Ready(rows, k, q, t)
  <1>1. Interval \in Nat /\ l.next \in Nat /\ t \in Nat
    BY PeriodAssumption DEF Lifecycles
  <1>2. \A i \in DOMAIN rows : rows[i].at \in Nat
    <2> SUFFICES ASSUME NEW i \in DOMAIN rows PROVE rows[i].at \in Nat
      OBVIOUS
    <2>1. rows[i] \in Rows
      OBVIOUS
    <2> QED
      BY <2>1 DEF Rows
  <1>3. \A e : e \notin Range(<<>>)
    BY DEF Range
  <1>4. Ranked(q)
    BY DEF ObservedFrom
  <1>5. ASSUME NEW e \in {"draft_started", "game_started", "ended_final"},
               Captured(rows, e) \/ e \in Range(q)
        PROVE  k.phase \notin Waiting
    <2>1. CASE e \in Range(q)
      BY <2>1 DEF ObservedFrom, Waiting
    <2>2. CASE Captured(rows, e)
      <3>1. l.phase \notin Waiting
        BY <2>2 DEF Ready
      <3> QED
        BY <3>1 DEF ObservedFrom, Waiting
    <2> QED
      BY <1>5, <2>1, <2>2
  <1>6. ASSUME NEW e \in {"game_started", "ended_final"},
               Captured(rows, e) \/ e \in Range(q)
        PROVE  k.phase \in {"game_started", "ended_grace", "closed"}
    <2>1. CASE e \in Range(q)
      BY <2>1 DEF ObservedFrom, Waiting
    <2>2. CASE Captured(rows, e)
      <3>1. l.phase \in {"game_started", "ended_grace", "closed"}
        BY <2>2 DEF Ready
      <3> QED
        BY <3>1 DEF ObservedFrom, Waiting
    <2> QED
      BY <1>6, <2>1, <2>2
  <1>7. Captured(rows, "ended_final") \/ "ended_final" \in Range(q) => k.final
    <2>1. Captured(rows, "ended_final") => l.final
      BY DEF Ready
    <2> QED
      BY <2>1 DEF ObservedFrom
  <1>8. "draft_started" \in Range(q) =>
          /\ ~Captured(rows, "draft_started") /\ ~Captured(rows, "game_started")
          /\ ~Captured(rows, "ended_final")
    BY DEF ObservedFrom, Ready
  <1>9. "game_started" \in Range(q) =>
          ~Captured(rows, "game_started") /\ ~Captured(rows, "ended_final")
    BY DEF ObservedFrom, Ready, Waiting
  <1>10. "ended_final" \in Range(q) => ~Captured(rows, "ended_final")
    BY DEF ObservedFrom, Ready
  <1>11. ASSUME NEW i \in DOMAIN rows,
                rows[i].event = "periodic_30s", Told(rows, i)
         PROVE  /\ k.next >= rows[i].at + Interval
                /\ "periodic_30s" \in Range(q) => rows[i].at + Interval <= t
    <2>1. l.next >= rows[i].at + Interval
      BY <1>11 DEF Ready
    <2>2. k.next = l.next \/ k.next = t + Interval
      BY DEF ObservedFrom
    <2>3. "periodic_30s" \in Range(q) => t >= l.next
      BY DEF ObservedFrom
    <2> QED
      BY <1>1, <1>2, <2>1, <2>2, <2>3
  <1>12. "periodic_30s" \in Range(q) => k.next >= t + Interval
    <2>1. "periodic_30s" \in Range(q) => k.next = t + Interval
      BY DEF ObservedFrom
    <2> QED
      BY <1>1, <2>1
  <1> QED
    BY <1>4, <1>5, <1>6, <1>7, <1>8, <1>9, <1>10, <1>11, <1>12, Zenon DEF Ready

\* The first capture that waits may be written, and the others then still wait.
LEMMA WrittenReady ==
    ASSUME NEW rows \in Seq(Rows), NEW l \in Lifecycles,
           NEW q \in Seq(Triggers), q # <<>>, NEW row \in Rows,
           row.event = Head(q), \A i \in DOMAIN rows : rows[i].at <= row.at,
           Ready(rows, l, q, row.at), Ordered(rows), Spaced(rows)
    PROVE  /\ Ready(Append(rows, row), l, Tail(q), row.at)
           /\ Ordered(Append(rows, row)) /\ Spaced(Append(rows, row))
  <1> DEFINE more == Append(rows, row)
             e == Head(q)
             rest == Tail(q)
  <1>1. e \in Range(q)
    BY RankedHead DEF Ready
  <1>2. \A x \in Range(rest) : x \in Range(q) /\ Rank(e) < Rank(x)
    BY RankedHead DEF Ready
  <1>3. Ranked(rest)
    BY RankedHead DEF Ready
  <1>4. /\ more \in Seq(Rows) /\ Len(rows) \in Nat
        /\ DOMAIN more = 1 .. Len(rows) + 1
        /\ DOMAIN rows = 1 .. Len(rows)
        /\ \A i \in DOMAIN rows : more[i] = rows[i]
        /\ more[Len(rows) + 1] = row
        /\ \A x : Captured(more, x) <=> Captured(rows, x) \/ row.event = x
        /\ \A i \in DOMAIN rows : Told(more, i) <=> Told(rows, i)
    BY AppendRow
  <1>5. row.event = e /\ row.at \in Nat /\ Interval \in Nat /\ l.next \in Nat
    BY PeriodAssumption DEF Rows, Lifecycles
  <1> HIDE DEF more, rest, e
  <1>6. Ordered(more)
    <2>1. Ordered(Append(rows, row))
      <3>1. row.event = "draft_started" =>
               /\ ~Captured(rows, "draft_started")
               /\ ~Captured(rows, "game_started")
               /\ ~Captured(rows, "ended_final")
        BY <1>1, <1>5 DEF Ready
      <3>2. row.event = "game_started" =>
               ~Captured(rows, "game_started") /\ ~Captured(rows, "ended_final")
        BY <1>1, <1>5 DEF Ready
      <3>3. row.event = "ended_final" => ~Captured(rows, "ended_final")
        BY <1>1, <1>5 DEF Ready
      <3> QED
        BY <3>1, <3>2, <3>3, AppendOrdered
    <2> QED
      BY <2>1 DEF more
  <1>7. Spaced(more)
    <2>1. row.event = "periodic_30s" =>
               \A i \in DOMAIN rows :
                   rows[i].event = "periodic_30s" /\ Told(rows, i)
                       => rows[i].at + Interval <= row.at
      BY <1>1, <1>5 DEF Ready
    <2>2. Spaced(Append(rows, row))
      BY <2>1, AppendSpaced
    <2> QED
      BY <2>2 DEF more
  <1>8. \A x : Captured(more, x) \/ x \in Range(rest)
                   => Captured(rows, x) \/ x \in Range(q)
    BY <1>1, <1>2, <1>4, <1>5
  <1>9. \A x \in Range(rest) : Captured(more, x) => Captured(rows, x)
    BY <1>2, <1>4, <1>5 DEF Rank
  <1>10. "draft_started" \notin Range(rest)
    BY <1>2, <1>5 DEF Rank, Rows, Triggers
  <1>11. "game_started" \in Range(rest) =>
            ~Captured(more, "game_started") /\ ~Captured(more, "ended_final")
    <2> SUFFICES ASSUME "game_started" \in Range(rest)
                 PROVE  ~Captured(more, "game_started")
                        /\ ~Captured(more, "ended_final")
      OBVIOUS
    <2>1. e # "game_started" /\ e # "ended_final"
      BY <1>2 DEF Rank
    <2>2. ~Captured(rows, "game_started") /\ ~Captured(rows, "ended_final")
      BY <1>2 DEF Ready
    <2> QED
      BY <1>4, <1>5, <2>1, <2>2
  <1>12. "ended_final" \in Range(rest) => ~Captured(more, "ended_final")
    BY <1>2, <1>9 DEF Ready
  <1>13. ASSUME NEW i \in DOMAIN more,
                more[i].event = "periodic_30s", Told(more, i)
         PROVE  /\ l.next >= more[i].at + Interval
                /\ "periodic_30s" \in Range(rest) => more[i].at + Interval <= row.at
    <2>1. CASE i = Len(rows) + 1
      <3>1. e = "periodic_30s" /\ more[i].at = row.at
        BY <1>4, <1>5, <1>13, <2>1
      <3>2. l.next >= row.at + Interval
        BY <1>1, <3>1 DEF Ready
      <3>3. "periodic_30s" \notin Range(rest)
        BY <1>2, <3>1 DEF Rank
      <3> QED
        BY <3>1, <3>2, <3>3
    <2>2. CASE i # Len(rows) + 1
      <3>1. i \in DOMAIN rows /\ more[i] = rows[i] /\ Told(rows, i)
        BY <1>4, <1>13, <2>2
      <3> QED
        BY <1>2, <1>13, <3>1 DEF Ready
    <2> QED
      BY <2>1, <2>2
  <1>14. "periodic_30s" \in Range(rest) => l.next >= row.at + Interval
    BY <1>2 DEF Ready
  <1>15. \A x \in {"draft_started", "game_started", "ended_final"} :
            Captured(more, x) \/ x \in Range(rest) => l.phase \notin Waiting
    BY <1>8 DEF Ready
  <1>16. \A x \in {"game_started", "ended_final"} :
            Captured(more, x) \/ x \in Range(rest)
                => l.phase \in {"game_started", "ended_grace", "closed"}
    BY <1>8 DEF Ready
  <1>17. Captured(more, "ended_final") \/ "ended_final" \in Range(rest)
            => l.final
    BY <1>8 DEF Ready
  <1>18. Ready(more, l, rest, row.at)
    BY <1>3, <1>10, <1>11, <1>12, <1>13, <1>14, <1>15, <1>16, <1>17, Zenon
       DEF Ready
  <1> QED
    BY <1>6, <1>7, <1>18 DEF more, rest

\* A restart leaves an object ready, as long as the whole manifest is read.
LEMMA RestoredReady ==
    ASSUME manifest \in Seq(Rows), firstGame \in 0 .. MaxTime,
           Len(manifest) <= MaxRows, Ordered(manifest), NEW t
    PROVE  Ready(manifest, Restored, <<>>, t)
  <1> DEFINE l == restore(load_manifest)
  <1>1. load_manifest = manifest
    BY LoadedRows
  <1>2. Knows(manifest, Len(manifest), l)
    BY <1>1, RestoreKnows
  <1> HIDE DEF l
  <1>3. DOMAIN manifest = 1 .. Len(manifest)
    OBVIOUS
  <1>4. \A e : e \notin Range(<<>>)
    BY DEF Range
  <1>5. Ranked(<<>>)
    BY DEF Ranked
  <1>6. \A e : e # "periodic_30s" /\ Captured(manifest, e)
                  => l.phase # "waiting_for_stream"
    BY <1>2 DEF Knows, Captured, Holds
  <1>7. \A i \in DOMAIN manifest : Told(manifest, i)
                  => l.phase # "waiting_for_stream"
    BY <1>2, <1>3 DEF Knows, Told
  <1>8. \/ Restored = l
        \/ /\ l.phase = "waiting_for_stream"
           /\ Restored.phase = "game_started" /\ Restored.final = l.final
    BY RestoredMoves DEF l
  <1>9. CASE Restored = l
    <2>1. \A e \in {"draft_started", "game_started", "ended_final"} :
              Captured(manifest, e) => l.phase \notin Waiting
      BY <1>2, <1>6 DEF Knows, Waiting
    <2>2. \A e \in {"game_started", "ended_final"} :
              Captured(manifest, e)
                  => l.phase \in {"game_started", "ended_grace", "closed"}
      BY <1>2 DEF Knows, Captured
    <2>3. Captured(manifest, "ended_final") => l.final
      BY <1>2 DEF Knows, Captured
    <2>4. \A i \in DOMAIN manifest : manifest[i].event = "periodic_30s"
              => l.next >= manifest[i].at + Interval
      BY <1>2, <1>3 DEF Knows
    <2> QED
      BY <1>4, <1>5, <1>9, <2>1, <2>2, <2>3, <2>4, Zenon DEF Ready
  <1>10. CASE /\ l.phase = "waiting_for_stream"
              /\ Restored.phase = "game_started" /\ Restored.final = l.final
    <2>1. \A e \in {"draft_started", "game_started", "ended_final"} :
              ~Captured(manifest, e)
      BY <1>6, <1>10
    <2>2. \A i \in DOMAIN manifest : ~Told(manifest, i)
      BY <1>7, <1>10
    <2> QED
      BY <1>4, <1>5, <2>1, <2>2, Zenon DEF Ready
  <1> QED
    BY <1>8, <1>9, <1>10

-----------------------------------------------------------------------------
(* The invariant.                                                          *)

RowsArePast == \A i \in DOMAIN manifest : manifest[i].at <= now

\* The final capture: one that is emitted is written or waits, and a managed
\* watcher between two frames that is in its grace period has it already, or
\* entered the period with the newest frame, which was dropped.
Retained ==
    /\ managed => ~awaiting
    /\ pc \in {"frame", "write"} =>
          /\ lc.phase # "closed"
          /\ lc.final => \/ Captured(manifest, "ended_final")
                         \/ "ended_final" \in Range(pending)
    /\ pc = "write" /\ lc.phase = "ended_grace" => lc.final
    /\ managed /\ pc = "frame" /\ lc.phase = "ended_grace" =>
          \/ Captured(manifest, "ended_final")
          \/ rewound /\ lc.closeAt >= now + Grace
    /\ managed /\ pc = "exited" /\ lc.closeAt # 0
          => Captured(manifest, "ended_final")

\* While the whole manifest is read at a restart, the captures are in order.
InOrder ==
    Len(manifest) <= MaxRows =>
        /\ Ordered(manifest) /\ Spaced(manifest)
        /\ pc \in {"frame", "write"} => Ready(manifest, lc, pending, now)

CaptureInv == Typed /\ RowsArePast /\ Retained /\ InOrder

\* What every frame that arrives finds.
LEMMA Arrived ==
    ASSUME Typed, NEW g \in Gaps, Arrives(g)
    PROVE  /\ pc = "frame" /\ pending = <<>>
           /\ now' = now + g /\ now' \in 1 .. MaxTime /\ now + g \in Nat
           /\ now <= now' /\ g < Grace /\ g \in Nat
           /\ samples' \in 0 .. CheckEvery - 1
           /\ MapNow \in 1 .. MaxMap
           /\ Checked(now + g) \in Lifecycles
           /\ Checked(now + g).final = lc.final
           /\ Checked(now + g).map = lc.map
           /\ \/ Checked(now + g) = lc
              \/ /\ lc.phase \notin {"closed", "ended_grace"}
                 /\ Checked(now + g).phase = "ended_grace"
                 /\ Checked(now + g).closeAt = now + g + Grace
           /\ \/ Checked(now + g) = lc
              \/ Checked(now + g) = mark_provider_complete(lc, now + g)
  <1>1. /\ pc = "frame" /\ pending = <<>> /\ now' = now + g
        /\ now + g <= MaxTime /\ samples' = (samples + 1) % CheckEvery
    BY DEF Arrives, Typed
  <1>2. /\ g \in Nat \ {0} /\ g < Grace /\ now \in Nat /\ MaxTime \in Nat
        /\ Grace \in Nat
    BY BoundAssumption, GapAssumption, PeriodAssumption DEF Typed
  <1>3. samples' \in 0 .. CheckEvery - 1
    <2>1. CheckEvery \in Nat \ {0} /\ samples \in 0 .. CheckEvery - 1
      BY PeriodAssumption DEF Typed
    <2> QED
      BY <1>1, <2>1
  <1>4. MapNow \in 1 .. MaxMap
    <2>1. storedMap \in 1 .. MaxMap /\ map \in 1 .. MaxMap
      BY PeriodAssumption DEF Typed
    <2> QED
      BY <2>1 DEF MapNow
  <1>5. /\ Checked(now + g) \in Lifecycles
        /\ Checked(now + g).final = lc.final
        /\ Checked(now + g).map = lc.map
        /\ \/ Checked(now + g) = lc
           \/ /\ lc.phase \notin {"closed", "ended_grace"}
              /\ Checked(now + g).phase = "ended_grace"
              /\ Checked(now + g).closeAt = now + g + Grace
    <2>1. lc \in Lifecycles /\ now + g \in Nat
      BY <1>2 DEF Typed
    <2> QED
      BY <2>1, CheckedMoves DEF Checked
  <1>6. \/ Checked(now + g) = lc
        \/ Checked(now + g) = mark_provider_complete(lc, now + g)
    BY DEF Checked
  <1> QED
    BY <1>1, <1>2, <1>3, <1>4, <1>5, <1>6

\* The row of a capture, and the one of the final after the loop.
LEMMA CaptureRow ==
    ASSUME Typed, now > 0, NEW e \in Triggers
    PROVE  /\ [event |-> e, at |-> now, map |-> reading.map] \in Rows
           /\ \A last \in LastMaps :
                 [event |-> e, at |-> now, map |-> last] \in Rows
  <1>1. now \in 1 .. MaxTime
    BY BoundAssumption DEF Typed
  <1>2. reading.map \in 0 .. MaxMap
    <2>1. MaxMap \in Nat
      BY PeriodAssumption
    <2>2. CASE reading \in Readings
      <3>1. reading.map \in 1 .. MaxMap \/ reading.map = 0
        BY <2>2 DEF Readings
      <3> QED
        BY <2>1, <3>1
    <2>3. CASE reading = NoReading
      BY <2>1, <2>3 DEF NoReading
    <2> QED
      BY <2>2, <2>3 DEF Typed
  <1>3. LastMaps \subseteq 0 .. MaxMap
    <2>1. lc.map \in 0 .. MaxMap /\ map \in 0 .. MaxMap /\ 0 \in 0 .. MaxMap
      BY PeriodAssumption DEF Typed, Lifecycles
    <2> QED
      BY <2>1 DEF LastMaps
  <1> QED
    BY <1>1, <1>2, <1>3 DEF Rows

\* A frame that is observed keeps the types.
LEMMA ObservedTyped ==
    ASSUME Typed, NEW g \in Gaps, Arrives(g), NEW m \in 1 .. MaxMap,
           Observed(g, m),
           UNCHANGED <<manifest, firstGame, awaiting, provider, since,
                       crashes>>
    PROVE  Typed'
  <1>1. now' = now + g /\ now' \in 1 .. MaxTime
        /\ samples' \in 0 .. CheckEvery - 1 /\ now + g <= MaxTime
    BY Arrived DEF Arrives
  <1>2. /\ lc' \in Lifecycles /\ pending' \in Seq(Triggers)
        /\ reading' \in Readings /\ recent' \in Windows(DraftWindow)
        /\ map' = m /\ pc' = "write" /\ rewound' = FALSE
    BY <1>1, ObservedMoves DEF ObservedFrom
  <1>3. /\ now' \in 0 .. MaxTime /\ firstGame' \in 0 .. MaxTime
        /\ map' \in 1 .. MaxMap /\ providerMap' \in 1 .. MaxMap
        /\ storedMap' \in 1 .. providerMap' /\ since' \in Nat
    BY <1>1, <1>2 DEF Typed, provider
  <1>4. /\ managed' \in BOOLEAN /\ awaiting' \in BOOLEAN
        /\ rewound' \in BOOLEAN /\ complete' \in BOOLEAN
    BY <1>2 DEF Typed, provider
  <1>5. manifest' \in Seq(Rows) /\ crashes' \in 0 .. MaxCrashes
    BY DEF Typed, provider
  <1> QED
    BY <1>1, <1>2, <1>3, <1>4, <1>5 DEF Typed

\* Every step keeps the types.
LEMMA TypedStep ==
    ASSUME Typed, [Next]_vars
    PROVE  Typed'
  <1> USE DEF Typed
  <1>1. ASSUME NEW g \in Gaps, CloseAfterGrace(g) PROVE Typed'
    <2>1. lc' \in Lifecycles
      BY <1>1, Arrived, ClosedIsLifecycle DEF CloseAfterGrace
    <2> QED
      BY <1>1, <2>1, Arrived DEF CloseAfterGrace, provider
  <1>2. ASSUME NEW g \in Gaps, ObserveFrame(g) PROVE Typed'
    <2>1. Arrives(g) /\ Observed(g, MapNow)
          /\ UNCHANGED <<manifest, firstGame, awaiting, provider, since,
                       crashes>>
      BY <1>2 DEF ObserveFrame
    <2>2. MapNow \in 1 .. MaxMap
      BY <2>1, Arrived
    <2> QED
      BY <2>1, <2>2, ObservedTyped
  <1>3. ASSUME NEW g \in Gaps, DropFrame(g) PROVE Typed'
    BY <1>3, Arrived DEF DropFrame, provider
  <1>4. ASSUME NEW g \in Gaps, NextMap(g) PROVE Typed'
    <2>1. Arrives(g) /\ UNCHANGED <<manifest, firstGame, awaiting, provider, since,
                       crashes>>
          /\ map + 1 \in 1 .. MaxMap
      BY <1>4, PeriodAssumption DEF NextMap
    <2>2. now' = now + g /\ now' \in 1 .. MaxTime
          /\ samples' \in 0 .. CheckEvery - 1 /\ now + g <= MaxTime
      BY <2>1, Arrived DEF Arrives
    <2>3. CASE Observed(g, map + 1)
      BY <2>1, <2>3, ObservedTyped
    <2>4. CASE /\ lc' = Checked(now + g)
               /\ map' = map + 1 /\ rewound' = TRUE
               /\ UNCHANGED <<reading, pending, pc, recent>>
      BY <2>1, <2>2, <2>4, Arrived DEF provider
    <2> QED
      BY <1>4, <2>3, <2>4 DEF NextMap
  <1>5. ASSUME NEW g \in Gaps, AwaitCompletion(g) PROVE Typed'
    <2>1. lc' \in Lifecycles
      BY <1>5, Arrived, CheckedMoves DEF AwaitCompletion
    <2> QED
      BY <1>5, <2>1, Arrived DEF AwaitCompletion, provider
  <1>6. ASSUME NEW g \in Gaps, AwaitFrame(g) PROVE Typed'
    BY <1>6, Arrived DEF AwaitFrame, provider
  <1>7. CASE WriteTrigger
    <2>1. Head(pending) \in Triggers /\ Tail(pending) \in Seq(Triggers)
          /\ now > 0
      BY <1>7 DEF WriteTrigger
    <2>2. manifest' \in Seq(Rows)
      BY <1>7, <2>1, CaptureRow DEF WriteTrigger
    <2> QED
      BY <1>7, <2>1, <2>2 DEF WriteTrigger, provider
  <1>8. CASE AppendObservation
    BY <1>8 DEF AppendObservation, provider
  <1>9. CASE FramesRunOut
    <2>1. "ended_final" \in Triggers
      BY DEF Triggers
    <2>2. manifest' \in Seq(Rows)
      <3>1. PICK last \in LastMaps :
               manifest' = IF FinalDue(lc)
                           THEN Append(manifest, [event |-> "ended_final",
                                                  at |-> now, map |-> last])
                           ELSE manifest
        BY <1>9 DEF FramesRunOut
      <3>2. [event |-> "ended_final", at |-> now, map |-> last] \in Rows
        BY <1>9, <2>1, CaptureRow DEF FramesRunOut
      <3> QED
        BY <3>1, <3>2
    <2>3. lc' \in Lifecycles
      BY <1>9, ClosedIsLifecycle DEF FramesRunOut
    <2> QED
      BY <1>9, <2>2, <2>3 DEF FramesRunOut, provider
  <1>10. CASE ProviderAdvances
    BY <1>10, PeriodAssumption DEF ProviderAdvances, watcher
  <1>11. CASE ProviderStored
    <2>1. providerMap \in 1 .. providerMap
      BY PeriodAssumption
    <2> QED
      BY <1>11, <2>1 DEF ProviderStored, watcher
  <1>12. CASE ProviderCompletes
    BY <1>12 DEF ProviderCompletes, watcher
  <1>13. CASE Crash
    <2>1. Fresh \in Lifecycles
      BY WindowAssumption, PeriodAssumption, EmptyWindow
         DEF Fresh, Lifecycles, CapturePhase
    <2>2. crashes' \in 0 .. MaxCrashes
      BY <1>13, BoundAssumption DEF Crash
    <2> QED
      BY <1>13, <2>1, <2>2 DEF Crash, provider
  <1>14. CASE Restart
    <2>1. lc' \in Lifecycles
      BY <1>14, RestoredMoves DEF Restart
    <2>2. <<>> \in Windows(DraftWindow)
      BY WindowAssumption, EmptyWindow
    <2>3. 0 \in 0 .. CheckEvery - 1 /\ StartMaps \subseteq 1 .. MaxMap
      BY PeriodAssumption DEF StartMaps
    <2>4. map' \in 1 .. MaxMap /\ since' \in Nat
      <3>1. Len(manifest) \in Nat
        OBVIOUS
      <3> QED
        BY <1>14, <2>3, <3>1 DEF Restart
    <2> QED
      BY <1>14, <2>1, <2>2, <2>3, <2>4 DEF Restart, provider
  <1>15. CASE UNCHANGED vars
    BY <1>15 DEF vars, watcher, provider
  <1> QED
    BY <1>1, <1>2, <1>3, <1>4, <1>5, <1>6, <1>7, <1>8, <1>9, <1>10, <1>11,
       <1>12, <1>13, <1>14, <1>15 DEF Next, WatcherStep, Frame

\* A frame that is observed keeps the final capture in sight.
LEMMA ObservedRetained ==
    ASSUME Typed, Retained, NEW g \in Gaps, Arrives(g), NEW m \in 1 .. MaxMap,
           Observed(g, m), ~awaiting,
           UNCHANGED <<manifest, firstGame, awaiting, provider, since,
                       crashes>>
    PROVE  Retained'
  <1>1. /\ pc = "frame" /\ pending = <<>> /\ now + g <= MaxTime
        /\ Checked(now + g).final = lc.final
        /\ \/ Checked(now + g) = lc \/ Checked(now + g).phase = "ended_grace"
    BY Arrived DEF Arrives
  <1>2. ObservedFrom(Checked(now + g), now + g, lc', pending') /\ pc' = "write"
    BY <1>1, ObservedMoves
  <1>3. lc'.phase # "closed"
    <2>1. Checked(now + g).phase # "closed"
      BY <1>1 DEF Retained
    <2> QED
      BY <1>2, <2>1 DEF ObservedFrom, Waiting
  <1>4. lc'.final => \/ Captured(manifest, "ended_final")
                     \/ "ended_final" \in Range(pending')
    <2>1. "ended_final" \notin Range(pending)
      BY <1>1 DEF Range
    <2>2. lc.final => Captured(manifest, "ended_final")
      BY <1>1, <2>1 DEF Retained
    <2>3. lc'.final => lc.final \/ "ended_final" \in Range(pending')
      BY <1>1, <1>2 DEF ObservedFrom
    <2> QED
      BY <2>2, <2>3
  <1>5. lc'.phase = "ended_grace" => lc'.final
    BY <1>2 DEF ObservedFrom
  <1>6. manifest' = manifest /\ managed' = managed /\ awaiting' = awaiting
    BY DEF provider
  <1> QED
    BY <1>2, <1>3, <1>4, <1>5, <1>6 DEF Retained

\* Every step keeps the final capture in sight.
LEMMA RetainedStep ==
    ASSUME Typed, Retained, [Next]_vars
    PROVE  Retained'
  <1>0. now \in Nat /\ Grace \in Nat \ {0} /\ lc \in Lifecycles
    BY PeriodAssumption DEF Typed
  <1>1. ASSUME NEW g \in Gaps, CloseAfterGrace(g) PROVE Retained'
    <2>1. /\ pc = "frame" /\ g < Grace /\ g \in Nat
          /\ Checked(now + g) \in Lifecycles
          /\ \/ Checked(now + g) = lc
             \/ Checked(now + g).closeAt = now + g + Grace
      BY <1>1, Arrived DEF CloseAfterGrace
    <2>2. /\ Checked(now + g).phase = "ended_grace"
          /\ now + g >= Checked(now + g).closeAt
      BY <1>1 DEF CloseAfterGrace, should_close
    <2>3. Checked(now + g) = lc
      BY <1>0, <2>1, <2>2
    <2>4. managed => Captured(manifest, "ended_final")
      BY <1>0, <2>1, <2>2, <2>3 DEF Retained, Lifecycles
    <2>5. /\ manifest' = manifest /\ managed' = managed /\ awaiting' = awaiting
          /\ pc' = "exited"
      BY <1>1 DEF CloseAfterGrace, provider
    <2> QED
      BY <2>4, <2>5 DEF Retained
  <1>2. ASSUME NEW g \in Gaps, ObserveFrame(g) PROVE Retained'
    <2>1. /\ Arrives(g) /\ Observed(g, MapNow) /\ ~awaiting
          /\ UNCHANGED <<manifest, firstGame, awaiting, provider, since,
                       crashes>>
      BY <1>2 DEF ObserveFrame
    <2>2. MapNow \in 1 .. MaxMap
      BY <2>1, Arrived
    <2> QED
      BY <2>1, <2>2, ObservedRetained
  <1>3. ASSUME NEW g \in Gaps, DropFrame(g) PROVE Retained'
    <2>1. /\ pc = "frame" /\ now' = now + g
          /\ Checked(now + g).final = lc.final
          /\ \/ Checked(now + g) = lc
             \/ /\ Checked(now + g).phase = "ended_grace"
                /\ Checked(now + g).closeAt = now + g + Grace
      BY <1>3, Arrived DEF DropFrame
    <2>2. /\ lc' = Checked(now + g) /\ rewound' = TRUE /\ ~rewound /\ ~awaiting
          /\ UNCHANGED <<manifest, pending, pc, awaiting, managed>>
      BY <1>3 DEF DropFrame, ClockRestarted, provider
    <2>3. lc'.phase # "closed"
          /\ (lc'.final => \/ Captured(manifest, "ended_final")
                           \/ "ended_final" \in Range(pending))
      BY <2>1, <2>2 DEF Retained
    <2>4. managed /\ lc'.phase = "ended_grace" =>
              Captured(manifest, "ended_final") \/ lc'.closeAt >= now' + Grace
      <3>1. CASE Checked(now + g) = lc
        BY <2>1, <2>2, <3>1 DEF Retained
      <3>2. CASE Checked(now + g).closeAt = now + g + Grace
        <4>1. lc'.closeAt = now' + Grace /\ now' + Grace \in Int
          BY <1>0, <1>3, <2>1, <2>2, <3>2, Arrived DEF DropFrame
        <4> QED
          BY <4>1
      <3> QED
        BY <2>1, <3>1, <3>2
    <2> QED
      BY <2>1, <2>2, <2>3, <2>4 DEF Retained
  <1>4. ASSUME NEW g \in Gaps, NextMap(g) PROVE Retained'
    <2>1. /\ Arrives(g) /\ ~awaiting /\ ~managed /\ map + 1 \in 1 .. MaxMap
          /\ UNCHANGED <<manifest, firstGame, awaiting, provider, since,
                       crashes>>
      BY <1>4, PeriodAssumption DEF NextMap, ClockRestarted, Typed
    <2>2. CASE Observed(g, map + 1)
      BY <2>1, <2>2, ObservedRetained
    <2>3. CASE /\ lc' = Checked(now + g)
               /\ map' = map + 1 /\ rewound' = TRUE
               /\ UNCHANGED <<reading, pending, pc, recent>>
      <3>1. /\ pc = "frame"
            /\ Checked(now + g).final = lc.final
            /\ \/ Checked(now + g) = lc
               \/ Checked(now + g).phase = "ended_grace"
        BY <2>1, Arrived
      <3>2. lc'.phase # "closed"
            /\ (lc'.final => \/ Captured(manifest, "ended_final")
                             \/ "ended_final" \in Range(pending))
        BY <2>3, <3>1 DEF Retained
      <3> QED
        BY <2>1, <2>3, <3>1, <3>2 DEF Retained, provider
    <2> QED
      BY <1>4, <2>2, <2>3 DEF NextMap
  <1>5. ASSUME NEW g \in Gaps, AwaitCompletion(g) PROVE Retained'
    <2>1. /\ pc = "frame" /\ now + g \in Nat
          /\ Checked(now + g) \in Lifecycles
          /\ Checked(now + g).final = lc.final
          /\ \/ Checked(now + g) = lc
             \/ Checked(now + g).phase = "ended_grace"
      BY <1>5, Arrived DEF AwaitCompletion
    <2>2. /\ lc' = mark_provider_complete(Checked(now + g), now + g)
          /\ ~managed
          /\ UNCHANGED <<manifest, pending, pc, managed>>
      BY <1>5 DEF AwaitCompletion, provider
    <2>3. lc'.final = lc.final /\ lc'.phase # "closed"
      <3>1. lc.phase # "closed"
        BY <2>1 DEF Retained
      <3> QED
        BY <2>1, <2>2, <3>1, CheckedMoves
    <2> QED
      BY <2>1, <2>2, <2>3 DEF Retained
  <1>6. ASSUME NEW g \in Gaps, AwaitFrame(g) PROVE Retained'
    <2>1. /\ pc = "frame"
          /\ Checked(now + g).final = lc.final
          /\ \/ Checked(now + g) = lc
             \/ Checked(now + g).phase = "ended_grace"
      BY <1>6, Arrived DEF AwaitFrame
    <2>2. /\ lc' = Checked(now + g) /\ awaiting
          /\ UNCHANGED <<manifest, pending, pc, awaiting, managed>>
      BY <1>6 DEF AwaitFrame, provider
    <2>3. ~managed
      BY <2>2 DEF Retained
    <2> QED
      BY <2>1, <2>2, <2>3 DEF Retained
  <1>7. CASE WriteTrigger
    <2>1. /\ pc = "write" /\ pending # <<>> /\ pending \in Seq(Triggers)
          /\ pending' = Tail(pending)
          /\ manifest' = Append(manifest, [event |-> Head(pending), at |-> now,
                                           map |-> reading.map])
          /\ UNCHANGED <<lc, pc, awaiting, managed>>
      BY <1>7 DEF WriteTrigger, Typed, provider
    <2>2. Head(pending) \in Triggers /\ now > 0
      BY <2>1 DEF Typed
    <2>3. \A e : Captured(manifest', e) <=>
                    Captured(manifest, e) \/ Head(pending) = e
      <3>1. [event |-> Head(pending), at |-> now, map |-> reading.map] \in Rows
        BY <2>2, CaptureRow
      <3> QED
        BY <2>1, <3>1, AppendRow DEF Typed
    <2>4. \A e \in Range(pending) : e = Head(pending) \/ e \in Range(pending')
      <3> SUFFICES ASSUME NEW i \in DOMAIN pending
                   PROVE  \/ pending[i] = Head(pending)
                          \/ pending[i] \in Range(pending')
        BY DEF Range
      <3>1. CASE i = 1
        BY <2>1, <3>1
      <3>2. CASE i # 1
        <4>1. i - 1 \in DOMAIN Tail(pending)
              /\ Tail(pending)[i - 1] = pending[i]
          BY <2>1, <3>2
        <4> QED
          BY <2>1, <4>1 DEF Range
      <3> QED
        BY <3>1, <3>2
    <2> QED
      BY <2>1, <2>3, <2>4 DEF Retained
  <1>8. CASE AppendObservation
    <2>1. /\ pc = "write" /\ pending = <<>> /\ pc' = "frame"
          /\ UNCHANGED <<lc, pending, manifest, awaiting, managed>>
      BY <1>8 DEF AppendObservation, provider
    <2>2. "ended_final" \notin Range(pending)
      BY <2>1 DEF Range
    <2> QED
      BY <2>1, <2>2 DEF Retained
  <1>9. CASE FramesRunOut
    BY <1>9 DEF FramesRunOut, Retained, provider
  <1>10. CASE ProviderAdvances
    BY <1>10 DEF ProviderAdvances, watcher, Retained
  <1>11. CASE ProviderStored \/ ProviderCompletes
    BY <1>11 DEF ProviderStored, ProviderCompletes, watcher, Retained
  <1>12. CASE Crash
    BY <1>12 DEF Crash, Retained, provider
  <1>13. CASE Restart
    <2>1. /\ lc' = Restored /\ pc' = "frame" /\ awaiting' = FALSE
          /\ UNCHANGED <<manifest, pending, managed>>
      BY <1>13 DEF Restart, provider
    <2> DEFINE l == restore(load_manifest)
    <2>2. /\ load_manifest \in Seq(Rows)
          /\ Range(load_manifest) \subseteq Range(manifest)
          /\ manifest \in Seq(Rows)
      BY LoadedRows DEF Typed
    <2>3. Knows(load_manifest, Len(load_manifest), l)
      BY <2>2, RestoreKnows
    <2>4. l.final => Captured(manifest, "ended_final")
      <3> SUFFICES ASSUME l.final PROVE Captured(manifest, "ended_final")
        OBVIOUS
      <3> HIDE DEF l
      <3>1. PICK k \in 1 .. Len(load_manifest) :
                load_manifest[k].event = "ended_final"
        BY <2>3 DEF Knows, Holds
      <3>2. load_manifest[k] \in Range(load_manifest)
        BY <2>2 DEF Range
      <3>3. PICK i \in DOMAIN manifest : manifest[i] = load_manifest[k]
        BY <2>2, <3>2 DEF Range
      <3> QED
        BY <2>2, <3>1, <3>3 DEF Captured, Holds
    <2>5. /\ lc'.final = l.final /\ lc'.phase # "closed"
          /\ lc'.phase = "ended_grace" => lc'.final
      <3>1. \/ Restored = l
            \/ Restored.phase = "game_started" /\ Restored.final = l.final
        BY RestoredMoves DEF Typed
      <3> HIDE DEF l
      <3> QED
        BY <2>1, <2>3, <3>1 DEF Knows
    <2> QED
      BY <2>1, <2>4, <2>5 DEF Retained
  <1>14. CASE UNCHANGED vars
    BY <1>14 DEF vars, watcher, provider, Retained
  <1> QED
    BY <1>1, <1>2, <1>3, <1>4, <1>5, <1>6, <1>7, <1>8, <1>9, <1>10, <1>11,
       <1>12, <1>13, <1>14 DEF Next, WatcherStep, Frame

\* While nothing waits, the time of the newest frame does not matter.
LEMMA ReadyAtAnyTime ==
    ASSUME NEW rows, NEW l, NEW t, NEW u, Ready(rows, l, <<>>, t)
    PROVE  Ready(rows, l, <<>>, u)
  <1>1. \A e : e \notin Range(<<>>)
    BY DEF Range
  <1> QED
    BY <1>1 DEF Ready

\* A frame that arrives finds the object ready, also after the check.
LEMMA ArrivedReady ==
    ASSUME Typed, NEW g \in Gaps, Arrives(g), Ready(manifest, lc, pending, now)
    PROVE  Ready(manifest, Checked(now + g), <<>>, now + g)
  <1>1. /\ pending = <<>> /\ lc \in Lifecycles /\ now \in Nat /\ now + g \in Nat
        /\ \/ Checked(now + g) = lc
           \/ Checked(now + g) = mark_provider_complete(lc, now + g)
    BY Arrived DEF Typed
  <1> QED
    BY <1>1, CheckedReady, ReadyAtAnyTime

\* A frame that is observed keeps the captures in order.
LEMMA ObservedInOrder ==
    ASSUME Typed, RowsArePast, InOrder, NEW g \in Gaps, Arrives(g),
           NEW m \in 1 .. MaxMap, Observed(g, m),
           UNCHANGED <<manifest, firstGame, awaiting, provider, since,
                       crashes>>
    PROVE  InOrder'
  <1> SUFFICES ASSUME Len(manifest) <= MaxRows
               PROVE  /\ Ordered(manifest) /\ Spaced(manifest)
                      /\ Ready(manifest, lc', pending', now')
    BY DEF InOrder
  <1>1. /\ pc = "frame" /\ now + g <= MaxTime /\ now' = now + g
        /\ now + g \in 1 .. MaxTime /\ now <= now + g
        /\ now \in Nat /\ manifest \in Seq(Rows)
    BY Arrived DEF Arrives, Typed
  <1>2. Ready(manifest, Checked(now + g), <<>>, now + g)
    BY <1>1, ArrivedReady DEF InOrder
  <1>3. /\ Checked(now + g) \in Lifecycles
        /\ ObservedFrom(Checked(now + g), now + g, lc', pending')
    BY <1>1, ObservedMoves
  <1>4. \A i \in DOMAIN manifest : manifest[i].at <= now + g
    <2> SUFFICES ASSUME NEW i \in DOMAIN manifest
                 PROVE  manifest[i].at <= now + g
      OBVIOUS
    <2>1. manifest[i] \in Rows /\ manifest[i].at <= now
      BY <1>1 DEF RowsArePast
    <2>2. manifest[i].at \in Nat
      BY <2>1 DEF Rows
    <2> QED
      BY <1>1, <2>1, <2>2
  <1>5. Ready(manifest, lc', pending', now + g)
    BY <1>1, <1>2, <1>3, <1>4, ObservedReady
  <1> QED
    BY <1>1, <1>5 DEF InOrder

\* No row is from the future.
LEMMA RowsArePastStep ==
    ASSUME Typed, RowsArePast, [Next]_vars
    PROVE  RowsArePast'
  <1>1. manifest \in Seq(Rows) /\ now \in Nat
    BY DEF Typed
  <1>2. \A i \in DOMAIN manifest : manifest[i].at \in Nat
    <2> SUFFICES ASSUME NEW i \in DOMAIN manifest PROVE manifest[i].at \in Nat
      OBVIOUS
    <2>1. manifest[i] \in Rows
      BY <1>1
    <2> QED
      BY <2>1 DEF Rows
  <1>3. ASSUME manifest' = manifest, now' \in Nat, now <= now'
        PROVE  RowsArePast'
    BY <1>1, <1>2, <1>3 DEF RowsArePast
  <1>4. ASSUME NEW row, row.at = now, now' = now,
               manifest' = Append(manifest, row)
        PROVE  RowsArePast'
    <2> SUFFICES ASSUME NEW i \in DOMAIN manifest'
                 PROVE  manifest'[i].at <= now
      BY <1>4 DEF RowsArePast
    <2>1. CASE i = Len(manifest) + 1
      <3>1. manifest'[i] = row
        BY <1>1, <1>4, <2>1
      <3> QED
        BY <1>1, <1>4, <3>1
    <2>2. CASE i # Len(manifest) + 1
      <3>1. i \in DOMAIN manifest /\ manifest'[i] = manifest[i]
        BY <1>1, <1>4, <2>2
      <3> QED
        BY <3>1 DEF RowsArePast
    <2> QED
      BY <2>1, <2>2
  <1>5. ASSUME NEW g \in Gaps,
               \/ CloseAfterGrace(g) \/ ObserveFrame(g) \/ DropFrame(g)
               \/ NextMap(g) \/ AwaitCompletion(g) \/ AwaitFrame(g)
        PROVE  RowsArePast'
    <2>1. Arrives(g) /\ manifest' = manifest
      BY <1>5 DEF CloseAfterGrace, ObserveFrame, DropFrame, NextMap,
                  AwaitCompletion, AwaitFrame
    <2>2. now' \in Nat /\ now <= now'
      BY <2>1, Arrived
    <2> QED
      BY <1>3, <2>1, <2>2
  <1>6. CASE WriteTrigger
    BY <1>4, <1>6 DEF WriteTrigger
  <1>7. CASE FramesRunOut
    BY <1>1, <1>3, <1>4, <1>7 DEF FramesRunOut
  <1>8. CASE \/ AppendObservation \/ ProviderAdvances \/ ProviderStored
             \/ ProviderCompletes \/ Crash \/ Restart \/ UNCHANGED vars
    <2>1. manifest' = manifest /\ now' = now
      BY <1>8 DEF AppendObservation, ProviderAdvances, ProviderStored,
                  ProviderCompletes, Crash,
                  Restart, vars
    <2> QED
      BY <1>1, <1>3, <2>1
  <1> QED
    BY <1>5, <1>6, <1>7, <1>8 DEF Next, WatcherStep, Frame

\* Every step keeps the captures in order.
LEMMA InOrderStep ==
    ASSUME Typed, RowsArePast, InOrder, [Next]_vars
    PROVE  InOrder'
  <1>0. manifest \in Seq(Rows) /\ lc \in Lifecycles /\ now \in Nat
        /\ pending \in Seq(Triggers)
    BY DEF Typed
  <1>1. ASSUME NEW g \in Gaps, CloseAfterGrace(g) PROVE InOrder'
    BY <1>1 DEF CloseAfterGrace, InOrder
  <1>2. ASSUME NEW g \in Gaps, ObserveFrame(g) PROVE InOrder'
    <2>1. /\ Arrives(g) /\ Observed(g, MapNow)
          /\ UNCHANGED <<manifest, firstGame, awaiting, provider, since,
                       crashes>>
      BY <1>2 DEF ObserveFrame
    <2>2. MapNow \in 1 .. MaxMap
      BY <2>1, Arrived
    <2> QED
      BY <2>1, <2>2, ObservedInOrder
  <1>3. ASSUME NEW g \in Gaps, Arrives(g), lc' = Checked(now + g),
               UNCHANGED <<manifest, pending, pc>>
        PROVE  InOrder'
    <2>1. pc = "frame" /\ pending = <<>> /\ now' = now + g
      BY <1>3, Arrived
    <2>2. Len(manifest) <= MaxRows => Ready(manifest, lc', pending, now')
      BY <1>3, <2>1, ArrivedReady DEF InOrder
    <2> QED
      BY <1>3, <2>2 DEF InOrder
  <1>4. ASSUME NEW g \in Gaps, DropFrame(g) PROVE InOrder'
    BY <1>3, <1>4 DEF DropFrame
  <1>5. ASSUME NEW g \in Gaps, NextMap(g) PROVE InOrder'
    <2>1. /\ Arrives(g) /\ map + 1 \in 1 .. MaxMap
          /\ UNCHANGED <<manifest, firstGame, awaiting, provider, since,
                       crashes>>
      BY <1>5, PeriodAssumption DEF NextMap, Typed
    <2>2. CASE Observed(g, map + 1)
      BY <2>1, <2>2, ObservedInOrder
    <2>3. CASE /\ lc' = Checked(now + g)
               /\ map' = map + 1 /\ rewound' = TRUE
               /\ UNCHANGED <<reading, pending, pc, recent>>
      BY <1>3, <2>1, <2>3
    <2> QED
      BY <1>5, <2>2, <2>3 DEF NextMap
  <1>6. ASSUME NEW g \in Gaps, AwaitCompletion(g) PROVE InOrder'
    <2>1. /\ Arrives(g)
          /\ lc' = mark_provider_complete(Checked(now + g), now + g)
          /\ UNCHANGED <<manifest, pending, pc>>
      BY <1>6 DEF AwaitCompletion
    <2>2. /\ pc = "frame" /\ pending = <<>> /\ now' = now + g /\ now + g \in Nat
          /\ Checked(now + g) \in Lifecycles
      BY <2>1, Arrived
    <2>3. Len(manifest) <= MaxRows => Ready(manifest, lc', pending, now')
      <3> SUFFICES ASSUME Len(manifest) <= MaxRows
                   PROVE  Ready(manifest, lc', pending, now')
        OBVIOUS
      <3>1. Ready(manifest, Checked(now + g), <<>>, now + g)
        BY <2>1, <2>2, ArrivedReady DEF InOrder
      <3> QED
        BY <2>1, <2>2, <3>1, CheckedReady
    <2> QED
      BY <2>1, <2>3 DEF InOrder
  <1>7. ASSUME NEW g \in Gaps, AwaitFrame(g) PROVE InOrder'
    BY <1>3, <1>7 DEF AwaitFrame
  <1>8. CASE WriteTrigger
    <2> DEFINE row == [event |-> Head(pending), at |-> now, map |-> reading.map]
    <2>1. /\ pc = "write" /\ pending # <<>> /\ pending' = Tail(pending)
          /\ manifest' = Append(manifest, row)
          /\ UNCHANGED <<now, lc, pc>>
      BY <1>8 DEF WriteTrigger
    <2>2. row.event = Head(pending) /\ row.at = now
      OBVIOUS
    <2>3. row \in Rows
      <3>1. Head(pending) \in Triggers /\ now > 0
        BY <2>1 DEF Typed
      <3> QED
        BY <3>1, CaptureRow
    <2> HIDE DEF row
    <2> SUFFICES ASSUME Len(manifest') <= MaxRows
                 PROVE  /\ Ordered(manifest') /\ Spaced(manifest')
                        /\ Ready(manifest', lc, Tail(pending), now)
      BY <2>1 DEF InOrder
    <2>4. Len(manifest) <= MaxRows
      <3>1. Len(manifest') = Len(manifest) + 1 /\ Len(manifest) \in Nat
        BY <1>0, <2>1
      <3>2. MaxRows \in Nat
        BY PeriodAssumption
      <3> QED
        BY <3>1, <3>2
    <2>5. /\ Ordered(manifest) /\ Spaced(manifest)
          /\ Ready(manifest, lc, pending, now)
      BY <2>1, <2>4 DEF InOrder
    <2>6. \A i \in DOMAIN manifest : manifest[i].at <= row.at
      BY <2>2 DEF RowsArePast
    <2> QED
      BY <1>0, <2>1, <2>2, <2>3, <2>5, <2>6, WrittenReady
  <1>9. CASE AppendObservation
    <2>1. /\ pc = "write" /\ UNCHANGED <<now, lc, manifest, pending>>
      BY <1>9 DEF AppendObservation
    <2> QED
      BY <2>1 DEF InOrder
  <1>10. CASE FramesRunOut
    <2>1. pc' = "exited" /\ pc = "frame" /\ now > 0
      BY <1>10 DEF FramesRunOut
    <2>2. CASE manifest' = manifest
      BY <2>1, <2>2 DEF InOrder
    <2>3. CASE FinalDue(lc)
      <3>0. PICK last \in LastMaps :
               manifest' = Append(manifest, [event |-> "ended_final",
                                             at |-> now, map |-> last])
        BY <1>10, <2>3 DEF FramesRunOut
      <3> DEFINE row == [event |-> "ended_final", at |-> now, map |-> last]
      <3>1. manifest' = Append(manifest, row)
        BY <3>0
      <3>2. row.event = "ended_final" /\ row.at = now
        OBVIOUS
      <3>3. row \in Rows
        BY <2>1, CaptureRow DEF Triggers
      <3> HIDE DEF row
      <3> SUFFICES ASSUME Len(manifest') <= MaxRows
                   PROVE  Ordered(manifest') /\ Spaced(manifest')
        BY <2>1 DEF InOrder
      <3>4. Len(manifest) <= MaxRows
        <4>1. Len(manifest') = Len(manifest) + 1 /\ Len(manifest) \in Nat
          BY <1>0, <3>1
        <4>2. MaxRows \in Nat
          BY PeriodAssumption
        <4> QED
          BY <4>1, <4>2
      <3>5. /\ Ordered(manifest) /\ Spaced(manifest)
            /\ Ready(manifest, lc, pending, now)
        BY <2>1, <3>4 DEF InOrder
      <3>6. ~Captured(manifest, "ended_final")
        BY <2>3, <3>5 DEF Ready, FinalDue
      <3>7. \A i \in DOMAIN manifest : manifest[i].at <= row.at
        BY <3>2 DEF RowsArePast
      <3>8. Ordered(Append(manifest, row))
        BY <1>0, <3>2, <3>3, <3>5, <3>6, <3>7, AppendOrdered
      <3>9. Spaced(Append(manifest, row))
        BY <1>0, <3>2, <3>3, <3>5, AppendSpaced
      <3> QED
        BY <3>1, <3>8, <3>9
    <2> QED
      BY <1>10, <2>2, <2>3 DEF FramesRunOut
  <1>11. CASE ProviderAdvances
    BY <1>11 DEF ProviderAdvances, watcher, InOrder
  <1>12. CASE ProviderStored \/ ProviderCompletes
    BY <1>12 DEF ProviderStored, ProviderCompletes, watcher, InOrder
  <1>13. CASE Crash
    BY <1>13 DEF Crash, InOrder
  <1>14. CASE Restart
    <2>1. /\ lc' = Restored /\ pc = "down"
          /\ UNCHANGED <<manifest, pending, now>>
      BY <1>14 DEF Restart
    <2>2. pending = <<>> /\ firstGame \in 0 .. MaxTime
      BY <2>1 DEF Typed
    <2>3. Len(manifest) <= MaxRows => Ready(manifest, lc', pending, now)
      BY <1>0, <2>1, <2>2, RestoredReady DEF InOrder
    <2> QED
      BY <2>1, <2>3 DEF InOrder
  <1>15. CASE UNCHANGED vars
    BY <1>15 DEF vars, watcher, InOrder
  <1> QED
    BY <1>1, <1>2, <1>4, <1>5, <1>6, <1>7, <1>8, <1>9, <1>10, <1>11,
       <1>12, <1>13, <1>14, <1>15 DEF Next, WatcherStep, Frame

\* The first state satisfies the invariant.
LEMMA CaptureInit == Init => CaptureInv
  <1> SUFFICES ASSUME Init PROVE CaptureInv
    OBVIOUS
  <1> USE DEF Init
  <1>1. Fresh \in Lifecycles
    BY WindowAssumption, PeriodAssumption, EmptyWindow
       DEF Fresh, Lifecycles, CapturePhase
  <1>2. Typed
    <2>1. <<>> \in Windows(DraftWindow)
      BY WindowAssumption, EmptyWindow
    <2>2. /\ 0 \in 0 .. MaxTime /\ 0 \in 0 .. CheckEvery - 1
          /\ StartMaps \subseteq 1 .. MaxMap /\ 0 \in 0 .. MaxCrashes
      BY BoundAssumption, PeriodAssumption DEF StartMaps
    <2>3. managed \in BOOLEAN /\ awaiting \in BOOLEAN /\ rewound \in BOOLEAN
          /\ complete \in BOOLEAN
      BY PeriodAssumption
    <2>4. manifest \in Seq(Rows) /\ pending \in Seq(Triggers)
      OBVIOUS
    <2> QED
      BY <1>1, <2>1, <2>2, <2>3, <2>4 DEF Typed
  <1>3. RowsArePast
    BY DEF RowsArePast
  <1>4. \A e : ~Captured(manifest, e) /\ e \notin Range(pending)
    BY DEF Captured, Holds, Range
  <1>5. Retained
    BY <1>4 DEF Retained, Fresh
  <1>6. InOrder
    <2>1. Ordered(manifest) /\ Spaced(manifest) /\ Ranked(pending)
      BY DEF Ordered, Spaced, Ranked
    <2>2. DOMAIN manifest = {}
      OBVIOUS
    <2>3. Ready(manifest, lc, pending, now)
      BY <1>4, <2>1, <2>2, Zenon DEF Ready
    <2> QED
      BY <2>1, <2>3 DEF InOrder
  <1> QED
    BY <1>2, <1>3, <1>5, <1>6 DEF CaptureInv

\* The invariant holds in every reachable state.
LEMMA CaptureInvariant == Spec => []CaptureInv
  <1>1. Init => CaptureInv
    BY CaptureInit
  <1>2. CaptureInv /\ [Next]_vars => CaptureInv'
    BY TypedStep, RowsArePastStep, RetainedStep, InOrderStep DEF CaptureInv
  <1> QED
    BY <1>1, <1>2, PTL DEF Spec

-----------------------------------------------------------------------------
(* The confirmation of a draft.                                            *)

\* The window q is the end of the window r.
Suffix(q, r) ==
    \E k \in 0 .. Len(r) : /\ Len(q) = Len(r) - k
                           /\ \A i \in 1 .. Len(q) : q[i] = r[i + k]

\* No interruption inside the window q.
Steady(q) == \A i \in 1 .. Len(q) - 1 : q[i + 1].at - q[i].at <= GapLimit

\* While the watcher waits for a draft it holds the newest frames.
Follows(l, r) ==
    /\ l.phase = "waiting_for_stream" => l.draft = <<>>
    /\ l.phase = "draft_candidate" => Suffix(l.draft, r) /\ Steady(l.draft)

\* The same sample pushed on a window and on its end.
LEMMA PushSuffix ==
    ASSUME NEW size \in Nat \ {0}, NEW q \in Windows(size),
           NEW r \in Windows(size), Suffix(q, r), NEW s \in Samples
    PROVE  Suffix(Push(q, s, size), Push(r, s, size))
  <1> DEFINE p == IF Len(q) = size THEN Tail(q) ELSE q
             w == IF Len(r) = size THEN Tail(r) ELSE r
  <1>1. /\ q \in Seq(Samples) /\ Len(q) \in Nat /\ Len(q) <= size
        /\ r \in Seq(Samples) /\ Len(r) \in Nat /\ Len(r) <= size
    BY DEF Windows
  <1>2. PICK k \in 0 .. Len(r) : /\ Len(q) = Len(r) - k
                                 /\ \A i \in 1 .. Len(q) : q[i] = r[i + k]
    BY DEF Suffix
  <1>3. /\ p \in Seq(Samples) /\ w \in Seq(Samples)
        /\ Suffix(p, w)
    <2>1. CASE Len(q) = size
      <3>1. k = 0 /\ Len(r) = size /\ q # <<>> /\ r # <<>>
        BY <1>1, <1>2, <2>1
      <3>2. /\ p = Tail(q) /\ w = Tail(r)
            /\ p \in Seq(Samples) /\ w \in Seq(Samples)
            /\ Len(p) = size - 1 /\ Len(w) = size - 1
            /\ \A i \in 1 .. size - 1 : p[i] = q[i + 1] /\ w[i] = r[i + 1]
        BY <1>1, <2>1, <3>1
      <3> HIDE DEF p, w
      <3>3. \A i \in 1 .. size - 1 : p[i] = w[i + 0]
        BY <1>2, <2>1, <3>1, <3>2
      <3> QED
        BY <3>2, <3>3 DEF Suffix
    <2>2. CASE Len(q) # size /\ Len(r) = size
      <3>1. k \in 1 .. size /\ r # <<>>
        BY <1>1, <1>2, <2>2
      <3>2. /\ p = q /\ w = Tail(r)
            /\ w \in Seq(Samples)
            /\ Len(w) = size - 1
            /\ \A i \in 1 .. size - 1 : w[i] = r[i + 1]
        BY <1>1, <2>2, <3>1
      <3> HIDE DEF p, w
      <3>3. \A i \in 1 .. Len(p) : p[i] = w[i + (k - 1)]
        <4> SUFFICES ASSUME NEW i \in 1 .. Len(q) PROVE q[i] = w[i + (k - 1)]
          BY <3>2
        <4>1. i + (k - 1) \in 1 .. size - 1 /\ (i + (k - 1)) + 1 = i + k
          BY <1>1, <1>2, <2>2, <3>1
        <4> QED
          BY <1>2, <3>2, <4>1
      <3>4. k - 1 \in 0 .. Len(w) /\ Len(p) = Len(w) - (k - 1)
        BY <1>2, <2>2, <3>1, <3>2
      <3> QED
        BY <1>1, <3>2, <3>3, <3>4 DEF Suffix
    <2>3. CASE Len(q) # size /\ Len(r) # size
      BY <1>1, <2>3
    <2> QED
      BY <2>1, <2>2, <2>3
  <1>4. Push(q, s, size) = Append(p, s) /\ Push(r, s, size) = Append(w, s)
    BY DEF Push, p, w
  <1> HIDE DEF p, w
  <1>5. PICK j \in 0 .. Len(w) : /\ Len(p) = Len(w) - j
                                 /\ \A i \in 1 .. Len(p) : p[i] = w[i + j]
    BY <1>3 DEF Suffix
  <1> DEFINE p1 == Append(p, s)
             w1 == Append(w, s)
  <1>6. /\ Len(p) \in Nat /\ Len(w) \in Nat
        /\ Len(p1) = Len(p) + 1 /\ Len(w1) = Len(w) + 1
        /\ \A i \in 1 .. Len(p) : p1[i] = p[i]
        /\ \A i \in 1 .. Len(w) : w1[i] = w[i]
        /\ p1[Len(p) + 1] = s /\ w1[Len(w) + 1] = s
    BY <1>3
  <1> HIDE DEF p1, w1
  <1>7. ASSUME NEW i \in 1 .. Len(p1) PROVE p1[i] = w1[i + j]
    <2>1. CASE i = Len(p) + 1
      <3>1. i + j = Len(w) + 1
        BY <1>5, <1>6, <2>1
      <3> QED
        BY <1>6, <2>1, <3>1
    <2>2. CASE i # Len(p) + 1
      <3>1. i \in 1 .. Len(p) /\ i + j \in 1 .. Len(w)
        BY <1>5, <1>6, <2>2
      <3> QED
        BY <1>5, <1>6, <3>1
    <2> QED
      BY <2>1, <2>2
  <1>8. j \in 0 .. Len(w1) /\ Len(p1) = Len(w1) - j
    BY <1>5, <1>6
  <1>9. Suffix(p1, w1)
    BY <1>7, <1>8 DEF Suffix
  <1> QED
    BY <1>4, <1>9 DEF p1, w1

\* A sample without interruption before it.
LEMMA PushSteady ==
    ASSUME NEW size \in Nat \ {0}, NEW q \in Windows(size), Steady(q),
           NEW s \in Samples, q # <<>> => s.at - Last(q).at <= GapLimit
    PROVE  Steady(Push(q, s, size))
  <1> DEFINE p == IF Len(q) = size THEN Tail(q) ELSE q
  <1>1. q \in Seq(Samples) /\ Len(q) \in Nat /\ Len(q) <= size
    BY DEF Windows
  <1>2. /\ p \in Seq(Samples) /\ Steady(p)
        /\ p # <<>> => q # <<>> /\ p[Len(p)] = q[Len(q)]
    <2>1. CASE Len(q) = size
      <3>1. q # <<>>
        BY <1>1, <2>1
      <3>2. /\ p = Tail(q) /\ p \in Seq(Samples) /\ Len(p) = Len(q) - 1
            /\ \A i \in 1 .. Len(q) - 1 : p[i] = q[i + 1]
        BY <1>1, <2>1, <3>1
      <3> HIDE DEF p
      <3>3. Steady(p)
        <4> SUFFICES ASSUME NEW i \in 1 .. Len(p) - 1
                     PROVE  p[i + 1].at - p[i].at <= GapLimit
          BY DEF Steady
        <4>1. /\ p[i + 1] = q[(i + 1) + 1] /\ p[i] = q[i + 1]
              /\ i + 1 \in 1 .. Len(q) - 1
          BY <1>1, <3>2
        <4> QED
          BY <4>1 DEF Steady
      <3>4. p # <<>> => p[Len(p)] = q[Len(q)]
        <4> SUFFICES ASSUME p # <<>> PROVE p[Len(p)] = q[Len(q)]
          OBVIOUS
        <4>1. Len(p) \in 1 .. Len(q) - 1 /\ Len(p) + 1 = Len(q)
          BY <1>1, <3>2
        <4> QED
          BY <3>2, <4>1
      <3> QED
        BY <3>1, <3>2, <3>3, <3>4
    <2>2. CASE Len(q) # size
      BY <1>1, <2>2
    <2> QED
      BY <2>1, <2>2
  <1>3. Push(q, s, size) = Append(p, s)
    BY DEF Push, p
  <1> HIDE DEF p
  <1> DEFINE p1 == Append(p, s)
  <1>4. /\ Len(p) \in Nat /\ Len(p1) = Len(p) + 1
        /\ \A i \in 1 .. Len(p) : p1[i] = p[i]
        /\ p1[Len(p) + 1] = s
    BY <1>2
  <1> HIDE DEF p1
  <1>5. Steady(p1)
    <2> SUFFICES ASSUME NEW i \in 1 .. Len(p1) - 1
                 PROVE  p1[i + 1].at - p1[i].at <= GapLimit
      BY DEF Steady
    <2>1. CASE i = Len(p)
      <3>1. p # <<>> /\ p1[i + 1] = s /\ p1[i] = p[Len(p)]
        BY <1>2, <1>4, <2>1
      <3> QED
        BY <1>2, <3>1 DEF Last
    <2>2. CASE i # Len(p)
      <3>1. i \in 1 .. Len(p) - 1 /\ p1[i] = p[i] /\ p1[i + 1] = p[i + 1]
        BY <1>4, <2>2
      <3> QED
        BY <1>2, <3>1 DEF Steady
    <2> QED
      BY <2>1, <2>2
  <1> QED
    BY <1>3, <1>5 DEF p1

\* The draft stage follows the newest frames, and the frames that confirm a
\* draft are a full window of them.
LEMMA DraftStageFollows ==
    ASSUME NEW l \in Lifecycles, NEW t \in 1 .. MaxTime, NEW r \in Readings,
           NEW w \in Windows(DraftWindow), Follows(l, w)
    PROVE  LET k == DraftStage(l, t, r)
               v == Push(w, [at |-> t, ok |-> r.screen = "draft" /\ r.valid],
                         DraftWindow)
           IN  /\ Follows(k, v)
               /\ k.phase = "draft_started" /\ l.phase # "draft_started" =>
                     /\ Len(v) = DraftWindow /\ Supported(v, DraftSupport)
                     /\ Steady(v)
  <1> DEFINE ok == r.screen = "draft" /\ r.valid
             s == [at |-> t, ok |-> ok]
             k == DraftStage(l, t, r)
             v == Push(w, s, DraftWindow)
  <1>0. DraftWindow \in Nat \ {0} /\ GapLimit \in Nat
    BY WindowAssumption
  <1>1. ok \in BOOLEAN
    BY DEF Readings
  <1>2. s \in Samples /\ s.at = t
    <2> HIDE DEF ok
    <2> QED
      BY <1>1 DEF Samples
  <1>3. v \in Windows(DraftWindow)
    <2> HIDE DEF s
    <2> QED
      BY <1>0, <1>2, PushWindow
  <1>4. l.draft \in Windows(DraftWindow) /\ l.phase \in CapturePhase
    BY DEF Lifecycles
  <1>5. Steady(<<>>) /\ Suffix(<<>>, w)
    <2>1. Len(w) \in Nat
      BY DEF Windows
    <2> QED
      BY <2>1 DEF Steady, Suffix
  <1>6. CASE ok /\ l.phase \in {"waiting_for_stream", "draft_candidate"}
    <2> DEFINE c == Continued(l.draft, t)
               q == Push(c, s, DraftWindow)
               confirmed == /\ l.phase # "draft_started"
                            /\ Len(q) >= DraftWindow /\ Supported(q, DraftSupport)
                            /\ t - q[1].at >= DraftSpan
    <2>1. k = IF confirmed
              THEN [l EXCEPT !.draft = q, !.phase = "draft_started",
                             !.drafted = TRUE, !.next = t + Interval]
              ELSE [l EXCEPT !.draft = q,
                             !.phase = IF @ = "draft_started" THEN @
                                       ELSE "draft_candidate"]
      <3>1. ok = TRUE
        BY <1>6
      <3> QED
        BY <1>6, <3>1 DEF DraftStage, ValidDraft
    <2>2. c \in Windows(DraftWindow)
      BY <1>0, <1>4, ContinuedWindow
    <2>3. Steady(c) /\ Suffix(c, w)
      BY <1>5, <1>6 DEF Continued, Follows
    <2>4. c # <<>> => s.at - Last(c).at <= GapLimit
      <3> SUFFICES ASSUME c # <<>> PROVE t - Last(c).at <= GapLimit
        BY <1>2
      <3>1. c = l.draft /\ ~(t - Last(c).at > GapLimit)
        BY DEF Continued
      <3>2. Last(c).at \in Nat
        <4>1. c \in Seq(Samples) /\ Len(c) \in Nat \ {0}
          BY <2>2 DEF Windows
        <4>2. c[Len(c)] \in Samples
          BY <4>1
        <4> QED
          BY <4>2 DEF Last, Samples
      <3> QED
        BY <1>0, <3>1, <3>2
    <2> HIDE DEF c, s
    <2>5. Steady(q) /\ Suffix(q, v) /\ q \in Windows(DraftWindow)
      BY <1>0, <1>2, <2>2, <2>3, <2>4, PushSteady, PushSuffix, PushWindow
    <2> HIDE DEF q, v
    <2>6. ASSUME Len(q) >= DraftWindow PROVE q = v /\ Len(v) = DraftWindow
      <3>1. PICK j \in 0 .. Len(v) : /\ Len(q) = Len(v) - j
                                     /\ \A i \in 1 .. Len(q) : q[i] = v[i + j]
        BY <2>5 DEF Suffix
      <3>2. /\ Len(v) \in Nat /\ Len(v) <= DraftWindow /\ v \in Seq(Samples)
            /\ q \in Seq(Samples) /\ Len(q) \in Nat
        BY <1>3, <2>5 DEF Windows
      <3>3. j = 0 /\ Len(q) = Len(v) /\ Len(v) = DraftWindow
        BY <1>0, <2>6, <3>1, <3>2
      <3>4. \A i \in 1 .. Len(q) : q[i] = v[i]
        BY <3>1, <3>3
      <3> QED
        BY <3>2, <3>3, <3>4
    <2> HIDE DEF k
    <2>7. /\ k.draft = q
          /\ k.phase = IF confirmed THEN "draft_started" ELSE "draft_candidate"
      BY <1>6, <2>1 DEF Lifecycles
    <2>8. Follows(k, v)
      BY <2>5, <2>7 DEF Follows
    <2>9. k.phase = "draft_started" =>
            /\ Len(v) = DraftWindow /\ Supported(v, DraftSupport) /\ Steady(v)
      BY <2>5, <2>6, <2>7
    <2> QED
      BY <2>8, <2>9 DEF k, v, s
  <1>7. CASE ok /\ l.phase = "draft_started"
    <2>1. k.phase = "draft_started"
      <3>1. ok = TRUE
        BY <1>7
      <3> QED
        BY <1>7, <3>1 DEF DraftStage, ValidDraft, Lifecycles
    <2> HIDE DEF k
    <2> QED
      BY <1>7, <2>1 DEF Follows, k
  <1>8. CASE ~ok /\ l.phase = "draft_candidate"
    <2> DEFINE q == Push(l.draft, s, DraftWindow)
               c == ~Supported(q, 1)
                    \/ (l.draft # <<>> /\ t - Last(l.draft).at > GapLimit)
    <2>1. k = IF c THEN [l EXCEPT !.draft = <<>>,
                                  !.phase = "waiting_for_stream"]
              ELSE [l EXCEPT !.draft = q]
      <3>1. ok = FALSE
        BY <1>1, <1>8
      <3>2. s = [at |-> t, ok |-> FALSE]
        BY <3>1
      <3> QED
        BY <1>8, <3>1, <3>2 DEF DraftStage, OtherThanDraft
    <2> HIDE DEF s
    <2>2. l.draft # <<>> => Last(l.draft).at \in Nat
      <3> SUFFICES ASSUME l.draft # <<>> PROVE Last(l.draft).at \in Nat
        OBVIOUS
      <3>1. l.draft \in Seq(Samples) /\ Len(l.draft) \in Nat \ {0}
        BY <1>4 DEF Windows
      <3>2. l.draft[Len(l.draft)] \in Samples
        BY <3>1
      <3> QED
        BY <3>2 DEF Last, Samples
    <2>3. ~c => Suffix(q, v) /\ Steady(q)
      <3> SUFFICES ASSUME ~c PROVE Suffix(q, v) /\ Steady(q)
        OBVIOUS
      <3>1. l.draft # <<>> => s.at - Last(l.draft).at <= GapLimit
        BY <1>0, <1>2, <2>2
      <3>2. Suffix(l.draft, w) /\ Steady(l.draft)
        BY <1>8 DEF Follows
      <3> QED
        BY <1>0, <1>2, <1>4, <3>1, <3>2, PushSuffix, PushSteady
    <2> HIDE DEF k, q, v, c
    <2>4. /\ k.phase = IF c THEN "waiting_for_stream" ELSE "draft_candidate"
          /\ k.draft = IF c THEN <<>> ELSE q
      BY <1>8, <2>1 DEF Lifecycles
    <2>5. Follows(k, v) /\ k.phase # "draft_started"
      BY <2>3, <2>4 DEF Follows
    <2> QED
      BY <2>5 DEF k, v, s
  <1>9. CASE /\ l.phase \notin {"draft_candidate"} \/ ok
             /\ ~ok \/ l.phase \notin {"waiting_for_stream", "draft_candidate",
                                       "draft_started"}
    <2>1. k = l /\ l.phase # "draft_candidate"
      BY <1>9 DEF DraftStage
    <2> HIDE DEF k
    <2> QED
      BY <2>1 DEF Follows, k
  <1> QED
    BY <1>1, <1>6, <1>7, <1>8, <1>9

\* No stage after the first one touches the draft window or confirms a draft.
LEMMA LaterStages ==
    ASSUME NEW l \in Lifecycles, NEW t \in 1 .. MaxTime, NEW r \in Readings
    PROVE  LET k == DraftStage(l, t, r)
               o == observe(l, t, r).object
           IN  /\ o.draft = k.draft
               /\ o.phase = k.phase \/ o.phase = "game_started"
  <1> DEFINE draft == DraftStage(l, t, r)
             game == GameStage(draft, t, r)
             mapped == MapStage(game, t, r)
             periodic == PeriodicStage(mapped, t)
             o == FinalStage(periodic, t)
  <1>1. observe(l, t, r).object = o
    BY DEF observe
  <1>2. draft \in Lifecycles
    BY DraftStageMoves
  <1>3. /\ game \in Lifecycles /\ game.draft = draft.draft
        /\ game.phase = draft.phase \/ game.phase = "game_started"
    <2> HIDE DEF draft
    <2> QED
      BY <1>2, GameStageMoves
  <1>4. /\ mapped \in Lifecycles /\ mapped.draft = game.draft
        /\ mapped.phase = game.phase
    <2> HIDE DEF game
    <2> QED
      BY <1>3, MapStageMoves
  <1>5. /\ periodic \in Lifecycles /\ periodic.draft = mapped.draft
        /\ periodic.phase = mapped.phase
    <2> HIDE DEF mapped
    <2> QED
      BY <1>4, PeriodicStageMoves
  <1>6. o.draft = periodic.draft /\ o.phase = periodic.phase
    <2> HIDE DEF periodic
    <2> QED
      BY <1>5, FinalStageMoves
  <1> QED
    BY <1>1, <1>3, <1>4, <1>5, <1>6

\* The watcher that runs follows the newest frames of its process.
FollowsRecent == pc \in {"frame", "write"} => Follows(lc, recent)

\* What DraftNeedsSustainedFrames says of one step.
SustainedStep ==
    lc.phase # "draft_started" /\ lc'.phase = "draft_started" /\ pc = "frame"
        => /\ Len(recent') = DraftWindow
           /\ Supported(recent', DraftSupport)
           /\ \A i \in 1 .. DraftWindow - 1 :
                 recent'[i + 1].at - recent'[i].at <= GapLimit

\* A frame that is observed.
LEMMA ObservedFollows ==
    ASSUME Typed, FollowsRecent, NEW g \in Gaps, Arrives(g),
           NEW m \in 1 .. MaxMap, Observed(g, m)
    PROVE  FollowsRecent' /\ SustainedStep
  <1>1. /\ pc = "frame" /\ now + g \in 1 .. MaxTime
        /\ Checked(now + g) \in Lifecycles
        /\ Checked(now + g) = lc \/ Checked(now + g).phase = "ended_grace"
    BY Arrived DEF Arrives
  <1> DEFINE l == Checked(now + g)
             t == now + g
  <1>2. Follows(l, recent) /\ (lc.phase # "draft_started" => l.phase # "draft_started")
    BY <1>1 DEF Follows, FollowsRecent
  <1>3. PICK r \in FrameReadings(m) :
            /\ lc' = observe(l, t, r).object
            /\ recent' = Push(recent, [at |-> t,
                                       ok |-> r.screen = "draft" /\ r.valid],
                              DraftWindow)
    BY DEF Observed
  <1>4. r \in Readings
    BY <1>3 DEF FrameReadings, Readings
  <1> DEFINE k == DraftStage(l, t, r)
  <1> HIDE DEF l, t
  <1>5. /\ Follows(k, recent')
        /\ k.phase = "draft_started" /\ l.phase # "draft_started" =>
              /\ Len(recent') = DraftWindow /\ Supported(recent', DraftSupport)
              /\ Steady(recent')
    BY <1>1, <1>2, <1>3, <1>4, DraftStageFollows DEF Typed, l, t
  <1>6. lc'.draft = k.draft /\ (lc'.phase = k.phase \/ lc'.phase = "game_started")
    BY <1>1, <1>3, <1>4, LaterStages DEF l, t
  <1> HIDE DEF k
  <1>7. FollowsRecent'
    BY <1>5, <1>6 DEF FollowsRecent, Follows
  <1>8. SustainedStep
    BY <1>2, <1>5, <1>6 DEF SustainedStep, Steady
  <1> QED
    BY <1>7, <1>8

\* Every step of the watcher.
LEMMA FollowsStep ==
    ASSUME Typed, FollowsRecent, [Next]_vars
    PROVE  FollowsRecent' /\ [SustainedStep]_vars
  <1>1. ASSUME NEW g \in Gaps, ObserveFrame(g)
        PROVE  FollowsRecent' /\ SustainedStep
    <2>1. Arrives(g) /\ Observed(g, MapNow)
      BY <1>1 DEF ObserveFrame
    <2>2. MapNow \in 1 .. MaxMap
      BY <2>1, Arrived
    <2> QED
      BY <2>1, <2>2, ObservedFollows
  <1>2. ASSUME NEW g \in Gaps, Arrives(g),
               lc' = Checked(now + g)
                 \/ lc' = mark_provider_complete(Checked(now + g), now + g),
               UNCHANGED <<pc, recent>>
        PROVE  FollowsRecent' /\ SustainedStep
    <2>1. /\ pc = "frame" /\ now + g \in Nat /\ Checked(now + g) \in Lifecycles
          /\ Checked(now + g) = lc \/ Checked(now + g).phase = "ended_grace"
      BY <1>2, Arrived
    <2>2. lc' = lc \/ lc'.phase = "ended_grace"
      BY <1>2, <2>1, CheckedMoves
    <2> QED
      BY <1>2, <2>1, <2>2 DEF FollowsRecent, Follows, SustainedStep
  <1>3. ASSUME NEW g \in Gaps, NextMap(g) PROVE FollowsRecent' /\ SustainedStep
    <2>1. Arrives(g) /\ map + 1 \in 1 .. MaxMap
      BY <1>3, PeriodAssumption DEF NextMap, Typed
    <2>2. CASE Observed(g, map + 1)
      BY <2>1, <2>2, ObservedFollows
    <2>3. CASE /\ lc' = Checked(now + g)
               /\ map' = map + 1 /\ rewound' = TRUE
               /\ UNCHANGED <<reading, pending, pc, recent>>
      BY <1>2, <2>1, <2>3
    <2> QED
      BY <1>3, <2>2, <2>3 DEF NextMap
  <1>4. ASSUME NEW g \in Gaps, CloseAfterGrace(g)
        PROVE  FollowsRecent' /\ SustainedStep
    <2>1. Checked(now + g) \in Lifecycles
      BY <1>4, Arrived DEF CloseAfterGrace
    <2>2. lc'.phase = "closed" /\ pc' = "exited"
      BY <1>4, <2>1, ClosedIsLifecycle DEF CloseAfterGrace
    <2> QED
      BY <2>2 DEF FollowsRecent, SustainedStep
  <1>5. CASE FramesRunOut
    <2>1. lc'.phase = "closed" /\ pc' = "exited"
      BY <1>5, ClosedIsLifecycle DEF FramesRunOut, Typed
    <2> QED
      BY <2>1 DEF FollowsRecent, SustainedStep
  <1>6. CASE Crash
    <2>1. pc' = "down" /\ lc'.phase = "waiting_for_stream"
      BY <1>6 DEF Crash, Fresh
    <2> QED
      BY <2>1 DEF FollowsRecent, SustainedStep
  <1>7. CASE Restart
    <2>1. pc = "down" /\ lc' = Restored /\ recent' = <<>>
      BY <1>7 DEF Restart
    <2>2. Restored.draft = <<>>
      BY RestoredMoves DEF Typed
    <2>3. Suffix(<<>>, <<>>) /\ Steady(<<>>)
      BY DEF Suffix, Steady
    <2> QED
      BY <2>1, <2>2, <2>3 DEF FollowsRecent, Follows, SustainedStep
  <1>8. CASE WriteTrigger \/ AppendObservation
    BY <1>8 DEF WriteTrigger, AppendObservation, FollowsRecent, SustainedStep
  <1>9. CASE \/ ProviderAdvances \/ ProviderStored \/ ProviderCompletes
             \/ UNCHANGED vars
    BY <1>9 DEF ProviderAdvances, ProviderStored, ProviderCompletes, vars,
                watcher, FollowsRecent, SustainedStep
  <1> QED
    BY <1>1, <1>2, <1>3, <1>4, <1>5, <1>6, <1>7, <1>8, <1>9
       DEF Next, WatcherStep, Frame, DropFrame, AwaitCompletion, AwaitFrame

-----------------------------------------------------------------------------
(* The Maps of the captures.                                               *)

\* The rows after the first k name no Map later than m.
UpTo(rows, k, m) == \A i \in DOMAIN rows : k < i => rows[i].map <= m

\* They never go back to an earlier Map, and no two of them announce the same
\* one.
MapsOrdered(rows, k) ==
    \A i, j \in DOMAIN rows :
        k < i /\ i < j =>
            /\ rows[i].map # 0 /\ rows[j].map # 0
                  => rows[i].map <= rows[j].map
            /\ rows[i].event = "map_changed" /\ rows[j].event = "map_changed"
                  => rows[i].map < rows[j].map

\* The Map m, which a row of event e is going to name, is later than the Maps
\* that they announce.
NewChange(rows, k, e, m) ==
    e = "map_changed" =>
        /\ m # 0
        /\ \A i \in DOMAIN rows :
              k < i /\ rows[i].event = "map_changed" => rows[i].map < m

\* The rows since the last start on a Map left behind, the object and the frame
\* in hand are never ahead of the Map of the watcher, nor that one of the
\* provider's, from which any other restart takes it.  An object that has seen
\* a Map since its restart has seen the latest of these rows, so a change that
\* it sees is a change to a Map none of them announces yet.
MapInv ==
    /\ Ranked(pending)
    /\ managed =>
          /\ map <= providerMap /\ UpTo(manifest, since, map)
          /\ MapsOrdered(manifest, since)
          /\ lc.map <= map
          /\ lc.map # 0 => UpTo(manifest, since, lc.map)
          /\ pc = "write" /\ reading.map # 0
                => reading.map = map /\ lc.map = map
          /\ \A e \in Range(pending) :
                NewChange(manifest, since, e, reading.map)

\* The Map of a row is a number.
LEMMA RowMap ==
    ASSUME NEW rows \in Seq(Rows), NEW i \in DOMAIN rows
    PROVE  rows[i].map \in Nat
  <1>1. rows[i] \in Rows /\ MaxMap \in Nat
    BY PeriodAssumption
  <1> QED
    BY <1>1 DEF Rows

\* A new row of the latest Map keeps the order.
LEMMA AppendMaps ==
    ASSUME NEW rows \in Seq(Rows), NEW row \in Rows, NEW k \in Nat,
           MapsOrdered(rows, k),
           row.map # 0 => UpTo(rows, k, row.map),
           NewChange(rows, k, row.event, row.map)
    PROVE  /\ MapsOrdered(Append(rows, row), k)
           /\ \A m : row.map <= m /\ UpTo(rows, k, m)
                       => UpTo(Append(rows, row), k, m)
  <1> DEFINE more == Append(rows, row)
  <1>1. /\ Len(rows) \in Nat
        /\ DOMAIN more = 1 .. Len(rows) + 1 /\ DOMAIN rows = 1 .. Len(rows)
        /\ \A i \in DOMAIN rows : more[i] = rows[i]
        /\ more[Len(rows) + 1] = row
    BY AppendRow
  <1> HIDE DEF more
  <1>2. MapsOrdered(more, k)
    <2> SUFFICES ASSUME NEW i \in DOMAIN more, NEW j \in DOMAIN more, k < i, i < j
                 PROVE  /\ more[i].map # 0 /\ more[j].map # 0
                              => more[i].map <= more[j].map
                        /\ more[i].event = "map_changed"
                           /\ more[j].event = "map_changed"
                              => more[i].map < more[j].map
      BY DEF MapsOrdered
    <2>1. i \in DOMAIN rows /\ more[i] = rows[i]
      BY <1>1
    <2>2. CASE j \in DOMAIN rows
      BY <1>1, <2>1, <2>2 DEF MapsOrdered
    <2>3. CASE j \notin DOMAIN rows
      <3>1. more[j] = row
        BY <1>1, <2>3
      <3> QED
        BY <2>1, <3>1 DEF UpTo, NewChange
    <2> QED
      BY <2>2, <2>3
  <1>3. ASSUME NEW m, row.map <= m, UpTo(rows, k, m) PROVE UpTo(more, k, m)
    <2> SUFFICES ASSUME NEW i \in DOMAIN more, k < i PROVE more[i].map <= m
      BY DEF UpTo
    <2>1. CASE i \in DOMAIN rows
      BY <1>1, <1>3, <2>1 DEF UpTo
    <2>2. CASE i \notin DOMAIN rows
      BY <1>1, <1>3, <2>2
    <2> QED
      BY <2>1, <2>2
  <1> QED
    BY <1>2, <1>3 DEF more

\* A frame that is observed while the watcher is on its Map or a later one of
\* the provider.
LEMMA ObservedMaps ==
    ASSUME Typed, MapInv, NEW g \in Gaps, Arrives(g), NEW m \in 1 .. MaxMap,
           Observed(g, m), managed => map <= m /\ m <= providerMap,
           UNCHANGED <<manifest, providerMap, managed, since>>
    PROVE  MapInv'
  <1>1. /\ pc = "frame" /\ now + g \in 1 .. MaxTime
        /\ Checked(now + g) \in Lifecycles /\ Checked(now + g).map = lc.map
    BY Arrived DEF Arrives
  <1>2. PICK r \in FrameReadings(m) :
            /\ lc' = observe(Checked(now + g), now + g, r).object
            /\ pending' = observe(Checked(now + g), now + g, r).triggers
            /\ reading' = r /\ map' = m
    BY DEF Observed
  <1>3. r \in Readings /\ r.map \in {0, m}
    BY <1>2 DEF FrameReadings, Readings
  <1>4. /\ Ranked(pending')
        /\ lc'.map = IF r.map = 0 THEN lc.map ELSE r.map
        /\ "map_changed" \in Range(pending') =>
              r.map # 0 /\ lc.map # 0 /\ r.map # lc.map
    BY <1>1, <1>2, <1>3, ObserveMoves DEF ObservedFrom
  <1>5. /\ manifest \in Seq(Rows) /\ lc.map \in 0 .. MaxMap
        /\ map \in Nat /\ m \in Nat /\ MaxMap \in Nat
    BY PeriodAssumption DEF Typed, Lifecycles
  <1>6. \A i \in DOMAIN manifest : manifest[i].map \in Nat
    BY <1>5, RowMap
  <1>7. ASSUME managed
        PROVE  /\ UpTo(manifest, since, m) /\ MapsOrdered(manifest, since)
               /\ lc'.map <= m
               /\ lc'.map # 0 => UpTo(manifest, since, lc'.map)
               /\ \A e \in Range(pending') : NewChange(manifest, since, e, r.map)
    <2>1. /\ UpTo(manifest, since, map) /\ MapsOrdered(manifest, since)
          /\ lc.map <= map
          /\ lc.map # 0 => UpTo(manifest, since, lc.map)
          /\ map <= m
      BY <1>7 DEF MapInv
    <2>2. UpTo(manifest, since, m)
      BY <1>5, <1>6, <2>1 DEF UpTo
    <2>3. lc'.map <= m /\ (lc'.map # 0 => UpTo(manifest, since, lc'.map))
      BY <1>3, <1>4, <1>5, <2>1, <2>2
    <2>4. ASSUME "map_changed" \in Range(pending')
          PROVE  /\ r.map # 0
                 /\ \A i \in DOMAIN manifest :
                       since < i => manifest[i].map < r.map
      BY <1>3, <1>4, <1>5, <1>6, <2>1, <2>4 DEF UpTo
    <2>5. \A e \in Range(pending') : NewChange(manifest, since, e, r.map)
      BY <2>4 DEF NewChange
    <2> QED
      BY <2>1, <2>2, <2>3, <2>5
  <1> QED
    BY <1>2, <1>3, <1>4, <1>7 DEF MapInv

\* Every step keeps the order of the Maps.
LEMMA MapStep ==
    ASSUME Typed, MapInv, [Next]_vars
    PROVE  MapInv'
  <1>0. /\ manifest \in Seq(Rows) /\ pending \in Seq(Triggers)
        /\ lc \in Lifecycles /\ map \in Nat /\ providerMap \in Nat
        /\ storedMap \in Nat /\ storedMap <= providerMap /\ since \in Nat
        /\ lc.map \in Nat /\ MaxMap \in Nat
    BY PeriodAssumption DEF Typed, Lifecycles
  <1>1. map <= MapNow /\ MapNow <= IF map <= providerMap THEN providerMap ELSE map
    BY <1>0 DEF MapNow
  <1>2. ASSUME NEW g \in Gaps, ObserveFrame(g) PROVE MapInv'
    <2>1. Arrives(g) /\ Observed(g, MapNow)
          /\ UNCHANGED <<manifest, providerMap, managed, since>>
      BY <1>2 DEF ObserveFrame, provider
    <2>2. MapNow \in 1 .. MaxMap
      BY <2>1, Arrived
    <2>3. managed => map <= MapNow /\ MapNow <= providerMap
      BY <1>0, <1>1 DEF MapInv
    <2> QED
      BY <2>1, <2>2, <2>3, ObservedMaps
  <1>3. ASSUME NEW g \in Gaps, NextMap(g) PROVE MapInv'
    <2>1. Arrives(g) /\ ~managed /\ map + 1 \in 1 .. MaxMap
          /\ UNCHANGED <<manifest, providerMap, managed, since>>
      BY <1>0, <1>3 DEF NextMap, provider, Typed
    <2>2. CASE Observed(g, map + 1)
      BY <2>1, <2>2, ObservedMaps
    <2>3. CASE pending' = pending
      BY <2>1, <2>3 DEF MapInv
    <2> QED
      BY <1>3, <2>2, <2>3 DEF NextMap
  <1>4. ASSUME NEW g \in Gaps, Arrives(g), lc'.map = lc.map, map' = MapNow,
               pc' # "write",
               UNCHANGED <<manifest, reading, pending, providerMap, managed,
                           since>>
        PROVE  MapInv'
    <2>1. managed => map' <= providerMap
      BY <1>0, <1>1, <1>4 DEF MapInv
    <2>2. \A i \in DOMAIN manifest : manifest[i].map \in Nat
      BY <1>0, RowMap
    <2>3. map' \in Nat /\ map <= map'
      BY <1>0, <1>1, <1>4 DEF MapNow
    <2>4. managed => UpTo(manifest, since', map')
      BY <1>0, <1>4, <2>2, <2>3 DEF MapInv, UpTo
    <2>5. managed => lc'.map <= map'
      BY <1>0, <1>4, <2>3 DEF MapInv
    <2> QED
      BY <1>4, <2>1, <2>4, <2>5 DEF MapInv
  <1>5. ASSUME NEW g \in Gaps, CloseAfterGrace(g) PROVE MapInv'
    <2>1. Arrives(g) /\ map' = MapNow /\ pc' = "exited"
          /\ UNCHANGED <<manifest, reading, pending, providerMap, managed, since>>
      BY <1>5 DEF CloseAfterGrace, provider
    <2>2. lc'.map = lc.map
      BY <1>5, <2>1, Arrived, ClosedIsLifecycle DEF CloseAfterGrace
    <2> QED
      BY <1>4, <2>1, <2>2
  <1>6. ASSUME NEW g \in Gaps, DropFrame(g) PROVE MapInv'
    <2>1. Arrives(g) /\ map' = MapNow /\ pc' = pc
          /\ UNCHANGED <<manifest, reading, pending, providerMap, managed, since>>
      BY <1>6 DEF DropFrame, provider
    <2>2. lc'.map = lc.map /\ pc # "write"
      BY <1>6, <2>1, Arrived DEF DropFrame
    <2> QED
      BY <1>4, <2>1, <2>2
  <1>7. ASSUME NEW g \in Gaps, AwaitCompletion(g) PROVE MapInv'
    BY <1>7 DEF AwaitCompletion, provider, MapInv
  <1>8. ASSUME NEW g \in Gaps, AwaitFrame(g) PROVE MapInv'
    <2>1. Arrives(g) /\ UNCHANGED <<manifest, reading, pending, map, pc,
                                    providerMap, managed, since>>
      BY <1>8 DEF AwaitFrame, provider
    <2>2. lc'.map = lc.map
      BY <1>8, <2>1, Arrived DEF AwaitFrame
    <2> QED
      BY <2>1, <2>2 DEF MapInv
  <1>9. CASE WriteTrigger
    <2> DEFINE row == [event |-> Head(pending), at |-> now, map |-> reading.map]
    <2>1. /\ pc = "write" /\ pc' = pc /\ pending # <<>>
          /\ manifest' = Append(manifest, row) /\ pending' = Tail(pending)
          /\ UNCHANGED <<lc, reading, map, providerMap, managed, since>>
      BY <1>9 DEF WriteTrigger, provider
    <2>2. /\ Head(pending) \in Range(pending) /\ Ranked(Tail(pending))
          /\ \A x \in Range(Tail(pending)) :
                x \in Range(pending) /\ Rank(Head(pending)) < Rank(x)
      BY <1>0, <2>1, RankedHead DEF MapInv
    <2>3. row \in Rows
      <3>1. Head(pending) \in Triggers /\ now > 0
        BY <1>0, <2>1 DEF Typed
      <3> QED
        BY <3>1, CaptureRow
    <2>4. row.event = Head(pending) /\ row.map = reading.map /\ row.map \in Nat
      BY <1>0, <2>3 DEF Rows
    <2> HIDE DEF row
    <2>5. ASSUME managed
          PROVE  /\ MapsOrdered(manifest', since) /\ UpTo(manifest', since, map)
                 /\ lc.map # 0 => UpTo(manifest', since, lc.map)
                 /\ \A e \in Range(pending') :
                       NewChange(manifest', since, e, reading.map)
      <3>1. /\ UpTo(manifest, since, map) /\ MapsOrdered(manifest, since)
            /\ lc.map # 0 => UpTo(manifest, since, lc.map)
            /\ reading.map # 0 => reading.map = map /\ lc.map = map
            /\ \A e \in Range(pending) :
                  NewChange(manifest, since, e, reading.map)
        BY <2>1, <2>5 DEF MapInv
      <3>2. /\ MapsOrdered(manifest', since)
            /\ \A m : row.map <= m /\ UpTo(manifest, since, m)
                        => UpTo(manifest', since, m)
        BY <1>0, <2>1, <2>2, <2>3, <2>4, <3>1, AppendMaps
      <3>3. row.map <= map /\ (lc.map # 0 => row.map <= lc.map)
        BY <1>0, <2>4, <3>1
      <3>4. /\ UpTo(manifest', since, map)
            /\ lc.map # 0 => UpTo(manifest', since, lc.map)
        BY <1>0, <3>1, <3>2, <3>3
      <3>5. ASSUME NEW e \in Range(pending'), e = "map_changed"
            PROVE  NewChange(manifest', since, e, reading.map)
        <4>1. /\ NewChange(manifest, since, e, reading.map)
              /\ row.event # "map_changed"
          BY <2>1, <2>2, <2>4, <3>1, <3>5 DEF Rank
        <4>2. /\ Len(manifest) \in Nat
              /\ DOMAIN manifest' = 1 .. Len(manifest) + 1
              /\ DOMAIN manifest = 1 .. Len(manifest)
              /\ \A i \in DOMAIN manifest : manifest'[i] = manifest[i]
              /\ manifest'[Len(manifest) + 1] = row
          BY <1>0, <2>1, <2>3, AppendRow
        <4> QED
          BY <3>5, <4>1, <4>2 DEF NewChange
      <3>6. \A e \in Range(pending') : NewChange(manifest', since, e, reading.map)
        BY <3>5 DEF NewChange
      <3> QED
        BY <3>2, <3>4, <3>6
    <2> QED
      BY <2>1, <2>2, <2>5 DEF MapInv
  <1>10. CASE AppendObservation
    <2>1. /\ pending = <<>> /\ pc' = "frame" /\ Range(pending') = {}
          /\ UNCHANGED <<lc, manifest, pending, map, providerMap, managed, since>>
      BY <1>10 DEF AppendObservation, provider, Range
    <2> QED
      BY <2>1 DEF MapInv
  <1>11. CASE FramesRunOut
    BY <1>11 DEF FramesRunOut, provider, MapInv
  <1>12. CASE ProviderAdvances
    <2>1. /\ providerMap' = providerMap + 1
          /\ UNCHANGED <<lc, manifest, reading, pending, pc, map, managed,
                         since>>
      BY <1>12 DEF ProviderAdvances, watcher
    <2>2. map <= providerMap => map <= providerMap'
      BY <1>0, <2>1
    <2> QED
      BY <2>1, <2>2 DEF MapInv
  <1>13. CASE ProviderStored \/ ProviderCompletes \/ UNCHANGED vars
    BY <1>13 DEF ProviderStored, ProviderCompletes, vars, watcher, provider,
                 MapInv
  <1>14. CASE Crash
    <2>1. /\ pending' = <<>> /\ Range(pending') = {} /\ pc' = "down"
          /\ lc'.map = 0 /\ 0 <= map
          /\ UNCHANGED <<manifest, map, providerMap, managed, since>>
      BY <1>0, <1>14 DEF Crash, Fresh, provider, Range
    <2>2. Ranked(pending')
      BY <2>1 DEF Ranked
    <2> QED
      BY <2>1, <2>2 DEF MapInv
  <1>15. CASE Restart
    <2>1. /\ pc = "down" /\ pc' = "frame" /\ lc' = Restored /\ pending = <<>>
          /\ UNCHANGED <<manifest, reading, pending, providerMap, managed>>
      BY <1>15 DEF Restart, provider, Typed
    <2>2. lc'.map = 0 /\ Range(pending') = {}
      BY <2>1, RestoredMoves DEF Typed, Range
    <2>3. \A i \in DOMAIN manifest : manifest[i].map \in Nat
      BY <1>0, RowMap
    <2>4. PICK m \in StartMaps :
             /\ map' = m
             /\ since' = IF managed /\ m < providerMap THEN Len(manifest)
                         ELSE since
      BY <1>15 DEF Restart
    <2>5. managed => map' \in Nat /\ map' <= providerMap
      BY <1>0, <2>4 DEF StartMaps
    <2>6. ASSUME managed
          PROVE  UpTo(manifest, since', map') /\ MapsOrdered(manifest, since')
      <3>1. CASE m < providerMap
        <4>1. since' = Len(manifest) /\ DOMAIN manifest = 1 .. Len(manifest)
          BY <1>0, <2>4, <2>6, <3>1
        <4>2. \A i \in DOMAIN manifest : ~(since' < i)
          BY <1>0, <4>1
        <4> QED
          BY <4>2 DEF UpTo, MapsOrdered
      <3>2. CASE ~(m < providerMap)
        <4>1. since' = since /\ map' = providerMap
          BY <1>0, <2>4, <2>5, <2>6, <3>2
        <4> QED
          BY <1>0, <2>3, <2>6, <4>1 DEF MapInv, UpTo
      <3> QED
        BY <3>1, <3>2
    <2>7. managed => lc'.map <= map'
      BY <2>2, <2>5
    <2>8. Ranked(pending')
      BY <2>1 DEF MapInv
    <2> QED
      BY <2>1, <2>2, <2>5, <2>6, <2>7, <2>8 DEF MapInv
  <1> QED
    BY <1>2, <1>3, <1>5, <1>6, <1>7, <1>8, <1>9, <1>10, <1>11, <1>12, <1>13,
       <1>14, <1>15 DEF Next, WatcherStep, Frame

-----------------------------------------------------------------------------
(* The theorems.                                                           *)

\* The fields of the object, its bounded windows and the watcher's locals keep
\* their types.
THEOREM TypeTheorem == Spec => []TypeOK
  <1>1. CaptureInv => TypeOK
    <2> SUFFICES ASSUME Typed PROVE TypeOK
      BY DEF CaptureInv
    <2>1. lc \in Lifecycles /\ manifest \in Seq(Rows) /\ pending \in Seq(Triggers)
      BY DEF Typed
    <2>2. /\ lc.phase \in CapturePhase
          /\ lc.next \in Nat /\ lc.closeAt \in Nat /\ lc.map \in 0 .. MaxMap
          /\ lc.draft \in Windows(DraftWindow) /\ lc.game \in Windows(GameWindow)
      BY <2>1 DEF Lifecycles
    <2>3. SampleSeq(lc.draft, DraftWindow) /\ SampleSeq(lc.game, GameWindow)
      BY <2>2 DEF SampleSeq, Windows
    <2>4. {lc.drafted, lc.played, lc.final, awaiting, rewound, complete,
           managed} \subseteq BOOLEAN
      BY <2>1 DEF Lifecycles, Typed
    <2>5. \A i \in DOMAIN manifest :
             manifest[i] \in [event: Triggers, at: 1 .. MaxTime, map: 0 .. MaxMap]
      <3>1. \A i \in DOMAIN manifest : manifest[i] \in Rows
        BY <2>1
      <3> QED
        BY <3>1, Zenon DEF Rows
    <2>6. \A i \in DOMAIN pending : pending[i] \in Triggers
      BY <2>1
    <2> QED
      BY <2>2, <2>3, <2>4, <2>5, <2>6 DEF Typed, TypeOK
  <1> QED
    BY <1>1, CaptureInvariant, PTL

\* As long as the whole manifest is read at a restart, every milestone is
\* captured once and in its order, however often the watcher died.
THEOREM MilestoneTheorem ==
    Spec => [](Len(manifest) <= MaxRows => MilestonesInOrder)
  <1>1. CaptureInv => (Len(manifest) <= MaxRows => MilestonesInOrder)
    BY DEF CaptureInv, InOrder, Ordered, MilestonesInOrder
  <1> QED
    BY <1>1, CaptureInvariant, PTL

\* As long as the whole manifest is read at a restart, two periodic captures
\* after the first milestone are an interval apart.
THEOREM SpacingTheorem ==
    Spec => [](Len(manifest) <= MaxRows => StartedSpacing)
  <1>1. CaptureInv => (Len(manifest) <= MaxRows => StartedSpacing)
    BY DEF CaptureInv, InOrder, Spaced, Told, StartedSpacing
  <1> QED
    BY <1>1, CaptureInvariant, PTL

\* A managed watcher that ends by itself has captured the final frame.
THEOREM FinalTheorem == Spec => []CleanExitKeepsFinal
  <1>1. CaptureInv => CleanExitKeepsFinal
    <2> SUFFICES ASSUME CaptureInv PROVE CleanExitKeepsFinal
      OBVIOUS
    <2>1. DOMAIN manifest = 1 .. Len(manifest)
      BY DEF CaptureInv, Typed
    <2> QED
      BY <2>1 DEF CaptureInv, Retained, CleanExitKeepsFinal, FinalIsRetained,
                  Captured, Holds
  <1> QED
    BY <1>1, CaptureInvariant, PTL

\* Whatever the watcher does and however often it dies, the captures of a
\* managed watcher never go back to an earlier Map and announce each Map once,
\* except across a start on a Map that the provider has left behind.
THEOREM MapTheorem == Spec => []MapsGoOn
  <1>1. Init => MapInv
    <2> SUFFICES ASSUME Init PROVE MapInv
      OBVIOUS
    <2>1. /\ manifest = <<>> /\ pending = <<>> /\ lc.map = 0 /\ pc = "frame"
          /\ providerMap \in 1 .. MaxMap /\ map \in StartMaps
          /\ Range(pending) = {} /\ DOMAIN manifest = {}
          /\ DOMAIN pending = {}
      BY DEF Init, Fresh, Range
    <2>2. managed => map <= providerMap /\ 0 <= map
      BY <2>1, PeriodAssumption DEF StartMaps
    <2> QED
      BY <2>1, <2>2 DEF MapInv, Ranked, UpTo, MapsOrdered
  <1>2. Typed /\ MapInv /\ [Next]_vars => MapInv'
    BY MapStep
  <1>3. CaptureInv => Typed
    BY DEF CaptureInv
  <1>4. MapInv => MapsGoOn
    BY DEF MapInv, MapsOrdered, MapsGoOn
  <1> QED
    BY <1>1, <1>2, <1>3, <1>4, CaptureInvariant, PTL DEF Spec

\* A draft is confirmed only by a full window of the newest frames, enough of
\* them draft frames and no two of them apart by an interruption.
THEOREM SustainedTheorem == Spec => DraftNeedsSustainedFrames
  <1>1. Init => FollowsRecent
    BY DEF Init, Fresh, FollowsRecent, Follows
  <1>2. Typed /\ FollowsRecent /\ [Next]_vars
            => FollowsRecent' /\ [SustainedStep]_vars
    BY FollowsStep
  <1>3. CaptureInv => Typed
    BY DEF CaptureInv
  <1>4. Spec => [][SustainedStep]_vars
    BY <1>1, <1>2, <1>3, CaptureInvariant, PTL DEF Spec
  <1> QED
    BY <1>4 DEF SustainedStep, DraftNeedsSustainedFrames
=============================================================================

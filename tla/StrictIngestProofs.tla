-------------------------- MODULE StrictIngestProofs --------------------------
(***************************************************************************)
(* Proofs about StrictIngest, for every set of workers, matches, events    *)
(* and details, for every schedule of delays and for every bound.          *)
(***************************************************************************)
EXTENDS StrictIngest, TLAPS

\* The worker that holds the newest attempt_generation of a match finds the
\* row as its own begin left it: no other worker has written an outcome.
Fence ==
    \A w \in Workers, m \in Matches :
        att[w][m].pc \in {"begun", "fetched"} /\ row[m].newest = w
        => /\ row[m].state = "detail_pending"
           /\ row[m].retries = att[w][m].count
           /\ att[w][m].count \in 1 .. Budget + 1

\* The inductive invariant.
IInv == TypeOK /\ Fence

-----------------------------------------------------------------------------
(* The operators.                                                          *)

\* The budget is a number, and each of its delays is a positive one.
LEMMA BudgetType == Budget \in Nat /\ \A i \in 1 .. Budget : Delays[i] \in Nat
  BY DelayAssumption DEF Budget

\* Ticks never count below zero.
LEMMA MinusType == \A x, y \in Int : x - y \in Nat \/ x <= y
  OBVIOUS

\* A retry is scheduled for as long as the budget lasts (next_retry_at).
LEMMA NextRetryType ==
    ASSUME TypeOK, NEW w \in Workers, NEW count \in 1 .. Budget + 1
    PROVE  /\ next_retry_at(w, count) \in Nat \cup {NoRetry}
           /\ next_retry_at(w, count) # NoRetry => count \in 1 .. Budget
  <1>1. cyc[w].elapsed \in Nat
    BY DEF TypeOK, Cycles
  <1>2. CASE count > Budget
    BY <1>2 DEF next_retry_at
  <1>3. CASE ~(count > Budget)
    <2>1. count \in 1 .. Budget /\ Delays[count] \in Nat
      BY <1>3, BudgetType
    <2>2. Minus(Delays[count], cyc[w].elapsed) \in Nat
      BY <1>1, <2>1 DEF Minus
    <2> QED
      BY <1>3, <2>1, <2>2 DEF next_retry_at
  <1> QED
    BY <1>2, <1>3

\* The readiness of the components never falls when less is missing, so the
\* comparison of the scores in _accept_version decides nothing: a version is
\* accepted exactly when it is the first one or lacks strictly less.
THEOREM AcceptanceTheorem ==
    ASSUME NEW old, NEW new
    PROVE  AcceptVersion(old, new) <=>
               \/ old = NoContent
               \/ /\ MissingOf[new] \subseteq MissingOf[old]
                  /\ MissingOf[new] # MissingOf[old]
  <1>1. ASSUME MissingOf[new] \subseteq MissingOf[old]
        PROVE  NoDegradation(MissingOf[old], MissingOf[new])
    <2>1. \A needs : Score(MissingOf[new], needs) >= Score(MissingOf[old], needs)
      BY <1>1 DEF Score
    <2> QED
      BY <2>1 DEF NoDegradation, ReadinessScore
  <1>2. MissingOf[new] = MissingOf[old]
        => ~Improved(MissingOf[old], MissingOf[new])
    <2>1. \A needs : Score(MissingOf[old], needs) \in {0, 2}
      BY DEF Score
    <2> QED
      BY <2>1 DEF Improved, ReadinessScore
  <1> QED
    BY <1>1, <1>2 DEF AcceptVersion

\* A failure leaves a row whose retry lies within the budget
\* (record_ingest_failure).
LEMMA FailedRowType ==
    ASSUME NEW r \in Rows, NEW next \in Nat \cup {NoRetry},
           next # NoRetry => r.retries \in 1 .. Budget
    PROVE  /\ FailedRow(r, next) \in Rows
           /\ FailedRow(r, next).due # NoRetry =>
                 FailedRow(r, next).retries \in 1 .. Budget
  BY DEF FailedRow, Rows, Outcomes

\* So does a success (_record_ingest_success), which leaves an outcome.
LEMMA RecordedRowType ==
    ASSUME NEW r \in Rows, NEW a \in Attempts, NEW next \in Nat \cup {NoRetry},
           next # NoRetry => ~Complete(a.got) /\ r.retries \in 1 .. Budget
    PROVE  /\ RecordedRow(r, a, next) \in Rows
           /\ RecordedRow(r, a, next).due # NoRetry =>
                 RecordedRow(r, a, next).retries \in 1 .. Budget
  <1> DEFINE unchanged == a.seen = a.got
             content == IF ~unchanged /\ AcceptVersion(r.content, a.got)
                        THEN a.got ELSE r.content
             review == r.review \/ (~unchanged /\ Correction(r.content, a.got))
             retries == IF Complete(a.got) THEN 0 ELSE r.retries
  <1>1. content \in Contents \cup {NoContent}
    BY DEF Rows, Attempts
  <1>2. review \in BOOLEAN
    BY DEF Rows
  <1>3. retries \in 0 .. Budget + 1
    BY BudgetType DEF Rows
  <1>4. StateOf(content) \in Outcomes
    BY DEF StateOf, Outcomes
  <1>5. RecordedRow(r, a, next) =
            [r EXCEPT !.content = content, !.review = review,
                      !.retries = retries, !.due = next,
                      !.state = StateOf(content)]
    BY DEF RecordedRow
  <1>6. next # NoRetry => retries \in 1 .. Budget
    OBVIOUS
  <1> HIDE DEF content, review, retries
  <1> QED
    BY <1>1, <1>2, <1>3, <1>4, <1>5, <1>6 DEF Rows

-----------------------------------------------------------------------------
(* The steps.                                                              *)

\* The conjuncts of TypeOK that the clock and the environment disturb.
WorldType ==
    /\ activeIn \in Nat /\ rescanIn \in Nat /\ age \in [Matches -> Nat]
    /\ listed \subseteq Matches /\ serves \in [Matches -> Contents]
    /\ active \subseteq Events
    /\ faults \in 0 .. MaxFaults

RowType ==
    /\ row \in [Matches -> Rows]
    /\ \A m \in Matches : row[m].due # NoRetry => row[m].retries \in 1 .. Budget

AttemptType == att \in [Workers -> [Matches -> Attempts]]
CycleType == cyc \in [Workers -> Cycles]

LEMMA TypeParts ==
    /\ TypeOK <=> WorldType /\ RowType /\ AttemptType /\ CycleType
    /\ TypeOK' <=> WorldType' /\ RowType' /\ AttemptType' /\ CycleType'
  BY DEF TypeOK, WorldType, RowType, AttemptType, CycleType

\* The program starts in a well-typed state in which nobody has an attempt.
LEMMA InitIInv == Init => IInv
  <1> SUFFICES ASSUME Init PROVE IInv
    OBVIOUS
  <1>1. WorldType
    BY IntervalAssumption DEF Init, WorldType
  <1>2. UnknownRow \in Rows
    BY BudgetType DEF UnknownRow, Rows
  <1>3. RowType
    BY <1>2 DEF Init, RowType, UnknownRow, NoRetry
  <1>4. NoAttempt \in Attempts
    BY BudgetType DEF NoAttempt, Attempts
  <1>5. AttemptType
    BY <1>4 DEF Init, AttemptType
  <1>6. CycleType
    BY DEF Init, CycleType, Cycles, Asleep
  <1>7. Fence
    BY DEF Init, Fence, NoAttempt
  <1> QED
    BY <1>1, <1>3, <1>5, <1>6, <1>7, TypeParts DEF IInv

\* The steps of OpenDota, of the calendar and of the clock keep the invariant.
LEMMA WorldStep ==
    ASSUME IInv,
           \/ \E m \in Matches : MatchIsListed(m) \/ DetailChanges(m)
           \/ \E e \in Events : EventEnds(e)
           \/ Tick
    PROVE  IInv'
  <1> USE DEF WorldType, RowType, AttemptType, CycleType
  <1>0. WorldType /\ RowType /\ AttemptType /\ CycleType /\ Fence
    BY TypeParts DEF IInv
  <1>1. ASSUME NEW m \in Matches, MatchIsListed(m) PROVE IInv'
    BY <1>0, <1>1, TypeParts DEF IInv, MatchIsListed, timers, Fence
  <1>2. ASSUME NEW m \in Matches, DetailChanges(m) PROVE IInv'
    BY <1>0, <1>2, TypeParts DEF IInv, DetailChanges, timers, Fence
  <1>3. ASSUME NEW e \in Events, EventEnds(e) PROVE IInv'
    BY <1>0, <1>3, TypeParts DEF IInv, EventEnds, timers, Fence
  <1>4. CASE Tick
    <2>1. \A x \in Nat : Minus(x, 1) \in Nat
      BY DEF Minus
    <2>2. WorldType'
      BY <1>0, <1>4, <2>1 DEF Tick, world
    <2>3. ASSUME NEW m \in Matches
          PROVE  /\ row'[m] \in Rows
                 /\ row'[m].due # NoRetry => row[m].due # NoRetry
                 /\ row'[m].retries = row[m].retries
                 /\ row'[m].state = row[m].state
                 /\ row'[m].newest = row[m].newest
      <3>1. row[m] \in Rows
        BY <1>0
      <3>2. row[m].due # NoRetry => Minus(row[m].due, 1) \in Nat
        BY <2>1, <3>1 DEF Rows
      <3>3. row'[m] = [row[m] EXCEPT !.due = IF row[m].due = NoRetry THEN NoRetry
                                             ELSE Minus(row[m].due, 1)]
        BY <1>4 DEF Tick
      <3> QED
        BY <3>1, <3>2, <3>3 DEF Rows
    <2>4. RowType'
      <3>1. row' = [m \in Matches |-> row'[m]]
        BY <1>4 DEF Tick
      <3> QED
        BY <1>0, <2>3, <3>1
    <2>5. AttemptType' /\ att' = att
      BY <1>0, <1>4 DEF Tick
    <2>6. CycleType'
      <3>1. ASSUME NEW w \in Workers
            PROVE  /\ cyc[w] \in Cycles
                   /\ [cyc[w] EXCEPT !.elapsed = @ + 1] \in Cycles
        <4>1. cyc[w] \in Cycles
          BY <1>0
        <4>2. cyc[w].elapsed + 1 \in Nat
          BY <4>1 DEF Cycles
        <4> QED
          BY <4>1, <4>2 DEF Cycles
      <3> QED
        BY <1>4, <3>1 DEF Tick
    <2>7. Fence'
      BY <1>0, <2>3, <2>5 DEF Fence
    <2> QED
      BY <2>2, <2>4, <2>5, <2>6, <2>7, TypeParts DEF IInv
  <1> QED
    BY <1>1, <1>2, <1>3, <1>4

\* The steps of run_due and run_once leave every begun attempt and the row it
\* stands on alone, or end it.
LEMMA RunStep ==
    ASSUME IInv, NEW w \in Workers,
           \/ poll_active(w) \/ rescan_recent(w) \/ RunEnds(w)
           \/ SelectMatches(w) \/ set_scheduler_checkpoint(w)
           \/ \E m \in Matches : record_discovered_match(w, m)
           \/ WorkerDies(w) \/ WorkerStarts(w)
    PROVE  IInv'
  <1> USE DEF WorldType, RowType, AttemptType, CycleType
  <1>0. WorldType /\ RowType /\ AttemptType /\ CycleType /\ Fence
    BY TypeParts DEF IInv
  <1>a. cyc[w] \in Cycles /\ Asleep \in Cycles
        /\ [Asleep EXCEPT !.pc = "dead"] \in Cycles
    BY <1>0 DEF Asleep, Cycles
  <1>b. NoAttempt \in Attempts
    BY BudgetType DEF NoAttempt, Attempts
  <1>c. \A x, y \in Nat : Minus(x, y) \in Nat
    BY DEF Minus
  <1>1. ASSUME NEW kind \in {"active", "recent"}, NEW elapsed \in Nat,
               NEW events \in SUBSET Events, Poll(w, kind, elapsed, events)
        PROVE  IInv'
    <2>1. [pc |-> "discover", kind |-> kind, new |-> {},
           left |-> {m \in listed : EventOf[m] \in events},
           events |-> events, elapsed |-> elapsed] \in Cycles
      BY <1>0 DEF Cycles
    <2> QED
      BY <1>0, <1>1, <2>1, TypeParts DEF Poll, IInv, Fence, timers, world
  <1>2. CASE poll_active(w)
    BY <1>0, <1>1, <1>2 DEF poll_active
  <1>3. CASE rescan_recent(w)
    <2>1. cyc[w].elapsed \in Nat
      BY <1>a DEF Cycles
    <2> QED
      BY <1>0, <1>1, <1>3, <2>1 DEF rescan_recent
  <1>4. CASE RunEnds(w)
    BY <1>0, <1>4, <1>a, TypeParts DEF RunEnds, IInv, Fence, timers, world
  <1>5. CASE SelectMatches(w)
    <2>1. PICK selected :
            /\ att' = [att EXCEPT ![w] =
                         [m \in Matches |->
                             [NoAttempt EXCEPT !.pc = IF m \in selected
                                                      THEN "selected"
                                                      ELSE "none"]]]
            /\ cyc' = [cyc EXCEPT ![w].pc = "ingest", ![w].new = {}]
            /\ UNCHANGED <<row, timers, world, faults>>
      BY <1>5 DEF SelectMatches
    <2>2. \A pc \in {"none", "selected"} :
              /\ [NoAttempt EXCEPT !.pc = pc] \in Attempts
              /\ [NoAttempt EXCEPT !.pc = pc].pc = pc
      BY <1>b DEF NoAttempt, Attempts
    <2>3. AttemptType'
      BY <1>0, <2>1, <2>2
    <2>4. CycleType'
      BY <1>0, <1>a, <2>1 DEF Cycles
    <2>5. Fence'
      <3> SUFFICES ASSUME NEW v \in Workers, NEW m \in Matches,
                          att'[v][m].pc \in {"begun", "fetched"}
                   PROVE  v # w
        BY <1>0, <2>1 DEF Fence
      <3> QED
        BY <1>0, <2>1, <2>2
    <2> QED
      BY <1>0, <2>1, <2>3, <2>4, <2>5, TypeParts DEF IInv, timers, world
  <1>6. CASE set_scheduler_checkpoint(w)
    <2>1. Minus(ActivePoll, cyc[w].elapsed) \in Nat
          /\ Minus(Rescan, cyc[w].elapsed) \in Nat
      BY <1>a, <1>c, IntervalAssumption DEF Cycles
    <2>2. CycleType'
      <3>1. [cyc[w] EXCEPT !.pc = "polled"] \in Cycles
        BY <1>a DEF Cycles
      <3>2. \/ cyc' = [cyc EXCEPT ![w] = [cyc[w] EXCEPT !.pc = "polled"]]
            \/ cyc' = [cyc EXCEPT ![w] = Asleep]
        BY <1>6 DEF set_scheduler_checkpoint
      <3> QED
        BY <1>0, <1>a, <3>1, <3>2
    <2> QED
      BY <1>0, <1>6, <2>1, <2>2, TypeParts
         DEF set_scheduler_checkpoint, IInv, Fence, world
  <1>7. ASSUME NEW m \in Matches, record_discovered_match(w, m) PROVE IInv'
    <2>1. CycleType'
      BY <1>0, <1>a, <1>7 DEF record_discovered_match, Cycles
    <2>2. row[m] \in Rows /\ row' = [row EXCEPT ![m].known = TRUE]
      BY <1>0, <1>7 DEF record_discovered_match
    <2>3. RowType'
      BY <1>0, <2>2 DEF Rows
    <2>4. Fence'
      <3>1. \A x \in Matches : /\ row'[x].state = row[x].state
                               /\ row'[x].retries = row[x].retries
                               /\ row'[x].newest = row[x].newest
        BY <1>0, <2>2 DEF Rows
      <3>2. att' = att
        BY <1>7 DEF record_discovered_match
      <3> QED
        BY <1>0, <3>1, <3>2 DEF Fence
    <2> QED
      BY <1>0, <1>7, <2>1, <2>3, <2>4, TypeParts
         DEF record_discovered_match, IInv, timers, world
  <1>8. CASE WorkerDies(w)
    <2>1. faults' \in 0 .. MaxFaults
      BY <1>0, <1>8, IntervalAssumption DEF WorkerDies
    <2>2. AttemptType' /\ CycleType'
      BY <1>0, <1>a, <1>b, <1>8 DEF WorkerDies
    <2>3. Fence'
      <3> SUFFICES ASSUME NEW v \in Workers, NEW m \in Matches,
                          att'[v][m].pc \in {"begun", "fetched"}
                   PROVE  v # w
        BY <1>0, <1>8 DEF Fence, WorkerDies
      <3> QED
        BY <1>0, <1>8 DEF WorkerDies, NoAttempt
    <2> QED
      BY <1>0, <1>8, <2>1, <2>2, <2>3, TypeParts
         DEF WorkerDies, IInv, timers, world
  <1>9. CASE WorkerStarts(w)
    BY <1>0, <1>9, <1>a, TypeParts DEF WorkerStarts, IInv, Fence, timers, world
  <1> QED
    BY <1>2, <1>3, <1>4, <1>5, <1>6, <1>7, <1>8, <1>9

\* An attempt that is done writes its outcome while it holds the newest
\* generation, and then no other worker stands on the row.
LEMMA RecordStep ==
    ASSUME IInv, NEW w \in Workers, NEW m \in Matches, NEW r \in Rows,
           Finished(w, m),
           r.due # NoRetry => r.retries \in 1 .. Budget,
           row' = row \/ (row[m].newest = w /\ r.newest = w
                          /\ row' = [row EXCEPT ![m] = r]),
           faults' \in 0 .. MaxFaults,
           UNCHANGED <<cyc, timers, world>>
    PROVE  IInv'
  <1> USE DEF WorldType, RowType, AttemptType, CycleType
  <1>0. WorldType /\ RowType /\ AttemptType /\ CycleType /\ Fence
    BY TypeParts DEF IInv
  <1>1. NoAttempt \in Attempts /\ NoAttempt.pc = "none"
    BY BudgetType DEF NoAttempt, Attempts
  <1>2. AttemptType' /\ RowType' /\ WorldType' /\ CycleType'
    BY <1>0, <1>1 DEF Finished, timers, world
  <1>3. Fence'
    <2> SUFFICES ASSUME NEW v \in Workers, NEW x \in Matches,
                        att'[v][x].pc \in {"begun", "fetched"},
                        row'[x].newest = v
                 PROVE  /\ row'[x].state = "detail_pending"
                        /\ row'[x].retries = att'[v][x].count
                        /\ att'[v][x].count \in 1 .. Budget + 1
      BY DEF Fence
    <2>1. ~(v = w /\ x = m)
      BY <1>0, <1>1 DEF Finished
    <2>2. att'[v][x] = att[v][x]
      BY <1>0, <2>1 DEF Finished
    <2>3. row'[x] = row[x]
      BY <1>0, <2>1
    <2> QED
      BY <1>0, <2>2, <2>3 DEF Fence
  <1> QED
    BY <1>2, <1>3, TypeParts DEF IInv

\* The steps of _ingest_match keep the invariant.
LEMMA IngestStep ==
    ASSUME IInv, NEW w \in Workers, NEW m \in Matches,
           IngestMatch(w, m) \/ FetchFails(w, m)
    PROVE  IInv'
  <1> USE DEF WorldType, RowType, AttemptType, CycleType
  <1>0. WorldType /\ RowType /\ AttemptType /\ CycleType /\ Fence
    BY TypeParts DEF IInv
  <1>a. att[w][m] \in Attempts /\ row[m] \in Rows
    BY <1>0
  <1>b. TypeOK
    BY DEF IInv
  <1>1. CASE get_ingest_status(w, m)
    <2>1. [att[w][m] EXCEPT !.pc = "read", !.seen = row[m].content] \in Attempts
      BY <1>a DEF Attempts, Rows
    <2>2. att' = [att EXCEPT ![w] = [att[w] EXCEPT ![m] =
                    [att[w][m] EXCEPT !.pc = "read", !.seen = row[m].content]]]
      BY <1>0, <1>1 DEF get_ingest_status
    <2>3. [att[w][m] EXCEPT !.pc = "read", !.seen = row[m].content].pc = "read"
      BY <1>a DEF Attempts
    <2> HIDE DEF AttemptType
    <2>4. AttemptType'
      BY <1>0, <2>1, <2>2 DEF AttemptType
    <2>5. ASSUME NEW v \in Workers, NEW x \in Matches,
                 att'[v][x].pc \in {"begun", "fetched"}
          PROVE  att'[v][x] = att[v][x]
      BY <1>0, <2>2, <2>3, <2>5 DEF AttemptType
    <2>6. Fence'
      <3>1. row' = row
        BY <1>1 DEF get_ingest_status
      <3> QED
        BY <1>0, <2>5, <3>1 DEF Fence
    <2> QED
      BY <1>0, <1>1, <2>4, <2>6, TypeParts
         DEF IInv, get_ingest_status, timers, world
  <1>2. CASE begin_ingest_attempt(w, m)
    <2> DEFINE count == IF row[m].retries > Budget THEN Budget + 1
                        ELSE row[m].retries + 1
               next == next_retry_at(w, count)
               a == [att[w][m] EXCEPT !.pc = "begun", !.count = count]
               r == [row[m] EXCEPT !.retries = count, !.newest = w,
                                   !.due = next,
                                   !.state = "detail_pending"]
    <2>1. count \in 1 .. Budget + 1
      BY <1>a, BudgetType DEF Rows
    <2>0. count \in 0 .. Budget + 1
      BY <2>1, BudgetType
    <2>2. row' = [row EXCEPT ![m] = r]
          /\ att' = [att EXCEPT ![w] = [att[w] EXCEPT ![m] = a]]
          /\ UNCHANGED <<cyc, timers, world, faults>>
      BY <1>0, <1>2 DEF begin_ingest_attempt
    <2> HIDE DEF count
    <2>3. next \in Nat \cup {NoRetry} /\ (next # NoRetry => count \in 1 .. Budget)
      BY <1>b, <2>1, NextRetryType
    <2> HIDE DEF next
    <2>4. a \in Attempts /\ a.count = count
      BY <1>a, <2>0 DEF Attempts
    <2>5. /\ r \in Rows /\ r.state = "detail_pending" /\ r.newest = w
          /\ r.retries = count /\ r.due = next
      BY <1>a, <2>0, <2>3 DEF Rows
    <2> HIDE DEF a, r
    <2>6. RowType'
      BY <1>0, <2>2, <2>3, <2>5
    <2>7. AttemptType'
      BY <1>0, <2>2, <2>4
    <2>8. Fence'
      <3> SUFFICES ASSUME NEW v \in Workers, NEW x \in Matches,
                          att'[v][x].pc \in {"begun", "fetched"},
                          row'[x].newest = v
                   PROVE  /\ row'[x].state = "detail_pending"
                          /\ row'[x].retries = att'[v][x].count
                          /\ att'[v][x].count \in 1 .. Budget + 1
        BY DEF Fence
      <3>1. CASE x = m
        <4>1. row'[x] = r /\ v = w
          BY <1>0, <2>2, <2>5, <3>1
        <4>2. att'[v][x] = a
          BY <1>0, <2>2, <3>1, <4>1
        <4> QED
          BY <2>1, <2>4, <2>5, <4>1, <4>2
      <3>2. CASE x # m
        <4>1. row'[x] = row[x] /\ att'[v][x] = att[v][x]
          BY <1>0, <2>2, <3>2
        <4> QED
          BY <1>0, <4>1 DEF Fence
      <3> QED
        BY <3>1, <3>2
    <2> QED
      BY <1>0, <2>2, <2>6, <2>7, <2>8, TypeParts DEF IInv, timers, world
  <1>3. CASE FetchMatch(w, m)
    <2> DEFINE a == [att[w][m] EXCEPT !.pc = "fetched", !.got = serves[m]]
    <2>1. a \in Attempts /\ a.count = att[w][m].count
      BY <1>0, <1>a DEF Attempts
    <2>2. att' = [att EXCEPT ![w] = [att[w] EXCEPT ![m] = a]]
          /\ UNCHANGED <<row, cyc, timers, world, faults>>
      BY <1>0, <1>3 DEF FetchMatch
    <2> HIDE DEF a
    <2>3. AttemptType'
      BY <1>0, <2>1, <2>2
    <2>4. ASSUME NEW v \in Workers, NEW x \in Matches
          PROVE  /\ att'[v][x].count = att[v][x].count
                 /\ att'[v][x].pc \in {"begun", "fetched"}
                    => att[v][x].pc \in {"begun", "fetched"}
      <3>1. CASE v = w /\ x = m
        BY <1>0, <1>3, <2>1, <2>2, <3>1 DEF FetchMatch
      <3>2. CASE ~(v = w /\ x = m)
        BY <1>0, <2>2, <3>2
      <3> QED
        BY <3>1, <3>2
    <2>5. Fence'
      BY <1>0, <2>2, <2>4 DEF Fence
    <2> QED
      BY <1>0, <2>2, <2>3, <2>5, TypeParts DEF IInv, timers, world
  <1>4. ASSUME ~Superseded(w, m), att[w][m].pc \in {"begun", "fetched"}
        PROVE  /\ row[m].newest = w
               /\ att[w][m].count \in 1 .. Budget + 1
               /\ row[m].retries = att[w][m].count
    BY <1>0, <1>4 DEF Superseded, Fence
  <1>5. CASE FetchFails(w, m)
    <2> DEFINE next == next_retry_at(w, att[w][m].count)
               r == FailedRow(row[m], next)
    <2>1. faults' \in 0 .. MaxFaults /\ Finished(w, m)
          /\ UNCHANGED <<cyc, timers, world>> /\ att[w][m].pc = "begun"
      BY <1>0, <1>5, IntervalAssumption DEF FetchFails
    <2>2. CASE Superseded(w, m)
      BY <1>5, <1>a, <1>0, <2>1, <2>2, RecordStep DEF FetchFails
    <2>3. CASE ~Superseded(w, m)
      <3>1. next \in Nat \cup {NoRetry} /\ (next # NoRetry => row[m].retries \in 1 .. Budget)
        BY <1>4, <1>b, <2>1, <2>3, NextRetryType
      <3>2. row' = [row EXCEPT ![m] = r]
        BY <1>5, <2>3 DEF FetchFails
      <3> HIDE DEF next
      <3>3. r \in Rows /\ (r.due # NoRetry => r.retries \in 1 .. Budget)
        BY <1>a, <3>1, FailedRowType
      <3>4. r.newest = row[m].newest
        BY <1>a DEF FailedRow, Rows
      <3> HIDE DEF r
      <3> QED
        BY <1>4, <2>1, <2>3, <3>2, <3>3, <3>4, RecordStep
    <2> QED
      BY <2>2, <2>3
  <1>6. CASE record_scope_rejection(w, m)
    <2> DEFINE q == [row[m] EXCEPT !.scope = FALSE, !.review = TRUE,
                                   !.state = "review_required"]
               r == FailedRow(q, NoRetry)
    <2>1. faults' \in 0 .. MaxFaults /\ Finished(w, m)
          /\ UNCHANGED <<cyc, timers, world>> /\ att[w][m].pc = "fetched"
      BY <1>0, <1>6 DEF record_scope_rejection
    <2>2. CASE Superseded(w, m)
      BY <1>6, <1>a, <1>0, <2>1, <2>2, RecordStep DEF record_scope_rejection
    <2>3. CASE ~Superseded(w, m)
      <3>1. row' = [row EXCEPT ![m] = r]
        BY <1>6, <2>3 DEF record_scope_rejection
      <3>2. q \in Rows /\ q.newest = row[m].newest
        BY <1>a DEF Rows, Outcomes
      <3> HIDE DEF q
      <3>3. r \in Rows /\ (r.due # NoRetry => r.retries \in 1 .. Budget)
        BY <3>2, FailedRowType
      <3>4. r.newest = row[m].newest
        BY <3>2 DEF FailedRow, Rows
      <3> HIDE DEF r
      <3> QED
        BY <1>4, <2>1, <2>3, <3>1, <3>3, <3>4, RecordStep
    <2> QED
      BY <2>2, <2>3
  <1>7. CASE record_ingest_success(w, m)
    <2> DEFINE a == att[w][m]
               next == IF Complete(a.got) THEN NoRetry ELSE next_retry_at(w, a.count)
               r == RecordedRow(row[m], a, next)
    <2>1. faults' \in 0 .. MaxFaults /\ Finished(w, m)
          /\ UNCHANGED <<cyc, timers, world>> /\ a.pc = "fetched"
      BY <1>0, <1>7 DEF record_ingest_success
    <2>2. CASE Superseded(w, m)
      BY <1>7, <1>a, <1>0, <2>1, <2>2, RecordStep DEF record_ingest_success
    <2>3. CASE ~Superseded(w, m)
      <3>1. row' = [row EXCEPT ![m] = r]
        BY <1>7, <2>3 DEF record_ingest_success
      <3>3. /\ next \in Nat \cup {NoRetry}
            /\ next # NoRetry => ~Complete(a.got) /\ row[m].retries \in 1 .. Budget
        BY <1>4, <1>b, <2>1, <2>3, NextRetryType
      <3> HIDE DEF next
      <3>4. r \in Rows /\ (r.due # NoRetry => r.retries \in 1 .. Budget)
        BY <1>a, <3>3, RecordedRowType
      <3>5. r.newest = row[m].newest
        BY <1>a DEF RecordedRow, Rows
      <3> HIDE DEF r
      <3> QED
        BY <1>4, <2>1, <2>3, <3>1, <3>4, <3>5, RecordStep
    <2> QED
      BY <2>2, <2>3
  <1> QED
    BY <1>1, <1>2, <1>3, <1>5, <1>6, <1>7 DEF IngestMatch

\* A step that changes nothing keeps the invariant.
LEMMA StutterStep == ASSUME IInv, UNCHANGED vars PROVE IInv'
  BY DEF vars, timers, world, IInv, TypeOK, Fence

\* Every step of the system keeps the invariant.
LEMMA NextIInv == IInv /\ [Next]_vars => IInv'
  <1> SUFFICES ASSUME IInv, [Next]_vars PROVE IInv'
    OBVIOUS
  <1>1. ASSUME NEW w \in Workers,
               \/ WorkerStep(w) \/ WorkerDies(w)
               \/ \E m \in Matches : FetchFails(w, m)
        PROVE  IInv'
    BY <1>1, RunStep, IngestStep DEF WorkerStep
  <1>2. CASE \/ \E m \in Matches : MatchIsListed(m) \/ DetailChanges(m)
             \/ \E e \in Events : EventEnds(e)
             \/ Tick
    BY <1>2, WorldStep
  <1>3. CASE UNCHANGED vars
    BY <1>3, StutterStep
  <1> QED
    BY <1>1, <1>2, <1>3 DEF Next

\* In every behaviour the invariant holds.
THEOREM Invariant == Spec => []IInv
  BY InitIInv, NextIInv, PTL DEF Spec

\* TypeOK in every behaviour: in particular no retry is ever scheduled past
\* the budget of next_retry_at.
THEOREM TypeCorrect == Spec => []TypeOK
  <1>1. IInv => TypeOK
    BY DEF IInv
  <1> QED
    BY Invariant, <1>1, PTL

-----------------------------------------------------------------------------
(* The action properties.                                                  *)

\* The only steps that touch more of a row than known and due are begin and
\* the records, and a record that writes stands on the newest generation.
LEMMA RowChange ==
    ASSUME IInv, [Next]_vars, NEW m \in Matches
    PROVE  \/ /\ row'[m].state = row[m].state
              /\ row'[m].content = row[m].content
              /\ row'[m].review = row[m].review
              /\ row'[m].retries = row[m].retries
           \/ /\ row'[m].state = "detail_pending"
              /\ row'[m].content = row[m].content
           \/ /\ row[m].state = "detail_pending"
              /\ \/ row'[m].content = row[m].content
                 \/ \E got : /\ row'[m].content = got
                             /\ AcceptVersion(row[m].content, got)
  <1> DEFINE Same == /\ row'[m].state = row[m].state
                     /\ row'[m].content = row[m].content
                     /\ row'[m].review = row[m].review
                     /\ row'[m].retries = row[m].retries
             Begun == /\ row'[m].state = "detail_pending"
                      /\ row'[m].content = row[m].content
             Recorded == /\ row[m].state = "detail_pending"
                         /\ \/ row'[m].content = row[m].content
                            \/ \E got : /\ row'[m].content = got
                                        /\ AcceptVersion(row[m].content, got)
  <1> SUFFICES Same \/ Begun \/ Recorded
    OBVIOUS
  <1>0. row \in [Matches -> Rows] /\ row[m] \in Rows /\ Fence
    BY DEF IInv, TypeOK
  <1>1. CASE row' = row
    BY <1>1
  <1>2. CASE Tick
    BY <1>0, <1>2 DEF Tick, Rows
  <1>3. ASSUME NEW w \in Workers, NEW x \in Matches, record_discovered_match(w, x)
        PROVE  Same
    BY <1>0, <1>3 DEF record_discovered_match, Rows
  <1>4. ASSUME NEW w \in Workers, NEW x \in Matches, begin_ingest_attempt(w, x)
        PROVE  Same \/ Begun
    <2>1. PICK count, next :
            row' = [row EXCEPT ![x].retries = count, ![x].newest = w,
                               ![x].due = next, ![x].state = "detail_pending"]
      BY <1>4 DEF begin_ingest_attempt
    <2>2. CASE x = m
      BY <1>0, <2>1, <2>2 DEF Rows
    <2>3. CASE x # m
      BY <1>0, <2>1, <2>3
    <2> QED
      BY <2>2, <2>3
  <1>5. ASSUME NEW w \in Workers, NEW x \in Matches, NEW r,
               att[w][x].pc \in {"begun", "fetched"},
               row' = IF Superseded(w, x) THEN row ELSE [row EXCEPT ![x] = r],
               \/ r.content = row[x].content
               \/ \E got : r.content = got /\ AcceptVersion(row[x].content, got)
        PROVE  Same \/ Recorded
    <2>1. CASE Superseded(w, x)
      BY <1>5, <2>1
    <2>2. CASE ~Superseded(w, x) /\ x = m
      <3>1. row[m].state = "detail_pending"
        BY <1>0, <1>5, <2>2 DEF Fence, Superseded
      <3>2. row'[m] = r
        BY <1>0, <1>5, <2>2
      <3> QED
        BY <1>5, <2>2, <3>1, <3>2
    <2>3. CASE ~Superseded(w, x) /\ x # m
      BY <1>0, <1>5, <2>3
    <2> QED
      BY <2>1, <2>2, <2>3
  <1>6. ASSUME NEW w \in Workers, NEW x \in Matches, FetchFails(w, x)
        PROVE  Same \/ Recorded
    <2> DEFINE r == FailedRow(row[x], next_retry_at(w, att[w][x].count))
    <2>1. r.content = row[x].content
      BY <1>0 DEF FailedRow, Rows
    <2>2. att[w][x].pc = "begun"
          /\ row' = IF Superseded(w, x) THEN row ELSE [row EXCEPT ![x] = r]
      BY <1>6 DEF FetchFails
    <2> HIDE DEF r
    <2> QED
      BY <1>5, <2>1, <2>2
  <1>7. ASSUME NEW w \in Workers, NEW x \in Matches, record_scope_rejection(w, x)
        PROVE  Same \/ Recorded
    <2> DEFINE r == FailedRow([row[x] EXCEPT !.scope = FALSE, !.review = TRUE,
                                             !.state = "review_required"],
                              NoRetry)
    <2>1. r.content = row[x].content
      BY <1>0 DEF FailedRow, Rows
    <2>2. att[w][x].pc = "fetched"
          /\ row' = IF Superseded(w, x) THEN row ELSE [row EXCEPT ![x] = r]
      BY <1>7 DEF record_scope_rejection
    <2> HIDE DEF r
    <2> QED
      BY <1>5, <2>1, <2>2
  <1>8. ASSUME NEW w \in Workers, NEW x \in Matches, record_ingest_success(w, x)
        PROVE  Same \/ Recorded
    <2> DEFINE a == att[w][x]
               next == IF Complete(a.got) THEN NoRetry ELSE next_retry_at(w, a.count)
               r == RecordedRow(row[x], a, next)
    <2>1. \/ r.content = row[x].content
          \/ r.content = a.got /\ AcceptVersion(row[x].content, a.got)
      BY <1>0 DEF RecordedRow, Rows
    <2>2. a.pc = "fetched"
          /\ row' = IF Superseded(w, x) THEN row ELSE [row EXCEPT ![x] = r]
      BY <1>8 DEF record_ingest_success
    <2> HIDE DEF r
    <2> QED
      BY <1>5, <2>1, <2>2
  <1>9. ASSUME NEW w \in Workers, WorkerStep(w) PROVE Same \/ Begun \/ Recorded
    <2>1. \/ row' = row
          \/ \E x \in Matches :
                \/ record_discovered_match(w, x) \/ begin_ingest_attempt(w, x)
                \/ record_scope_rejection(w, x) \/ record_ingest_success(w, x)
      BY <1>9 DEF WorkerStep, IngestMatch, poll_active, rescan_recent, Poll,
         RunEnds, SelectMatches, set_scheduler_checkpoint, get_ingest_status,
         FetchMatch, WorkerStarts
    <2> QED
      BY <1>1, <1>3, <1>4, <1>7, <1>8, <2>1
  <1>10. \/ row' = row \/ Tick
         \/ \E w \in Workers :
               WorkerStep(w) \/ \E x \in Matches : FetchFails(w, x)
    BY DEF Next, vars, MatchIsListed, DetailChanges, EventEnds, WorkerDies
  <1> QED
    BY <1>1, <1>2, <1>6, <1>9, <1>10

\* OutcomeStands in every behaviour: a recorded outcome stands until the next
\* begin, however many workers are at it and however slow they are.
THEOREM OutcomeTheorem == Spec => OutcomeStands
  <1>1. ASSUME IInv, [Next]_vars
        PROVE  \A m \in Matches :
                 row[m].state \in Outcomes /\ row'[m].state # "detail_pending"
                 => /\ row'[m].state = row[m].state
                    /\ row'[m].content = row[m].content
                    /\ row'[m].review = row[m].review
                    /\ row'[m].retries = row[m].retries
    BY <1>1, RowChange DEF Outcomes
  <1> QED
    BY <1>1, Invariant, PTL DEF Spec, OutcomeStands

\* DetailOnlyImproves in every behaviour: a stored detail gives way only to
\* one that lacks strictly less.
THEOREM ImprovementTheorem == Spec => DetailOnlyImproves
  <1>1. ASSUME IInv, [Next]_vars
        PROVE  \A m \in Matches :
                 row[m].content # NoContent /\ row'[m].content # row[m].content
                 => /\ MissingOf[row'[m].content] \subseteq MissingOf[row[m].content]
                    /\ MissingOf[row'[m].content] # MissingOf[row[m].content]
    <2> SUFFICES ASSUME NEW m \in Matches, row[m].content # NoContent,
                        row'[m].content # row[m].content
                 PROVE  /\ MissingOf[row'[m].content]
                           \subseteq MissingOf[row[m].content]
                        /\ MissingOf[row'[m].content] # MissingOf[row[m].content]
      OBVIOUS
    <2>1. AcceptVersion(row[m].content, row'[m].content)
      BY <1>1, RowChange
    <2> QED
      BY <2>1, AcceptanceTheorem
  <1> QED
    BY <1>1, Invariant, PTL DEF Spec, DetailOnlyImproves

-----------------------------------------------------------------------------
(* The ledger of the matches.                                              *)

\* What a row says of its own past: a match without an attempt has nothing
\* stored, and one whose attempts are not used up has its next one scheduled.
RowInv(r) ==
    /\ r.state = "discovered"
       => r.retries = 0 /\ r.scope /\ r.content = NoContent /\ ~r.review
    /\ r.state # "discovered" /\ r.scope /\ ~Complete(r.content)
       /\ r.retries <= Budget
       => r.due # NoRetry

\* A complete detail that an attempt has seen is the stored one still, as
\* nothing lacks less; and what was fetched is a detail.
SeenStands ==
    \A w \in Workers, m \in Matches :
        /\ att[w][m].pc \in {"read", "begun", "fetched"}
           /\ Complete(att[w][m].seen)
           => row[m].content = att[w][m].seen
        /\ att[w][m].pc = "fetched" => att[w][m].got \in Contents

LInv == IInv /\ SeenStands /\ \A m \in Matches : RowInv(row[m])

\* A row as its record leaves it, seen by IngestLedger.
Same(r, q) ==
    StageOf(q) = StageOf(r) /\ q.content = r.content /\ q.review = r.review
Move(r, q) ==
    \/ Same(r, q)
    \/ /\ q.content = r.content /\ q.review = r.review
       /\ \/ StageOf(r) = "new" /\ StageOf(q) = "owed"
          \/ StageOf(r) = "owed" /\ StageOf(q) = "spent"
    \/ /\ StageOf(r) # "new" /\ q.content \in Contents
       /\ Ledger!Better(q.content, r.content) /\ q.review = r.review
       /\ StageOf(q) = IF StageOf(r) # "rejected" /\ MissingOf[q.content] = {}
                       THEN "complete" ELSE StageOf(r)
    \/ /\ r.content # NoContent /\ q.review = TRUE
       /\ q.content = r.content /\ StageOf(q) = StageOf(r)
    \/ /\ StageOf(r) # "new" /\ StageOf(q) = "rejected"
       /\ q.review = TRUE /\ q.content = r.content

\* The next retry is NULL exactly when the delays are used up.
LEMMA NextRetryExact ==
    ASSUME TypeOK, NEW w \in Workers, NEW count \in 1 .. Budget + 1
    PROVE  next_retry_at(w, count) # NoRetry <=> count <= Budget
  <1>1. cyc[w].elapsed \in Nat
    BY DEF TypeOK, Cycles
  <1>2. CASE count > Budget
    BY <1>2, BudgetType DEF next_retry_at
  <1>3. CASE ~(count > Budget)
    <2>1. count <= Budget /\ Delays[count] \in Nat
      BY <1>3, BudgetType
    <2>2. Minus(Delays[count], cyc[w].elapsed) # NoRetry
      BY <1>1, <2>1 DEF Minus, NoRetry
    <2> QED
      BY <1>3, <2>1, <2>2 DEF next_retry_at
  <1> QED
    BY <1>2, <1>3

\* begin takes a new match to its first attempt, and one whose last delay it
\* uses to the end of its budget.
LEMMA BegunRow ==
    ASSUME NEW r \in Rows, RowInv(r), NEW w \in Workers,
           r.due # NoRetry => r.retries \in 1 .. Budget,
           NEW count, count = IF r.retries > Budget THEN Budget + 1
                              ELSE r.retries + 1,
           NEW next \in Nat \cup {NoRetry}, next # NoRetry <=> count <= Budget,
           NEW q, q = [r EXCEPT !.retries = count, !.newest = w, !.due = next,
                                !.state = "detail_pending"]
    PROVE  RowInv(q) /\ Move(r, q)
  <1>1. /\ q.retries = count /\ q.due = next /\ q.state = "detail_pending"
        /\ q.scope = r.scope /\ q.content = r.content /\ q.review = r.review
    BY DEF Rows
  <1>2. r.retries \in 0 .. Budget + 1 /\ Budget \in Nat /\ Budget # 0
    BY BudgetType, DelayAssumption DEF Rows, Budget
  <1>3. RowInv(q)
    BY <1>1 DEF RowInv
  <1>4. ASSUME ~r.scope \/ Complete(r.content) PROVE Move(r, q)
    BY <1>1, <1>4 DEF Move, Same, StageOf
  <1>5. ASSUME r.scope, ~Complete(r.content) PROVE Move(r, q)
    <2>1. CASE r.state = "discovered"
      <3>1. StageOf(r) = "new"
        BY <1>5, <2>1 DEF StageOf
      <3>2. next # NoRetry
        BY <1>2, <2>1 DEF RowInv
      <3>3. StageOf(q) = "owed"
        BY <1>1, <1>5, <3>2 DEF StageOf
      <3> QED
        BY <1>1, <3>1, <3>3 DEF Move
    <2>2. CASE r.state # "discovered" /\ r.retries > Budget
      <3>1. r.due = NoRetry /\ next = NoRetry /\ count > Budget
        BY <1>2, <2>2
      <3>2. StageOf(r) = "spent" /\ StageOf(q) = "spent"
        BY <1>1, <1>5, <2>2, <3>1 DEF StageOf
      <3> QED
        BY <1>1, <3>2 DEF Move, Same
    <2>3. CASE r.state # "discovered" /\ r.retries <= Budget
      <3>1. r.due # NoRetry
        BY <1>5, <2>3 DEF RowInv
      <3>2. StageOf(r) = "owed"
        BY <1>5, <2>3, <3>1 DEF StageOf
      <3>3. next = NoRetry => count > Budget
        BY <1>2, <2>3
      <3>4. StageOf(q) \in {"owed", "spent"}
        BY <1>1, <1>5, <3>3 DEF StageOf
      <3> QED
        BY <1>1, <3>2, <3>4 DEF Move, Same
    <2> QED
      BY <1>2, <2>1, <2>2, <2>3
  <1> QED
    BY <1>3, <1>4, <1>5

\* A failure leaves a match where it was.
LEMMA FailedRowMove ==
    ASSUME NEW r \in Rows, RowInv(r), r.state = "detail_pending",
           r.due # NoRetry => r.retries \in 1 .. Budget,
           NEW next \in Nat \cup {NoRetry}, next # NoRetry <=> r.retries <= Budget
    PROVE  RowInv(FailedRow(r, next)) /\ Same(r, FailedRow(r, next))
  <1> DEFINE q == FailedRow(r, next)
  <1>1. /\ q.retries = r.retries /\ q.due = next /\ q.state # "discovered"
        /\ q.scope = r.scope /\ q.content = r.content /\ q.review = r.review
    BY DEF Rows, FailedRow
  <1>2. r.retries \in 0 .. Budget + 1 /\ Budget \in Nat
    BY BudgetType DEF Rows
  <1> HIDE DEF q
  <1>3. RowInv(q)
    BY <1>1 DEF RowInv
  <1>4. ASSUME r.scope, ~Complete(r.content) PROVE Same(r, q)
    <2>1. r.due # NoRetry <=> r.retries <= Budget
      BY <1>2, <1>4 DEF RowInv
    <2> QED
      BY <1>1, <1>4, <2>1 DEF StageOf, Same
  <1>5. ASSUME ~r.scope \/ Complete(r.content) PROVE Same(r, q)
    BY <1>1, <1>5 DEF StageOf, Same
  <1> QED
    BY <1>3, <1>4, <1>5 DEF q

\* A rejection takes a match out of the scope.
LEMMA RejectedRowMove ==
    ASSUME NEW r \in Rows, RowInv(r), r.state = "detail_pending",
           NEW q, q = FailedRow([r EXCEPT !.scope = FALSE, !.review = TRUE,
                                          !.state = "review_required"], NoRetry)
    PROVE  RowInv(q) /\ Move(r, q)
  <1>1. /\ q.state = "review_required" /\ q.scope = FALSE
        /\ q.content = r.content /\ q.review = TRUE
    BY DEF Rows, FailedRow
  <1>2. StageOf(q) = "rejected" /\ RowInv(q)
    BY <1>1 DEF StageOf, RowInv
  <1>3. StageOf(r) # "new"
    BY DEF StageOf, Rows
  <1> QED
    BY <1>1, <1>2, <1>3 DEF Move

\* A success stores a detail that lacks less, puts the match in question or
\* leaves it where it was; a complete detail is stored by then or refused for
\* another complete one, so that NULL for the next retry loses nothing.
LEMMA RecordedRowMove ==
    ASSUME NEW r \in Rows, RowInv(r), r.state = "detail_pending",
           r.due # NoRetry => r.retries \in 1 .. Budget,
           NEW a \in Attempts, a.got \in Contents,
           Complete(a.seen) => r.content = a.seen,
           NEW next \in Nat \cup {NoRetry},
           next # NoRetry <=> ~Complete(a.got) /\ r.retries <= Budget
    PROVE  RowInv(RecordedRow(r, a, next)) /\ Move(r, RecordedRow(r, a, next))
  <1> DEFINE q == RecordedRow(r, a, next)
             same == a.seen = a.got \/ ~AcceptVersion(r.content, a.got)
             asked == a.seen # a.got /\ Correction(r.content, a.got)
  <1>1. /\ q.scope = r.scope /\ q.due = next
        /\ q.content = IF same THEN r.content ELSE a.got
        /\ q.state = StateOf(q.content)
        /\ q.retries = IF Complete(a.got) THEN 0 ELSE r.retries
    BY DEF RecordedRow, Rows
  <1>2. /\ ~asked => q.review = r.review
        /\ asked => q.review = TRUE
    BY DEF RecordedRow, Rows
  <1>3. /\ asked => same /\ r.content # NoContent
        /\ a.got # NoContent
    BY ContentAssumption DEF Correction
  <1>4. /\ q.state # "discovered"
        /\ r.retries \in 0 .. Budget + 1 /\ Budget \in Nat
    BY <1>1, BudgetType DEF StateOf, Rows
  <1>5. ~same => Ledger!Better(a.got, r.content)
    BY AcceptanceTheorem DEF Ledger!Better
  <1> HIDE DEF q, asked
  <1>6. Complete(a.got) => Complete(q.content)
    <2> SUFFICES ASSUME Complete(a.got), same PROVE Complete(r.content)
      BY <1>1
    <2>1. CASE a.seen = a.got
      BY <2>1
    <2>2. CASE ~AcceptVersion(r.content, a.got)
      BY <2>2, AcceptanceTheorem DEF Complete
    <2> QED
      BY <2>1, <2>2
  <1> HIDE DEF same
  <1>7. RowInv(q)
    BY <1>1, <1>4, <1>6 DEF RowInv
  <1>8. StageOf(r) # "new"
    BY DEF StageOf
  <1>9. Complete(r.content) => Complete(q.content)
    <2> SUFFICES ASSUME Complete(r.content), ~same PROVE Complete(a.got)
      BY <1>1
    <2> QED
      BY <1>3, <1>5 DEF Ledger!Better, Complete
  <1>10. ~Complete(q.content) => StageOf(q) = StageOf(r)
    <2> SUFFICES ASSUME ~Complete(q.content), r.scope
                 PROVE  StageOf(q) = StageOf(r)
      BY <1>1 DEF StageOf
    <2>1. ~Complete(r.content) /\ ~Complete(a.got)
      BY <1>6, <1>9
    <2>2. r.due # NoRetry <=> r.retries <= Budget
      BY <1>4, <2>1 DEF RowInv
    <2> QED
      BY <1>1, <1>4, <2>1, <2>2 DEF StageOf
  <1>11. CASE same
    <2>1. q.content = r.content
      BY <1>1, <1>11
    <2>2. StageOf(q) = StageOf(r)
      BY <1>1, <1>10, <2>1 DEF StageOf
    <2>3. ASSUME asked PROVE Move(r, q)
      BY <1>2, <1>3, <2>1, <2>2, <2>3 DEF Move
    <2>4. ASSUME ~asked PROVE Move(r, q)
      BY <1>2, <2>1, <2>2, <2>4 DEF Move, Same
    <2> QED
      BY <1>7, <2>3, <2>4 DEF q
  <1>12. CASE ~same
    <2>1. q.content = a.got /\ q.review = r.review
      BY <1>1, <1>2, <1>3, <1>12
    <2>2. q.content \in Contents /\ Ledger!Better(q.content, r.content)
      BY <1>5, <1>12, <2>1
    <2>3. Complete(q.content) <=> MissingOf[q.content] = {}
      BY <1>3, <2>1 DEF Complete
    <2>4. StageOf(r) # "rejected" <=> r.scope
      BY DEF StageOf
    <2>5. StageOf(q) = IF StageOf(r) # "rejected" /\ MissingOf[q.content] = {}
                       THEN "complete" ELSE StageOf(r)
      <3>1. CASE ~r.scope
        BY <1>1, <3>1 DEF StageOf
      <3>2. CASE r.scope /\ Complete(q.content)
        BY <1>1, <2>3, <2>4, <3>2 DEF StageOf
      <3>3. CASE r.scope /\ ~Complete(q.content)
        BY <1>10, <2>3, <2>4, <3>3
      <3> QED
        BY <3>1, <3>2, <3>3
    <2>6. Move(r, q)
      BY <1>8, <2>1, <2>2, <2>5 DEF Move
    <2> QED
      BY <1>7, <2>6 DEF q
  <1> QED
    BY <1>11, <1>12

\* Rows that differ in what IngestLedger does not see.
Alike(r, q) ==
    /\ q.state = r.state /\ q.scope = r.scope /\ q.retries = r.retries
    /\ q.content = r.content /\ q.review = r.review
    /\ q.due = NoRetry <=> r.due = NoRetry

\* Every step moves one match of the ledger, or none.
LEMMA RowEffect ==
    ASSUME LInv, [Next]_vars
    PROVE  \/ \A m \in Matches : Alike(row[m], row'[m])
           \/ \E m \in Matches : \E q :
                 /\ row' = [row EXCEPT ![m] = q]
                 /\ RowInv(q) /\ Move(row[m], q)
  <1> DEFINE Quiet == \A m \in Matches : Alike(row[m], row'[m])
             Moved == \E m \in Matches : \E q :
                         /\ row' = [row EXCEPT ![m] = q]
                         /\ RowInv(q) /\ Move(row[m], q)
  <1> SUFFICES Quiet \/ Moved
    OBVIOUS
  <1>0. /\ row \in [Matches -> Rows] /\ TypeOK /\ Fence
        /\ \A m \in Matches : /\ row[m] \in Rows /\ RowInv(row[m])
                              /\ row[m].due # NoRetry
                                 => row[m].retries \in 1 .. Budget
    BY DEF LInv, IInv, TypeOK
  <1>1. ASSUME row' = row PROVE Quiet
    BY <1>1 DEF Alike
  <1>2. ASSUME Tick PROVE Quiet
    <2> SUFFICES ASSUME NEW m \in Matches PROVE Alike(row[m], row'[m])
      OBVIOUS
    <2>1. row'[m] = [row[m] EXCEPT !.due = IF row[m].due = NoRetry THEN NoRetry
                                           ELSE Minus(row[m].due, 1)]
      BY <1>2 DEF Tick
    <2>2. row[m].due # NoRetry => Minus(row[m].due, 1) # NoRetry
      BY <1>0 DEF Rows, Minus, NoRetry
    <2> QED
      BY <1>0, <2>1, <2>2 DEF Alike, Rows
  <1>3. ASSUME NEW w \in Workers, NEW x \in Matches, record_discovered_match(w, x)
        PROVE  Quiet
    <2>1. row' = [row EXCEPT ![x] = [row[x] EXCEPT !.known = TRUE]]
      BY <1>0, <1>3 DEF record_discovered_match
    <2>2. Alike(row[x], [row[x] EXCEPT !.known = TRUE])
      BY <1>0 DEF Alike, Rows
    <2>3. \A m \in Matches : Alike(row[m], row[m])
      BY DEF Alike
    <2> QED
      BY <1>0, <2>1, <2>2, <2>3
  <1>4. ASSUME NEW w \in Workers, NEW x \in Matches, begin_ingest_attempt(w, x)
        PROVE  Moved
    <2> DEFINE count == IF row[x].retries > Budget THEN Budget + 1
                        ELSE row[x].retries + 1
               next == next_retry_at(w, count)
               q == [row[x] EXCEPT !.retries = count, !.newest = w,
                                   !.due = next, !.state = "detail_pending"]
    <2>1. count \in 1 .. Budget + 1
      BY <1>0, BudgetType DEF Rows
    <2>2. row' = [row EXCEPT ![x] = q]
      BY <1>0, <1>4 DEF begin_ingest_attempt
    <2>3. count = IF row[x].retries > Budget THEN Budget + 1
                  ELSE row[x].retries + 1
      OBVIOUS
    <2> HIDE DEF count
    <2>4. next \in Nat \cup {NoRetry} /\ (next # NoRetry <=> count <= Budget)
      BY <1>0, <2>1, NextRetryType, NextRetryExact
    <2> HIDE DEF next
    <2>5. q = [row[x] EXCEPT !.retries = count, !.newest = w, !.due = next,
                             !.state = "detail_pending"]
      OBVIOUS
    <2> HIDE DEF q
    <2>6. RowInv(q) /\ Move(row[x], q)
      BY <1>0, <2>3, <2>4, <2>5, BegunRow
    <2> QED
      BY <2>2, <2>6
  <1>5. ASSUME NEW w \in Workers, NEW x \in Matches, ~Superseded(w, x),
               att[w][x].pc \in {"begun", "fetched"}
        PROVE  /\ row[x].state = "detail_pending"
               /\ row[x].retries = att[w][x].count
               /\ att[w][x].count \in 1 .. Budget + 1
    BY <1>0, <1>5 DEF Fence, Superseded
  <1>6. ASSUME NEW w \in Workers, NEW x \in Matches, FetchFails(w, x)
        PROVE  Quiet \/ Moved
    <2> DEFINE next == next_retry_at(w, att[w][x].count)
               q == FailedRow(row[x], next)
    <2>1. CASE Superseded(w, x)
      BY <1>1, <1>6, <2>1 DEF FetchFails
    <2>2. CASE ~Superseded(w, x)
      <3>1. row' = [row EXCEPT ![x] = q] /\ att[w][x].pc = "begun"
        BY <1>6, <2>2 DEF FetchFails
      <3>2. /\ next \in Nat \cup {NoRetry}
            /\ next # NoRetry <=> row[x].retries <= Budget
        BY <1>0, <1>5, <2>2, <3>1, NextRetryType, NextRetryExact
      <3> HIDE DEF next
      <3>3. RowInv(q) /\ Same(row[x], q)
        BY <1>0, <1>5, <2>2, <3>1, <3>2, FailedRowMove
      <3> HIDE DEF q
      <3> QED
        BY <3>1, <3>3 DEF Move
    <2> QED
      BY <2>1, <2>2
  <1>7. ASSUME NEW w \in Workers, NEW x \in Matches, record_scope_rejection(w, x)
        PROVE  Quiet \/ Moved
    <2> DEFINE q == FailedRow([row[x] EXCEPT !.scope = FALSE, !.review = TRUE,
                                             !.state = "review_required"],
                              NoRetry)
    <2>1. CASE Superseded(w, x)
      BY <1>1, <1>7, <2>1 DEF record_scope_rejection
    <2>2. CASE ~Superseded(w, x)
      <3>1. row' = [row EXCEPT ![x] = q] /\ att[w][x].pc = "fetched"
        BY <1>7, <2>2 DEF record_scope_rejection
      <3>2. q = FailedRow([row[x] EXCEPT !.scope = FALSE, !.review = TRUE,
                                         !.state = "review_required"], NoRetry)
        OBVIOUS
      <3> HIDE DEF q
      <3>3. RowInv(q) /\ Move(row[x], q)
        BY <1>0, <1>5, <2>2, <3>1, <3>2, RejectedRowMove
      <3> QED
        BY <3>1, <3>3
    <2> QED
      BY <2>1, <2>2
  <1>8. ASSUME NEW w \in Workers, NEW x \in Matches, record_ingest_success(w, x)
        PROVE  Quiet \/ Moved
    <2> DEFINE a == att[w][x]
               next == IF Complete(a.got) THEN NoRetry ELSE next_retry_at(w, a.count)
               q == RecordedRow(row[x], a, next)
    <2>1. CASE Superseded(w, x)
      BY <1>1, <1>8, <2>1 DEF record_ingest_success
    <2>2. CASE ~Superseded(w, x)
      <3>1. row' = [row EXCEPT ![x] = q] /\ att[w][x].pc = "fetched"
        BY <1>8, <2>2 DEF record_ingest_success
      <3>2. /\ next \in Nat \cup {NoRetry}
            /\ next # NoRetry <=> ~Complete(a.got) /\ row[x].retries <= Budget
        BY <1>0, <1>5, <2>2, <3>1, NextRetryType, NextRetryExact
      <3>3. /\ a \in Attempts /\ a.got \in Contents
            /\ Complete(a.seen) => row[x].content = a.seen
        BY <1>0, <3>1 DEF LInv, SeenStands, TypeOK
      <3> HIDE DEF next
      <3>4. row[x].state = "detail_pending"
        BY <1>5, <2>2, <3>1
      <3> HIDE DEF a
      <3>5. RowInv(q) /\ Move(row[x], q)
        BY <1>0, <3>2, <3>3, <3>4, RecordedRowMove
      <3> HIDE DEF q
      <3> QED
        BY <3>1, <3>5
    <2> QED
      BY <2>1, <2>2
  <1>9. ASSUME NEW w \in Workers, WorkerStep(w) PROVE Quiet \/ Moved
    <2>1. \/ row' = row
          \/ \E x \in Matches :
                \/ record_discovered_match(w, x) \/ begin_ingest_attempt(w, x)
                \/ record_scope_rejection(w, x) \/ record_ingest_success(w, x)
      BY <1>9 DEF WorkerStep, IngestMatch, poll_active, rescan_recent, Poll,
         RunEnds, SelectMatches, set_scheduler_checkpoint, get_ingest_status,
         FetchMatch, WorkerStarts
    <2> HIDE DEF Quiet, Moved
    <2> QED
      BY <1>1, <1>3, <1>4, <1>7, <1>8, <2>1
  <1>10. \/ row' = row \/ Tick
         \/ \E w \in Workers :
               WorkerStep(w) \/ \E x \in Matches : FetchFails(w, x)
    BY DEF Next, vars, MatchIsListed, DetailChanges, EventEnds, WorkerDies
  <1> HIDE DEF Quiet, Moved
  <1> QED
    BY <1>1, <1>2, <1>6, <1>9, <1>10

\* An attempt changes what it has seen when it reads the row only, and gets
\* what OpenDota serves.
LEMMA AttemptEffect ==
    ASSUME LInv, [Next]_vars, NEW w \in Workers, NEW m \in Matches
    PROVE  /\ att'[w][m].pc \in {"read", "begun", "fetched"}
              => \/ /\ att[w][m].pc \in {"read", "begun", "fetched"}
                    /\ att'[w][m].seen = att[w][m].seen
                 \/ row' = row /\ att'[w][m].seen = row[m].content
           /\ att'[w][m].pc = "fetched" => att'[w][m].got \in Contents
  <1> DEFINE Old == att'[w][m] = att[w][m]
             Idle == att'[w][m].pc \in {"none", "selected"}
             Read == /\ row' = row /\ att'[w][m].pc = "read"
                     /\ att'[w][m].seen = row[m].content
             On == /\ att[w][m].pc \in {"read", "begun"}
                   /\ att'[w][m].seen = att[w][m].seen
                   /\ att'[w][m].pc = "fetched" => att'[w][m].got \in Contents
             Good == Old \/ Idle \/ Read \/ On
  <1>0. /\ att \in [Workers -> [Matches -> Attempts]]
        /\ \A x \in Matches : serves[x] \in Contents
        /\ SeenStands
    BY DEF LInv, IInv, TypeOK
  <1>1. NoAttempt.pc = "none"
    BY DEF NoAttempt
  <1>2. ASSUME NEW v \in Workers, NEW x \in Matches, NEW a,
               att' = [att EXCEPT ![v][x] = a],
               \/ a.pc \in {"none", "selected"}
               \/ row' = row /\ a.pc = "read" /\ a.seen = row[x].content
               \/ /\ att[v][x].pc \in {"read", "begun"}
                  /\ a.seen = att[v][x].seen
                  /\ a.pc = "fetched" => a.got \in Contents
        PROVE  Good
    <2>1. CASE v = w /\ x = m
      <3>1. att'[w][m] = a
        BY <1>0, <1>2, <2>1
      <3> QED
        BY <1>2, <2>1, <3>1
    <2>2. CASE ~(v = w /\ x = m)
      BY <1>0, <1>2, <2>2
    <2> QED
      BY <2>1, <2>2
  <1>3. ASSUME NEW v \in Workers, NEW x \in Matches, get_ingest_status(v, x)
        PROVE  Good
    <2> DEFINE a == [att[v][x] EXCEPT !.pc = "read", !.seen = row[x].content]
    <2>1. att' = [att EXCEPT ![v][x] = a] /\ row' = row
      BY <1>0, <1>3 DEF get_ingest_status
    <2>2. a.pc = "read" /\ a.seen = row[x].content
      BY <1>0 DEF Attempts
    <2> HIDE DEF a, Good
    <2> QED
      BY <1>2, <2>1, <2>2
  <1>4. ASSUME NEW v \in Workers, NEW x \in Matches, begin_ingest_attempt(v, x)
        PROVE  Good
    <2> DEFINE count == IF row[x].retries > Budget THEN Budget + 1
                        ELSE row[x].retries + 1
               a == [att[v][x] EXCEPT !.pc = "begun", !.count = count]
    <2>1. att' = [att EXCEPT ![v][x] = a] /\ att[v][x].pc = "read"
      BY <1>0, <1>4 DEF begin_ingest_attempt
    <2>2. a.pc = "begun" /\ a.seen = att[v][x].seen
      BY <1>0 DEF Attempts
    <2> HIDE DEF a, Good
    <2> QED
      BY <1>2, <2>1, <2>2
  <1>5. ASSUME NEW v \in Workers, NEW x \in Matches, FetchMatch(v, x)
        PROVE  Good
    <2> DEFINE a == [att[v][x] EXCEPT !.pc = "fetched", !.got = serves[x]]
    <2>1. att' = [att EXCEPT ![v][x] = a] /\ att[v][x].pc = "begun"
      BY <1>0, <1>5 DEF FetchMatch
    <2>2. a.seen = att[v][x].seen /\ a.got \in Contents
      BY <1>0 DEF Attempts
    <2> HIDE DEF a, Good
    <2> QED
      BY <1>2, <2>1, <2>2
  <1>6. ASSUME NEW v \in Workers, NEW x \in Matches, Finished(v, x) PROVE Good
    <2> HIDE DEF Good
    <2> QED
      BY <1>1, <1>2, <1>6 DEF Finished
  <1>7. ASSUME NEW v \in Workers, SelectMatches(v) PROVE Good
    <2>1. PICK selected :
            att' = [att EXCEPT ![v] =
                      [x \in Matches |->
                          [NoAttempt EXCEPT !.pc = IF x \in selected
                                                   THEN "selected"
                                                   ELSE "none"]]]
      BY <1>7 DEF SelectMatches
    <2>2. \A pc \in {"none", "selected"} : [NoAttempt EXCEPT !.pc = pc].pc = pc
      BY DEF NoAttempt
    <2>3. CASE v = w
      BY <1>0, <2>1, <2>2, <2>3
    <2>4. CASE v # w
      BY <1>0, <2>1, <2>4
    <2> QED
      BY <2>3, <2>4
  <1>8. ASSUME NEW v \in Workers, WorkerDies(v) PROVE Good
    BY <1>0, <1>1, <1>8 DEF WorkerDies
  <1>9. ASSUME NEW v \in Workers, WorkerStep(v) PROVE Good
    <2>1. \/ att' = att \/ SelectMatches(v)
          \/ \E x \in Matches :
                \/ get_ingest_status(v, x) \/ begin_ingest_attempt(v, x)
                \/ FetchMatch(v, x) \/ Finished(v, x)
      BY <1>9 DEF WorkerStep, IngestMatch, poll_active, rescan_recent, Poll,
         RunEnds, set_scheduler_checkpoint, record_discovered_match,
         record_scope_rejection, record_ingest_success, WorkerStarts
    <2>2. att' = att => Good
      OBVIOUS
    <2> HIDE DEF Good
    <2> QED
      BY <1>3, <1>4, <1>5, <1>6, <1>7, <2>1, <2>2
  <1>10. \/ att' = att
         \/ \E v \in Workers :
               \/ WorkerStep(v) \/ WorkerDies(v)
               \/ \E x \in Matches : Finished(v, x)
    BY DEF Next, vars, MatchIsListed, DetailChanges, EventEnds, Tick, FetchFails
  <1>11. att' = att => Good
    OBVIOUS
  <1>12. Good
    <2> HIDE DEF Good
    <2> QED
      BY <1>6, <1>8, <1>9, <1>10, <1>11
  <1> QED
    BY <1>0, <1>12 DEF SeenStands

\* A match whose detail is complete has the same detail after the step.
LEMMA CompleteStays ==
    ASSUME LInv, [Next]_vars, NEW m \in Matches, DetailComplete(m)
    PROVE  row'[m].content = row[m].content
  <1>1. \A got : ~(AcceptVersion(row[m].content, got))
    BY AcceptanceTheorem DEF DetailComplete, Complete
  <1> QED
    BY <1>1, RowChange DEF LInv

\* The invariant of the ledger holds at first and is kept by every step.
LEMMA LedgerInvariant == Spec => []LInv
  <1>1. Init => LInv
    <2> SUFFICES ASSUME Init PROVE LInv
      OBVIOUS
    <2>1. IInv
      BY InitIInv
    <2>2. SeenStands
      BY DEF Init, SeenStands, NoAttempt
    <2>3. \A m \in Matches : row[m] = UnknownRow
      BY DEF Init
    <2>4. RowInv(UnknownRow)
      BY DEF RowInv, UnknownRow
    <2> QED
      BY <2>1, <2>2, <2>3, <2>4 DEF LInv
  <1>2. LInv /\ [Next]_vars => LInv'
    <2> SUFFICES ASSUME LInv, [Next]_vars PROVE LInv'
      OBVIOUS
    <2>1. IInv'
      BY NextIInv DEF LInv
    <2>2. SeenStands'
      <3> SUFFICES ASSUME NEW w \in Workers, NEW m \in Matches
                   PROVE  /\ att'[w][m].pc \in {"read", "begun", "fetched"}
                             /\ Complete(att'[w][m].seen)
                             => row'[m].content = att'[w][m].seen
                          /\ att'[w][m].pc = "fetched"
                             => att'[w][m].got \in Contents
        BY DEF SeenStands, Complete
      <3>1. att'[w][m].pc = "fetched" => att'[w][m].got \in Contents
        BY AttemptEffect
      <3>2. ASSUME att'[w][m].pc \in {"read", "begun", "fetched"},
                   Complete(att'[w][m].seen)
            PROVE  row'[m].content = att'[w][m].seen
        <4>1. CASE row' = row /\ att'[w][m].seen = row[m].content
          BY <4>1
        <4>2. CASE /\ att[w][m].pc \in {"read", "begun", "fetched"}
                   /\ att'[w][m].seen = att[w][m].seen
          <5>1. row[m].content = att[w][m].seen
            BY <3>2, <4>2 DEF LInv, SeenStands
          <5>2. DetailComplete(m)
            BY <3>2, <4>2, <5>1 DEF DetailComplete
          <5> QED
            BY <4>2, <5>1, <5>2, CompleteStays
        <4> QED
          BY <3>2, <4>1, <4>2, AttemptEffect
      <3> QED
        BY <3>1, <3>2
    <2>3. ASSUME NEW m \in Matches PROVE RowInv(row'[m])
      <3>0. RowInv(row[m]) /\ row \in [Matches -> Rows]
        BY DEF LInv, IInv, TypeOK
      <3>1. CASE \A x \in Matches : Alike(row[x], row'[x])
        <4>1. Alike(row[m], row'[m])
          BY <3>1
        <4> QED
          BY <3>0, <4>1 DEF Alike, RowInv
      <3>2. ASSUME NEW x \in Matches, NEW q, row' = [row EXCEPT ![x] = q], RowInv(q)
            PROVE  RowInv(row'[m])
        BY <3>0, <3>2
      <3> QED
        BY <3>1, <3>2, RowEffect
    <2>4. (\A m \in Matches : RowInv(row[m]))'
      BY <2>3 DEF RowInv, Complete, Budget
    <2> QED
      BY <2>1, <2>2, <2>4 DEF LInv
  <1> QED
    BY <1>1, <1>2, PTL DEF Spec

\* RetryIsScheduled in every behaviour: whichever worker dies or answers late,
\* an attempted match is complete, rejected, spent or has its retry on record.
THEOREM RetryTheorem == Spec => []RetryIsScheduled
  <1>1. LInv => RetryIsScheduled
    BY DEF LInv, RowInv, RetryIsScheduled, DetailComplete
  <1> QED
    BY LedgerInvariant, <1>1, PTL

\* A match of the ledger that moves takes one step of IngestLedger.
LEMMA MoveIsLedgerStep ==
    ASSUME row \in [Matches -> Rows], NEW m \in Matches, NEW q,
           row' = [row EXCEPT ![m] = q], Move(row[m], q)
    PROVE  [Ledger!Next]_(Ledger!vars)
  <1> DEFINE stage == [x \in Matches |-> StageOf(row[x])]
             detail == [x \in Matches |-> row[x].content]
             review == [x \in Matches |-> row[x].review]
  <1>1. /\ stage' = [stage EXCEPT ![m] = StageOf(q)]
        /\ detail' = [detail EXCEPT ![m] = q.content]
        /\ review' = [review EXCEPT ![m] = q.review]
    <2>1. \A x \in Matches : row'[x] = IF x = m THEN q ELSE row[x]
      OBVIOUS
    <2>2. \A r : StageOf(r)' = StageOf(r)
      BY DEF StageOf, Complete, Budget
    <2> QED
      BY <2>1, <2>2
  <1>2. /\ stage[m] = StageOf(row[m]) /\ detail[m] = row[m].content
        /\ review[m] = row[m].review
    OBVIOUS
  <1>3. stage = [x \in Matches |-> stage[x]] /\ detail = [x \in Matches |-> detail[x]]
        /\ review = [x \in Matches |-> review[x]]
    OBVIOUS
  <1> HIDE DEF stage, detail, review
  <1> DEFINE Step == \/ UNCHANGED <<stage, detail, review>>
                     \/ Ledger!Attempt(m) \/ Ledger!Spend(m)
                     \/ Ledger!Question(m) \/ Ledger!Reject(m)
                     \/ \E c \in Contents : Ledger!Store(m, c)
  <1>4. ASSUME Same(row[m], q) PROVE Step
    BY <1>1, <1>2, <1>3, <1>4 DEF Same
  <1>5. ASSUME q.content = row[m].content, q.review = row[m].review,
               StageOf(row[m]) = "new", StageOf(q) = "owed"
        PROVE  Step
    BY <1>1, <1>2, <1>3, <1>5 DEF Ledger!Attempt, stage, detail, review
  <1>6. ASSUME q.content = row[m].content, q.review = row[m].review,
               StageOf(row[m]) = "owed", StageOf(q) = "spent"
        PROVE  Step
    BY <1>1, <1>2, <1>3, <1>6 DEF Ledger!Spend, stage, detail, review
  <1>7. ASSUME StageOf(row[m]) # "new", q.content \in Contents,
               Ledger!Better(q.content, row[m].content),
               q.review = row[m].review,
               StageOf(q) = IF StageOf(row[m]) # "rejected"
                               /\ MissingOf[q.content] = {}
                            THEN "complete" ELSE StageOf(row[m])
        PROVE  Step
    BY <1>1, <1>2, <1>3, <1>7 DEF Ledger!Store, stage, detail, review
  <1>8. ASSUME row[m].content # NoContent, q.review = TRUE,
               q.content = row[m].content, StageOf(q) = StageOf(row[m])
        PROVE  Step
    <2>1. stage' = stage /\ detail' = detail
      BY <1>1, <1>2, <1>3, <1>8
    <2>2. review' = [review EXCEPT ![m] = TRUE]
      BY <1>1, <1>8, Zenon
    <2>3. detail[m] # NoContent
      BY <1>2, <1>8
    <2> QED
      BY <2>1, <2>2, <2>3, Zenon DEF Ledger!Question, stage, detail, review
  <1>9. ASSUME StageOf(row[m]) # "new", StageOf(q) = "rejected",
               q.review = TRUE, q.content = row[m].content
        PROVE  Step
    <2>1. detail' = detail /\ stage' = [stage EXCEPT ![m] = "rejected"]
      BY <1>1, <1>2, <1>3, <1>9
    <2>2. review' = [review EXCEPT ![m] = TRUE]
      BY <1>1, <1>9, Zenon
    <2>3. stage[m] # "new"
      BY <1>2, <1>9
    <2> QED
      BY <2>1, <2>2, <2>3, Zenon DEF Ledger!Reject, stage, detail, review
  <1>10. Step
    <2> HIDE DEF Step
    <2> QED
      BY <1>4, <1>5, <1>6, <1>7, <1>8, <1>9 DEF Move
  <1> QED
    BY <1>10 DEF Ledger!Next, Ledger!vars, stage, detail, review

\* ImplementsLedger in every behaviour: the workers, with their fences, deaths
\* and late answers, implement IngestLedger.
THEOREM LedgerTheorem == Spec => ImplementsLedger
  <1>1. Init => Ledger!Init
    BY DEF Init, Ledger!Init, UnknownRow, StageOf, Complete
  <1>2. LInv /\ [Next]_vars => [Ledger!Next]_(Ledger!vars)
    <2> SUFFICES ASSUME LInv, [Next]_vars PROVE [Ledger!Next]_(Ledger!vars)
      OBVIOUS
    <2>1. row \in [Matches -> Rows]
      BY DEF LInv, IInv, TypeOK
    <2>2. ASSUME \A m \in Matches : Alike(row[m], row'[m])
          PROVE  UNCHANGED Ledger!vars
      <3>1. ASSUME NEW m \in Matches
            PROVE  /\ row'[m].content = row[m].content
                   /\ row'[m].review = row[m].review
                   /\ StageOf(row'[m]) = StageOf(row[m])
        BY <2>2 DEF Alike, StageOf
      <3>2. \A r : StageOf(r)' = StageOf(r)
        BY DEF StageOf, Complete, Budget
      <3> QED
        BY <3>1, <3>2 DEF Ledger!vars
    <2>3. ASSUME NEW m \in Matches, NEW q, row' = [row EXCEPT ![m] = q],
                 Move(row[m], q)
          PROVE  [Ledger!Next]_(Ledger!vars)
      BY <2>1, <2>3, MoveIsLedgerStep
    <2> QED
      BY <2>2, <2>3, RowEffect
  <1> QED
    BY <1>1, <1>2, LedgerInvariant, PTL DEF Spec, ImplementsLedger, Ledger!Spec

=============================================================================

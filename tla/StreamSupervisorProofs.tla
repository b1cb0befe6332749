------------------------ MODULE StreamSupervisorProofs ------------------------
(***************************************************************************)
(* Proofs about StreamSupervisor, for every set of matches and rows, every *)
(* number of slots, every schedule of delays and every bound.              *)
(***************************************************************************)
EXTENDS StreamSupervisor, FiniteSetTheorems, TLAPS

Retries == [attempts: 0 .. MaxFailures, wait: Nat, exhausted: BOOLEAN]

\* The children and the slots still to be filled never exceed the limit.
SlotsCounted == Cardinality(Children) + slots <= MaxConcurrent

\* A child belongs to a match that is not given up; the queue holds matches
\* without a child that are not given up, and only while matches are started.
Startable ==
    /\ \A m \in Matches :
        /\ ~retry[m].exhausted => retry[m].attempts < MaxFailures
        /\ child[m] # "none" => ~retry[m].exhausted
    /\ pc # "start" => queue = {} /\ slots = 0
    /\ \A m \in queue : child[m] = "none" /\ ~retry[m].exhausted

\* In the iteration's place of starts, a match without a child is in the
\* queue or held back by its failures.
HeldBack ==
    pc = "start" => \A m \in active :
        child[m] = "none"
        => m \in queue \/ retry[m].exhausted \/ retry[m].wait > 0

\* The starts that changed nothing are failures that the retry state counts.
SilenceCounted ==
    \A m \in Matches : silent[m] <= retry[m].attempts

\* What changed was written by a capture, which ends the silence, and the
\* exited children that Look found changed are still what they were at Reap.
OutputKnown ==
    /\ \A m \in Matches : changed[m] => silent[m] = 0
    /\ pc = "start" => \A m \in Matches : changed[m] => child[m] # "none"
    /\ pc # "reap" => exited = {}
    /\ \A m \in exited : child[m] = "exited" /\ changed[m]

\* A stop has enumerated every running child, unless one was started since.
StopKnows ==
    ~unclean => /\ \A m \in Matches : orphans[m] = 0
                /\ stopping => Running \subseteq targets

\* The inductive invariant.
IInv == /\ TypeOK
        /\ SlotsCounted /\ Startable /\ HeldBack
        /\ SilenceCounted /\ OutputKnown /\ StopKnows

-----------------------------------------------------------------------------
(* The operators.                                                          *)

\* Any row has one of the kinds of evidence (active_match_evidence).
LEMMA EvidenceType == \A r : EvidenceOf(r) \in Evidence
  BY DEF EvidenceOf, Evidence

\* A heartbeat that grows older stays a heartbeat.
LEMMA OlderType == ASSUME NEW b \in Beats PROVE Older(b) \in Beats
  <1>1. NoBeat \in Beats
    BY DelayAssumption DEF NoBeat, Beats
  <1>2. ASSUME b.age < HeartbeatGrace
        PROVE  [age |-> b.age + 1, open |-> b.open,
                trusted |-> b.trusted /\ b.age < OutputAge] \in Beats
    <2> DEFINE t == b.trusted /\ b.age < OutputAge
    <2>1. t \in BOOLEAN
      OBVIOUS
    <2>2. b.age + 1 \in 0 .. HeartbeatGrace + 1 /\ b.open \in BOOLEAN
      BY <1>2, DelayAssumption DEF Beats
    <2> HIDE DEF t
    <2>3. [age |-> b.age + 1, open |-> b.open, trusted |-> t] \in Beats
      BY <2>1, <2>2 DEF Beats
    <2> QED
      BY <2>3 DEF t
  <1>3. b.age \in Int
    BY DelayAssumption DEF Beats
  <1> QED
    BY <1>1, <1>2, <1>3, DelayAssumption DEF Older

\* The limit is at least two, and a failure below it has a delay.
LEMMA DelayType ==
    /\ MaxFailures \in Nat /\ MaxFailures >= 2
    /\ \A i \in 1 .. MaxFailures - 1 : Delays[i] \in Nat \ {0}
  BY DelayAssumption DEF MaxFailures

\* A failure counts one more, or starts the count anew at one, and holds the
\* match back (watcher_retry_after_failure).
LEMMA AfterFailure ==
    ASSUME NEW p \in Retries, p.attempts < MaxFailures,
           NEW produced \in BOOLEAN, NEW probe \in BOOLEAN
    PROVE  LET r == watcher_retry_after_failure(p, produced, probe)
           IN  /\ r \in Retries
               /\ ~r.exhausted => r.attempts < MaxFailures
               /\ r.exhausted \/ r.wait > 0
               /\ r.attempts >= 1
               /\ ~produced /\ ~probe => r.attempts = p.attempts + 1
  <1> DEFINE a == IF produced THEN 1 ELSE p.attempts + 1
  <1>1. p.attempts \in Nat
    BY DEF Retries
  <1>2. a \in 1 .. MaxFailures
    BY <1>1, DelayType
  <1>3. CASE probe /\ ~produced
    <2>1. watcher_retry_after_failure(p, produced, probe)
            = [attempts |-> 1, wait |-> ProbeDelay, exhausted |-> FALSE]
      BY <1>3 DEF watcher_retry_after_failure
    <2>2. 1 \in 0 .. MaxFailures /\ 1 < MaxFailures
      BY DelayType
    <2>3. ProbeDelay \in Nat /\ ProbeDelay > 0
      BY DelayAssumption
    <2>4. [attempts |-> 1, wait |-> ProbeDelay, exhausted |-> FALSE] \in Retries
      BY <2>2, <2>3 DEF Retries
    <2> DEFINE r == watcher_retry_after_failure(p, produced, probe)
    <2> HIDE DEF r
    <2>5. r = [attempts |-> 1, wait |-> ProbeDelay, exhausted |-> FALSE]
      BY <2>1 DEF r
    <2>6. r \in Retries /\ r.attempts = 1 /\ r.wait = ProbeDelay /\ ~r.exhausted
      BY <2>4, <2>5
    <2>7. /\ ~r.exhausted => r.attempts < MaxFailures
          /\ r.exhausted \/ r.wait > 0
          /\ r.attempts >= 1
      BY <2>2, <2>3, <2>6
    <2> QED
      BY <1>3, <2>6, <2>7 DEF r
  <1>4. CASE ~(probe /\ ~produced)
    <2> DEFINE e == a >= MaxFailures
               d == IF e THEN 0 ELSE Delays[a]
    <2>1. watcher_retry_after_failure(p, produced, probe)
            = [attempts |-> a, wait |-> d, exhausted |-> e]
      BY <1>4 DEF watcher_retry_after_failure
    <2>2. d \in Nat /\ (~e => d > 0 /\ a < MaxFailures)
      BY <1>2, DelayType
    <2>3. e \in BOOLEAN
      OBVIOUS
    <2>4. a \in 0 .. MaxFailures /\ a >= 1
      BY <1>2, DelayType
    <2>5. ~produced => a = p.attempts + 1
      OBVIOUS
    <2> DEFINE r == watcher_retry_after_failure(p, produced, probe)
    <2> HIDE DEF a, d, e, r
    <2>6. r = [attempts |-> a, wait |-> d, exhausted |-> e]
      BY <2>1 DEF r
    <2>7. r \in Retries
      BY <2>2, <2>3, <2>4, <2>6 DEF Retries
    <2>8. r.attempts = a /\ r.wait = d /\ (r.exhausted <=> e)
      BY <2>6
    <2>9. /\ ~r.exhausted => r.attempts < MaxFailures
          /\ r.exhausted \/ r.wait > 0
          /\ r.attempts >= 1
          /\ ~produced /\ ~probe => r.attempts = p.attempts + 1
      BY <2>2, <2>4, <2>5, <2>8
    <2> QED
      BY <2>7, <2>9 DEF r
  <1> QED
    BY <1>3, <1>4

\* The first state.
LEMMA InitIInv == Init => IInv
  <1> SUFFICES ASSUME Init PROVE IInv
    OBVIOUS
  <1>1. NoBeat \in Beats /\ NoRetry \in Retries
    BY DelayAssumption, DelayType DEF NoBeat, Beats, NoRetry, Retries
  <1>2. Children = {} /\ Cardinality(Children) = 0
    BY FS_EmptySet DEF Init, Children
  <1>3. TypeOK
    <2>1. /\ seen \in [Matches -> Evidence] /\ child \in [Matches -> Child]
          /\ beat \in [Matches -> Beats] /\ retry \in [Matches -> Retries]
      BY <1>1 DEF Init, Evidence, Child
    <2>2. /\ slots \in 0 .. MaxConcurrent
          /\ Cardinality(Children) <= MaxConcurrent
          /\ changes \in 0 .. MaxChanges /\ faults \in 0 .. MaxFaults
      BY <1>2, BoundAssumption DEF Init
    <2> QED
      BY <2>1, <2>2 DEF Init, TypeOK, Retries
  <1>4. ~NoRetry.exhausted /\ NoRetry.attempts = 0
    BY DEF NoRetry
  <1>5. SlotsCounted
    BY <1>2, BoundAssumption DEF Init, SlotsCounted
  <1>6. Startable
    BY <1>4, DelayType DEF Init, Startable
  <1>7. HeldBack /\ SilenceCounted /\ OutputKnown /\ StopKnows
    BY <1>4 DEF Init, HeldBack, SilenceCounted, OutputKnown, StopKnows
  <1> QED
    BY <1>3, <1>5, <1>6, <1>7 DEF IInv

-----------------------------------------------------------------------------
(* The steps, first those outside of an iteration.                         *)

\* A step that changes only the rows, the clock of faults, or the place of
\* the iteration where nothing is queued.
LEMMA QuietStep ==
    ASSUME IInv, \/ \E m \in Matches : RowChanges(m)
                 \/ LookFails \/ Restart
    PROVE  IInv'
  <1>1. /\ UNCHANGED <<memory, child, changed, beat, orphans, stop, ghosts>>
        /\ row' \in [Matches -> Rows]
        /\ pc' = pc \/ (pc \notin {"start", "reap"} /\ pc' \in {"look", "sleep"})
        /\ changes' \in 0 .. MaxChanges /\ faults' \in 0 .. MaxFaults
    BY BoundAssumption DEF IInv, TypeOK, RowChanges, LookFails, Restart, bounds,
       memory, stop, ghosts
  <1>2. TypeOK'
    BY <1>1 DEF IInv, TypeOK, Children, memory, stop, ghosts
  <1>3. SlotsCounted' /\ Startable' /\ HeldBack' /\ SilenceCounted'
    BY <1>1 DEF IInv, SlotsCounted, Startable, HeldBack, SilenceCounted,
       Children, memory, ghosts
  <1>4. OutputKnown' /\ StopKnows'
    BY <1>1 DEF IInv, OutputKnown, StopKnows, Running, memory, stop, ghosts
  <1> QED
    BY <1>2, <1>3, <1>4 DEF IInv

\* A capture ends the silence of its match, and what it changed is its own.
LEMMA CaptureStep ==
    ASSUME IInv, NEW m \in Matches, WatcherCaptures(m)
    PROVE  IInv'
  <1>1. PICK open \in BOOLEAN, trusted \in BOOLEAN :
            beat' = [beat EXCEPT ![m] =
                        [age |-> 0, open |-> open, trusted |-> trusted]]
    BY DEF WatcherCaptures
  <1>2. [age |-> 0, open |-> open, trusted |-> trusted] \in Beats
    BY DelayAssumption DEF Beats
  <1>3. beat' \in [Matches -> Beats]
    BY <1>1, <1>2 DEF IInv, TypeOK
  <1>4. /\ changed' \in [Matches -> BOOLEAN]
        /\ silent' \in [Matches -> Nat]
        /\ changed'[m] <=> child[m] # "none"
        /\ \A n \in Matches \ {m} : /\ changed'[n] = changed[n]
                                    /\ silent'[n] = silent[n]
        /\ silent'[m] = 0
    BY DEF WatcherCaptures, IInv, TypeOK
  <1>5. UNCHANGED <<row, pc, memory, child, orphans, stop, unclean, bounds>>
    BY DEF WatcherCaptures
  <1>6. TypeOK'
    BY <1>3, <1>4, <1>5 DEF IInv, TypeOK, Children, memory, stop, bounds
  <1>7. SlotsCounted' /\ Startable' /\ HeldBack' /\ StopKnows'
    BY <1>5 DEF IInv, SlotsCounted, Startable, HeldBack, StopKnows, Children,
       Running, memory, stop
  <1>8. SilenceCounted'
    BY <1>4, <1>5 DEF IInv, TypeOK, SilenceCounted, memory
  <1>9. OutputKnown'
    BY <1>4, <1>5 DEF IInv, TypeOK, OutputKnown, memory
  <1> QED
    BY <1>6, <1>7, <1>8, <1>9 DEF IInv

\* A watcher that exits, by itself or at the hand of a stop, stays a child
\* until it is reaped.
LEMMA ExitStep ==
    ASSUME IInv, NEW m \in Matches, WatcherExits(m) \/ StopTerminates(m)
    PROVE  IInv'
  <1>1. /\ child' \in [Matches -> Child]
        /\ \A n \in Matches :
              \/ child'[n] = child[n]
              \/ child[n] = "running" /\ child'[n] = "exited"
        /\ targets' \subseteq targets
        /\ targets' = targets \/ (targets' = targets \ {m}
                                  /\ child'[m] # "running")
    BY DEF IInv, TypeOK, WatcherExits, StopTerminates, Child, stop
  <1>2. UNCHANGED <<row, pc, memory, changed, beat, orphans, stopping, ghosts,
                    bounds>>
    BY DEF WatcherExits, StopTerminates, stop
  <1>3. Children' = Children /\ Running' \subseteq Running
    BY <1>1 DEF Children, Running
  <1>4. TypeOK'
    BY <1>1, <1>2, <1>3 DEF IInv, TypeOK, memory, ghosts, bounds
  <1>5. SlotsCounted' /\ Startable' /\ HeldBack' /\ SilenceCounted'
    BY <1>1, <1>2, <1>3 DEF IInv, TypeOK, SlotsCounted, Startable, HeldBack,
       SilenceCounted, memory, ghosts
  <1>6. OutputKnown'
    BY <1>1, <1>2 DEF IInv, TypeOK, OutputKnown, memory, ghosts
  <1>7. stopping => Running' \subseteq targets' \/ unclean
    BY <1>1, <1>3 DEF IInv, StopKnows, Running
  <1>8. StopKnows'
    BY <1>2, <1>7 DEF IInv, StopKnows, ghosts
  <1> QED
    BY <1>4, <1>5, <1>6, <1>8 DEF IInv

\* An orphan that exits leaves one less.
LEMMA OrphanStep ==
    ASSUME IInv, NEW m \in Matches, OrphanExits(m)
    PROVE  IInv'
  <1>1. UNCHANGED <<row, pc, memory, child, changed, beat, stop, ghosts, bounds>>
    BY DEF OrphanExits
  <1>2. /\ orphans' \in [Matches -> Nat]
        /\ ~unclean => orphans' = orphans
    BY DEF IInv, TypeOK, OrphanExits, StopKnows
  <1>3. TypeOK'
    BY <1>1, <1>2 DEF IInv, TypeOK, Children, memory, stop, ghosts, bounds
  <1>4. SlotsCounted' /\ Startable' /\ HeldBack' /\ SilenceCounted'
    BY <1>1 DEF IInv, SlotsCounted, Startable, HeldBack, SilenceCounted,
       Children, memory, ghosts
  <1>5. OutputKnown' /\ StopKnows'
    BY <1>1, <1>2 DEF IInv, OutputKnown, StopKnows, Running, memory, stop, ghosts
  <1> QED
    BY <1>3, <1>4, <1>5 DEF IInv

\* A stop enumerates the running children; until it ends, nothing else does.
LEMMA StopBeginsStep == ASSUME IInv, StopBegins PROVE IInv'
  <1>1. UNCHANGED <<row, pc, memory, child, changed, beat, orphans, ghosts,
                    changes>>
    BY DEF StopBegins
  <1>2. /\ targets' = Running /\ stopping' = TRUE
        /\ faults' \in 0 .. MaxFaults
    BY BoundAssumption DEF IInv, TypeOK, StopBegins
  <1>3. TypeOK'
    BY <1>1, <1>2 DEF IInv, TypeOK, Children, Running, memory, ghosts
  <1>4. SlotsCounted' /\ Startable' /\ HeldBack' /\ SilenceCounted'
    BY <1>1 DEF IInv, SlotsCounted, Startable, HeldBack, SilenceCounted,
       Children, memory, ghosts
  <1>5. OutputKnown' /\ StopKnows'
    BY <1>1, <1>2 DEF IInv, OutputKnown, StopKnows, Running, memory, ghosts
  <1> QED
    BY <1>3, <1>4, <1>5 DEF IInv

\* The supervisor ends and forgets everything; unless it was killed, no
\* running child is left.
LEMMA EndStep ==
    ASSUME IInv, Interrupt \/ Kill \/ StopEnds
    PROVE  IInv'
  <1>1. PICK left : Ends(left) /\ (unclean' \/ left = {})
    <2>1. StopEnds => Ends(Running) /\ (unclean' \/ Running = {})
      BY DEF StopEnds, IInv, StopKnows
    <2> QED
      BY <2>1 DEF Interrupt, Kill
  <1>2. /\ UNCHANGED <<row, changed, beat, changes>>
        /\ unclean' \in BOOLEAN /\ (unclean => unclean')
        /\ faults' \in 0 .. MaxFaults
    <2>1. /\ UNCHANGED <<row, changed, beat, changes>>
          /\ unclean' = unclean \/ unclean' = TRUE
      BY DEF Interrupt, Kill, StopEnds, bounds
    <2>2. unclean \in BOOLEAN /\ faults \in 0 .. MaxFaults
      BY DEF IInv, TypeOK
    <2>3. faults' = faults \/ (faults < MaxFaults /\ faults' = faults + 1)
      BY DEF Interrupt, Kill, StopEnds, bounds
    <2>4. unclean' \in BOOLEAN /\ (unclean => unclean')
      BY <2>1, <2>2
    <2>5. faults' \in 0 .. MaxFaults
      BY <2>2, <2>3, BoundAssumption
    <2> QED
      BY <2>1, <2>4, <2>5
  <1>3. NoRetry \in Retries /\ ~NoRetry.exhausted /\ NoRetry.attempts = 0
    BY DelayType DEF NoRetry, Retries
  <1>4. Children' = {} /\ Running' = {}
    BY <1>1 DEF Ends, Children, Running
  <1>5. Cardinality(Children') = 0
    BY <1>4, FS_EmptySet
  <1>6. orphans' \in [Matches -> Nat] /\ (~unclean' => orphans' = orphans)
    BY <1>1, <1>2 DEF Ends, IInv, TypeOK
  <1>7. TypeOK'
    <2>1. /\ seen' \in [Matches -> Evidence] /\ child' \in [Matches -> Child]
          /\ retry' \in [Matches -> Retries] /\ silent' \in [Matches -> Nat]
      BY <1>1, <1>3 DEF Ends, Evidence, Child
    <2>2. slots' \in 0 .. MaxConcurrent /\ Cardinality(Children') <= MaxConcurrent
      BY <1>1, <1>5, BoundAssumption DEF Ends
    <2>3. /\ pc' = "down" /\ active' = {} /\ exited' = {} /\ queue' = {}
          /\ targets' = {} /\ stopping' = FALSE
      BY <1>1 DEF Ends
    <2> QED
      BY <1>2, <1>6, <2>1, <2>2, <2>3 DEF IInv, TypeOK, Retries
  <1>8. SlotsCounted'
    BY <1>1, <1>5, BoundAssumption DEF Ends, SlotsCounted
  <1>9. Startable' /\ HeldBack' /\ SilenceCounted'
    BY <1>1, <1>3, DelayType DEF Ends, Startable, HeldBack, SilenceCounted
  <1>10. OutputKnown' /\ StopKnows'
    BY <1>1, <1>2, <1>6 DEF Ends, IInv, OutputKnown, StopKnows
  <1> QED
    BY <1>7, <1>8, <1>9, <1>10 DEF IInv

\* A tick ages the heartbeats and shortens the waits, outside of the starts.
LEMMA TickStep == ASSUME IInv, Tick PROVE IInv'
  <1>1. /\ UNCHANGED <<row, seen, active, exited, queue, slots, child, changed,
                       orphans, stop, ghosts, bounds>>
        /\ pc \in {"sleep", "down"} /\ pc' \in {"look", "down"}
    BY DEF Tick
  <1>2. beat' \in [Matches -> Beats]
    BY OlderType DEF IInv, TypeOK, Tick
  <1>3. /\ retry' \in [Matches -> Retries]
        /\ \A m \in Matches : /\ retry'[m].attempts = retry[m].attempts
                              /\ retry'[m].exhausted = retry[m].exhausted
    BY DEF IInv, TypeOK, Tick, Retries
  <1>4. TypeOK'
    BY <1>1, <1>2, <1>3 DEF IInv, TypeOK, Children, stop, ghosts, bounds, Retries
  <1>5. SlotsCounted' /\ Startable' /\ HeldBack' /\ SilenceCounted'
    BY <1>1, <1>3 DEF IInv, SlotsCounted, Startable, HeldBack, SilenceCounted,
       Children, ghosts
  <1>6. OutputKnown' /\ StopKnows'
    BY <1>1 DEF IInv, OutputKnown, StopKnows, Running, stop, ghosts
  <1> QED
    BY <1>4, <1>5, <1>6 DEF IInv

-----------------------------------------------------------------------------
(* The steps of an iteration.                                              *)

\* Look reads the evidence; what it finds exited and changed is so at Reap.
LEMMA LookStep == ASSUME IInv, Look PROVE IInv'
  <1>1. /\ UNCHANGED <<row, queue, slots, retry, child, changed, beat, orphans,
                       stop, ghosts, bounds>>
        /\ pc = "look" /\ pc' = "reap"
        /\ exited' = {m \in active' : child[m] = "exited" /\ changed[m]}
    BY DEF Look
  <1>2. seen' \in [Matches -> Evidence]
    BY EvidenceType DEF Look
  <1>3. active' \subseteq Matches /\ exited' \subseteq Matches
    BY <1>1 DEF Look, retain_running_watchers, Children
  <1>4. TypeOK'
    BY <1>1, <1>2, <1>3 DEF IInv, TypeOK, Children, stop, ghosts, bounds
  <1>5. SlotsCounted' /\ Startable' /\ HeldBack' /\ SilenceCounted'
    BY <1>1 DEF IInv, SlotsCounted, Startable, HeldBack, SilenceCounted,
       Children, ghosts
  <1>6. OutputKnown' /\ StopKnows'
    BY <1>1 DEF IInv, OutputKnown, StopKnows, Running, stop, ghosts
  <1> QED
    BY <1>4, <1>5, <1>6 DEF IInv

\* The end of an iteration, with a report or without one.
LEMMA SleepStep == ASSUME IInv, Report \/ OpenFails PROVE IInv'
  <1>1. /\ UNCHANGED <<row, exited, child, changed, beat, orphans, stop, ghosts,
                       changes>>
        /\ pc = "start" /\ Sleeps
    BY DEF Report, OpenFails, Starting, bounds
  <1>2. faults' \in 0 .. MaxFaults
    BY BoundAssumption DEF IInv, TypeOK, Report, OpenFails, bounds
  <1>3. NoRetry \in Retries /\ ~NoRetry.exhausted /\ NoRetry.attempts = 0
    BY DelayType DEF NoRetry, Retries
  <1>4. \A m \in Matches : \/ retry'[m] = retry[m]
                           \/ retry'[m] = NoRetry /\ changed[m]
    BY DEF Report, OpenFails, Producing, IInv, TypeOK
  <1>5. retry' \in [Matches -> Retries]
    BY <1>3 DEF Report, OpenFails, IInv, TypeOK, Retries
  <1>6. TypeOK'
    BY <1>1, <1>2, <1>5, BoundAssumption DEF IInv, TypeOK, Sleeps, Children,
       stop, ghosts, Retries, Evidence
  <1>7. SlotsCounted'
    <2>1. Cardinality(Children) \in Nat
      BY MatchAssumption, FS_Subset, FS_CardinalityType DEF Children
    <2> QED
      BY <1>1, <1>6, <2>1, BoundAssumption DEF Sleeps, SlotsCounted, TypeOK,
         Children
  <1>8. Startable' /\ HeldBack'
    BY <1>1, <1>3, <1>4, DelayType DEF IInv, Startable, HeldBack, Sleeps
  <1>9. SilenceCounted'
    BY <1>1, <1>3, <1>4 DEF IInv, SilenceCounted, OutputKnown, ghosts
  <1>10. OutputKnown' /\ StopKnows'
    BY <1>1 DEF IInv, OutputKnown, StopKnows, Sleeps, Running, stop, ghosts
  <1> QED
    BY <1>6, <1>7, <1>8, <1>9, <1>10 DEF IInv

\* A match of the queue gets a watcher and takes its slot.
LEMMA StartStep == ASSUME IInv, NEW m \in Matches, Start(m) PROVE IInv'
  <1>1. /\ UNCHANGED <<row, pc, seen, active, exited, retry, beat, orphans, stop,
                       silent, bounds>>
        /\ pc = "start" /\ slots > 0 /\ m \in queue
        /\ child' = [child EXCEPT ![m] = "running"]
        /\ changed' = [changed EXCEPT ![m] = FALSE]
        /\ queue' = queue \ {m} /\ slots' = slots - 1
        /\ unclean' = (unclean \/ stopping)
    BY DEF Start, Starting, FirstOf
  <1>2. child[m] = "none" /\ ~retry[m].exhausted /\ exited = {}
    BY <1>1 DEF IInv, Startable, OutputKnown
  <1>3. Cardinality(Children') = Cardinality(Children) + 1
    <2>1. Children' = Children \cup {m} /\ m \notin Children
      BY <1>1, <1>2 DEF Children, IInv, TypeOK
    <2>2. IsFiniteSet(Children)
      BY MatchAssumption, FS_Subset DEF Children
    <2> QED
      BY <2>1, <2>2, FS_AddElement
  <1>4. Cardinality(Children) \in Nat
    BY MatchAssumption, FS_Subset, FS_CardinalityType DEF Children
  <1>5. SlotsCounted'
    BY <1>1, <1>3, <1>4, BoundAssumption DEF IInv, TypeOK, SlotsCounted
  <1>6. TypeOK'
    <2>1. slots' \in 0 .. MaxConcurrent
      BY <1>1, BoundAssumption DEF IInv, TypeOK
    <2>2. Cardinality(Children') <= MaxConcurrent
      BY <1>3, <1>4, <1>5, <2>1, BoundAssumption DEF SlotsCounted
    <2>3. unclean' \in BOOLEAN
      BY <1>1 DEF IInv, TypeOK
    <2> QED
      BY <1>1, <2>1, <2>2, <2>3 DEF IInv, TypeOK, stop, bounds, Child
  <1>7. Startable' /\ HeldBack'
    BY <1>1, <1>2 DEF IInv, TypeOK, Startable, HeldBack
  <1>8. SilenceCounted' /\ OutputKnown'
    BY <1>1, <1>2 DEF IInv, TypeOK, SilenceCounted, OutputKnown
  <1>9. StopKnows'
    BY <1>1 DEF IInv, TypeOK, StopKnows, stop
  <1> QED
    BY <1>5, <1>6, <1>7, <1>8, <1>9 DEF IInv

\* A spawn that fails counts as an attempt that changed nothing.
LEMMA SpawnFailsStep ==
    ASSUME IInv, NEW m \in Matches, SpawnFails(m)
    PROVE  IInv'
  <1>1. /\ UNCHANGED <<row, pc, seen, active, exited, child, changed, beat,
                       orphans, stop, unclean, changes>>
        /\ pc = "start" /\ slots > 0 /\ m \in queue
        /\ retry' = [retry EXCEPT ![m] =
                        watcher_retry_after_failure(retry[m], FALSE, FALSE)]
        /\ silent' = [silent EXCEPT ![m] = silent[m] + 1]
        /\ queue' = queue \ {m} /\ slots' = slots - 1
        /\ faults < MaxFaults /\ faults' = faults + 1
    BY DEF SpawnFails, Starting, FirstOf
  <1>2. /\ child[m] = "none" /\ ~changed[m] /\ exited = {}
        /\ retry[m] \in Retries /\ retry[m].attempts < MaxFailures
    BY <1>1 DEF IInv, TypeOK, Startable, OutputKnown, Retries
  <1> DEFINE r == watcher_retry_after_failure(retry[m], FALSE, FALSE)
  <1>3. /\ r \in Retries
        /\ ~r.exhausted => r.attempts < MaxFailures
        /\ r.exhausted \/ r.wait > 0
        /\ r.attempts = retry[m].attempts + 1
    BY <1>2, AfterFailure
  <1> HIDE DEF r
  <1>4. /\ retry' \in [Matches -> Retries] /\ retry'[m] = r
        /\ \A n \in Matches \ {m} : retry'[n] = retry[n]
    BY <1>1, <1>3 DEF IInv, TypeOK, Retries, r
  <1>5. /\ silent' \in [Matches -> Nat] /\ silent'[m] = silent[m] + 1
        /\ \A n \in Matches \ {m} : silent'[n] = silent[n]
    BY <1>1 DEF IInv, TypeOK
  <1>6. slots' \in 0 .. MaxConcurrent /\ faults' \in 0 .. MaxFaults
    BY <1>1, BoundAssumption DEF IInv, TypeOK
  <1>7. TypeOK'
    BY <1>1, <1>4, <1>5, <1>6 DEF IInv, TypeOK, stop, Children, Retries
  <1>8. SlotsCounted'
    <2>1. Cardinality(Children) \in Nat
      BY MatchAssumption, FS_Subset, FS_CardinalityType DEF Children
    <2> QED
      BY <1>1, <2>1, BoundAssumption DEF IInv, TypeOK, SlotsCounted, Children
  <1>9. Startable' /\ HeldBack'
    BY <1>1, <1>2, <1>3, <1>4 DEF IInv, TypeOK, Startable, HeldBack
  <1>10. SilenceCounted'
    <2>1. r.attempts >= silent[m] + 1
      BY <1>2, <1>3 DEF IInv, TypeOK, SilenceCounted, Retries
    <2> QED
      BY <1>4, <1>5, <2>1 DEF IInv, SilenceCounted
  <1>11. OutputKnown' /\ StopKnows'
    BY <1>1, <1>2, <1>5 DEF IInv, OutputKnown, StopKnows, Running, stop
  <1> QED
    BY <1>7, <1>8, <1>9, <1>10, <1>11 DEF IInv

\* Reap, of one match: without evidence its retry state is forgotten, an
\* exited child is a failure, and a running one stays as it is.
LEMMA ReapOne ==
    ASSUME IInv, Reap, NEW m \in Matches
    PROVE  /\ retry'[m] \in Retries /\ silent'[m] \in Nat
           /\ ~retry'[m].exhausted => retry'[m].attempts < MaxFailures
           /\ child'[m] # "none" => ~retry'[m].exhausted
           /\ silent'[m] <= retry'[m].attempts
           /\ changed'[m] => silent'[m] = 0
  <1> DEFINE r == watcher_retry_after_failure(retry[m], m \in exited, Probes(m))
  <1>1. /\ retry[m] \in Retries /\ silent[m] \in Nat
        /\ silent[m] <= retry[m].attempts
        /\ ~retry[m].exhausted => retry[m].attempts < MaxFailures
        /\ child[m] # "none" => ~retry[m].exhausted
        /\ changed[m] => silent[m] = 0
    BY DEF IInv, TypeOK, Startable, SilenceCounted, OutputKnown, Retries
  <1>2. CASE m \notin active
    <2>1. retry'[m] = NoRetry /\ silent'[m] = 0 /\ child'[m] = "none"
      BY <1>2 DEF Reap
    <2>2. NoRetry \in Retries /\ ~NoRetry.exhausted /\ NoRetry.attempts = 0
      BY DelayType DEF NoRetry, Retries
    <2> QED
      BY <2>1, <2>2, DelayType
  <1>3. CASE m \in active /\ child[m] = "exited"
    <2>1. /\ retry'[m] = r /\ child'[m] = "none" /\ ~changed'[m]
          /\ silent'[m] = IF changed[m] THEN 0
                          ELSE IF Probes(m) THEN 1 ELSE silent[m] + 1
      BY <1>3 DEF Reap
    <2>2. Probes(m) \in BOOLEAN /\ (m \in exited) \in BOOLEAN
      BY DEF Probes
    <2>3. /\ r \in Retries /\ r.attempts >= 1
          /\ ~r.exhausted => r.attempts < MaxFailures
          /\ m \notin exited /\ ~Probes(m) => r.attempts = retry[m].attempts + 1
      BY <1>1, <1>3, <2>2, AfterFailure
    <2>4. m \in exited => changed[m]
      BY DEF IInv, OutputKnown
    <2> HIDE DEF r
    <2>5. silent'[m] \in Nat /\ silent'[m] <= r.attempts
      BY <1>1, <2>1, <2>3, <2>4 DEF Retries
    <2> QED
      BY <2>1, <2>3, <2>5
  <1>4. CASE m \in active /\ child[m] # "exited"
    <2>1. /\ retry'[m] = retry[m] /\ silent'[m] = silent[m]
          /\ child'[m] # "none" => child[m] # "none"
          /\ changed'[m] => changed[m]
      BY <1>4 DEF Reap
    <2> QED
      BY <1>1, <2>1
  <1> QED
    BY <1>2, <1>3, <1>4

\* Reap, of all matches: what is kept leaves the slots that may be filled.
LEMMA ReapStep == ASSUME IInv, Reap PROVE IInv'
  <1> DEFINE kept == {m \in active : child[m] = "running"}
  <1>1. /\ UNCHANGED <<row, seen, active, beat, orphans, stop, unclean, bounds>>
        /\ pc = "reap" /\ pc' = "start" /\ exited' = {}
        /\ child' = [m \in Matches |-> IF m \in kept THEN "running" ELSE "none"]
        /\ queue' = startable_matches(active, kept, retry')
        /\ slots' = free_slots(kept)
        /\ changed' = [m \in Matches |-> changed[m] /\ m \in kept]
    BY DEF Reap
  <1>2. retry' \in [Matches -> Retries] /\ silent' \in [Matches -> Nat]
    <2>1. /\ retry' = [m \in Matches |-> retry'[m]]
          /\ silent' = [m \in Matches |-> silent'[m]]
      BY DEF Reap
    <2> QED
      BY <2>1, ReapOne
  <1>3. Children' = kept /\ Running' = kept /\ kept \subseteq Running
    BY <1>1 DEF Children, Running, IInv, TypeOK
  <1>4. /\ Cardinality(kept) \in Nat
        /\ Cardinality(kept) <= Cardinality(Children)
    <2>1. kept \subseteq Children /\ IsFiniteSet(Children)
      BY MatchAssumption, FS_Subset DEF Children, IInv, TypeOK
    <2> QED
      BY <2>1, FS_Subset, FS_CardinalityType
  <1>5. slots' = MaxConcurrent - Cardinality(kept)
    BY <1>1 DEF free_slots
  <1>6. Cardinality(Children) \in Nat
    BY MatchAssumption, FS_Subset, FS_CardinalityType DEF Children
  <1> HIDE DEF kept
  <1>7. slots' \in 0 .. MaxConcurrent /\ Cardinality(Children') <= MaxConcurrent
    BY <1>3, <1>4, <1>5, <1>6, BoundAssumption DEF IInv, TypeOK
  <1>8. SlotsCounted'
    BY <1>3, <1>4, <1>5, BoundAssumption DEF SlotsCounted
  <1>9. /\ child' \in [Matches -> Child] /\ changed' \in [Matches -> BOOLEAN]
        /\ queue' \subseteq Matches
    BY <1>1 DEF IInv, TypeOK, Child, startable_matches
  <1>10. TypeOK'
    BY <1>1, <1>2, <1>7, <1>9 DEF IInv, TypeOK, stop, bounds, Retries
  <1>11. Startable'
    BY <1>1, <1>9, ReapOne DEF Startable, startable_matches
  <1>12. HeldBack'
    BY <1>1, <1>2 DEF IInv, TypeOK, HeldBack, startable_matches, Retries
  <1>13. SilenceCounted'
    BY ReapOne DEF SilenceCounted
  <1>14. OutputKnown'
    BY <1>1, ReapOne DEF OutputKnown
  <1>15. StopKnows'
    BY <1>1, <1>3 DEF IInv, StopKnows, stop
  <1> QED
    BY <1>8, <1>10, <1>11, <1>12, <1>13, <1>14, <1>15 DEF IInv

\* No step breaks the invariant, whatever supervisor, watchers, database,
\* clock and stops do in between.
THEOREM Inductive == IInv /\ [Next]_vars => IInv'
  <1> SUFFICES ASSUME IInv, [Next]_vars PROVE IInv'
    OBVIOUS
  <1>1. CASE SupervisorStep
    BY <1>1, LookStep, QuietStep, ReapStep, SleepStep, StartStep, SpawnFailsStep
    DEF SupervisorStep
  <1>2. CASE Interrupt \/ Kill \/ StopBegins \/ StopStep
    BY <1>2, EndStep, StopBeginsStep, ExitStep DEF StopStep
  <1>3. CASE Tick \/ Restart
    BY <1>3, TickStep, QuietStep
  <1>4. CASE \E m \in Matches : \/ RowChanges(m) \/ WatcherCaptures(m)
                                \/ WatcherExits(m) \/ OrphanExits(m)
    BY <1>4, QuietStep, CaptureStep, ExitStep, OrphanStep
  <1>5. CASE UNCHANGED vars
    BY <1>5 DEF vars, memory, stop, ghosts, bounds, IInv, TypeOK, SlotsCounted,
       Startable, HeldBack, SilenceCounted, OutputKnown, StopKnows, Children,
       Running
  <1> QED
    BY <1>1, <1>2, <1>3, <1>4, <1>5 DEF Next

\* The invariant holds in every behaviour of the supervisor.
THEOREM Invariant == Spec => []IInv
  BY InitIInv, Inductive, PTL DEF Spec

-----------------------------------------------------------------------------
(* What follows for every behaviour.                                       *)

\* TypeOK, and with it the limit of MAX_CONCURRENT_WATCHERS children.
THEOREM TypeTheorem == Spec => []TypeOK
  <1>1. IInv => TypeOK
    BY DEF IInv
  <1> QED
    BY <1>1, Invariant, PTL

\* SilentStartsBounded: a match is given up after WATCHER_MAX_START_FAILURES
\* starts in a row that changed nothing, because every such start is counted
\* and nothing but an output forgets the count.
THEOREM SilenceTheorem == Spec => []SilentStartsBounded
  <1>1. ASSUME IInv PROVE SilentStartsBounded
    <2> SUFFICES ASSUME NEW m \in Matches PROVE silent[m] <= MaxFailures
      BY DEF SilentStartsBounded
    <2>1. /\ silent[m] \in Nat /\ silent[m] <= retry[m].attempts
          /\ retry[m].attempts \in 0 .. MaxFailures
      BY <1>1 DEF IInv, TypeOK, SilenceCounted
    <2> QED
      BY <2>1, DelayType
  <1> QED
    BY <1>1, Invariant, PTL

\* NoWatcherIsLeftBehind: the one enumeration of terminate_process_tree is
\* enough as long as nothing is started after it.
THEOREM StopTheorem == Spec => []NoWatcherIsLeftBehind
  <1>1. IInv => NoWatcherIsLeftBehind
    BY DEF IInv, StopKnows, NoWatcherIsLeftBehind
  <1> QED
    BY <1>1, Invariant, PTL

\* A watcher appears by a start only.
LEMMA OnlyStart ==
    ASSUME IInv, [Next]_vars, NEW m \in Matches,
           child[m] = "none", child'[m] = "running"
    PROVE  Start(m)
  <1>1. ASSUME NEW x \in Matches, Start(x) PROVE x = m
    BY <1>1 DEF Start, IInv, TypeOK
  <1>2. CASE Reap
    BY <1>2 DEF Reap
  <1>3. CASE child' = child \/ \E x \in Matches : child' = [child EXCEPT ![x] = "exited"]
    BY <1>3 DEF IInv, TypeOK
  <1>4. ASSUME NEW x \in Matches, StopTerminates(x) PROVE FALSE
    BY <1>4 DEF StopTerminates, IInv, TypeOK
  <1>5. ASSUME NEW left, Ends(left) PROVE FALSE
    BY <1>5 DEF Ends
  <1> QED
    BY <1>1, <1>2, <1>3, <1>4, <1>5 DEF Next, vars, SupervisorStep, StopStep,
       Look, LookFails, OpenFails, Report, SpawnFails, Tick, Interrupt, Kill,
       StopBegins, StopEnds, Restart, RowChanges, WatcherCaptures, WatcherExits,
       OrphanExits

\* BestFirst: a start leaves no better match of the same iteration waiting,
\* however the slots run out and whichever starts have failed before it.
THEOREM PriorityTheorem == Spec => BestFirst
  <1>1. ASSUME IInv, [Next]_vars
        PROVE  \A m, n \in Matches :
                 /\ child[m] = "none" /\ child'[m] = "running"
                 /\ n \in active /\ child[n] = "none"
                 /\ Priority(seen[n]) < Priority(seen[m])
                 => retry[n].exhausted \/ retry[n].wait > 0
    <2> SUFFICES ASSUME NEW m \in Matches, NEW n \in Matches,
                        child[m] = "none", child'[m] = "running",
                        n \in active, child[n] = "none",
                        Priority(seen[n]) < Priority(seen[m])
                 PROVE  retry[n].exhausted \/ retry[n].wait > 0
      OBVIOUS
    <2>1. pc = "start" /\ FirstOf(queue, m)
      BY <1>1, OnlyStart DEF Start, Starting
    <2>2. Priority(seen[m]) \in Int /\ Priority(seen[n]) \in Int
      BY DEF Priority
    <2>3. n \notin queue
      BY <2>1, <2>2 DEF FirstOf
    <2> QED
      BY <1>1, <2>1, <2>3 DEF IInv, HeldBack
  <1> QED
    BY <1>1, Invariant, PTL DEF Spec, BestFirst
=============================================================================

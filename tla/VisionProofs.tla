------------------------------ MODULE VisionProofs ------------------------------
(***************************************************************************)
(* Proofs about what Vision keeps and what it reads: EvidenceRetention,    *)
(* for any number of files, series, rows and cleanups, and ClockTracker,   *)
(* for any readings, number of confirmations and limit.                    *)
(***************************************************************************)
EXTENDS EvidenceRetention, ClockTracker, FiniteSetTheorems, TLAPS

-----------------------------------------------------------------------------
(* The retention of the evidence.                                          *)

\* What the cleanup has read is still true of the frames that are not overtaken,
\* and the one it is about to delete is not active any more.
PlanIsCurrent ==
    cleanup.pc \in {"retire", "unlink"} =>
        /\ \A f \in cleanup.plan \ overtaken :
            /\ f \in Active => f \in cleanup.active
            /\ f \in cleanup.active => f \notin cited
        /\ cleanup.pc = "unlink" =>
            /\ cleanup.frame \in cleanup.plan
            /\ cleanup.frame \in overtaken \/ cleanup.frame \notin Active

\* What is still planned was found when the files were scanned.
PlanIsFound ==
    /\ cleanup.pc = "read" => DOMAIN cleanup.found \subseteq Contents
    /\ cleanup.pc \in {"retire", "unlink"} => cleanup.plan \subseteq Contents

\* The inductive invariant of the deletions.
DeletionInv == PlanIsCurrent /\ PlanIsFound

\* No cleanup, no plan.
LEMMA InitDeletion == RetentionInit => DeletionInv
  BY DEF RetentionInit, DeletionInv, PlanIsCurrent, PlanIsFound, NoCleanup

\* A frame that a delivery registers or cites is overtaken when it is planned.
LEMMA StoredIsOvertaken ==
    ASSUME DeletionInv, NEW r, StoreObservation(r), UNCHANGED cleanup
    PROVE  DeletionInv'
  <1>1. /\ overtaken' = overtaken \cup (Doomed \cap
                ((registered' \ registered) \cup (cited' \ cited)))
        /\ retired' = retired
    BY DEF StoreObservation
  <1>2. CASE cleanup.pc \in {"retire", "unlink"}
    <2>1. Doomed = cleanup.plan
      BY <1>2 DEF Doomed
    <2>2. ASSUME NEW f \in cleanup.plan, f \notin overtaken'
          PROVE  /\ f \notin overtaken
                 /\ f \in Active' => f \in Active
                 /\ f \in cited' => f \in cited
      BY <1>1, <2>1, <2>2 DEF Active
    <2>3. \A f \in cleanup.plan \ overtaken' :
            /\ f \in Active' => f \in cleanup.active
            /\ f \in cleanup.active => f \notin cited'
      BY <1>2, <2>2 DEF DeletionInv, PlanIsCurrent
    <2>4. cleanup.pc = "unlink" =>
            /\ cleanup.frame \in cleanup.plan
            /\ cleanup.frame \in overtaken' \/ cleanup.frame \notin Active'
      BY <2>2 DEF DeletionInv, PlanIsCurrent
    <2> QED
      BY <1>2, <2>3, <2>4 DEF DeletionInv, PlanIsCurrent, PlanIsFound
  <1>3. CASE cleanup.pc \notin {"retire", "unlink"}
    BY <1>3 DEF DeletionInv, PlanIsCurrent, PlanIsFound
  <1> QED
    BY <1>2, <1>3

\* So is one that an exclusion cites.
LEMMA ExcludedIsOvertaken ==
    ASSUME DeletionInv, NEW s, ExcludeSeries(s) PROVE DeletionInv'
  <1>1. /\ overtaken' = overtaken \cup (Doomed \cap (cited' \ cited))
        /\ Active' = Active /\ cleanup' = cleanup
    BY DEF ExcludeSeries, Active
  <1>2. cleanup.pc \in {"retire", "unlink"} => Doomed = cleanup.plan
    BY DEF Doomed
  <1> QED
    BY <1>1, <1>2 DEF DeletionInv, PlanIsCurrent, PlanIsFound

\* What touches none of these tables and not the cleanup preserves it.
LEMMA DeletionUndisturbed ==
    ASSUME DeletionInv, UNCHANGED <<tables, cleanup>> PROVE DeletionInv'
  BY DEF DeletionInv, PlanIsCurrent, PlanIsFound, Active, tables

\* Every step of every process preserves the invariant.
LEMMA StepDeletion ==
    ASSUME DeletionInv, [RetentionNext]_retentionVars PROVE DeletionInv'
  <1>1. ASSUME NEW s \in Series, StartWatcher(s) PROVE DeletionInv'
    BY <1>1, DeletionUndisturbed DEF StartWatcher
  <1>2. ASSUME NEW s \in Series, ReplayRow(s) PROVE DeletionInv'
    BY <1>2, DeletionUndisturbed, StoredIsOvertaken DEF ReplayRow
  <1>3. ASSUME NEW s \in Series, AppendRow(s) PROVE DeletionInv'
    BY <1>3, DeletionUndisturbed DEF AppendRow
  <1>4. ASSUME NEW s \in Series, StoreRow(s) PROVE DeletionInv'
    BY <1>4, DeletionUndisturbed, StoredIsOvertaken DEF StoreRow
  <1>5. ASSUME NEW s \in Series, WatcherDies(s) PROVE DeletionInv'
    BY <1>5, DeletionUndisturbed DEF WatcherDies
  <1>6. ASSUME NEW s \in Series, ExcludeSeries(s) PROVE DeletionInv'
    BY <1>6, ExcludedIsOvertaken
  <1>7. ASSUME NEW s \in Series, NEW f \in Contents, Publish(s, f)
        PROVE  DeletionInv'
    BY <1>7, DeletionUndisturbed DEF Publish
  <1>8. ASSUME ScanFiles PROVE DeletionInv'
    <2>1. cleanup' = [pc |-> "read", at |-> moment,
                      found |-> [f \in Here |-> file[f]]]
      BY <1>8 DEF ScanFiles
    <2>2. Here \subseteq Contents
      BY DEF Here
    <2> QED
      BY <2>1, <2>2 DEF DeletionInv, PlanIsCurrent, PlanIsFound
  <1>9. ASSUME ReadReferences PROVE DeletionInv'
    <2>1. CASE cleanup' = NoCleanup
      BY <2>1 DEF DeletionInv, PlanIsCurrent, PlanIsFound, NoCleanup
    <2>2. CASE cleanup' = [pc |-> "retire", found |-> cleanup.found,
                           active |-> Active, plan |-> ToDelete, frame |-> Absent]
      <3>1. cleanup.pc = "read" /\ UNCHANGED tables
        BY <1>9 DEF ReadReferences
      <3>2. ToDelete \subseteq DOMAIN cleanup.found \ (cited \cap Active)
        BY DEF ToDelete, Unprotected
      <3>3. Active' = Active /\ cited' = cited /\ overtaken' = overtaken
        BY <3>1 DEF tables, Active
      <3>4. DOMAIN cleanup.found \subseteq Contents
        BY <3>1 DEF DeletionInv, PlanIsFound
      <3>5. /\ cleanup'.pc = "retire" /\ cleanup'.plan = ToDelete
            /\ cleanup'.active = Active
        BY <2>2
      <3> QED
        BY <3>2, <3>3, <3>4, <3>5 DEF DeletionInv, PlanIsCurrent, PlanIsFound
    <2> QED
      BY <1>9, <2>1, <2>2 DEF ReadReferences
  <1>10. ASSUME NEW f \in Contents, RetireFrame(f) PROVE DeletionInv'
    <2>1. /\ cleanup.pc = "retire" /\ f \in cleanup.plan
          /\ retired' = retired \cup ({f} \cap cleanup.active)
          /\ cleanup' = [cleanup EXCEPT !.pc = "unlink", !.frame = f]
          /\ registered' = registered /\ cited' = cited /\ overtaken' = overtaken
      BY <1>10 DEF RetireFrame
    <2> QED
      BY <2>1 DEF DeletionInv, PlanIsCurrent, PlanIsFound, Active
  <1>11. ASSUME UnlinkFile PROVE DeletionInv'
    BY <1>11 DEF UnlinkFile, tables, DeletionInv, PlanIsCurrent, PlanIsFound, Active
  <1>12. ASSUME EndCleanup PROVE DeletionInv'
    BY <1>12 DEF EndCleanup, NoCleanup, DeletionInv, PlanIsCurrent, PlanIsFound
  <1>13. ASSUME TimePasses PROVE DeletionInv'
    BY <1>13, DeletionUndisturbed DEF TimePasses
  <1>14. ASSUME UNCHANGED retentionVars PROVE DeletionInv'
    BY <1>14, DeletionUndisturbed DEF retentionVars
  <1> QED
    BY <1>1, <1>2, <1>3, <1>4, <1>5, <1>6, <1>7, <1>8, <1>9, <1>10, <1>11, <1>12,
       <1>13, <1>14 DEF RetentionNext

\* Only a retirement adds to the retired frames, and only an unlink takes a file.
LEMMA StepKeepsLineage ==
    ASSUME DeletionInv, [RetentionNext]_retentionVars,
           NEW f \in Contents \ overtaken
    PROVE  /\ f \in retired' \ retired => f \notin cited
           /\ f \in Here \ Here' => f \notin Active
  <1>1. CASE UNCHANGED retired /\ \A g \in Here : g \in Here'
    BY <1>1
  <1>2. CASE \E s \in Series, g \in Contents : Publish(s, g)
    <2>1. PICK s \in Series, g \in Contents : Publish(s, g)
      BY <1>2
    <2>2. /\ file' = [file EXCEPT ![g] = IF g \in Here THEN @ ELSE moment]
          /\ retired' = retired
      BY <2>1 DEF Publish, tables
    <2>3. \A h \in Here : file'[h] = file[h]
      BY <2>2 DEF Here
    <2> QED
      BY <1>1, <2>2, <2>3 DEF Here
  <1>3. CASE \E g \in Contents : RetireFrame(g)
    <2>1. PICK g \in Contents : RetireFrame(g)
      BY <1>3
    <2>2. /\ cleanup.pc = "retire" /\ g \in cleanup.plan
          /\ retired' = retired \cup ({g} \cap cleanup.active) /\ file' = file
      BY <2>1 DEF RetireFrame
    <2> QED
      BY <2>2 DEF DeletionInv, PlanIsCurrent, Here
  <1>4. CASE UnlinkFile
    <2>1. /\ cleanup.pc = "unlink" /\ retired' = retired
          /\ file' = [file EXCEPT ![cleanup.frame] = Absent]
      BY <1>4 DEF UnlinkFile, tables
    <2> QED
      BY <2>1 DEF DeletionInv, PlanIsCurrent, Here
  <1>5. CASE UNCHANGED <<retired, file>>
    BY <1>1, <1>5 DEF Here
  <1>6. ASSUME NEW r, StoreObservation(r) PROVE retired' = retired
    BY <1>6 DEF StoreObservation
  <1>7. ASSUME NEW s \in Series,
               StartWatcher(s) \/ ReplayRow(s) \/ AppendRow(s) \/ StoreRow(s)
                  \/ WatcherDies(s) \/ ExcludeSeries(s)
        PROVE  UNCHANGED <<retired, file>>
    BY <1>6, <1>7 DEF StartWatcher, ReplayRow, AppendRow, StoreRow, WatcherDies,
                      ExcludeSeries, tables
  <1>8. ASSUME \/ ScanFiles \/ ReadReferences \/ EndCleanup \/ TimePasses
               \/ UNCHANGED retentionVars
        PROVE  UNCHANGED <<retired, file>>
    BY <1>8 DEF ScanFiles, ReadReferences, EndCleanup, TimePasses, retentionVars,
                tables
  <1> QED
    BY <1>2, <1>3, <1>4, <1>5, <1>7, <1>8 DEF RetentionNext

\* Whenever the cleanup runs, and wherever it or a watcher dies: a frame that an
\* anchor, a conflict, a snapshot or an invalidation refers to is not retired,
\* and no active frame loses its file, but for those that were registered or
\* referred to after the cleanup had read the references.
THEOREM LineageTheorem == RetentionSpec => LineageIsKept
  <1>1. DeletionInv /\ [RetentionNext]_retentionVars =>
          [\A f \in Contents \ overtaken :
             /\ f \in retired' \ retired => f \notin cited
             /\ f \in Here \ Here' => f \notin Active]_retentionVars
    BY StepKeepsLineage
  <1>2. DeletionInv /\ [RetentionNext]_retentionVars => DeletionInv'
    BY StepDeletion
  <1> QED
    BY <1>1, <1>2, InitDeletion, PTL DEF RetentionSpec, LineageIsKept

-----------------------------------------------------------------------------
(* The types of the retention.                                             *)

\* A watcher between two of its steps, and the cleanup between two of its own.
WatcherState ==
    {Down, Watching} \cup [pc: {"replay"}, left: Seq(JournalRow)]
        \cup [pc: {"append", "store"}, row: JournalRow]

Scan == UNION {[some -> Nat] : some \in SUBSET Contents}

CleanupState ==
    {NoCleanup} \cup [pc: {"read"}, at: Nat, found: Scan]
        \cup [pc: {"retire", "unlink"}, found: Scan,
              active: SUBSET registered, plan: SUBSET Contents,
              frame: Contents \cup {Absent}]

\* The tables and the processes, each with its type.
TablesOK ==
    /\ registered \subseteq Contents /\ retired \subseteq registered
    /\ cited \subseteq registered /\ overtaken \subseteq Contents
    /\ stored \subseteq JournalRow
    /\ \A r \in stored : r.frame \in registered

CleanupOK ==
    /\ cleanup \in CleanupState
    /\ cleanup.pc \in {"retire", "unlink"} =>
          /\ cleanup.plan \subseteq DOMAIN cleanup.found
          /\ cleanup.pc = "unlink" => cleanup.frame \in cleanup.plan

\* The inductive invariant of the types.
RetentionInv ==
    /\ moment \in 0 .. LastMoment
    /\ file \in [Contents -> Nat \cup {Absent}]
    /\ TablesOK
    /\ journal \in [Series -> Seq(JournalRow)]
    /\ watcher \in [Series -> WatcherState]
    /\ CleanupOK

\* Nothing is there yet.
LEMMA InitRetention == RetentionInit => RetentionInv
  <1> SUFFICES ASSUME RetentionInit PROVE RetentionInv
    OBVIOUS
  <1>1. moment \in 0 .. LastMoment
    BY RetentionAssumption DEF RetentionInit
  <1>2. <<>> \in Seq(JournalRow)
    OBVIOUS
  <1>3. watcher \in [Series -> WatcherState]
    BY DEF RetentionInit, WatcherState
  <1>4. CleanupOK
    BY DEF RetentionInit, CleanupOK, CleanupState, NoCleanup
  <1>5. journal \in [Series -> Seq(JournalRow)]
    BY <1>2 DEF RetentionInit
  <1>6. file \in [Contents -> Nat \cup {Absent}] /\ TablesOK
    BY DEF RetentionInit, TablesOK
  <1> QED
    BY <1>1, <1>3, <1>4, <1>5, <1>6 DEF RetentionInv

\* What the properties say of the types follows from it.
LEMMA RetentionTypes == RetentionInv => RetentionTypeOK
  <1> SUFFICES ASSUME RetentionInv PROVE RetentionTypeOK
    OBVIOUS
  <1>1. ASSUME NEW s \in Series
        PROVE  \/ watcher[s] \in {Down, Watching}
               \/ watcher[s].pc = "replay" /\ watcher[s].left \in Seq(JournalRow)
               \/ /\ watcher[s].pc \in {"append", "store"}
                  /\ watcher[s].row \in JournalRow
    <2>1. watcher[s] \in WatcherState
      BY DEF RetentionInv
    <2> QED
      BY <2>1 DEF WatcherState
  <1>2. cleanup.pc \in {"none", "read", "retire", "unlink"}
    BY DEF RetentionInv, CleanupOK, CleanupState, NoCleanup
  <1> QED
    BY <1>1, <1>2 DEF RetentionInv, TablesOK, CleanupOK, RetentionTypeOK

\* A step of a watcher leaves it in one of its states.
LEMMA ProceedKeeps ==
    ASSUME watcher \in [Series -> WatcherState], NEW s \in Series,
           NEW state \in WatcherState, Proceed(s, state)
    PROVE  watcher' \in [Series -> WatcherState]
  BY DEF Proceed

\* A frame is only registered, and a row stored, after its file was verified;
\* what is cited belongs to a stored row.
LEMMA StoreKeepsTables ==
    ASSUME TablesOK, NEW r \in JournalRow, StoreObservation(r)
    PROVE  TablesOK' /\ registered \subseteq registered'
  <1>1. r.frame \in Contents
    BY DEF JournalRow
  <1>2. /\ registered' = registered \cup {r.frame}
        /\ stored' = stored \cup {r} /\ retired' = retired
        /\ overtaken' = overtaken \cup (Doomed \cap
               ((registered' \ registered) \cup (cited' \ cited)))
    BY DEF StoreObservation
  <1>3. PICK some \in SUBSET (FramesOf(r.series) \cup {r.frame}) :
            cited' = cited \cup some
    BY DEF StoreObservation
  <1>4. FramesOf(r.series) \subseteq registered
    BY DEF FramesOf, TablesOK
  <1>5. cited' \subseteq registered'
    BY <1>2, <1>3, <1>4 DEF TablesOK
  <1>6. registered' \subseteq Contents /\ retired' \subseteq registered'
    BY <1>1, <1>2 DEF TablesOK
  <1>7. overtaken' \subseteq Contents
    BY <1>2, <1>5, <1>6 DEF TablesOK
  <1>8. stored' \subseteq JournalRow /\ \A q \in stored' : q.frame \in registered'
    BY <1>2 DEF TablesOK
  <1> QED
    BY <1>2, <1>5, <1>6, <1>7, <1>8 DEF TablesOK

\* What the cleanup holds stays of its type while frames are registered.
LEMMA CleanupUndisturbed ==
    ASSUME CleanupOK, UNCHANGED cleanup, registered \subseteq registered'
    PROVE  CleanupOK'
  BY DEF CleanupOK, CleanupState

\* Every step of every process preserves the types.
LEMMA StepRetention ==
    ASSUME RetentionInv, [RetentionNext]_retentionVars PROVE RetentionInv'
  <1> USE DEF RetentionInv
  <1>0. UNCHANGED tables => TablesOK' /\ registered' = registered
    BY DEF tables, TablesOK
  <1>1. ASSUME NEW s \in Series, StartWatcher(s) PROVE RetentionInv'
    <2>1. UNCHANGED <<moment, file, tables, journal, cleanup>>
      BY <1>1 DEF StartWatcher
    <2>2. PICK first \in Int : /\ first >= 1
            /\ Proceed(s, [pc |-> "replay",
                           left |-> SubSeq(journal[s], first, Len(journal[s]))])
      <3> DEFINE n == Len(journal[s])
                 first == IF n > ReplayLimit THEN n - ReplayLimit + 1 ELSE 1
      <3>1. n \in Nat /\ ReplayLimit \in Nat
        BY RetentionAssumption
      <3>2. first \in Int /\ first >= 1
        BY <3>1
      <3>3. Proceed(s, [pc |-> "replay", left |-> SubSeq(journal[s], first, n)])
        BY <1>1 DEF StartWatcher
      <3> QED
        BY <3>2, <3>3
    <2>3. SubSeq(journal[s], first, Len(journal[s])) \in Seq(JournalRow)
      <3>1. journal[s] \in Seq(JournalRow)
        OBVIOUS
      <3> QED
        BY <2>2, <3>1
    <2>4. watcher' \in [Series -> WatcherState]
      BY <2>2, <2>3, ProceedKeeps DEF WatcherState
    <2> QED
      BY <1>0, <2>1, <2>4, CleanupUndisturbed
  <1>2. ASSUME NEW s \in Series, ReplayRow(s) PROVE RetentionInv'
    <2>1. watcher[s].pc = "replay" /\ UNCHANGED <<moment, file, journal, cleanup>>
      BY <1>2 DEF ReplayRow
    <2>2. /\ watcher[s].left \in Seq(JournalRow)
          /\ watcher[s] \in [pc: {"replay"}, left: Seq(JournalRow)]
      BY <2>1 DEF WatcherState, Down, Watching
    <2>3. CASE UNCHANGED tables /\ (Proceed(s, Watching) \/ Proceed(s, Down))
      <3>1. watcher' \in [Series -> WatcherState]
        BY <2>3, ProceedKeeps DEF WatcherState
      <3> QED
        BY <1>0, <2>1, <2>3, <3>1, CleanupUndisturbed
    <2>4. CASE /\ watcher[s].left # <<>> /\ StoreObservation(Head(watcher[s].left))
               /\ Proceed(s, [watcher[s] EXCEPT !.left = Tail(watcher[s].left)])
      <3>1. /\ Head(watcher[s].left) \in JournalRow
            /\ Tail(watcher[s].left) \in Seq(JournalRow)
        BY <2>2, <2>4
      <3>2. [watcher[s] EXCEPT !.left = Tail(watcher[s].left)] \in WatcherState
        BY <2>2, <3>1 DEF WatcherState
      <3>3. watcher' \in [Series -> WatcherState]
        BY <2>4, <3>2, ProceedKeeps
      <3>4. TablesOK' /\ registered \subseteq registered'
        BY <2>4, <3>1, StoreKeepsTables
      <3> QED
        BY <2>1, <3>3, <3>4, CleanupUndisturbed
    <2> QED
      BY <1>2, <2>3, <2>4 DEF ReplayRow
  <1>3. ASSUME NEW s \in Series, AppendRow(s) PROVE RetentionInv'
    <2>1. watcher[s].pc = "append" /\ UNCHANGED <<moment, file, tables, cleanup>>
      BY <1>3 DEF AppendRow
    <2>2. watcher[s] \in [pc: {"append", "store"}, row: JournalRow]
      BY <2>1 DEF WatcherState, Down, Watching
    <2>3. journal' \in [Series -> Seq(JournalRow)]
      <3>1. Append(journal[s], watcher[s].row) \in Seq(JournalRow)
        BY <2>2
      <3> QED
        BY <1>3, <3>1 DEF AppendRow
    <2>4. [watcher[s] EXCEPT !.pc = "store"] \in WatcherState
      BY <2>2 DEF WatcherState
    <2>5. watcher' \in [Series -> WatcherState]
      BY <1>3, <2>4, ProceedKeeps DEF AppendRow
    <2> QED
      BY <1>0, <2>1, <2>3, <2>5, CleanupUndisturbed
  <1>4. ASSUME NEW s \in Series, StoreRow(s) PROVE RetentionInv'
    <2>1. watcher[s].pc = "store" /\ UNCHANGED <<moment, file, journal, cleanup>>
      BY <1>4 DEF StoreRow
    <2>2. watcher[s].row \in JournalRow
      BY <2>1 DEF WatcherState, Down, Watching
    <2>3. watcher' \in [Series -> WatcherState]
      BY <1>4, ProceedKeeps DEF StoreRow, WatcherState
    <2>4. TablesOK' /\ registered \subseteq registered'
      BY <1>0, <1>4, <2>2, StoreKeepsTables DEF StoreRow
    <2> QED
      BY <2>1, <2>3, <2>4, CleanupUndisturbed
  <1>5. ASSUME NEW s \in Series, WatcherDies(s) PROVE RetentionInv'
    <2>1. UNCHANGED <<moment, file, tables, journal, cleanup>>
      BY <1>5 DEF WatcherDies
    <2>2. watcher' \in [Series -> WatcherState]
      BY <1>5, ProceedKeeps DEF WatcherDies, WatcherState
    <2> QED
      BY <1>0, <2>1, <2>2, CleanupUndisturbed
  <1>6. ASSUME NEW s \in Series, ExcludeSeries(s) PROVE RetentionInv'
    <2>1. /\ cited' = cited \cup FramesOf(s)
          /\ overtaken' = overtaken \cup (Doomed \cap (cited' \ cited))
          /\ UNCHANGED <<moment, file, registered, retired, stored, journal,
                         watcher, cleanup>>
      BY <1>6 DEF ExcludeSeries
    <2>2. FramesOf(s) \subseteq registered
      BY DEF FramesOf, TablesOK
    <2>3. TablesOK'
      BY <2>1, <2>2 DEF TablesOK
    <2> QED
      BY <2>1, <2>3, CleanupUndisturbed
  <1>7. ASSUME NEW s \in Series, NEW f \in Contents, Publish(s, f) PROVE RetentionInv'
    <2>1. /\ file' = [file EXCEPT ![f] = IF f \in Here THEN @ ELSE moment]
          /\ Proceed(s, [pc |-> "append",
                         row |-> [series |-> s, at |-> moment, frame |-> f]])
          /\ UNCHANGED <<moment, tables, journal, cleanup>>
      BY <1>7 DEF Publish
    <2>2. moment \in Nat
      BY RetentionAssumption
    <2>3. file' \in [Contents -> Nat \cup {Absent}]
      BY <2>1, <2>2
    <2>4. [series |-> s, at |-> moment, frame |-> f] \in JournalRow
      BY <2>2 DEF JournalRow
    <2>5. watcher' \in [Series -> WatcherState]
      BY <2>1, <2>4, ProceedKeeps DEF WatcherState
    <2> QED
      BY <1>0, <2>1, <2>3, <2>5, CleanupUndisturbed
  <1>8. ASSUME ScanFiles PROVE RetentionInv'
    <2>1. /\ cleanup' = [pc |-> "read", at |-> moment,
                         found |-> [f \in Here |-> file[f]]]
          /\ UNCHANGED <<moment, file, tables, journal, watcher>>
      BY <1>8 DEF ScanFiles
    <2>2. moment \in Nat
      BY RetentionAssumption
    <2>3. Here \in SUBSET Contents
      BY DEF Here
    <2>4. [f \in Here |-> file[f]] \in [Here -> Nat]
      BY DEF Here
    <2>5. [f \in Here |-> file[f]] \in Scan
      BY <2>3, <2>4 DEF Scan
    <2>6. CleanupOK'
      BY <2>1, <2>2, <2>5 DEF CleanupOK, CleanupState
    <2> QED
      BY <1>0, <2>1, <2>6
  <1>9. ASSUME ReadReferences PROVE RetentionInv'
    <2>1. cleanup.pc = "read" /\ UNCHANGED <<moment, file, tables, journal, watcher>>
      BY <1>9 DEF ReadReferences
    <2>2. cleanup.found \in Scan
      BY <2>1 DEF CleanupOK, CleanupState, NoCleanup
    <2>3. DOMAIN cleanup.found \subseteq Contents
      BY <2>2 DEF Scan
    <2>4. ToDelete \subseteq DOMAIN cleanup.found
      BY DEF ToDelete, Unprotected
    <2>5. Active \subseteq registered'
      BY <1>0, <2>1 DEF Active
    <2>6. CASE cleanup' = NoCleanup
      BY <1>0, <2>1, <2>6 DEF CleanupOK, CleanupState, NoCleanup
    <2>7. CASE cleanup' = [pc |-> "retire", found |-> cleanup.found,
                           active |-> Active, plan |-> ToDelete, frame |-> Absent]
      <3>1. CleanupOK'
        BY <2>2, <2>3, <2>4, <2>5, <2>7 DEF CleanupOK, CleanupState
      <3> QED
        BY <1>0, <2>1, <3>1
    <2> QED
      BY <1>9, <2>6, <2>7 DEF ReadReferences
  <1>10. ASSUME NEW f \in Contents, RetireFrame(f) PROVE RetentionInv'
    <2>1. /\ cleanup.pc = "retire" /\ f \in cleanup.plan
          /\ retired' = retired \cup ({f} \cap cleanup.active)
          /\ cleanup' = [cleanup EXCEPT !.pc = "unlink", !.frame = f]
          /\ UNCHANGED <<moment, file, registered, stored, cited, overtaken,
                         journal, watcher>>
      BY <1>10 DEF RetireFrame
    <2>2. cleanup \in [pc: {"retire", "unlink"}, found: Scan,
                       active: SUBSET registered, plan: SUBSET Contents,
                       frame: Contents \cup {Absent}]
      BY <2>1 DEF CleanupOK, CleanupState, NoCleanup
    <2>3. TablesOK'
      BY <2>1, <2>2 DEF TablesOK
    <2>4. CleanupOK'
      BY <2>1, <2>2 DEF CleanupOK, CleanupState
    <2> QED
      BY <2>1, <2>3, <2>4
  <1>11. ASSUME UnlinkFile PROVE RetentionInv'
    <2>1. /\ cleanup.pc = "unlink"
          /\ file' = [file EXCEPT ![cleanup.frame] = Absent]
          /\ cleanup' = [cleanup EXCEPT !.pc = "retire", !.frame = Absent,
                                        !.plan = @ \ {cleanup.frame}]
          /\ UNCHANGED <<moment, tables, journal, watcher>>
      BY <1>11 DEF UnlinkFile
    <2>2. cleanup \in [pc: {"retire", "unlink"}, found: Scan,
                       active: SUBSET registered, plan: SUBSET Contents,
                       frame: Contents \cup {Absent}]
      BY <2>1 DEF CleanupOK, CleanupState, NoCleanup
    <2>3. file' \in [Contents -> Nat \cup {Absent}]
      BY <2>1
    <2>4. cleanup.plan \subseteq DOMAIN cleanup.found
      BY <2>1 DEF CleanupOK
    <2>5. registered' = registered
      BY <2>1 DEF tables
    <2>6. CleanupOK'
      BY <2>1, <2>2, <2>4, <2>5 DEF CleanupOK, CleanupState
    <2> QED
      BY <1>0, <2>1, <2>3, <2>6
  <1>12. ASSUME EndCleanup PROVE RetentionInv'
    <2>1. /\ cleanup' = NoCleanup /\ overtaken' = {}
          /\ UNCHANGED <<moment, file, registered, retired, stored, cited, journal,
                         watcher>>
      BY <1>12 DEF EndCleanup
    <2> QED
      BY <2>1 DEF TablesOK, CleanupOK, CleanupState, NoCleanup
  <1>13. ASSUME TimePasses PROVE RetentionInv'
    <2>1. /\ moment < LastMoment /\ moment' = moment + 1
          /\ UNCHANGED <<file, tables, journal, watcher, cleanup>>
      BY <1>13 DEF TimePasses
    <2>2. moment' \in 0 .. LastMoment
      BY <2>1, RetentionAssumption
    <2> QED
      BY <1>0, <2>1, <2>2, CleanupUndisturbed
  <1>14. ASSUME UNCHANGED retentionVars PROVE RetentionInv'
    BY <1>0, <1>14, CleanupUndisturbed DEF retentionVars
  <1> QED
    BY <1>1, <1>2, <1>3, <1>4, <1>5, <1>6, <1>7, <1>8, <1>9, <1>10, <1>11, <1>12,
       <1>13, <1>14 DEF RetentionNext

\* The tables refer to registered frames only, the rows of the journals and of
\* the watchers are rows, and what the cleanup is about to delete it has found.
THEOREM RetentionTypeTheorem == RetentionSpec => []RetentionTypeOK
  <1>1. RetentionInit => RetentionInv
    BY InitRetention
  <1>2. RetentionInv /\ [RetentionNext]_retentionVars => RetentionInv'
    BY StepRetention
  <1>3. RetentionInv => RetentionTypeOK
    BY RetentionTypes
  <1> QED
    BY <1>1, <1>2, <1>3, PTL DEF RetentionSpec

-----------------------------------------------------------------------------
(* The tracker of the game clock.                                          *)

\* A reading with the sign of a countdown.
Signed(raw, down) == IF down THEN -raw ELSE raw

\* A window holds readings of the history, in their order, each with the sign.
Shows(window, readings, down) ==
    \E at \in [1 .. Len(window) -> 1 .. Len(readings)] :
        /\ \A i, j \in 1 .. Len(window) : i < j => at[i] < at[j]
        /\ \A i \in 1 .. Len(window) :
              window[i] = Signed(readings[at[i]], down)

\* A countdown without its sign has been seen: a reading that is a little less
\* than the one before it, and none of the two is negative.
CountdownSeen(readings) ==
    \E i \in 1 .. Len(readings) - 1 :
        /\ 0 <= readings[i + 1] /\ readings[i] <= 180
        /\ readings[i + 1] \in (readings[i] - 3) .. (readings[i] - 1)

\* last_raw is the newest reading, the windows show readings of this map, and a
\* second reading that falls back has frozen the tracker.
TracksHistory ==
    /\ IF history = <<>> THEN tracker.last_raw = NoClock
       ELSE tracker.last_raw = Last(history)
    /\ Shows(tracker.recent, history, tracker.countdown)
    /\ Shows(tracker.jump, history, tracker.countdown)
    /\ tracker.countdown => CountdownSeen(history)
    /\ tracker.frozen \/ tracker.regressions < 2

\* The inductive invariant.
ClockInv == ClockTypeOK /\ TracksHistory /\ ConfirmedIsSupported

-----------------------------------------------------------------------------
(* The windows.                                                            *)

\* A window is a sequence of at most Confirmations clocks.
LEMMA WindowIsSeq ==
    \A q : q \in Window <=>
        q \in Seq(Clocks \ {NoClock}) /\ Len(q) <= Confirmations
  <1> SUFFICES ASSUME NEW q
               PROVE  q \in Window <=>
                        q \in Seq(Clocks \ {NoClock}) /\ Len(q) <= Confirmations
    OBVIOUS
  <1>1. ASSUME q \in Window
        PROVE  q \in Seq(Clocks \ {NoClock}) /\ Len(q) <= Confirmations
    <2>1. PICK n \in 0 .. Confirmations : q \in [1 .. n -> Clocks \ {NoClock}]
      BY <1>1 DEF Window
    <2> QED
      BY <2>1, ReadingAssumption
  <1>2. ASSUME q \in Seq(Clocks \ {NoClock}), Len(q) <= Confirmations
        PROVE  q \in Window
    <2>1. Len(q) \in 0 .. Confirmations
      BY <1>2, ReadingAssumption
    <2>2. q \in [1 .. Len(q) -> Clocks \ {NoClock}]
      BY <1>2
    <2> QED
      BY <2>1, <2>2 DEF Window
  <1> QED
    BY <1>1, <1>2

\* The deque keeps its bound, and its newest element is the one appended.
LEMMA PushWindow ==
    ASSUME NEW q \in Window, NEW s \in Clocks \ {NoClock}
    PROVE  /\ Push(q, s) \in Window
           /\ Push(q, s) \in Seq(Clocks \ {NoClock})
           /\ Len(Push(q, s)) > 0
           /\ Push(q, s)[Len(Push(q, s))] = s
           /\ Push(q, s) = IF Len(q) + 1 > Confirmations
                           THEN SubSeq(Append(q, s), 2, Len(q) + 1)
                           ELSE Append(q, s)
  <1> DEFINE C == Clocks \ {NoClock}
             all == Append(q, s)
  <1>1. q \in Seq(C) /\ Len(q) <= Confirmations /\ Len(q) \in Nat
    BY WindowIsSeq
  <1>2. all \in Seq(C) /\ Len(all) = Len(q) + 1
    BY <1>1
  <1> HIDE DEF C
  <1>3. Push(q, s) = IF Len(q) + 1 > Confirmations
                     THEN SubSeq(all, 2, Len(q) + 1) ELSE all
    BY <1>1, <1>2 DEF Push
  <1>4. CASE Len(q) + 1 > Confirmations
    <2>1. Len(q) = Confirmations /\ Len(q) > 0
      BY <1>1, <1>4, ReadingAssumption
    <2>2. Push(q, s) = SubSeq(all, 2, Len(q) + 1)
      BY <1>3, <1>4
    <2>3. /\ Push(q, s) \in Seq(C) /\ Len(Push(q, s)) = Len(q)
          /\ Push(q, s)[Len(q)] = all[Len(q) + 1]
      BY <1>1, <1>2, <2>1, <2>2
    <2>4. all[Len(q) + 1] = s
      BY <1>1
    <2> QED
      BY <1>3, <2>1, <2>3, <2>4, WindowIsSeq DEF C
  <1>5. CASE ~(Len(q) + 1 > Confirmations)
    <2>1. Push(q, s) = all /\ all[Len(q) + 1] = s /\ Len(all) <= Confirmations
      BY <1>1, <1>2, <1>3, <1>5, ReadingAssumption
    <2>2. Len(all) > 0 /\ all[Len(all)] = s
      BY <1>1, <1>2, <2>1
    <2>3. all \in Window
      BY <1>2, <2>1, WindowIsSeq DEF C
    <2> HIDE DEF all
    <2>4. Push(q, s) = IF Len(q) + 1 > Confirmations
                       THEN SubSeq(all, 2, Len(q) + 1) ELSE all
      BY <1>3
    <2> QED
      BY <1>2, <2>1, <2>2, <2>3, <2>4 DEF C, all
  <1> QED
    BY <1>4, <1>5

\* What a window shows it shows after one more reading.
LEMMA ShowsMore ==
    ASSUME NEW q \in Window, NEW h \in Seq(Readings), NEW raw \in Readings,
           NEW down \in BOOLEAN, Shows(q, h, down)
    PROVE  Shows(q, Append(h, raw), down)
  <1>1. PICK at \in [1 .. Len(q) -> 1 .. Len(h)] :
            /\ \A i, j \in 1 .. Len(q) : i < j => at[i] < at[j]
            /\ \A i \in 1 .. Len(q) : q[i] = Signed(h[at[i]], down)
    BY DEF Shows
  <1>2. q \in Seq(Clocks \ {NoClock}) /\ Len(q) \in Nat
    BY WindowIsSeq
  <1>3. /\ Len(Append(h, raw)) = Len(h) + 1
        /\ \A k \in 1 .. Len(h) : Append(h, raw)[k] = h[k]
    OBVIOUS
  <1>4. at \in [1 .. Len(q) -> 1 .. Len(Append(h, raw))]
    BY <1>1, <1>3
  <1>5. \A i \in 1 .. Len(q) : q[i] = Signed(Append(h, raw)[at[i]], down)
    BY <1>1, <1>3
  <1> QED
    BY <1>1, <1>4, <1>5 DEF Shows

\* A window that the newest reading is pushed to shows it.
LEMMA ShowsPush ==
    ASSUME NEW q \in Window, NEW h \in Seq(Readings), NEW raw \in Readings,
           NEW down \in BOOLEAN, Shows(q, h, down),
           Signed(raw, down) \in Clocks \ {NoClock}
    PROVE  Shows(Push(q, Signed(raw, down)), Append(h, raw), down)
  <1> DEFINE s == Signed(raw, down)
             h2 == Append(h, raw)
             p == Push(q, s)
  <1>1. PICK at \in [1 .. Len(q) -> 1 .. Len(h)] :
            /\ \A i, j \in 1 .. Len(q) : i < j => at[i] < at[j]
            /\ \A i \in 1 .. Len(q) : q[i] = Signed(h[at[i]], down)
    BY DEF Shows
  <1>2. q \in Seq(Clocks \ {NoClock}) /\ Len(q) \in Nat /\ Len(h) \in Nat
        /\ Len(q) <= Confirmations
    BY WindowIsSeq
  <1>3. /\ Len(h2) = Len(h) + 1
        /\ \A k \in 1 .. Len(h) : h2[k] = h[k]
        /\ h2[Len(h) + 1] = raw
    OBVIOUS
  <1>4. p = IF Len(q) + 1 > Confirmations
            THEN SubSeq(Append(q, s), 2, Len(q) + 1) ELSE Append(q, s)
    BY PushWindow
  <1>5. CASE Len(q) + 1 > Confirmations
    <2> DEFINE to == [i \in 1 .. Len(q) |->
                        IF i < Len(q) THEN at[i + 1] ELSE Len(h) + 1]
    <2>1. Len(p) = Len(q) /\ \A i \in 1 .. Len(q) : p[i] = Append(q, s)[i + 1]
      BY <1>2, <1>4, <1>5
    <2>2. \A i \in 1 .. Len(q) : p[i] = IF i < Len(q) THEN q[i + 1] ELSE s
      BY <2>1, <1>2
    <2>3. to \in [1 .. Len(q) -> 1 .. Len(h2)]
      BY <1>1, <1>2, <1>3
    <2>4. \A i, j \in 1 .. Len(q) : i < j => to[i] < to[j]
      BY <1>1, <1>2
    <2>5. \A i \in 1 .. Len(q) : p[i] = Signed(h2[to[i]], down)
      <3> SUFFICES ASSUME NEW i \in 1 .. Len(q)
                   PROVE  p[i] = Signed(h2[to[i]], down)
        OBVIOUS
      <3>1. CASE i < Len(q)
        <4>1. i + 1 \in 1 .. Len(q) /\ to[i] = at[i + 1]
          BY <3>1, <1>2
        <4> QED
          BY <1>1, <1>3, <2>2, <3>1, <4>1
      <3>2. CASE ~(i < Len(q))
        BY <1>3, <2>2, <3>2
      <3> QED
        BY <3>1, <3>2
    <2> HIDE DEF p, to, h2
    <2> QED
      BY <2>1, <2>3, <2>4, <2>5 DEF Shows, p, h2, s
  <1>6. CASE ~(Len(q) + 1 > Confirmations)
    <2> DEFINE to == [i \in 1 .. Len(q) + 1 |->
                        IF i <= Len(q) THEN at[i] ELSE Len(h) + 1]
    <2>1. /\ Len(p) = Len(q) + 1
          /\ \A i \in 1 .. Len(q) + 1 : p[i] = IF i <= Len(q) THEN q[i] ELSE s
      BY <1>2, <1>4, <1>6
    <2>2. to \in [1 .. Len(q) + 1 -> 1 .. Len(h2)]
      BY <1>1, <1>2, <1>3
    <2>3. \A i, j \in 1 .. Len(q) + 1 : i < j => to[i] < to[j]
      BY <1>1, <1>2
    <2>4. \A i \in 1 .. Len(q) + 1 : p[i] = Signed(h2[to[i]], down)
      BY <1>1, <1>2, <1>3, <2>1
    <2> HIDE DEF p, to, h2
    <2> QED
      BY <2>1, <2>2, <2>3, <2>4 DEF Shows, p, h2, s
  <1> QED
    BY <1>5, <1>6

\* A window that agrees and ends with the newest reading has as many readings
\* behind it as are asked for.
LEMMA AgreementIsSupported ==
    ASSUME NEW q \in Window, NEW h \in Seq(Readings), h # <<>>,
           NEW down \in BOOLEAN, Shows(q, h, down), Agree(q),
           q[Len(q)] = Signed(Last(h), down)
    PROVE  Cardinality({i \in DOMAIN h : h[i] - Last(h) \in -3 .. 3})
                >= Confirmations
  <1> DEFINE near == {i \in DOMAIN h : h[i] - Last(h) \in -3 .. 3}
  <1>1. PICK at \in [1 .. Len(q) -> 1 .. Len(h)] :
            /\ \A i, j \in 1 .. Len(q) : i < j => at[i] < at[j]
            /\ \A i \in 1 .. Len(q) : q[i] = Signed(h[at[i]], down)
    BY DEF Shows
  <1>2. /\ Len(q) = Confirmations
        /\ \A i, j \in 1 .. Confirmations : q[i] - q[j] <= 3
    <2>1. DOMAIN q = 1 .. Len(q)
      BY WindowIsSeq
    <2> QED
      BY <2>1 DEF Agree
  <1>3. Confirmations \in Nat \ {0} /\ Readings \subseteq Int
    BY ReadingAssumption
  <1>4. Len(h) \in Nat \ {0} /\ \A k \in 1 .. Len(h) : h[k] \in Readings
    OBVIOUS
  <1>5. \A k \in 1 .. Len(h) : h[k] \in Int
    BY <1>3, <1>4
  <1>0. Last(h) = h[Len(h)] /\ Last(h) \in Int
    BY <1>4, <1>5 DEF Last
  <1>6. at \in [1 .. Confirmations -> near]
    <2> SUFFICES ASSUME NEW i \in 1 .. Confirmations PROVE at[i] \in near
      BY <1>1, <1>2
    <2>1. at[i] \in 1 .. Len(h) /\ h[at[i]] \in Int
      BY <1>1, <1>2, <1>5
    <2>2. q[i] = Signed(h[at[i]], down) /\ q[Confirmations] = Signed(Last(h), down)
      BY <1>1, <1>2
    <2>3. q[i] - q[Confirmations] <= 3 /\ q[Confirmations] - q[i] <= 3
      BY <1>2, <1>3
    <2>4. h[at[i]] - Last(h) \in -3 .. 3
      <3> DEFINE a == h[at[i]]
                 b == Last(h)
      <3>1. a \in Int /\ b \in Int
        BY <1>0, <2>1
      <3>2. Signed(a, down) - Signed(b, down) <= 3
            /\ Signed(b, down) - Signed(a, down) <= 3
        BY <2>2, <2>3
      <3> HIDE DEF a, b
      <3>3. a - b <= 3 /\ b - a <= 3
        BY <3>1, <3>2 DEF Signed
      <3>4. a - b \in -3 .. 3
        BY <3>1, <3>3
      <3> QED
        BY <3>4 DEF a, b
    <2> QED
      BY <2>1, <2>4
  <1>7. IsFiniteSet(near) /\ Cardinality(near) \in Nat
    <2>1. near \in SUBSET (1 .. Len(h))
      OBVIOUS
    <2>2. IsFiniteSet(1 .. Len(h))
      BY <1>4, FS_Interval
    <2> QED
      BY <2>1, <2>2, FS_Subset, FS_CardinalityType
  <1>8. /\ IsFiniteSet(1 .. Confirmations)
        /\ Cardinality(1 .. Confirmations) = Confirmations
    <2>1. 1 \in Int /\ Confirmations \in Int /\ ~(1 > Confirmations)
      BY <1>3
    <2>2. Cardinality(1 .. Confirmations) = Confirmations - 1 + 1
      BY <2>1, FS_Interval
    <2> QED
      BY <2>1, <2>2, <1>3, FS_Interval
  <1> HIDE DEF near
  <1>9. ASSUME Cardinality(near) < Confirmations PROVE FALSE
    <2>1. PICK i, j \in 1 .. Confirmations : i # j /\ at[i] = at[j]
      BY <1>6, <1>7, <1>8, <1>9, FS_PigeonHole
    <2>2. at[i] < at[j] \/ at[j] < at[i]
      BY <1>1, <1>2, <1>3, <2>1
    <2> QED
      BY <1>1, <1>2, <2>1, <2>2
  <1> QED
    BY <1>3, <1>7, <1>9 DEF near

-----------------------------------------------------------------------------
(* The steps.                                                              *)

Trackers ==
    [last: Clocks, last_raw: Readings \cup {NoClock}, recent: Window,
     jump: Window, frozen: BOOLEAN, regressions: 0 .. 2, countdown: BOOLEAN,
     detecting: BOOLEAN]

\* An empty window shows any history.
LEMMA EmptyWindow ==
    /\ <<>> \in Window
    /\ \A h \in Seq(Readings), down \in BOOLEAN : Shows(<<>>, h, down)
  <1>1. <<>> \in Window
    <2>1. <<>> \in Seq(Clocks \ {NoClock}) /\ Len(<<>>) = 0
      OBVIOUS
    <2>2. 0 <= Confirmations
      BY ReadingAssumption
    <2> QED
      BY <2>1, <2>2, WindowIsSeq, Zenon
  <1>2. ASSUME NEW h \in Seq(Readings), NEW down \in BOOLEAN
        PROVE  Shows(<<>>, h, down)
    <2> DEFINE at == [i \in 1 .. 0 |-> 1]
    <2>1. Len(<<>>) = 0 /\ 1 .. 0 = {} /\ at \in [1 .. 0 -> 1 .. Len(h)]
      OBVIOUS
    <2> QED
      BY <2>1 DEF Shows
  <1> QED
    BY <1>1, <1>2

\* A reading is a clock with either sign.
LEMMA SignedIsClock ==
    ASSUME NEW raw \in Readings, NEW down \in BOOLEAN
    PROVE  /\ raw \in Int /\ raw # NoClock
           /\ Signed(raw, down) \in Clocks \ {NoClock}
           /\ -raw \in Clocks \ {NoClock}
           /\ Signed(raw, down) \in Int
  BY ReadingAssumption DEF Signed, Clocks

\* What is known of the tracker t with the sign of raw sorted out.
Ready(t, raw) ==
    /\ t \in Trackers /\ t.last_raw = raw
    /\ ~t.frozen /\ t.regressions < 2
    /\ Shows(t.recent, history, t.countdown)
    /\ Shows(t.jump, history, t.countdown)
    /\ t.countdown => CountdownSeen(Append(history, raw))

\* The signs of the tracker are sorted out before the reading is judged.
LEMMA PreparedTracks ==
    ASSUME ClockInv, ~tracker.frozen, NEW raw \in Readings
    PROVE  Ready(Prepared(tracker, raw), raw)
  <1> DEFINE k == tracker
             t == Prepared(k, raw)
             ending == [StartsOver(k) EXCEPT !.countdown = FALSE,
                                             !.detecting = FALSE]
             begun == [StartsOver(k) EXCEPT !.countdown = TRUE,
                                            !.last = -k.last_raw,
                                            !.recent = <<-k.last_raw>>]
  <1>1. /\ k \in Trackers /\ ~k.frozen /\ k.regressions < 2
        /\ history \in Seq(Readings)
    BY DEF ClockInv, ClockTypeOK, Trackers, TracksHistory
  <1>e. /\ <<>> \in Window /\ Shows(<<>>, history, TRUE)
        /\ Shows(<<>>, history, FALSE)
    BY <1>1, EmptyWindow, Zenon
  <1>2. CASE CountdownEnds(k, raw)
    <2>1. t = [ending EXCEPT !.last_raw = raw]
      BY <1>2 DEF Prepared
    <2>2. t = [last |-> NoClock, last_raw |-> raw, recent |-> <<>>,
               jump |-> <<>>, frozen |-> k.frozen, regressions |-> 0,
               countdown |-> FALSE, detecting |-> FALSE]
      BY <1>1, <2>1 DEF StartsOver, Trackers
    <2>3. /\ t \in Trackers /\ t.last_raw = raw /\ ~t.frozen
          /\ t.regressions = 0 /\ t.recent = <<>> /\ t.jump = <<>>
          /\ t.countdown = FALSE
      <3>1. NoClock \in Clocks
        BY DEF Clocks
      <3> HIDE DEF t
      <3> QED
        BY <1>1, <1>e, <2>2, <3>1 DEF Trackers
    <2> HIDE DEF t
    <2>4. Shows(t.recent, history, t.countdown) /\ Shows(t.jump, history, t.countdown)
      BY <1>e, <2>3, Zenon
    <2>5. Ready(t, raw)
      BY <2>3, <2>4 DEF Ready
    <2> QED
      BY <2>5 DEF t
  <1>3. CASE ~CountdownEnds(k, raw) /\ CountdownBegins(k, raw)
    <2>1. t = [begun EXCEPT !.last_raw = raw]
      BY <1>3 DEF Prepared
    <2>2. /\ k.last_raw \in Readings /\ history # <<>>
          /\ k.last_raw = Last(history)
          /\ 0 <= raw /\ k.last_raw <= 180
          /\ raw < k.last_raw /\ k.last_raw - raw <= 3
      BY <1>1, <1>3 DEF CountdownBegins, ClockInv, TracksHistory, Trackers
    <2>3. -k.last_raw \in Clocks \ {NoClock}
      BY <2>2, SignedIsClock
    <2>4. <<-k.last_raw>> \in Window
      <3>1. <<-k.last_raw>> \in Seq(Clocks \ {NoClock}) /\ Len(<<-k.last_raw>>) = 1
        BY <2>3
      <3> QED
        <4>1. 1 <= Confirmations
          BY ReadingAssumption
        <4> QED
          BY <3>1, <4>1, WindowIsSeq, Zenon
    <2>0. t = [last |-> -k.last_raw, last_raw |-> raw,
               recent |-> <<-k.last_raw>>, jump |-> <<>>, frozen |-> k.frozen,
               regressions |-> 0, countdown |-> TRUE, detecting |-> k.detecting]
      BY <1>1, <2>1 DEF StartsOver, Trackers
    <2>5. /\ t \in Trackers /\ t.last_raw = raw /\ ~t.frozen
          /\ t.regressions = 0 /\ t.recent = <<-k.last_raw>> /\ t.jump = <<>>
          /\ t.countdown = TRUE
      <3> HIDE DEF t
      <3> QED
        BY <1>1, <1>e, <2>0, <2>3, <2>4 DEF Trackers
    <2>6. Shows(<<-k.last_raw>>, history, TRUE)
      <3> DEFINE at == [i \in 1 .. 1 |-> Len(history)]
                 one == <<-k.last_raw>>
      <3>1. Len(history) \in 1 .. Len(history) /\ Last(history) = history[Len(history)]
        BY <1>1, <2>2 DEF Last
      <3>2. Len(one) = 1 /\ one[1] = -k.last_raw
        OBVIOUS
      <3>3. at \in [1 .. 1 -> 1 .. Len(history)]
        BY <3>1
      <3>4. \A i \in 1 .. 1 : one[i] = Signed(history[at[i]], TRUE)
        BY <2>2, <3>1, <3>2 DEF Signed
      <3>5. \A i, j \in 1 .. 1 : i < j => at[i] < at[j]
        OBVIOUS
      <3> HIDE DEF at, one
      <3>6. Shows(one, history, TRUE)
        BY <3>2, <3>3, <3>4, <3>5 DEF Shows
      <3> QED
        BY <3>6 DEF one
    <2>7. CountdownSeen(Append(history, raw))
      <3> DEFINE i == Len(history)
                 h == Append(history, raw)
      <3>1. /\ i \in 1 .. Len(h) - 1 /\ h[i] = Last(history) /\ h[i + 1] = raw
        BY <1>1, <2>2 DEF Last
      <3>2. raw \in Int /\ k.last_raw \in Int
        BY <2>2, ReadingAssumption
      <3>3. h[i + 1] \in (h[i] - 3) .. (h[i] - 1)
        BY <2>2, <3>1, <3>2
      <3> QED
        BY <2>2, <3>1, <3>3 DEF CountdownSeen
    <2> HIDE DEF t
    <2>8. Shows(t.recent, history, t.countdown) /\ Shows(t.jump, history, t.countdown)
      BY <1>e, <2>5, <2>6, Zenon
    <2>9. Ready(t, raw)
      BY <2>5, <2>7, <2>8 DEF Ready
    <2> QED
      BY <2>9 DEF t
  <1>4. CASE ~CountdownEnds(k, raw) /\ ~CountdownBegins(k, raw)
    <2>1. \/ t = [k EXCEPT !.last_raw = raw]
          \/ t = [[k EXCEPT !.detecting = FALSE] EXCEPT !.last_raw = raw]
      BY <1>4 DEF Prepared
    <2>2. /\ t \in Trackers /\ t.last_raw = raw /\ ~t.frozen
          /\ t.regressions < 2 /\ t.recent = k.recent /\ t.jump = k.jump
          /\ t.countdown = k.countdown
      BY <1>1, <2>1 DEF Trackers
    <2>3. k.countdown => CountdownSeen(Append(history, raw))
      <3> SUFFICES ASSUME k.countdown PROVE CountdownSeen(Append(history, raw))
        OBVIOUS
      <3>1. PICK i \in 1 .. Len(history) - 1 :
                /\ 0 <= history[i + 1] /\ history[i] <= 180
                /\ history[i + 1] \in (history[i] - 3) .. (history[i] - 1)
        BY DEF ClockInv, TracksHistory, CountdownSeen
      <3> DEFINE h == Append(history, raw)
      <3>2. i \in 1 .. Len(h) - 1 /\ h[i] = history[i] /\ h[i + 1] = history[i + 1]
        BY <1>1
      <3> HIDE DEF h
      <3>3. CountdownSeen(h)
        BY <3>1, <3>2 DEF CountdownSeen
      <3> QED
        BY <3>3 DEF h
    <2> HIDE DEF t
    <2>4. Ready(t, raw)
      BY <2>2, <2>3 DEF Ready, ClockInv, TracksHistory
    <2> QED
      BY <2>4 DEF t
  <1> QED
    BY <1>2, <1>3, <1>4

\* A reading keeps the inductive invariant.
LEMMA UpdateKeepsClock ==
    ASSUME ClockInv, NEW raw \in Readings, update(raw)
    PROVE  ClockInv'
  <1> DEFINE t == Prepared(tracker, raw)
             seconds == Signed(raw, t.countdown)
             h == Append(history, raw)
  <1>1. /\ t \in Trackers /\ t.last_raw = raw
        /\ ~t.frozen /\ t.regressions < 2
        /\ Shows(t.recent, history, t.countdown)
        /\ Shows(t.jump, history, t.countdown)
        /\ t.countdown => CountdownSeen(h)
    BY PreparedTracks DEF update, Ready
  <1>2. /\ history' = h
        /\ Jumps(t, seconds) \/ FallsBack(t) \/ Follows(t, seconds)
    BY DEF update, Signed
  <1>3. /\ history \in Seq(Readings) /\ h \in Seq(Readings) /\ h # <<>>
        /\ Last(h) = raw
    BY DEF ClockInv, ClockTypeOK, Last
  <1> HIDE DEF t, h
  <1>4. /\ t.countdown \in BOOLEAN /\ t.recent \in Window /\ t.jump \in Window
        /\ t.regressions \in 0 .. 2 /\ t.last \in Clocks
    BY <1>1 DEF Trackers
  <1>5. /\ seconds \in Clocks \ {NoClock} /\ seconds \in Int
        /\ raw \in Int /\ raw # NoClock
    BY <1>4, SignedIsClock
  <1>e. <<>> \in Window /\ Shows(<<>>, h, t.countdown)
    BY <1>3, <1>4, EmptyWindow, Zenon
  <1>6. ASSUME NEW q \in Window, Shows(q, history, t.countdown)
        PROVE  /\ Shows(q, h, t.countdown)
               /\ Push(q, seconds) \in Window
               /\ Shows(Push(q, seconds), h, t.countdown)
               /\ Push(q, seconds)[Len(Push(q, seconds))] = seconds
    <2>1. Shows(q, Append(history, raw), t.countdown)
      BY <1>3, <1>4, <1>6, ShowsMore
    <2>2. Shows(Push(q, Signed(raw, t.countdown)), Append(history, raw),
                t.countdown)
      BY <1>3, <1>4, <1>5, <1>6, ShowsPush
    <2> HIDE DEF seconds
    <2>3. /\ Push(q, seconds) \in Window
          /\ Push(q, seconds)[Len(Push(q, seconds))] = seconds
      BY <1>5, PushWindow
    <2> QED
      BY <2>1, <2>2, <2>3 DEF h, seconds
  <1>7. ASSUME NEW q \in Window, Shows(q, h, t.countdown), Agree(q),
               q[Len(q)] = seconds
        PROVE  /\ Cardinality({i \in DOMAIN h : h[i] - Last(h) \in -3 .. 3})
                        >= Confirmations
               /\ seconds \in {Last(h), -Last(h)}
               /\ seconds # Last(h) => CountdownSeen(h)
    <2>1. seconds = Signed(Last(h), t.countdown)
      BY <1>3
    <2>2. Cardinality({i \in DOMAIN h : h[i] - Last(h) \in -3 .. 3})
                >= Confirmations
      BY <1>3, <1>4, <1>7, <2>1, AgreementIsSupported
    <2>3. seconds \in {Last(h), -Last(h)} /\ (seconds # Last(h) => CountdownSeen(h))
      BY <1>1, <1>3, <1>5 DEF Signed
    <2> QED
      BY <2>2, <2>3
  <1> HIDE DEF seconds
  \* What the tracker is afterwards, whichever branch is taken.
  <1>8. /\ tracker' \in Trackers
        /\ tracker'.last_raw = raw /\ tracker'.countdown = t.countdown
        /\ Shows(tracker'.recent, h, t.countdown)
        /\ Shows(tracker'.jump, h, t.countdown)
        /\ tracker'.frozen \/ tracker'.regressions < 2
        /\ \/ confirmed' = NoClock
           \/ /\ confirmed' = seconds
              /\ \E q \in Window : /\ Shows(q, h, t.countdown) /\ Agree(q)
                                   /\ q[Len(q)] = seconds
    <2>1. CASE Jumps(t, seconds)
      <3> DEFINE jump == Push(t.jump, seconds)
      <3>1. /\ jump \in Window /\ Shows(jump, h, t.countdown)
            /\ jump[Len(jump)] = seconds
        BY <1>1, <1>4, <1>6
      <3>2. Shows(t.recent, h, t.countdown)
        BY <1>1, <1>4, <1>6
      <3>3. CASE Agree(jump)
        <4>1. /\ tracker' = [t EXCEPT !.recent = jump, !.jump = <<>>,
                                      !.last = seconds, !.regressions = 0]
              /\ confirmed' = seconds
          BY <2>1, <3>3 DEF Jumps
        <4> HIDE DEF jump
        <4>0. tracker' = [last |-> seconds, last_raw |-> raw, recent |-> jump,
                          jump |-> <<>>, frozen |-> t.frozen, regressions |-> 0,
                          countdown |-> t.countdown,
                          detecting |-> t.detecting]
          BY <1>1, <4>1 DEF Trackers
        <4>2. /\ tracker' \in Trackers
              /\ tracker'.last_raw = raw /\ tracker'.countdown = t.countdown
              /\ tracker'.recent = jump /\ tracker'.jump = <<>>
              /\ tracker'.regressions = 0
          BY <1>1, <1>5, <1>e, <3>1, <4>0 DEF Trackers
        <4> QED
          BY <1>e, <3>1, <3>3, <4>1, <4>2
      <3>4. CASE ~Agree(jump)
        <4>1. tracker' = [t EXCEPT !.jump = jump] /\ confirmed' = NoClock
          BY <2>1, <3>4 DEF Jumps
        <4> HIDE DEF jump
        <4>2. /\ tracker' \in Trackers
              /\ tracker'.last_raw = raw /\ tracker'.countdown = t.countdown
              /\ tracker'.recent = t.recent /\ tracker'.jump = jump
              /\ tracker'.regressions = t.regressions
          BY <1>1, <3>1, <4>1 DEF Trackers
        <4> QED
          BY <1>1, <3>1, <3>2, <4>1, <4>2
      <3> QED
        BY <3>3, <3>4
    <2>2. CASE FallsBack(t)
      <3>1. /\ tracker' = [t EXCEPT !.jump = <<>>, !.regressions = t.regressions + 1,
                                    !.frozen = t.regressions + 1 >= 2]
            /\ confirmed' = NoClock
        BY <1>1, <2>2 DEF FallsBack, Trackers
      <3>0. tracker' = [last |-> t.last, last_raw |-> raw, recent |-> t.recent,
                        jump |-> <<>>, frozen |-> t.regressions + 1 >= 2,
                        regressions |-> t.regressions + 1,
                        countdown |-> t.countdown, detecting |-> t.detecting]
        BY <1>1, <3>1 DEF Trackers
      <3>2. /\ tracker' \in Trackers
            /\ tracker'.last_raw = raw /\ tracker'.countdown = t.countdown
            /\ tracker'.recent = t.recent /\ tracker'.jump = <<>>
            /\ tracker'.frozen \/ tracker'.regressions < 2
        <4> DEFINE frozen == t.regressions + 1 >= 2
        <4>1. /\ t.regressions + 1 \in 0 .. 2 /\ frozen \in BOOLEAN
              /\ frozen \/ t.regressions + 1 < 2
          BY <1>1, <1>4
        <4>2. tracker' = [last |-> t.last, last_raw |-> raw,
                          recent |-> t.recent, jump |-> <<>>,
                          frozen |-> frozen,
                          regressions |-> t.regressions + 1,
                          countdown |-> t.countdown,
                          detecting |-> t.detecting]
          BY <3>0
        <4> HIDE DEF frozen
        <4> QED
          BY <1>1, <1>4, <1>e, <4>1, <4>2 DEF Trackers
      <3>3. Shows(t.recent, h, t.countdown)
        BY <1>1, <1>4, <1>6
      <3> QED
        BY <1>e, <3>1, <3>2, <3>3
    <2>3. CASE Follows(t, seconds)
      <3> DEFINE recent == Push(t.recent, seconds)
      <3>1. /\ recent \in Window /\ Shows(recent, h, t.countdown)
            /\ recent[Len(recent)] = seconds
        BY <1>1, <1>4, <1>6
      <3>2. Shows(t.jump, h, t.countdown)
        BY <1>1, <1>4, <1>6
      <3>3. /\ \E jump \in {t.jump, <<>>} :
                  tracker' = [t EXCEPT !.jump = jump, !.recent = recent,
                                       !.last = seconds, !.regressions = 0]
            /\ confirmed' = IF Agree(recent) THEN seconds ELSE NoClock
        BY <1>1, <2>3 DEF Follows, Trackers
      <3> HIDE DEF recent
      <3>4. PICK jump \in {t.jump, <<>>} :
                  tracker' = [t EXCEPT !.jump = jump, !.recent = recent,
                                       !.last = seconds, !.regressions = 0]
        BY <3>3
      <3>5. jump \in Window /\ Shows(jump, h, t.countdown)
        BY <1>4, <1>e, <3>2, <3>4
      <3>0. tracker' = [last |-> seconds, last_raw |-> raw, recent |-> recent,
                        jump |-> jump, frozen |-> t.frozen, regressions |-> 0,
                        countdown |-> t.countdown, detecting |-> t.detecting]
        BY <1>1, <3>4 DEF Trackers
      <3>6. /\ tracker' \in Trackers
            /\ tracker'.last_raw = raw /\ tracker'.countdown = t.countdown
            /\ tracker'.recent = recent /\ tracker'.jump = jump
            /\ tracker'.regressions = 0
        BY <1>1, <1>5, <3>0, <3>1, <3>5 DEF Trackers
      <3> QED
        BY <3>1, <3>3, <3>5, <3>6
    <2> QED
      BY <1>2, <2>1, <2>2, <2>3
  <1>9. ClockTypeOK'
    <2>1. confirmed' \in Clocks
      BY <1>5, <1>8 DEF Clocks
    <2> QED
      BY <1>2, <1>3, <1>8, <2>1 DEF ClockTypeOK, Trackers
  <1>10. TracksHistory'
    BY <1>1, <1>2, <1>3, <1>8 DEF TracksHistory
  <1>11. ConfirmedIsSupported'
    <2> SUFFICES ASSUME confirmed' # NoClock
                 PROVE  /\ Cardinality({i \in DOMAIN h :
                                h[i] - Last(h) \in -3 .. 3}) >= Confirmations
                        /\ confirmed' \in {Last(h), -Last(h)}
                        /\ confirmed' # Last(h) => CountdownSeen(h)
      BY <1>2 DEF ConfirmedIsSupported, CountdownSeen
    <2> QED
      BY <1>7, <1>8
  <1> QED
    BY <1>9, <1>10, <1>11 DEF ClockInv

\* The invariant is inductive (MapStateTracker.update, reset_map).
LEMMA ClockInvariant == ClockSpec => []ClockInv
  <1>1. ClockInit => ClockInv
    <2> SUFFICES ASSUME ClockInit PROVE ClockInv
      OBVIOUS
    <2>1. NoClock \in Clocks
      BY DEF Clocks
    <2>2. ClockTypeOK
      BY <2>1, EmptyWindow DEF ClockInit, ClockTypeOK, NewTracker
    <2>3. history = <<>> /\ history \in Seq(Readings)
      BY DEF ClockInit
    <2>5. Shows(<<>>, history, FALSE)
      BY <2>3, EmptyWindow, Zenon
    <2>4. TracksHistory
      <3>1. /\ tracker.recent = <<>> /\ tracker.jump = <<>>
            /\ tracker.countdown = FALSE /\ tracker.regressions = 0
            /\ tracker.last_raw = NoClock
        BY DEF ClockInit, NewTracker
      <3>2. /\ Shows(tracker.recent, history, tracker.countdown)
            /\ Shows(tracker.jump, history, tracker.countdown)
        BY <2>5, <3>1, Zenon
      <3> QED
        BY <2>3, <3>1, <3>2 DEF TracksHistory
    <2> QED
      BY <2>2, <2>4 DEF ClockInit, ClockInv, ConfirmedIsSupported
  <1>2. ClockInv /\ [ClockNext]_clockVars => ClockInv'
    <2> SUFFICES ASSUME ClockInv, [ClockNext]_clockVars PROVE ClockInv'
      OBVIOUS
    <2>1. CASE reset_map
      <3>1. NoClock \in Clocks
        BY DEF Clocks
      <3>2. ClockTypeOK'
        BY <2>1, <3>1, EmptyWindow DEF reset_map, ClockTypeOK, NewTracker
      <3>3. history' = <<>> /\ history' \in Seq(Readings)
        BY <2>1 DEF reset_map
      <3>5. Shows(<<>>, history', FALSE)
        BY <3>3, EmptyWindow, Zenon
      <3>4. TracksHistory'
        <4>1. /\ tracker'.recent = <<>> /\ tracker'.jump = <<>>
              /\ tracker'.countdown = FALSE /\ tracker'.regressions = 0
              /\ tracker'.last_raw = NoClock
          BY <2>1 DEF reset_map, NewTracker
        <4>2. /\ Shows(tracker'.recent, history', tracker'.countdown)
              /\ Shows(tracker'.jump, history', tracker'.countdown)
          BY <3>5, <4>1, Zenon
        <4> QED
          BY <3>3, <4>1, <4>2 DEF TracksHistory
      <3> QED
        BY <2>1, <3>2, <3>4 DEF reset_map, ClockInv, ConfirmedIsSupported
    <2>2. CASE UNCHANGED clockVars
      BY <2>2 DEF clockVars, ClockInv, ClockTypeOK, TracksHistory,
                  ConfirmedIsSupported
    <2> QED
      BY <2>1, <2>2, UpdateKeepsClock DEF ClockNext
  <1> QED
    BY <1>1, <1>2, PTL DEF ClockSpec

\* The tracker keeps its types.
THEOREM ClockTypeTheorem == ClockSpec => []ClockTypeOK
  BY ClockInvariant, PTL DEF ClockInv

\* Whatever is read, and however many readings must agree: no clock is confirmed
\* on the word of one frame, and none with its sign turned without a countdown.
THEOREM SupportTheorem == ClockSpec => []ConfirmedIsSupported
  BY ClockInvariant, PTL DEF ClockInv
=============================================================================

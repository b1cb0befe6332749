--------------------- MODULE PostmatchSettlementProofs ---------------------
(***************************************************************************)
(* Proofs about PostmatchSettlement, for every set of Maps, Official Match *)
(* IDs and predictions and for every bound: its safety, and that it        *)
(* implements SettlementLedger.                                            *)
(***************************************************************************)
EXTENDS PostmatchSettlement, TLAPS

\* From the refresh on, the worker holds one Map of its batch.
HoldsMap == w.pc \notin {"idle", "label"} => w.map \in Maps

\* The inductive invariant.
IInv ==
    /\ TypeOK
    /\ HoldsMap
    /\ ResultRestsOnAgreement
    /\ OneResultPerOfficialMatch

-----------------------------------------------------------------------------
(* The operators of the worker keep their types.                           *)

\* The next state of the worker's batch is a worker state (main's loop).
LEMMA FinishType ==
    ASSUME TypeOK, NEW m
    PROVE  Finish(m) \in WorkerStates /\ Finish(m).pc \in {"idle", "label"}
  BY DEF TypeOK, Finish, IdleWorker, WorkerStates, Finals

\* The idle worker, where an exception or a crash leaves it, is well typed.
LEMMA IdleType == IdleWorker \in WorkerStates /\ IdleWorker.pc = "idle"
  BY DEF IdleWorker, WorkerStates, Finals

\* What a label asks for is a reconciliation row, and it is confirmed only if
\* the archived RayBet final names OpenDota's winner.
LEMMA ProposalType ==
    ASSUME TypeOK, NEW m \in Maps
    PROVE  /\ Proposal(m) \in ReconRows
           /\ Proposal(m).status # "none"
           /\ Proposal(m).mapping = w.mapping
           /\ Proposal(m).first = w.settledAt
           /\ Proposal(m).od = odWinner[m]
           /\ Proposal(m).status = "confirmed" =>
                 /\ Proposal(m).ray = odWinner[m]
                 /\ audit[m] = odWinner[m]
  <1> DEFINE ray == LatestRayBetFinal(m)
             od == odWinner[m]
             winners == reconcile_map_winners(ray, od)
  <1>1. ray \in Finals /\ od \in Sides
    BY DEF TypeOK, LatestRayBetFinal, WorkerStates
  <1>2. /\ winners \in {<<"manual_review", "raybet_final_conflict">>,
                        <<"pending", "raybet_final_missing">>,
                        <<"manual_review", "winner_conflict">>,
                        <<"confirmed", "sources_consistent">>}
        /\ winners[1] = "confirmed" => ray = od
    BY <1>1 DEF reconcile_map_winners, Finals, Sides
  <1>3. w.mapping \in Nat /\ w.settledAt \in Nat
    BY DEF TypeOK, WorkerStates
  <1>4. SourceAuthority(m) => audit[m] # "pending"
    BY DEF SourceAuthority
  <1> HIDE DEF winners, ray
  <1> DEFINE judged == IF StoredResultConflict(m)
                       THEN <<"manual_review", "stored_map_result_conflict">>
                       ELSE winners
             final == IF judged[1] # "manual_review" /\ ~SourceAuthority(m)
                      THEN <<"manual_review",
                             IF audit[m] = "pending"
                             THEN "source_authority_missing"
                             ELSE "source_authority_invalid">>
                      ELSE judged
  <1>5. /\ judged[1] \in {"manual_review", "pending", "confirmed"}
        /\ judged[2] \in Reasons
        /\ judged[1] = "confirmed" => ray = od
    BY <1>2 DEF Reasons
  <1>6. /\ final[1] \in {"manual_review", "pending", "confirmed"}
        /\ final[2] \in Reasons
        /\ final[1] = "confirmed" => ray = od /\ SourceAuthority(m)
    BY <1>5 DEF Reasons
  <1>7. Proposal(m) = [status |-> final[1], reason |-> final[2],
                       mapping |-> w.mapping, ray |-> ray, od |-> od,
                       first |-> w.settledAt]
    BY DEF Proposal, ray, winners
  <1> HIDE DEF judged, final
  <1>8. final[1] = "confirmed" => audit[m] = od
    BY <1>1, <1>4, <1>6 DEF ray, LatestRayBetFinal
  <1> QED
    BY <1>1, <1>3, <1>6, <1>7, <1>8 DEF ReconRows

\* The row written for the Map itself: a new confirmed row is the proposal,
\* and it is written only when no other Map is linked to the same match.
LEMMA OwnRowType ==
    ASSUME TypeOK, NEW m \in Maps
    PROVE  /\ OwnRow(m) \in ReconRows
           /\ OwnRow(m).status # "none"
           /\ OwnRow(m).status = "confirmed" =>
                 \/ OwnRow(m) = recon[m]
                 \/ /\ OwnRow(m) = Proposal(m)
                    /\ LinkedElsewhere(m) = {}
                    /\ recon[m].status # "confirmed"
  <1>1. recon[m] \in ReconRows
    BY DEF TypeOK
  <1> DEFINE new == IF LinkedElsewhere(m) = {} THEN Proposal(m)
                    ELSE [Proposal(m) EXCEPT
                             !.status = "manual_review",
                             !.reason = "opendota_match_link_conflict"]
  <1>2. /\ new \in ReconRows
        /\ new.status # "none"
        /\ new.status = "confirmed" =>
              new = Proposal(m) /\ LinkedElsewhere(m) = {}
    BY ProposalType DEF ReconRows, Reasons
  <1> HIDE DEF new
  <1>3. CASE LineageConflict(m)
    <2>1. OwnRow(m) = [recon[m] EXCEPT !.status = "manual_review",
                                       !.reason = "mapping_lineage_conflict"]
      BY <1>3 DEF OwnRow
    <2> QED
      BY <1>1, <2>1 DEF ReconRows, Reasons
  <1>4. CASE ~LineageConflict(m) /\ recon[m].status = "manual_review"
    <2>1. OwnRow(m) = recon[m]
      BY <1>4 DEF OwnRow
    <2> QED
      BY <1>1, <1>4, <2>1
  <1>5. CASE ~LineageConflict(m) /\ recon[m].status = "confirmed"
    <2> DEFINE why == IF new.status = "manual_review" /\
                         new.reason \in {"opendota_match_link_conflict",
                                         "stored_map_result_conflict"}
                      THEN new.reason ELSE "source_result_changed"
    <2>1. OwnRow(m) =
            IF new.status = "confirmed" /\ SameIdentity(recon[m], new)
            THEN recon[m]
            ELSE [recon[m] EXCEPT !.status = "manual_review", !.reason = why]
      BY <1>5 DEF OwnRow, new
    <2>2. why \in Reasons
      BY DEF Reasons
    <2> HIDE DEF why
    <2> QED
      BY <1>1, <1>5, <2>1, <2>2 DEF ReconRows
  <1>6. CASE ~LineageConflict(m) /\ recon[m].status \in {"none", "pending"}
    <2>1. OwnRow(m) = new
      BY <1>6 DEF OwnRow, new
    <2> QED
      BY <1>2, <1>6, <2>1
  <1> QED
    BY <1>1, <1>3, <1>4, <1>5, <1>6 DEF ReconRows

\* Sending a row to review keeps its type (the UPDATE statements of the code).
LEMMA ToReviewType ==
    ASSUME NEW row \in ReconRows, NEW reason \in Reasons
    PROVE  /\ ToReview(row, reason) \in ReconRows
           /\ ToReview(row, reason).status = "manual_review"
  BY DEF ToReview, ReconRows

\* All rows after one reconciliation.
LEMMA TableType ==
    ASSUME TypeOK, NEW m \in Maps
    PROVE  ReconciledTable(m) \in [Maps -> ReconRows]
  <1>1. "opendota_match_link_conflict" \in Reasons
    BY DEF Reasons
  <1> QED
    BY <1>1, OwnRowType, ToReviewType DEF ReconciledTable, TypeOK

-----------------------------------------------------------------------------
(* Type correctness.                                                       *)

\* Every action keeps the types, and the worker keeps hold of its Map.
LEMMA TypeNext ==
    ASSUME TypeOK, HoldsMap, [Next]_vars
    PROVE  TypeOK' /\ HoldsMap'
  <1>1. ASSUME NEW m \in Maps, MapEnds(m) PROVE TypeOK' /\ HoldsMap'
    BY <1>1
    DEF MapEnds, TypeOK, HoldsMap, providers, mappings, archive, ledger, requests
  <1>2. ASSUME NEW m \in Maps, SeriesCloses(m) PROVE TypeOK' /\ HoldsMap'
    BY <1>2
    DEF SeriesCloses, TypeOK, HoldsMap, providers, mappings, archive, ledger, requests
  <1>3. ASSUME NEW m \in Maps, RayBetPublishes(m) PROVE TypeOK' /\ HoldsMap'
    BY <1>3, FinalAssumption
    DEF RayBetPublishes, TypeOK, HoldsMap, providers, mappings, archive, ledger, requests
  <1>4. ASSUME NEW m \in Maps, SecondCandidateAppears(m) PROVE TypeOK' /\ HoldsMap'
    BY <1>4
    DEF SecondCandidateAppears, TypeOK, HoldsMap, providers, mappings, archive, ledger, requests
  <1>5. ASSUME NEW m \in Maps, StrictIngest(m) PROVE TypeOK' /\ HoldsMap'
    BY <1>5
    DEF StrictIngest, TypeOK, HoldsMap, providers, mappings, archive, ledger, requests, record_raw_artifact
  <1>6. ASSUME NEW m \in Maps, AcceptMapping(m) PROVE TypeOK' /\ HoldsMap'
    BY <1>6
    DEF AcceptMapping, TypeOK, HoldsMap, providers, mappings, archive, ledger, requests
  <1>7. ASSUME NEW m \in Maps, InvalidateMapping(m) PROVE TypeOK' /\ HoldsMap'
    BY <1>7
    DEF InvalidateMapping, TypeOK, HoldsMap, providers, mappings, archive, ledger, requests
  <1>8. ASSUME NEW m \in Maps, sync_exact_postmatch_candidate(m) PROVE TypeOK' /\ HoldsMap'
    <2>1. now' \in Nat /\ firstUsable' \in [DotaIds \X (1 .. MaxContents) -> Nat]
      BY <1>8 DEF sync_exact_postmatch_candidate, record_raw_artifact, TypeOK
    <2>2. evidence' \in SUBSET Maps
      BY <1>8 DEF sync_exact_postmatch_candidate, TypeOK
    <2> QED
      BY <1>8, <2>1, <2>2
      DEF sync_exact_postmatch_candidate, TypeOK, HoldsMap, providers,
          mappings, ledger, requests
  <1>9. ASSUME NEW d \in DotaIds, OpenDotaReparses(d) PROVE TypeOK' /\ HoldsMap'
    BY <1>9, BoundAssumption
    DEF OpenDotaReparses, TypeOK, HoldsMap, providers, mappings, archive, ledger, requests
  <1>10. ASSUME NEW p \in Preds, RequestPrediction(p) PROVE TypeOK' /\ HoldsMap'
    BY <1>10
    DEF RequestPrediction, TypeOK, HoldsMap, providers, mappings, archive, ledger, requests, PredRows
  <1>11. ASSUME NEW p \in Preds, StampPrediction(p) PROVE TypeOK' /\ HoldsMap'
    BY <1>11
    DEF StampPrediction, TypeOK, HoldsMap, providers, mappings, archive, ledger, requests, PredRows
  <1>12. ASSUME NEW p \in Preds, persist_prediction(p) PROVE TypeOK' /\ HoldsMap'
    BY <1>12
    DEF persist_prediction, TypeOK, HoldsMap, providers, mappings, archive, ledger, requests, PredRows
  <1>13. CASE BeginIteration
    BY <1>13, IdleType
    DEF BeginIteration, TypeOK, HoldsMap, providers, mappings, archive, ledger, requests, WorkerStates, IdleWorker
  <1>14. ASSUME NEW m \in Maps, SkipMap(m) PROVE TypeOK' /\ HoldsMap'
    BY <1>14, FinishType
    DEF SkipMap, TypeOK, HoldsMap, providers, mappings, archive, ledger, requests
  <1>15. ASSUME NEW m \in Maps, StartLabel(m) PROVE TypeOK' /\ HoldsMap'
    <2>1. audit' \in [Maps -> Finals]
      BY <1>15 DEF StartLabel, Refreshed, TypeOK
    <2>2. rayFinal[m] \in Finals /\ "pending" \in Finals /\ strict[m] \in Nat
      BY DEF TypeOK, Finals
    <2>3. PICK seen \in {"pending", rayFinal[m]} :
             w' = [w EXCEPT !.pc = "refreshed", !.map = m,
                            !.mapping = strict[m], !.seen = seen]
      BY <1>15 DEF StartLabel
    <2>4. w \in WorkerStates /\ seen \in Finals
      BY <2>2 DEF TypeOK
    <2>5. w' \in WorkerStates /\ w'.map \in Maps
      BY <2>2, <2>3, <2>4 DEF WorkerStates
    <2> QED
      BY <1>15, <2>1, <2>5
      DEF StartLabel, TypeOK, HoldsMap, providers, mappings, ledger, requests
  <1>16. CASE FetchDetail
    <2>1. w.map \in Maps
      BY <1>16 DEF FetchDetail, HoldsMap
    <2>2. content[link[w.map]] \in Nat
      BY <2>1, BoundAssumption DEF TypeOK
    <2>3. w' \in WorkerStates /\ w'.map \in Maps
      BY <1>16, <2>1, <2>2 DEF FetchDetail, TypeOK, WorkerStates
    <2> QED
      BY <1>16, <2>3
      DEF FetchDetail, TypeOK, HoldsMap, providers, mappings, archive, ledger,
          requests
  <1>17. CASE NoCandidate
    BY <1>17, FinishType
    DEF NoCandidate, TypeOK, HoldsMap, providers, mappings, archive, ledger, requests
  <1>18. CASE FetchFails
    BY <1>18, IdleType
    DEF FetchFails, TypeOK, HoldsMap, providers, mappings, archive, ledger, requests, Abort
  <1>19. CASE Quarantine
    <2>1. w.map \in Maps
      BY <1>19 DEF Quarantine, HoldsMap
    <2>2. "opendota_map_identity_ambiguous" \in Reasons
      BY DEF Reasons
    <2>3. ToReview(recon[w.map], "opendota_map_identity_ambiguous") \in ReconRows
      BY <2>1, <2>2, ToReviewType DEF TypeOK
    <2>4. recon' \in [Maps -> ReconRows]
      BY <1>19, <2>1, <2>3 DEF Quarantine, TypeOK
    <2>5. w' \in WorkerStates /\ w'.pc \in {"idle", "label"}
      BY <1>19, FinishType, IdleType DEF Quarantine, Abort
    <2> QED
      BY <1>19, <2>4, <2>5
      DEF Quarantine, TypeOK, HoldsMap, providers, mappings, archive, requests
  <1>20. CASE ArchiveUsable
    <2>1. now' \in Nat /\ firstUsable' \in [DotaIds \X (1 .. MaxContents) -> Nat]
      BY <1>20 DEF ArchiveUsable, record_raw_artifact, TypeOK
    <2>2. w.map \in Maps
      BY <1>20 DEF ArchiveUsable, HoldsMap
    <2>3. /\ w \in WorkerStates /\ now + 1 \in Nat
          /\ w' = [w EXCEPT !.pc = "archived", !.settledAt = now + 1]
      BY <1>20 DEF ArchiveUsable, TypeOK
    <2>4. w' \in WorkerStates /\ w'.map \in Maps
      BY <2>2, <2>3 DEF WorkerStates
    <2> QED
      BY <1>20, <2>1, <2>4
      DEF ArchiveUsable, TypeOK, HoldsMap, providers, mappings, ledger, requests
  <1>21. CASE MappingChanged
    BY <1>21, FinishType
    DEF MappingChanged, TypeOK, HoldsMap, providers, mappings, archive, ledger, requests
  <1>22. CASE ReconcileFails
    BY <1>22, IdleType
    DEF ReconcileFails, TypeOK, HoldsMap, providers, mappings, archive, ledger, requests, Abort
  <1>23. CASE Reconcile
    <2>1. w.map \in Maps
      BY <1>23 DEF Reconcile, HoldsMap
    <2>2. recon' \in [Maps -> ReconRows]
      BY <1>23, <2>1, TableType DEF Reconcile
    <2>3. OwnRow(w.map) \in ReconRows
      BY <2>1, OwnRowType
    <2>4. OwnRow(w.map).first \in Nat /\ w.mapping \in Nat /\ odWinner[w.map] \in Sides
      BY <2>1, <2>3 DEF TypeOK, ReconRows, WorkerStates
    <2>5. result' \in [Maps -> ResultRows]
      BY <1>23, <2>4 DEF Reconcile, TypeOK, ResultRows
    <2>6. evidence' \in SUBSET Maps
      BY <1>23, <2>1 DEF Reconcile, TypeOK
    <2>7. w' \in WorkerStates /\ (w'.pc \notin {"idle", "label"} => w'.map \in Maps)
      BY <1>23, <2>1, FinishType DEF Reconcile, TypeOK, WorkerStates
    <2> QED
      BY <1>23, <2>2, <2>5, <2>6, <2>7
      DEF Reconcile, TypeOK, HoldsMap, providers, mappings, requests
  <1>24. CASE ListPredictions
    BY <1>24, FinishType
    DEF ListPredictions, TypeOK, HoldsMap, providers, mappings, archive, ledger, requests, WorkerStates
  <1>25. ASSUME NEW p \in Preds, SettleOne(p) PROVE TypeOK' /\ HoldsMap'
    <2>1. w.map \in Maps
      BY <1>25 DEF SettleOne, HoldsMap
    <2>2. SettlementRow(p) \in SettlementRows
      BY DEF SettlementRow, SettlementRows, WinnerSide, CausalVerdict, TypeOK,
             WorkerStates
    <2>3. settlement' \in [Preds -> SettlementRows]
      BY <1>25, <2>2 DEF SettleOne, TypeOK
    <2>4. w' \in WorkerStates /\ (w'.pc \notin {"idle", "label"} => w'.map \in Maps)
      BY <1>25, <2>1, FinishType, IdleType DEF SettleOne, Abort, TypeOK, WorkerStates
    <2> QED
      BY <1>25, <2>3, <2>4
      DEF SettleOne, TypeOK, HoldsMap, providers, mappings, archive, requests
  <1>26. CASE Crash
    BY <1>26, IdleType
    DEF Crash, TypeOK, HoldsMap, providers, mappings, archive, ledger, requests
  <1>27. CASE UNCHANGED vars
    BY <1>27 DEF vars, TypeOK, HoldsMap, providers, mappings, archive, ledger, requests
  <1> QED
    BY <1>1, <1>2, <1>3, <1>4, <1>5, <1>6, <1>7, <1>8, <1>9, <1>10, <1>11, <1>12, <1>13, <1>14, <1>15, <1>16, <1>17, <1>18, <1>19, <1>20, <1>21, <1>22, <1>23, <1>24, <1>25, <1>26, <1>27 DEF Next, WorkerStep

\* The initial state is well typed.
LEMMA TypeInit == Init => TypeOK /\ HoldsMap
  <1> SUFFICES ASSUME Init PROVE TypeOK /\ HoldsMap
    OBVIOUS
  <1>1. w \in WorkerStates /\ w.pc = "idle"
    BY IdleType DEF Init
  <1>2. recon \in [Maps -> ReconRows]
    BY DEF Init, NoRecon, ReconRows, Reasons, Finals
  <1>3. result \in [Maps -> ResultRows] /\ pred \in [Preds -> PredRows]
    BY DEF Init, NoResult, ResultRows, NoPred, PredRows
  <1>4. settlement \in [Preds -> SettlementRows]
    BY DEF Init, NoSettlement, SettlementRows
  <1>5. radiant \in [Preds -> Sides]
    BY RadiantAssumption DEF Init
  <1>6. content \in [DotaIds -> 1 .. MaxContents]
    BY BoundAssumption DEF Init
  <1> QED
    BY <1>1, <1>2, <1>3, <1>4, <1>5, <1>6 DEF Init, TypeOK, HoldsMap, Finals

\* TypeOK is an invariant of the post-match worker and everything around it.
THEOREM TypeCorrect == Spec => []TypeOK
  <1>1. Init => TypeOK /\ HoldsMap
    BY TypeInit
  <1>2. (TypeOK /\ HoldsMap) /\ [Next]_vars => (TypeOK /\ HoldsMap)'
    BY TypeNext
  <1> QED
    BY <1>1, <1>2, PTL DEF Spec

-----------------------------------------------------------------------------
(* What one reconciliation does to the rows and the results.               *)

\* The rows of the other Maps: a confirmed one stays as it is, and no row is
\* newly confirmed (the linked_elsewhere UPDATE under the guard trigger).
LEMMA OtherRows ==
    ASSUME IInv, NEW m \in Maps, ~TriggerRaises(m), NEW n \in Maps, n # m
    PROVE  /\ recon[n].status = "confirmed" => ReconciledTable(m)[n] = recon[n]
           /\ recon[n].status = "manual_review"
                 => ReconciledTable(m)[n].status = "manual_review"
           /\ ReconciledTable(m)[n].status = "confirmed"
                 => ReconciledTable(m)[n] = recon[n]
  <1>1. \/ ReconciledTable(m)[n] = recon[n]
        \/ ReconciledTable(m)[n] =
              ToReview(recon[n], "opendota_match_link_conflict")
    BY DEF ReconciledTable
  <1>2. recon[n].status # "none"
           => UpdateAllowed(recon[n], ReconciledTable(m)[n])
    BY DEF TriggerRaises
  <1>3. recon[n] \in ReconRows /\ "opendota_match_link_conflict" \in Reasons
    BY DEF IInv, TypeOK, Reasons
  <1>4. ToReview(recon[n], "opendota_match_link_conflict").status
           = "manual_review"
    BY <1>3, ToReviewType
  <1> QED
    BY <1>1, <1>2, <1>4 DEF UpdateAllowed

\* The row of the Map itself: a confirmed one stays, and a newly confirmed one
\* can be turned into a result and is alone with its Official Match ID.
LEMMA OwnRowStep ==
    ASSUME IInv, NEW m \in Maps, ~TriggerRaises(m)
    PROVE  /\ recon[m].status = "confirmed" => OwnRow(m) = recon[m]
           /\ recon[m].status = "manual_review"
                 => OwnRow(m).status = "manual_review"
           /\ OwnRow(m).status = "confirmed" /\ recon[m].status # "confirmed"
                 => /\ ResultInsertable(m, OwnRow(m))
                    /\ LinkedElsewhere(m) = {}
                    /\ audit[m] = odWinner[m]
                    /\ result[m].winner = "none"
  <1>1. ReconciledTable(m)[m] = OwnRow(m)
    BY DEF ReconciledTable
  <1>2. recon[m].status # "none" => UpdateAllowed(recon[m], OwnRow(m))
    BY <1>1 DEF TriggerRaises
  <1>3. ASSUME OwnRow(m).status = "confirmed", recon[m].status # "confirmed"
        PROVE  /\ ResultInsertable(m, OwnRow(m))
               /\ LinkedElsewhere(m) = {}
               /\ audit[m] = odWinner[m]
               /\ result[m].winner = "none"
    <2>1. OwnRow(m) = Proposal(m) /\ LinkedElsewhere(m) = {}
      BY <1>3, OwnRowType DEF IInv
    <2>2. /\ Proposal(m).mapping = w.mapping
          /\ Proposal(m).first = w.settledAt
          /\ Proposal(m).od = odWinner[m]
          /\ Proposal(m).ray = odWinner[m]
          /\ audit[m] = odWinner[m]
      BY <1>3, <2>1, ProposalType DEF IInv
    <2>3. result[m].winner = "none"
      BY <1>3 DEF IInv, ResultRestsOnAgreement
    <2> QED
      BY <1>3, <2>1, <2>2, <2>3 DEF ResultInsertable
  <1> QED
    BY <1>2, <1>3 DEF UpdateAllowed

\* The worker's transaction keeps the agreement behind every result, and never
\* gives two Maps a result from one Official Match ID.
LEMMA ReconcileAgreement ==
    ASSUME IInv, Reconcile
    PROVE  ResultRestsOnAgreement' /\ OneResultPerOfficialMatch'
  <1> DEFINE m == w.map
             row == OwnRow(m)
  <1>1. m \in Maps
    BY DEF IInv, HoldsMap, Reconcile
  <1>2. ~TriggerRaises(m) /\ recon' = ReconciledTable(m)
    BY DEF Reconcile
  <1>3. UNCHANGED <<audit, odWinner, link>>
    BY DEF Reconcile, providers
  <1>4. recon'[m] = row
    BY <1>1, <1>2 DEF ReconciledTable
  <1>5. result' = IF result[m].winner = "none" /\ ResultInsertable(m, row)
                  THEN [result EXCEPT ![m] = [winner |-> odWinner[m],
                                              mapping |-> w.mapping,
                                              at |-> row.first]]
                  ELSE result
    BY DEF Reconcile
  <1>6. result \in [Maps -> ResultRows] /\ odWinner[m] \in Sides
    BY <1>1 DEF IInv, TypeOK
  <1> HIDE DEF m, row
  <1>7. CASE recon[m].status = "confirmed"
    <2>1. row = recon[m]
      BY <1>1, <1>2, <1>7, OwnRowStep DEF row
    <2>2. result' = result
      BY <1>1, <1>5, <1>7 DEF IInv, ResultRestsOnAgreement
    <2>3. \A n \in Maps : recon'[n].status = "confirmed" =>
              recon'[n] = recon[n]
      BY <1>1, <1>2, <1>4, <2>1, OtherRows
    <2>4. \A n \in Maps : recon[n].status = "confirmed" =>
              recon'[n] = recon[n]
      BY <1>1, <1>2, <1>4, <2>1, OtherRows
    <2> QED
      BY <1>3, <2>2, <2>3, <2>4
      DEF IInv, ResultRestsOnAgreement, OneResultPerOfficialMatch
  <1>8. CASE recon[m].status # "confirmed" /\ row.status # "confirmed"
    <2>1. result' = result
      BY <1>5, <1>8 DEF ResultInsertable
    <2>2. \A n \in Maps : recon'[n].status = "confirmed" =>
              recon'[n] = recon[n]
      BY <1>1, <1>2, <1>4, <1>8, OtherRows
    <2>3. \A n \in Maps : recon[n].status = "confirmed" =>
              recon'[n] = recon[n]
      BY <1>1, <1>2, <1>8, OtherRows
    <2> QED
      BY <1>3, <2>1, <2>2, <2>3
      DEF IInv, ResultRestsOnAgreement, OneResultPerOfficialMatch
  <1>9. CASE recon[m].status # "confirmed" /\ row.status = "confirmed"
    <2>1. /\ ResultInsertable(m, row)
          /\ LinkedElsewhere(m) = {}
          /\ audit[m] = odWinner[m]
          /\ result[m].winner = "none"
      BY <1>1, <1>2, <1>9, OwnRowStep DEF row
    <2>2. result' = [result EXCEPT ![m] = [winner |-> odWinner[m],
                                           mapping |-> w.mapping,
                                           at |-> row.first]]
      BY <1>5, <2>1
    <2>3. /\ result'[m] = [winner |-> odWinner[m], mapping |-> w.mapping,
                           at |-> row.first]
          /\ \A n \in Maps \ {m} : result'[n] = result[n]
      BY <1>1, <1>6, <2>2
    <2>4. /\ result'[m].winner = odWinner[m]
          /\ result'[m].mapping = row.mapping
          /\ result'[m].at = row.first
          /\ result'[m].winner # "none"
      BY <1>6, <2>1, <2>3 DEF ResultInsertable, Sides
    <2>5. \A n \in Maps \ {m} :
              (recon'[n].status = "confirmed" <=> recon[n].status = "confirmed")
              /\ (recon'[n].status = "confirmed" => recon'[n] = recon[n])
      BY <1>1, <1>2, OtherRows
    <2>6. ResultRestsOnAgreement'
      <3>1. \A n \in Maps \ {m} :
                /\ result'[n].winner # "none" <=> recon'[n].status = "confirmed"
                /\ recon'[n].status = "confirmed" =>
                      /\ result'[n].winner = odWinner'[n]
                      /\ result'[n].winner = recon'[n].ray
                      /\ result'[n].winner = recon'[n].od
                      /\ result'[n].winner = audit'[n]
                      /\ result'[n].mapping = recon'[n].mapping
                      /\ result'[n].at = recon'[n].first
        BY <1>3, <2>3, <2>5 DEF IInv, ResultRestsOnAgreement
      <3>2. /\ row.ray = odWinner[m] /\ row.od = odWinner[m]
        BY <2>1 DEF ResultInsertable
      <3> QED
        BY <1>3, <1>4, <1>9, <2>1, <2>4, <3>1, <3>2
        DEF ResultRestsOnAgreement
    <2>7. \A n \in Maps \ {m} : result'[n].winner # "none" => link[n] # link[m]
      <3> SUFFICES ASSUME NEW n \in Maps \ {m}, result'[n].winner # "none"
                   PROVE  link[n] # link[m]
        OBVIOUS
      <3>1. recon[n].status = "confirmed"
        BY <2>3 DEF IInv, ResultRestsOnAgreement
      <3> QED
        BY <2>1, <3>1 DEF LinkedElsewhere
    <2>8. OneResultPerOfficialMatch'
      BY <1>3, <2>3, <2>7 DEF IInv, OneResultPerOfficialMatch
    <2> QED
      BY <2>6, <2>8
  <1> QED
    BY <1>7, <1>8, <1>9

\* The ambiguity quarantine never touches a confirmed row.
LEMMA QuarantineRows ==
    ASSUME IInv, Quarantine, NEW n \in Maps
    PROVE  /\ recon[n].status = "confirmed" => recon'[n] = recon[n]
           /\ recon[n].status = "manual_review"
                 => recon'[n].status = "manual_review"
           /\ recon'[n].status = "confirmed" => recon'[n] = recon[n]
  <1> DEFINE row == ToReview(recon[w.map], "opendota_map_identity_ambiguous")
  <1>1. recon' = recon \/ /\ recon' = [recon EXCEPT ![w.map] = row]
                          /\ UpdateAllowed(recon[w.map], row)
    BY DEF Quarantine
  <1>2. w.map \in Maps
    BY DEF IInv, HoldsMap, Quarantine
  <1>3. row.status = "manual_review"
    <2>1. recon[w.map] \in ReconRows
          /\ "opendota_map_identity_ambiguous" \in Reasons
      BY <1>2 DEF IInv, TypeOK, Reasons
    <2> QED
      BY <2>1, ToReviewType
  <1>4. recon \in [Maps -> ReconRows]
    BY DEF IInv, TypeOK
  <1> HIDE DEF row
  <1> QED
    BY <1>1, <1>2, <1>3, <1>4 DEF UpdateAllowed

\* A refresh never replaces the audited final of a confirmed Map.
LEMMA StartLabelAgreement ==
    ASSUME IInv, NEW m \in Maps, StartLabel(m)
    PROVE  ResultRestsOnAgreement' /\ OneResultPerOfficialMatch'
  <1>1. UNCHANGED <<recon, result, odWinner, link>>
    BY DEF StartLabel, providers, ledger
  <1>2. \A n \in Maps : recon[n].status = "confirmed" => audit'[n] = audit[n]
    BY DEF StartLabel, Refreshed, Unresolved, IInv, TypeOK
  <1> QED
    BY <1>1, <1>2 DEF IInv, ResultRestsOnAgreement, OneResultPerOfficialMatch

\* Every step keeps both, so they hold in every reachable state.
LEMMA AgreementNext ==
    ASSUME IInv, [Next]_vars
    PROVE  ResultRestsOnAgreement' /\ OneResultPerOfficialMatch'
  <1> DEFINE frame == UNCHANGED <<recon, result, audit, odWinner, link>>
  <1>1. frame => ResultRestsOnAgreement' /\ OneResultPerOfficialMatch'
    BY DEF IInv, ResultRestsOnAgreement, OneResultPerOfficialMatch
  <1>2. ASSUME NEW m \in Maps,
               \/ MapEnds(m) \/ SeriesCloses(m) \/ RayBetPublishes(m)
               \/ SecondCandidateAppears(m) \/ StrictIngest(m)
               \/ AcceptMapping(m) \/ InvalidateMapping(m)
               \/ sync_exact_postmatch_candidate(m) \/ SkipMap(m)
        PROVE  frame
    BY <1>2 DEF MapEnds, SeriesCloses, RayBetPublishes, SecondCandidateAppears,
                StrictIngest, AcceptMapping, InvalidateMapping,
                sync_exact_postmatch_candidate, SkipMap, archive, ledger,
                providers
  <1>3. ASSUME NEW d \in DotaIds, OpenDotaReparses(d) PROVE frame
    BY <1>3 DEF OpenDotaReparses, archive, ledger
  <1>4. ASSUME NEW p \in Preds,
               \/ RequestPrediction(p) \/ StampPrediction(p)
               \/ persist_prediction(p) \/ SettleOne(p)
        PROVE  frame
    BY <1>4 DEF RequestPrediction, StampPrediction, persist_prediction,
                SettleOne, archive, ledger, providers
  <1>5. ASSUME \/ BeginIteration \/ FetchDetail \/ NoCandidate \/ FetchFails
               \/ ArchiveUsable \/ MappingChanged \/ ReconcileFails
               \/ ListPredictions \/ Crash
        PROVE  frame
    BY <1>5 DEF BeginIteration, FetchDetail, NoCandidate, FetchFails,
                ArchiveUsable, MappingChanged, ReconcileFails, ListPredictions,
                Crash, archive, ledger, providers
  <1>6. CASE Quarantine
    <2>1. UNCHANGED <<result, audit, odWinner, link>>
      BY <1>6 DEF Quarantine, archive, providers
    <2> QED
      BY <1>6, <2>1, QuarantineRows
      DEF IInv, ResultRestsOnAgreement, OneResultPerOfficialMatch
  <1>7. CASE UNCHANGED vars
    <2>1. frame
      BY <1>7 DEF vars, archive, ledger, providers
    <2> QED
      BY <1>1, <2>1
  <1> HIDE DEF frame
  <1> QED
    BY <1>1, <1>2, <1>3, <1>4, <1>5, <1>6, <1>7, StartLabelAgreement,
       ReconcileAgreement
    DEF Next, WorkerStep

-----------------------------------------------------------------------------
(* The safety theorems.                                                    *)

\* IInv is inductive.
LEMMA IInvariant == Spec => []IInv
  <1>1. Init => IInv
    BY TypeInit DEF Init, NoRecon, NoResult, IInv, ResultRestsOnAgreement,
                    OneResultPerOfficialMatch
  <1>2. IInv /\ [Next]_vars => IInv'
    BY TypeNext, AgreementNext DEF IInv
  <1> QED
    BY <1>1, <1>2, PTL DEF Spec

\* A result exists exactly for a confirmed reconciliation and always carries
\* the winner both archived sources agree on.
THEOREM AgreementTheorem == Spec => []ResultRestsOnAgreement
  <1>1. IInv => ResultRestsOnAgreement
    BY DEF IInv
  <1> QED
    BY <1>1, IInvariant, PTL

\* No Official Match ID gives two Maps a result.
THEOREM OfficialMatchTheorem == Spec => []OneResultPerOfficialMatch
  <1>1. IInv => OneResultPerOfficialMatch
    BY DEF IInv
  <1> QED
    BY <1>1, IInvariant, PTL

-----------------------------------------------------------------------------
(* The ledger is append-only.                                              *)

\* What a step may not do to the reconciliations and the results.
ReconKept ==
    \A m \in Maps :
        /\ recon[m].status = "confirmed" => recon'[m] = recon[m]
        /\ recon[m].status = "manual_review"
              => recon'[m].status = "manual_review"
        /\ result[m].winner # "none" => result'[m] = result[m]

\* What a step may not do to the predictions and the settlements.
PredsKept ==
    \A p \in Preds :
        /\ pred[p].phase = "stored" => pred'[p] = pred[p]
        /\ settlement[p].winner # "none" => settlement'[p] = settlement[p]

\* Reconciliations and results: only Quarantine and Reconcile write them.
LEMMA ReconKeptStep == ASSUME IInv, [Next]_vars PROVE ReconKept
  <1>1. UNCHANGED <<recon, result>> => ReconKept
    BY DEF ReconKept
  <1>2. ASSUME NEW m \in Maps,
               \/ MapEnds(m) \/ SeriesCloses(m) \/ RayBetPublishes(m)
               \/ SecondCandidateAppears(m) \/ StrictIngest(m)
               \/ AcceptMapping(m) \/ InvalidateMapping(m)
               \/ sync_exact_postmatch_candidate(m) \/ SkipMap(m)
               \/ StartLabel(m)
        PROVE  UNCHANGED <<recon, result>>
    BY <1>2 DEF MapEnds, SeriesCloses, RayBetPublishes, SecondCandidateAppears,
                StrictIngest, AcceptMapping, InvalidateMapping,
                sync_exact_postmatch_candidate, SkipMap, StartLabel, ledger
  <1>3. ASSUME NEW d \in DotaIds, OpenDotaReparses(d)
        PROVE  UNCHANGED <<recon, result>>
    BY <1>3 DEF OpenDotaReparses, ledger
  <1>4. ASSUME NEW p \in Preds,
               \/ RequestPrediction(p) \/ StampPrediction(p)
               \/ persist_prediction(p) \/ SettleOne(p)
        PROVE  UNCHANGED <<recon, result>>
    BY <1>4 DEF RequestPrediction, StampPrediction, persist_prediction,
                SettleOne, ledger
  <1>5. ASSUME \/ BeginIteration \/ FetchDetail \/ NoCandidate \/ FetchFails
               \/ ArchiveUsable \/ MappingChanged \/ ReconcileFails
               \/ ListPredictions \/ Crash \/ UNCHANGED vars
        PROVE  UNCHANGED <<recon, result>>
    BY <1>5 DEF BeginIteration, FetchDetail, NoCandidate, FetchFails,
                ArchiveUsable, MappingChanged, ReconcileFails, ListPredictions,
                Crash, ledger, vars
  <1>6. CASE Quarantine
    <2>1. result' = result
      BY <1>6 DEF Quarantine
    <2> QED
      BY <1>6, <2>1, QuarantineRows DEF ReconKept
  <1>7. CASE Reconcile
    <2>1. /\ w.map \in Maps /\ ~TriggerRaises(w.map)
          /\ recon' = ReconciledTable(w.map)
      BY <1>7 DEF Reconcile, IInv, HoldsMap
    <2>2. recon'[w.map] = OwnRow(w.map)
      BY <2>1 DEF ReconciledTable
    <2>3. \A m \in Maps : result[m].winner # "none" => result'[m] = result[m]
      BY <1>7, <2>1 DEF Reconcile, IInv, TypeOK
    <2>4. \A m \in Maps :
              /\ recon[m].status = "confirmed" => recon'[m] = recon[m]
              /\ recon[m].status = "manual_review"
                    => recon'[m].status = "manual_review"
      BY <2>1, <2>2, OwnRowStep, OtherRows
    <2> QED
      BY <2>3, <2>4 DEF ReconKept
  <1> QED
    BY <1>1, <1>2, <1>3, <1>4, <1>5, <1>6, <1>7 DEF Next, WorkerStep

\* Predictions and settlements: each is written once.
LEMMA PredsKeptStep == ASSUME IInv, [Next]_vars PROVE PredsKept
  <1>1. UNCHANGED <<pred, settlement>> => PredsKept
    BY DEF PredsKept
  <1>2. ASSUME NEW m \in Maps,
               \/ MapEnds(m) \/ SeriesCloses(m) \/ RayBetPublishes(m)
               \/ SecondCandidateAppears(m) \/ StrictIngest(m)
               \/ AcceptMapping(m) \/ InvalidateMapping(m)
               \/ sync_exact_postmatch_candidate(m) \/ SkipMap(m)
               \/ StartLabel(m)
        PROVE  UNCHANGED <<pred, settlement>>
    BY <1>2 DEF MapEnds, SeriesCloses, RayBetPublishes, SecondCandidateAppears,
                StrictIngest, AcceptMapping, InvalidateMapping,
                sync_exact_postmatch_candidate, SkipMap, StartLabel, ledger,
                requests
  <1>3. ASSUME NEW d \in DotaIds, OpenDotaReparses(d)
        PROVE  UNCHANGED <<pred, settlement>>
    BY <1>3 DEF OpenDotaReparses, ledger, requests
  <1>4. ASSUME \/ BeginIteration \/ FetchDetail \/ NoCandidate \/ FetchFails
               \/ ArchiveUsable \/ MappingChanged \/ ReconcileFails
               \/ Reconcile \/ Quarantine
               \/ ListPredictions \/ Crash \/ UNCHANGED vars
        PROVE  UNCHANGED <<pred, settlement>>
    BY <1>4 DEF BeginIteration, FetchDetail, NoCandidate, FetchFails,
                ArchiveUsable, MappingChanged, ReconcileFails, ListPredictions,
                Reconcile, Quarantine, Crash, ledger, requests, vars
  <1>5. ASSUME NEW p \in Preds,
               \/ RequestPrediction(p) \/ StampPrediction(p)
               \/ persist_prediction(p)
        PROVE  PredsKept
    <2>1. pred[p].phase # "stored" /\ settlement' = settlement
      BY <1>5 DEF RequestPrediction, StampPrediction, persist_prediction, ledger
    <2>2. \A q \in Preds \ {p} : pred'[q] = pred[q]
      BY <1>5 DEF RequestPrediction, StampPrediction, persist_prediction, IInv,
                  TypeOK
    <2> QED
      BY <2>1, <2>2 DEF PredsKept
  <1>6. ASSUME NEW p \in Preds, SettleOne(p) PROVE PredsKept
    <2>1. pred' = pred
      BY <1>6 DEF SettleOne, requests
    <2>2. \/ settlement' = settlement
          \/ /\ settlement' = [settlement EXCEPT ![p] = SettlementRow(p)]
             /\ settlement[p].winner = "none"
                   \/ settlement[p] = SettlementRow(p)
      BY <1>6 DEF SettleOne
    <2> QED
      BY <2>1, <2>2 DEF PredsKept, IInv, TypeOK
  <1> QED
    BY <1>1, <1>2, <1>3, <1>4, <1>5, <1>6 DEF Next, WorkerStep

\* No step rewrites a confirmed row, a result, a stored prediction or a
\* settlement, or takes a Map out of review.
THEOREM LedgerTheorem == Spec => LedgerIsAppendOnly
  <1>1. IInv /\ [Next]_vars => [ReconKept /\ PredsKept]_vars
    BY ReconKeptStep, PredsKeptStep
  <1>2. [ReconKept /\ PredsKept]_vars =>
            [/\ \A m \in Maps :
                   /\ recon[m].status = "confirmed" => recon'[m] = recon[m]
                   /\ recon[m].status = "manual_review"
                          => recon'[m].status = "manual_review"
                   /\ result[m].winner # "none" => result'[m] = result[m]
             /\ \A p \in Preds :
                   /\ pred[p].phase = "stored" => pred'[p] = pred[p]
                   /\ settlement[p].winner # "none"
                          => settlement'[p] = settlement[p]]_vars
    BY DEF ReconKept, PredsKept
  <1> QED
    BY <1>1, <1>2, IInvariant, PTL DEF Spec, LedgerIsAppendOnly

-----------------------------------------------------------------------------
(* What a reader of the settlement tables may rely on: a settlement        *)
(* repeats its result, no late prediction is settled as eligible, and the  *)
(* worker with its triggers implements SettlementLedger.                   *)

\* While the worker settles, the result of its Map is stored under this run's
\* settled_at, and the predictions it holds are stored predictions of the Map;
\* a settled prediction is one of a Map with a result.
HoldsResult ==
    /\ w.pc \in {"list", "settle"} =>
          /\ result[w.map].winner # "none"
          /\ result[w.map].at = w.settledAt
    /\ w.pc = "settle" =>
          \A p \in w.todo : PredMap[p] = w.map /\ pred[p].phase = "stored"
    /\ \A p \in Preds :
          settlement[p] # NoSettlement => result[PredMap[p]].winner # "none"

\* The stamps are in the order of the clock: a Map that has ended did so at a
\* stored instant, and a late prediction was created after it.
StampsInOrder ==
    /\ \A m \in Maps : ended[m] <= now
    /\ \A p \in late : /\ pred[p].phase \in {"stamped", "stored"}
                       /\ ended[PredMap[p]] > 0
                       /\ pred[p].created > ended[PredMap[p]]
    /\ \A p \in Preds : settlement[p] # NoSettlement => pred[p].phase = "stored"

\* The inductive invariant of this module.
SInv ==
    /\ IInv
    /\ HoldsResult
    /\ StampsInOrder
    /\ SettlementMatchesResult
    /\ EligibleMeansBlind

-----------------------------------------------------------------------------
(* One step.                                                               *)

\* Stored predictions, settlements and results stay, as LedgerTheorem has it.
LEMMA Kept == ASSUME IInv, [Next]_vars PROVE ReconKept /\ PredsKept
  BY ReconKeptStep, PredsKeptStep

\* A confirmed row that is confirmed again was proposed with the same first
\* usable time.
LEMMA ConfirmedAgain ==
    ASSUME TypeOK, NEW m \in Maps,
           recon[m].status = "confirmed", OwnRow(m).status = "confirmed"
    PROVE  recon[m].first = w.settledAt
  <1> DEFINE new == IF LinkedElsewhere(m) = {} THEN Proposal(m)
                    ELSE [Proposal(m) EXCEPT
                             !.status = "manual_review",
                             !.reason = "opendota_match_link_conflict"]
  <1>1. recon[m] \in ReconRows /\ Proposal(m) \in ReconRows
        /\ Proposal(m).first = w.settledAt
    BY ProposalType DEF TypeOK
  <1>2. new.first = w.settledAt
    BY <1>1 DEF ReconRows
  <1>3. ~LineageConflict(m)
    BY <1>1 DEF OwnRow, ReconRows
  <1>4. new.status = "confirmed" /\ SameIdentity(recon[m], new)
    BY <1>1, <1>3 DEF OwnRow, ReconRows
  <1> QED
    BY <1>2, <1>4 DEF SameIdentity

\* A label run that goes on to settle has just found or written the result
\* under its own settled_at.
LEMMA ReconcileHolds ==
    ASSUME IInv, HoldsResult, Reconcile
    PROVE  HoldsResult'
  <1> DEFINE m == w.map
  <1>1. m \in Maps /\ ~TriggerRaises(m)
    BY DEF IInv, HoldsMap, Reconcile
  <1>2. UNCHANGED <<pred, settlement>>
    BY DEF Reconcile, requests
  <1>3. \A n \in Maps : result[n].winner # "none" => result'[n] = result[n]
    BY <1>1 DEF Reconcile, IInv, TypeOK
  <1>4. \A p \in Preds :
            settlement'[p] # NoSettlement => result'[PredMap[p]].winner # "none"
    BY <1>2, <1>3, PredMapAssumption DEF HoldsResult
  <1>5. CASE OwnRow(m).status = "confirmed"
    <2>1. result'[m].winner # "none" /\ result'[m].at = w.settledAt
      <3>1. CASE recon[m].status = "confirmed"
        <4>1. OwnRow(m) = recon[m] /\ result[m].winner # "none"
          BY <1>1, <3>1, OwnRowStep DEF IInv, ResultRestsOnAgreement
        <4>2. result[m].at = recon[m].first
          BY <1>1, <3>1 DEF IInv, ResultRestsOnAgreement
        <4>3. recon[m].first = w.settledAt
          BY <1>1, <1>5, <3>1, ConfirmedAgain DEF IInv
        <4> QED
          BY <1>1, <1>3, <4>1, <4>2, <4>3
      <3>2. CASE recon[m].status # "confirmed"
        <4>1. ResultInsertable(m, OwnRow(m)) /\ result[m].winner = "none"
          BY <1>1, <1>5, <3>2, OwnRowStep
        <4>2. OwnRow(m).first = w.settledAt /\ odWinner[m] \in Sides
          BY <1>1, <4>1 DEF ResultInsertable, IInv, TypeOK
        <4>3. result' = [result EXCEPT ![m] = [winner |-> odWinner[m],
                                                mapping |-> w.mapping,
                                                at |-> OwnRow(m).first]]
          BY <4>1 DEF Reconcile
        <4>4. result'[m].winner = odWinner[m] /\ result'[m].at = w.settledAt
          BY <1>1, <4>2, <4>3 DEF IInv, TypeOK
        <4> QED
          BY <4>2, <4>4 DEF Sides
      <3> QED
        BY <3>1, <3>2
    <2>2. /\ w'.pc # "settle"
          /\ w'.pc = "list" => w'.map = m /\ w'.settledAt = w.settledAt
      <3>1. w' = [w EXCEPT !.pc = "list"] \/ w' = Finish(m)
        BY DEF Reconcile
      <3>2. w \in WorkerStates
        BY DEF IInv, TypeOK
      <3>3. Finish(m).pc \in {"idle", "label"}
        BY FinishType DEF IInv
      <3> QED
        BY <3>1, <3>2, <3>3 DEF WorkerStates
    <2> QED
      BY <1>4, <2>1, <2>2 DEF HoldsResult
  <1>6. CASE OwnRow(m).status # "confirmed"
    <2>1. w' = Finish(m)
      BY <1>6 DEF Reconcile
    <2>2. w'.pc \in {"idle", "label"}
      BY <2>1, FinishType DEF IInv
    <2> QED
      BY <1>4, <2>2 DEF HoldsResult
  <1> QED
    BY <1>5, <1>6

\* What one settlement does: an exception or the row of the prediction.
LEMMA SettleOneRow ==
    ASSUME IInv, HoldsResult, NEW p \in Preds, SettleOne(p)
    PROVE  /\ PredMap[p] = w.map /\ w.map \in Maps
           /\ pred[p].phase = "stored"
           /\ result[PredMap[p]].winner # "none"
           /\ SettlementRow(p).at = result[PredMap[p]].at
           /\ SettlementRow(p).winner \in {"radiant", "dire"}
           /\ SettlementRow(p) \in SettlementRows
           /\ UNCHANGED <<now, ended, result, recon, link, radiant, pred, late>>
           /\ \/ settlement' = settlement
              \/ settlement' = [settlement EXCEPT ![p] = SettlementRow(p)]
           /\ \/ w'.pc \in {"idle", "label"}
              \/ w' = [w EXCEPT !.todo = @ \ {p}]
  <1>1. PredMap[p] = w.map /\ w.map \in Maps /\ pred[p].phase = "stored"
        /\ result[w.map].winner # "none" /\ result[w.map].at = w.settledAt
    BY DEF SettleOne, HoldsResult, IInv, HoldsMap
  <1>2. /\ SettlementRow(p).at = w.settledAt
        /\ SettlementRow(p).winner \in {"radiant", "dire"}
        /\ SettlementRow(p) \in SettlementRows
    BY DEF SettlementRow, SettlementRows, WinnerSide, CausalVerdict, IInv,
           TypeOK, WorkerStates
  <1>3. UNCHANGED <<now, ended, result, recon, link, radiant, pred, late>>
    BY DEF SettleOne, providers, requests
  <1>4. \/ settlement' = settlement
        \/ settlement' = [settlement EXCEPT ![p] = SettlementRow(p)]
    BY DEF SettleOne
  <1>5. \/ w'.pc \in {"idle", "label"}
        \/ w' = [w EXCEPT !.todo = @ \ {p}]
    BY FinishType, IdleType DEF SettleOne, Abort, IInv
  <1> QED
    BY <1>1, <1>2, <1>3, <1>4, <1>5

\* The worker keeps hold of the result it settles by.
LEMMA HoldsNext ==
    ASSUME IInv, HoldsResult, [Next]_vars
    PROVE  HoldsResult'
  <1>1. /\ \A m \in Maps : result[m].winner # "none" => result'[m] = result[m]
        /\ \A p \in Preds : pred[p].phase = "stored" => pred'[p] = pred[p]
    BY Kept DEF ReconKept, PredsKept
  <1>2. w.pc \in {"list", "settle"} => w.map \in Maps
    BY DEF IInv, HoldsMap
  <1>3. w \in WorkerStates
    BY DEF IInv, TypeOK
  <1>4. \A p \in Preds : PredMap[p] \in Maps
    BY PredMapAssumption
  <1>5. ASSUME settlement' = settlement, w' = w PROVE HoldsResult'
    BY <1>1, <1>2, <1>3, <1>4, <1>5 DEF HoldsResult, WorkerStates
  <1>6. ASSUME settlement' = settlement, w'.pc \notin {"list", "settle"}
        PROVE  HoldsResult'
    BY <1>1, <1>4, <1>6 DEF HoldsResult
  <1>7. ASSUME NEW m \in Maps,
               \/ MapEnds(m) \/ SeriesCloses(m) \/ RayBetPublishes(m)
               \/ SecondCandidateAppears(m) \/ StrictIngest(m)
               \/ AcceptMapping(m) \/ InvalidateMapping(m)
               \/ sync_exact_postmatch_candidate(m)
        PROVE  settlement' = settlement /\ w' = w
    BY <1>7 DEF MapEnds, SeriesCloses, RayBetPublishes, SecondCandidateAppears,
                StrictIngest, AcceptMapping, InvalidateMapping,
                sync_exact_postmatch_candidate, ledger
  <1>8. ASSUME NEW d \in DotaIds, OpenDotaReparses(d)
        PROVE  settlement' = settlement /\ w' = w
    BY <1>8 DEF OpenDotaReparses, ledger
  <1>9. ASSUME NEW p \in Preds,
               RequestPrediction(p) \/ StampPrediction(p) \/ persist_prediction(p)
        PROVE  settlement' = settlement /\ w' = w
    BY <1>9 DEF RequestPrediction, StampPrediction, persist_prediction, ledger
  <1>10. ASSUME NEW m \in Maps, SkipMap(m) \/ StartLabel(m)
         PROVE  settlement' = settlement /\ w'.pc \notin {"list", "settle"}
    BY <1>3, <1>10, FinishType
    DEF SkipMap, StartLabel, ledger, IInv, WorkerStates
  <1>11. ASSUME \/ BeginIteration \/ FetchDetail \/ NoCandidate \/ FetchFails
                \/ ArchiveUsable \/ MappingChanged \/ ReconcileFails
                \/ Quarantine \/ Crash
         PROVE  settlement' = settlement /\ w'.pc \notin {"list", "settle"}
    <2>1. settlement' = settlement
      BY <1>11 DEF BeginIteration, FetchDetail, NoCandidate, FetchFails,
                   ArchiveUsable, MappingChanged, ReconcileFails, Quarantine,
                   Crash, ledger
    <2>2. \/ w' = IdleWorker \/ w' = Finish(w.map)
          \/ w' = [IdleWorker EXCEPT !.pc = "label", !.batch = valid]
          \/ w' = [w EXCEPT !.pc = "fetched", !.content = content[link[w.map]]]
          \/ w' = [w EXCEPT !.pc = "archived", !.settledAt = now + 1]
      BY <1>11 DEF BeginIteration, FetchDetail, NoCandidate, FetchFails,
                   ArchiveUsable, MappingChanged, ReconcileFails, Quarantine,
                   Crash, Abort
    <2> QED
      BY <1>3, <2>1, <2>2, FinishType, IdleType
      DEF IInv, WorkerStates, IdleWorker
  <1>12. CASE ListPredictions
    <2> DEFINE found == {p \in Preds : PredMap[p] = w.map
                                       /\ pred[p].phase = "stored"}
    <2>1. w.pc = "list" /\ UNCHANGED <<pred, settlement, result>>
      BY <1>12 DEF ListPredictions, ledger, requests
    <2>2. w' = Finish(w.map) \/ w' = [w EXCEPT !.pc = "settle", !.todo = found]
      BY <1>12 DEF ListPredictions
    <2>3. CASE w' = Finish(w.map)
      BY <1>6, <2>1, <2>3, FinishType DEF IInv
    <2>4. CASE w' = [w EXCEPT !.pc = "settle", !.todo = found]
      BY <1>3, <2>1, <2>4 DEF HoldsResult, WorkerStates
    <2> QED
      BY <2>2, <2>3, <2>4
  <1>13. ASSUME NEW p \in Preds, SettleOne(p) PROVE HoldsResult'
    <2>1. \A q \in Preds :
              settlement'[q] # NoSettlement => result'[PredMap[q]].winner # "none"
      BY <1>13, SettleOneRow DEF HoldsResult, IInv, TypeOK
    <2>2. CASE w'.pc \in {"idle", "label"}
      BY <2>1, <2>2 DEF HoldsResult
    <2>3. CASE w' = [w EXCEPT !.todo = @ \ {p}]
      BY <1>3, <1>13, <2>1, <2>3, SettleOneRow DEF HoldsResult, WorkerStates
    <2> QED
      BY <1>13, <2>2, <2>3, SettleOneRow
  <1>14. CASE UNCHANGED vars
    BY <1>5, <1>14 DEF vars, ledger
  <1> QED
    BY <1>5, <1>6, <1>7, <1>8, <1>9, <1>10, <1>11, <1>12, <1>13, <1>14,
       ReconcileHolds
    DEF Next, WorkerStep

\* Steps that touch neither a stamp nor a settlement.
LEMMA StampFrame ==
    ASSUME IInv, StampsInOrder, now' \in {now, now + 1},
           UNCHANGED <<ended, late, settlement>>,
           \A p \in Preds : \/ pred'[p] = pred[p]
                            \/ /\ pred[p].phase = "none"
                               /\ pred'[p].phase = "requested"
                            \/ /\ pred[p].phase = "stamped"
                               /\ pred'[p].phase = "stored"
                               /\ pred'[p].created = pred[p].created
    PROVE  StampsInOrder'
  <1>1. now \in Nat /\ ended \in [Maps -> Nat] /\ late \subseteq Preds
    BY DEF IInv, TypeOK
  <1>2. \A m \in Maps : ended'[m] <= now'
    BY <1>1 DEF StampsInOrder
  <1>3. \A p \in late' : /\ pred'[p].phase \in {"stamped", "stored"}
                         /\ ended'[PredMap[p]] > 0
                         /\ pred'[p].created > ended'[PredMap[p]]
    BY <1>1 DEF StampsInOrder
  <1>4. \A p \in Preds : settlement'[p] # NoSettlement => pred'[p].phase = "stored"
    BY DEF StampsInOrder
  <1> QED
    BY <1>2, <1>3, <1>4 DEF StampsInOrder

\* The stamps stay in the order of the clock.
LEMMA StampsNext ==
    ASSUME IInv, HoldsResult, StampsInOrder, [Next]_vars
    PROVE  StampsInOrder'
  <1>1. ASSUME NEW m \in Maps,
               \/ SeriesCloses(m) \/ RayBetPublishes(m)
               \/ SecondCandidateAppears(m) \/ StrictIngest(m)
               \/ AcceptMapping(m) \/ InvalidateMapping(m)
               \/ sync_exact_postmatch_candidate(m) \/ SkipMap(m)
               \/ StartLabel(m)
        PROVE  now' \in {now, now + 1} /\ UNCHANGED <<ended, late, settlement, pred>>
    BY <1>1 DEF SeriesCloses, RayBetPublishes, SecondCandidateAppears,
                StrictIngest, AcceptMapping, InvalidateMapping,
                sync_exact_postmatch_candidate, SkipMap, StartLabel,
                record_raw_artifact, providers, ledger, requests
  <1>2. ASSUME NEW d \in DotaIds, OpenDotaReparses(d)
        PROVE  now' \in {now, now + 1} /\ UNCHANGED <<ended, late, settlement, pred>>
    BY <1>2 DEF OpenDotaReparses, ledger, requests
  <1>3. ASSUME \/ BeginIteration \/ FetchDetail \/ NoCandidate \/ FetchFails
               \/ ArchiveUsable \/ MappingChanged \/ ReconcileFails
               \/ Reconcile \/ Quarantine \/ ListPredictions \/ Crash
               \/ UNCHANGED vars
        PROVE  now' \in {now, now + 1} /\ UNCHANGED <<ended, late, settlement, pred>>
    BY <1>3 DEF BeginIteration, FetchDetail, NoCandidate, FetchFails,
                ArchiveUsable, MappingChanged, ReconcileFails, Reconcile,
                Quarantine, ListPredictions, Crash, record_raw_artifact,
                providers, ledger, requests, vars
  <1>4. ASSUME NEW m \in Maps, MapEnds(m) PROVE StampsInOrder'
    <2>1. /\ ended' = [ended EXCEPT ![m] = now + 1] /\ ended[m] = 0
          /\ now' = now + 1 /\ UNCHANGED <<late, settlement, pred>>
      BY <1>4 DEF MapEnds, ledger, requests
    <2>2. now \in Nat /\ ended \in [Maps -> Nat] /\ late \subseteq Preds
      BY DEF IInv, TypeOK
    <2>3. \A p \in late : ended'[PredMap[p]] = ended[PredMap[p]]
      BY <2>1, <2>2, PredMapAssumption DEF StampsInOrder
    <2>4. \A n \in Maps : ended'[n] <= now'
      BY <2>1, <2>2 DEF StampsInOrder
    <2> QED
      BY <2>1, <2>3, <2>4 DEF StampsInOrder
  <1>5. ASSUME NEW p \in Preds, RequestPrediction(p) \/ persist_prediction(p)
        PROVE  StampsInOrder'
    <2>1. now' = now /\ UNCHANGED <<ended, late, settlement>>
      BY <1>5 DEF RequestPrediction, persist_prediction, providers, ledger
    <2>2. pred \in [Preds -> PredRows]
      BY DEF IInv, TypeOK
    <2>3. \A q \in Preds : \/ pred'[q] = pred[q]
                           \/ /\ pred[q].phase = "none"
                              /\ pred'[q].phase = "requested"
                           \/ /\ pred[q].phase = "stamped"
                              /\ pred'[q].phase = "stored"
                              /\ pred'[q].created = pred[q].created
      BY <1>5, <2>2 DEF RequestPrediction, persist_prediction, PredRows
    <2> QED
      BY <2>1, <2>3, StampFrame
  <1>6. ASSUME NEW p \in Preds, StampPrediction(p) PROVE StampsInOrder'
    <2>1. /\ pred[p].phase = "requested" /\ now' = now + 1
          /\ pred' = [pred EXCEPT ![p] = [phase |-> "stamped",
                                          created |-> now + 1]]
          /\ late' = IF ended[PredMap[p]] > 0 THEN late \cup {p} ELSE late
          /\ UNCHANGED <<ended, settlement>>
      BY <1>6 DEF StampPrediction, providers, ledger
    <2>2. /\ now \in Nat /\ ended \in [Maps -> Nat] /\ late \subseteq Preds
          /\ PredMap[p] \in Maps /\ pred \in [Preds -> PredRows]
      BY PredMapAssumption DEF IInv, TypeOK
    <2>3. pred'[p].phase = "stamped" /\ pred'[p].created = now + 1
          /\ \A q \in Preds \ {p} : pred'[q] = pred[q]
      BY <2>1, <2>2
    <2>4. p \notin late /\ settlement[p] = NoSettlement
      BY <2>1 DEF StampsInOrder
    <2>5. \A m \in Maps : ended'[m] <= now'
      BY <2>1, <2>2 DEF StampsInOrder
    <2>6. \A q \in late' : /\ pred'[q].phase \in {"stamped", "stored"}
                           /\ ended'[PredMap[q]] > 0
                           /\ pred'[q].created > ended'[PredMap[q]]
      BY <2>1, <2>2, <2>3, <2>4 DEF StampsInOrder
    <2>7. \A q \in Preds :
              settlement'[q] # NoSettlement => pred'[q].phase = "stored"
      BY <2>1, <2>3, <2>4 DEF StampsInOrder
    <2> QED
      BY <2>5, <2>6, <2>7 DEF StampsInOrder
  <1>7. ASSUME NEW p \in Preds, SettleOne(p) PROVE StampsInOrder'
    <2>1. /\ UNCHANGED <<now, ended, pred, late>> /\ pred[p].phase = "stored"
          /\ \/ settlement' = settlement
             \/ settlement' = [settlement EXCEPT ![p] = SettlementRow(p)]
      BY <1>7, SettleOneRow
    <2>2. \A q \in Preds : q # p => settlement'[q] = settlement[q]
      BY <2>1 DEF IInv, TypeOK
    <2> QED
      BY <2>1, <2>2 DEF StampsInOrder
  <1>8. ASSUME now' \in {now, now + 1}, UNCHANGED <<ended, late, settlement, pred>>
        PROVE  StampsInOrder'
    BY <1>8, StampFrame
  <1> QED
    BY <1>1, <1>2, <1>3, <1>4, <1>5, <1>6, <1>7, <1>8 DEF Next, WorkerStep

\* A settlement repeats its result and never calls a late prediction eligible.
LEMMA SettledNext ==
    ASSUME SInv, [Next]_vars
    PROVE  SettlementMatchesResult' /\ EligibleMeansBlind'
  <1>1. /\ \A m \in Maps : result[m].winner # "none" => result'[m] = result[m]
        /\ IInv /\ HoldsResult /\ StampsInOrder
        /\ SettlementMatchesResult /\ EligibleMeansBlind
    BY Kept DEF SInv, ReconKept
  <1>2. /\ \A p \in Preds : PredMap[p] \in Maps
        /\ NoSettlement.winner = "none" /\ NoSettlement.verdict = "none"
    BY PredMapAssumption DEF NoSettlement
  <1>3. ASSUME UNCHANGED <<settlement, radiant>> PROVE SettlementMatchesResult'
    BY <1>1, <1>2, <1>3 DEF SettlementMatchesResult, HoldsResult
  <1>4. ASSUME UNCHANGED <<settlement, late>> PROVE EligibleMeansBlind'
    BY <1>1, <1>4 DEF EligibleMeansBlind
  <1>5. ASSUME NEW m \in Maps,
               \/ MapEnds(m) \/ SeriesCloses(m) \/ RayBetPublishes(m)
               \/ SecondCandidateAppears(m) \/ StrictIngest(m)
               \/ AcceptMapping(m) \/ InvalidateMapping(m)
               \/ sync_exact_postmatch_candidate(m) \/ SkipMap(m)
               \/ StartLabel(m)
        PROVE  UNCHANGED <<settlement, radiant, late>>
    BY <1>5 DEF MapEnds, SeriesCloses, RayBetPublishes, SecondCandidateAppears,
                StrictIngest, AcceptMapping, InvalidateMapping,
                sync_exact_postmatch_candidate, SkipMap, StartLabel, ledger,
                requests
  <1>6. ASSUME NEW d \in DotaIds, OpenDotaReparses(d)
        PROVE  UNCHANGED <<settlement, radiant, late>>
    BY <1>6 DEF OpenDotaReparses, ledger, requests
  <1>7. ASSUME \/ BeginIteration \/ FetchDetail \/ NoCandidate \/ FetchFails
               \/ ArchiveUsable \/ MappingChanged \/ ReconcileFails
               \/ Reconcile \/ Quarantine \/ ListPredictions \/ Crash
               \/ UNCHANGED vars
        PROVE  UNCHANGED <<settlement, radiant, late>>
    BY <1>7 DEF BeginIteration, FetchDetail, NoCandidate, FetchFails,
                ArchiveUsable, MappingChanged, ReconcileFails, Reconcile,
                Quarantine, ListPredictions, Crash, ledger, requests, vars
  <1>8. ASSUME NEW p \in Preds, RequestPrediction(p) \/ persist_prediction(p)
        PROVE  UNCHANGED <<settlement, radiant, late>>
    BY <1>8 DEF RequestPrediction, persist_prediction, ledger
  <1>9. ASSUME NEW p \in Preds, StampPrediction(p)
        PROVE  SettlementMatchesResult' /\ EligibleMeansBlind'
    <2>1. UNCHANGED <<settlement, radiant>> /\ late' \in {late, late \cup {p}}
          /\ pred[p].phase = "requested"
      BY <1>9 DEF StampPrediction, ledger
    <2>2. settlement[p] = NoSettlement
      BY <1>1, <2>1 DEF StampsInOrder
    <2> QED
      BY <1>1, <1>2, <1>3, <2>1, <2>2 DEF EligibleMeansBlind
  <1>10. ASSUME NEW p \in Preds, SettleOne(p)
         PROVE  SettlementMatchesResult' /\ EligibleMeansBlind'
    <2>1. /\ UNCHANGED <<result, ended, radiant, pred, late>>
          /\ SettlementRow(p).at = result[PredMap[p]].at
          /\ \/ settlement' = settlement
             \/ settlement' = [settlement EXCEPT ![p] = SettlementRow(p)]
      BY <1>1, <1>10, SettleOneRow
    <2>2. settlement \in [Preds -> SettlementRows]
      BY <1>1 DEF IInv, TypeOK
    <2>3. SettlementRow(p).winner = "radiant"
             <=> result[PredMap[p]].winner = radiant[p]
      BY DEF SettlementRow, WinnerSide
    <2>4. SettlementRow(p).verdict = "eligible" => p \notin late
      <3>1. /\ ended[PredMap[p]] \in Nat /\ pred[p].created \in Nat
        BY <1>1, <1>2 DEF IInv, TypeOK, PredRows
      <3>2. SettlementRow(p).verdict = "eligible"
               => ~(pred[p].created >= ended[PredMap[p]])
        BY DEF SettlementRow, CausalVerdict
      <3> QED
        BY <1>1, <3>1, <3>2 DEF StampsInOrder
    <2> QED
      BY <1>1, <2>1, <2>2, <2>3, <2>4
      DEF SettlementMatchesResult, EligibleMeansBlind
  <1> QED
    BY <1>3, <1>4, <1>5, <1>6, <1>7, <1>8, <1>9, <1>10 DEF Next, WorkerStep

-----------------------------------------------------------------------------
(* The theorems.                                                           *)

\* SInv is inductive.
LEMMA SInvariant == Spec => []SInv
  <1>1. Init => SInv
    <2> SUFFICES ASSUME Init PROVE SInv
      OBVIOUS
    <2>1. IInv
      BY TypeInit DEF Init, NoRecon, NoResult, IInv, ResultRestsOnAgreement,
                      OneResultPerOfficialMatch
    <2>2. HoldsResult
      BY DEF Init, HoldsResult, IdleWorker
    <2>3. StampsInOrder
      BY DEF Init, StampsInOrder
    <2>4. SettlementMatchesResult /\ EligibleMeansBlind
      BY DEF Init, SettlementMatchesResult, EligibleMeansBlind, NoSettlement
    <2> QED
      BY <2>1, <2>2, <2>3, <2>4 DEF SInv
  <1>2. SInv /\ [Next]_vars => SInv'
    BY TypeNext, AgreementNext, HoldsNext, StampsNext, SettledNext
    DEF SInv, IInv
  <1> QED
    BY <1>1, <1>2, PTL DEF Spec

\* A settlement repeats the first usable time of its Map's result and names
\* the side of the team that won it (settle_prediction).
THEOREM SettlementTheorem == Spec => []SettlementMatchesResult
  <1>1. SInv => SettlementMatchesResult
    BY DEF SInv
  <1> QED
    BY <1>1, SInvariant, PTL

\* A prediction whose inputs were complete only after its Map had ended is
\* never settled as eligible (settle_prediction's causal audit).
THEOREM BlindTheorem == Spec => []EligibleMeansBlind
  <1>1. SInv => EligibleMeansBlind
    BY DEF SInv
  <1> QED
    BY <1>1, SInvariant, PTL

-----------------------------------------------------------------------------
(* The refinement.                                                         *)

\* The state of the ledger that this state stands for.
LedgerVars == <<link, radiant, [m \in Maps |-> VerdictOf(m)],
                [p \in Preds |-> settlement[p].winner]>>

\* What the three kinds of rows stand for, now and in the next state.
LEMMA VerdictCases ==
    ASSUME NEW m \in Maps
    PROVE  /\ recon[m].status = "confirmed" => VerdictOf(m) = result[m].winner
           /\ recon[m].status = "manual_review" => VerdictOf(m) = "review"
           /\ recon[m].status \notin {"confirmed", "manual_review"}
                 => VerdictOf(m) = "open"
           /\ recon'[m].status = "confirmed"
                 => VerdictOf(m)' = result'[m].winner
           /\ recon'[m].status = "manual_review" => VerdictOf(m)' = "review"
           /\ recon'[m].status \notin {"confirmed", "manual_review"}
                 => VerdictOf(m)' = "open"
  BY DEF VerdictOf

\* A step that confirms nothing sends the Maps to review that are there
\* afterwards and were not before.
LEMMA ReviewStep ==
    ASSUME UNCHANGED <<link, radiant, settlement, result>>, ReconKept,
           \A n \in Maps : recon'[n].status = "confirmed" => recon'[n] = recon[n]
    PROVE  \E S \in SUBSET Maps : Ledger!Review(S)
  <1> DEFINE S == {n \in Maps : /\ recon[n].status # "manual_review"
                                /\ recon'[n].status = "manual_review"}
  <1>1. \A n \in S : VerdictOf(n) = "open"
    BY VerdictCases DEF ReconKept
  <1>2. \A n \in Maps :
            VerdictOf(n)' = IF n \in S THEN "review" ELSE VerdictOf(n)
    <2> SUFFICES ASSUME NEW n \in Maps
                 PROVE  VerdictOf(n)' = IF n \in S THEN "review"
                                        ELSE VerdictOf(n)
      OBVIOUS
    <2>1. CASE recon'[n].status = "confirmed"
      BY <2>1, VerdictCases
    <2>2. CASE recon'[n].status = "manual_review"
      BY <2>2, VerdictCases
    <2>3. CASE recon'[n].status \notin {"confirmed", "manual_review"}
      <3>1. recon[n].status \notin {"confirmed", "manual_review"}
        BY <2>3 DEF ReconKept
      <3> QED
        BY <2>3, <3>1, VerdictCases
    <2> QED
      BY <2>1, <2>2, <2>3
  <1>3. Ledger!Review(S)
    BY <1>1, <1>2 DEF Ledger!Review
  <1> QED
    BY <1>3

\* The worker's transaction decides one Map or sends some to review.
LEMMA ReconcileRefines ==
    ASSUME IInv, Reconcile
    PROVE  Ledger!Next
  <1>0. PICK m \in Maps : m = w.map
    BY DEF IInv, HoldsMap, Reconcile
  <1>1. m \in Maps /\ ~TriggerRaises(m)
    BY <1>0 DEF Reconcile
  <1>2. /\ recon' = ReconciledTable(m)
        /\ UNCHANGED <<link, radiant, settlement>>
    BY <1>0 DEF Reconcile, providers, requests
  <1>3. recon'[m] = OwnRow(m)
    BY <1>1, <1>2 DEF ReconciledTable
  <1>4. ReconKept
    BY ReconKeptStep DEF Next, WorkerStep
  <1>5. \A n \in Maps \ {m} : recon'[n].status = "confirmed"
                                 => recon'[n] = recon[n]
    BY <1>1, <1>2, OtherRows
  <1>6. CASE recon'[m].status = "confirmed" /\ recon[m].status # "confirmed"
    <2>1. /\ ResultInsertable(m, OwnRow(m)) /\ LinkedElsewhere(m) = {}
          /\ result[m].winner = "none" /\ recon[m].status # "manual_review"
      BY <1>1, <1>3, <1>6, OwnRowStep
    <2>2. \A n \in Maps \ {m} : recon'[n] = recon[n]
      BY <1>1, <1>2, <2>1 DEF ReconciledTable
    <2>3. result' = [result EXCEPT ![m] = [winner |-> odWinner[m],
                                           mapping |-> w.mapping,
                                           at |-> OwnRow(m).first]]
      BY <1>0, <2>1 DEF Reconcile
    <2>4. /\ result'[m].winner = odWinner[m] /\ odWinner[m] \in Sides
          /\ \A n \in Maps \ {m} : result'[n] = result[n]
      BY <1>1, <2>3 DEF IInv, TypeOK
    <2>5. VerdictOf(m) = "open" /\ VerdictOf(m)' = odWinner[m]
      BY <1>1, <1>6, <2>1, <2>4, VerdictCases
    <2>6. \A n \in Maps \ {m} : VerdictOf(n)' = VerdictOf(n)
      BY <2>2, <2>4, VerdictCases
    <2>7. \A n \in Maps \ {m} : link[n] = link[m] => VerdictOf(n) \notin Sides
      BY <2>1, VerdictCases DEF LinkedElsewhere, Sides
    <2>8. Ledger!Decide(m, odWinner[m])
      BY <1>1, <1>2, <2>5, <2>6, <2>7 DEF Ledger!Decide
    <2> QED
      BY <1>1, <2>4, <2>8 DEF Ledger!Next
  <1>7. CASE ~(recon'[m].status = "confirmed" /\ recon[m].status # "confirmed")
    <2>1. recon'[m].status = "confirmed"
             => recon'[m] = recon[m] /\ result[m].winner # "none"
      <3> SUFFICES ASSUME recon'[m].status = "confirmed"
                   PROVE  recon'[m] = recon[m] /\ result[m].winner # "none"
        OBVIOUS
      <3>1. recon[m].status = "confirmed"
        BY <1>7
      <3> QED
        BY <1>1, <1>4, <3>1 DEF ReconKept, IInv, ResultRestsOnAgreement
    <2>2. result' = result
      BY <1>0, <1>3, <2>1 DEF Reconcile, ResultInsertable
    <2>3. \E S \in SUBSET Maps : Ledger!Review(S)
      BY <1>2, <1>4, <1>5, <2>1, <2>2, ReviewStep
    <2> QED
      BY <2>3 DEF Ledger!Next
  <1> QED
    BY <1>6, <1>7

\* The quarantine of an ambiguous Map sends at most that Map to review.
LEMMA QuarantineRefines ==
    ASSUME IInv, Quarantine
    PROVE  Ledger!Next
  <1>1. UNCHANGED <<link, radiant, settlement, result>>
    BY DEF Quarantine, providers, requests
  <1>2. ReconKept
    BY ReconKeptStep DEF Next, WorkerStep
  <1>3. \A n \in Maps : recon'[n].status = "confirmed" => recon'[n] = recon[n]
    BY QuarantineRows
  <1> QED
    BY <1>1, <1>2, <1>3, ReviewStep DEF Ledger!Next

\* A settlement that is new settles its prediction in the ledger.
LEMMA SettleOneRefines ==
    ASSUME IInv, HoldsResult, NEW p \in Preds, SettleOne(p)
    PROVE  Ledger!Next \/ UNCHANGED LedgerVars
  <1> DEFINE m == PredMap[p]
             row == SettlementRow(p)
  <1>1. /\ m \in Maps /\ result[m].winner # "none"
        /\ UNCHANGED <<recon, result, link, radiant>>
    BY SettleOneRow
  <1>2. \A n \in Maps : VerdictOf(n)' = VerdictOf(n)
    BY <1>1 DEF VerdictOf
  <1>3. CASE settlement' = settlement
    BY <1>1, <1>2, <1>3 DEF LedgerVars
  <1>4. CASE settlement' # settlement
    <2>1. settlement' = [settlement EXCEPT ![p] = row]
      BY <1>4, SettleOneRow
    <2>2. settlement \in [Preds -> SettlementRows]
      BY DEF IInv, TypeOK
    <2>3. settlement[p] # row
      BY <1>4, <2>1, <2>2
    <2>4. settlement[p].winner = "none"
      BY <1>4, <2>3 DEF SettleOne, Abort
    <2>5. recon[m].status = "confirmed" /\ result[m].winner \in Sides
      BY <1>1 DEF IInv, ResultRestsOnAgreement, TypeOK
    <2>6. VerdictOf(m) = result[m].winner
      BY <1>1, <2>5, VerdictCases
    <2>7. row.winner = IF VerdictOf(m) = radiant[p] THEN "radiant" ELSE "dire"
      BY <2>6 DEF SettlementRow, WinnerSide
    <2>8. \A q \in Preds : settlement'[q] = IF q = p THEN row ELSE settlement[q]
      BY <2>1, <2>2
    <2> HIDE DEF row
    <2>9. Ledger!Settle(p)
      BY <1>1, <1>2, <2>4, <2>5, <2>6, <2>7, <2>8 DEF Ledger!Settle
    <2> QED
      BY <2>9 DEF Ledger!Next
  <1> QED
    BY <1>3, <1>4

\* Every step is a step of the ledger or leaves it unchanged.
LEMMA StepRefines ==
    ASSUME IInv, HoldsResult, [Next]_vars
    PROVE  Ledger!Next \/ UNCHANGED LedgerVars
  <1>1. ASSUME UNCHANGED <<recon, result, settlement, link, radiant>>
        PROVE  UNCHANGED LedgerVars
    BY <1>1 DEF LedgerVars, VerdictOf
  <1>2. ASSUME NEW m \in Maps,
               \/ MapEnds(m) \/ SeriesCloses(m) \/ RayBetPublishes(m)
               \/ SecondCandidateAppears(m) \/ StrictIngest(m)
               \/ AcceptMapping(m) \/ InvalidateMapping(m)
               \/ sync_exact_postmatch_candidate(m) \/ SkipMap(m)
               \/ StartLabel(m)
        PROVE  UNCHANGED <<recon, result, settlement, link, radiant>>
    BY <1>2 DEF MapEnds, SeriesCloses, RayBetPublishes, SecondCandidateAppears,
                StrictIngest, AcceptMapping, InvalidateMapping,
                sync_exact_postmatch_candidate, SkipMap, StartLabel, ledger,
                requests, providers
  <1>3. ASSUME NEW d \in DotaIds, OpenDotaReparses(d)
        PROVE  UNCHANGED <<recon, result, settlement, link, radiant>>
    BY <1>3 DEF OpenDotaReparses, ledger, requests
  <1>4. ASSUME NEW p \in Preds,
               RequestPrediction(p) \/ StampPrediction(p) \/ persist_prediction(p)
        PROVE  UNCHANGED <<recon, result, settlement, link, radiant>>
    BY <1>4 DEF RequestPrediction, StampPrediction, persist_prediction, ledger,
                providers
  <1>5. ASSUME \/ BeginIteration \/ FetchDetail \/ NoCandidate \/ FetchFails
               \/ ArchiveUsable \/ MappingChanged \/ ReconcileFails
               \/ ListPredictions \/ Crash \/ UNCHANGED vars
        PROVE  UNCHANGED <<recon, result, settlement, link, radiant>>
    BY <1>5 DEF BeginIteration, FetchDetail, NoCandidate, FetchFails,
                ArchiveUsable, MappingChanged, ReconcileFails, ListPredictions,
                Crash, ledger, requests, providers, vars
  <1> QED
    BY <1>1, <1>2, <1>3, <1>4, <1>5, ReconcileRefines, QuarantineRefines,
       SettleOneRefines
    DEF Next, WorkerStep

\* The worker, the triggers and everything around them implement the ledger.
THEOREM RefinementTheorem == Spec => ImplementsLedger
  <1>1. Init => Ledger!Init
    BY RadiantAssumption DEF Init, Ledger!Init, VerdictOf, NoRecon, NoSettlement
  <1>2. SInv /\ [Next]_vars => [Ledger!Next]_LedgerVars
    BY StepRefines DEF SInv
  <1>3. LedgerVars = Ledger!vars
    BY DEF LedgerVars, Ledger!vars
  <1>4. SInv /\ [Next]_vars => [Ledger!Next]_(Ledger!vars)
    BY <1>2, <1>3 DEF LedgerVars, Ledger!vars
  <1> QED
    BY <1>1, <1>4, SInvariant, PTL DEF Spec, ImplementsLedger, Ledger!Spec
=============================================================================

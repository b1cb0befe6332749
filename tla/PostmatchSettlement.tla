------------------------ MODULE PostmatchSettlement ------------------------
(***************************************************************************)
(* Post-match authority: how one Map gets its official result and how the  *)
(* immutable live predictions of that Map are settled.                     *)
(*                                                                         *)
(* The post-match worker (live_betting/postmatch_monitor.py) labels every  *)
(* strictly mapped Map in turn: it archives the OpenDota detail, reads the *)
(* newest RayBet final, reconciles the two winners in one transaction      *)
(* (live_betting/storage.py), writes map_results and then settles the      *)
(* predictions one transaction at a time.  An exception ends the whole     *)
(* iteration.  The database triggers of migrations 0010 and 0034 judge     *)
(* every row the worker writes.  Around it run the two providers, the      *)
(* strict ingest worker, the operator who owns the strict mappings, and    *)
(* the web process that generates predictions.                             *)
(*                                                                         *)
(* A Map stands for a RayBet series with one strictly mapped, draft        *)
(* anchored Map.  Timestamps: now counts the instants that some row        *)
(* stores.  A stamp that is taken but never stored is now + 1, later than  *)
(* every stored one, and leaves now unchanged, so the clock needs no bound.*)
(***************************************************************************)
EXTENDS Naturals

CONSTANTS
    Maps,            \* Map identities (RayBet series, map number)
    DotaIds,         \* Official Match IDs
    MaxContents,     \* bound on the versions of a detail OpenDota serves
    Preds,           \* prediction identities (Map, mapping version)
    PredMap,         \* [Preds -> Maps]: the Map a prediction is about
    MaxMappings,     \* bound on the strict mappings accepted for one Map
    RadiantChoices,  \* RayBet sides that may play radiant
    FinalChoices,    \* finals RayBet may publish
    MayBeAmbiguous,  \* Maps for which a second exact candidate may appear
    MayBeInvalid,    \* Maps whose strict mapping an operator may invalidate
    MaxFaults,       \* bound on worker crashes and OpenDota outages
    NoMap            \* the worker holds no Map

Sides == {"team_one", "team_two"}
Finals == {"pending", "conflict"} \cup Sides

ASSUME PredMapAssumption == PredMap \in [Preds -> Maps]
ASSUME RadiantAssumption == RadiantChoices \subseteq Sides
ASSUME FinalAssumption == FinalChoices \subseteq Finals \ {"pending"}
ASSUME BoundAssumption ==
    MaxContents \in Nat \ {0} /\ MaxMappings \in Nat /\ MaxFaults \in Nat
ASSUME NoMapAssumption == NoMap \notin Maps

VARIABLES
    now,          \* number of instants stored so far
    ended,        \* [Maps -> Nat]: official end instant, 0 before it
    closed,       \* Maps whose RayBet series status is an ended one
    rayFinal,     \* [Maps -> Finals]: what RayBet's odds endpoint says now
    audit,        \* [Maps -> Finals]: newest decisive archived final response
    odWinner,     \* [Maps -> Sides]: winner in the OpenDota detail
    link,         \* [Maps -> DotaIds]: the exact candidate of the Map
    content,      \* [DotaIds -> Nat]: version of the detail served now
    firstUsable,  \* raw_source_artifacts.first_usable_at, 0 for NULL
    evidence,     \* Maps with confirmed OpenDota settlement_result_evidence
    ambiguous,    \* Maps that a second exact candidate matches
    strict,       \* [Maps -> Nat]: id of the newest strict mapping, 0 for none
    valid,        \* Maps whose newest strict mapping is not invalidated
    recon,        \* settlement_reconciliations
    result,       \* map_results
    radiant,      \* [Preds -> Sides]: which RayBet team plays radiant
    pred,         \* live_draft_prospective_predictions and their requests
    late,         \* predictions whose inputs were complete only after the end
    settlement,   \* live_draft_prospective_settlements
    w,            \* the post-match worker's local state
    faults        \* worker crashes and OpenDota outages so far

providers == <<ended, closed, rayFinal, odWinner, link, content, ambiguous>>
mappings == <<strict, valid>>
archive == <<audit, firstUsable, evidence>>
ledger == <<recon, result, settlement>>
requests == <<radiant, pred, late>>
vars == <<now, providers, mappings, archive, ledger, requests, w, faults>>

Reasons ==
    {"none", "raybet_final_missing", "sources_consistent", "winner_conflict",
     "raybet_final_conflict", "stored_map_result_conflict",
     "source_authority_missing", "source_authority_invalid",
     "mapping_lineage_conflict", "opendota_match_link_conflict",
     "source_result_changed", "opendota_map_identity_ambiguous"}
ReconRows ==
    [status: {"none", "pending", "confirmed", "manual_review"},
     reason: Reasons, mapping: Nat, ray: Finals, od: Sides \cup {"none"},
     first: Nat]
ResultRows == [winner: Sides \cup {"none"}, mapping: Nat, at: Nat]
PredRows == [phase: {"none", "requested", "stamped", "stored"}, created: Nat]
SettlementRows ==
    [winner: {"none", "radiant", "dire"},
     verdict: {"none", "eligible", "ineligible"}, at: Nat]
WorkerStates ==
    [pc: {"idle", "label", "refreshed", "fetched", "archived", "list",
          "settle"},
     batch: SUBSET Maps, map: Maps \cup {NoMap}, mapping: Nat, seen: Finals,
     content: Nat, settledAt: Nat, todo: SUBSET Preds]

NoRecon == [status |-> "none", reason |-> "none", mapping |-> 0,
            ray |-> "pending", od |-> "none", first |-> 0]
NoResult == [winner |-> "none", mapping |-> 0, at |-> 0]
NoPred == [phase |-> "none", created |-> 0]
NoSettlement == [winner |-> "none", verdict |-> "none", at |-> 0]
IdleWorker == [pc |-> "idle", batch |-> {}, map |-> NoMap, mapping |-> 0,
               seen |-> "pending", content |-> 0, settledAt |-> 0, todo |-> {}]

Init ==
    /\ now = 0
    /\ ended = [m \in Maps |-> 0]
    /\ closed = {}
    /\ rayFinal = [m \in Maps |-> "pending"]
    /\ audit = [m \in Maps |-> "pending"]
    /\ odWinner \in [Maps -> Sides]
    /\ link \in [Maps -> DotaIds]
    /\ content = [d \in DotaIds |-> 1]
    /\ firstUsable = [a \in DotaIds \X (1 .. MaxContents) |-> 0]
    /\ evidence = {}
    /\ ambiguous = {}
    /\ strict = [m \in Maps |-> 0]
    /\ valid = {}
    /\ recon = [m \in Maps |-> NoRecon]
    /\ result = [m \in Maps |-> NoResult]
    /\ radiant \in [Preds -> RadiantChoices]
    /\ pred = [p \in Preds |-> NoPred]
    /\ late = {}
    /\ settlement = [p \in Preds |-> NoSettlement]
    /\ w = IdleWorker
    /\ faults = 0

Artifact(m) == <<link[m], w.content>>

-----------------------------------------------------------------------------
(* The world around the worker: providers, operator, strict ingest.        *)

MapEnds(m) ==
    /\ ended[m] = 0
    /\ ended' = [ended EXCEPT ![m] = now + 1]
    /\ now' = now + 1
    /\ UNCHANGED <<closed, rayFinal, odWinner, link, content, ambiguous,
                   mappings, archive, ledger, requests, w, faults>>

SeriesCloses(m) ==
    /\ ended[m] > 0 /\ m \notin closed
    /\ closed' = closed \cup {m}
    /\ UNCHANGED <<now, ended, rayFinal, odWinner, link, content, ambiguous,
                   mappings, archive, ledger, requests, w, faults>>

\* RayBet publishes, corrects or contradicts the final of a finished Map.
RayBetPublishes(m) ==
    /\ ended[m] > 0
    /\ \E f \in FinalChoices \ {rayFinal[m]} :
          rayFinal' = [rayFinal EXCEPT ![m] = f]
    /\ UNCHANGED <<now, ended, closed, odWinner, link, content, ambiguous,
                   mappings, archive, ledger, requests, w, faults>>

\* OpenDota parses the replay: same match and winner, other bytes.
OpenDotaReparses(d) ==
    /\ content[d] < MaxContents
    /\ content' = [content EXCEPT ![d] = @ + 1]
    /\ UNCHANGED <<now, ended, closed, rayFinal, odWinner, link, ambiguous,
                   mappings, archive, ledger, requests, w, faults>>

SecondCandidateAppears(m) ==
    /\ ended[m] > 0 /\ m \in MayBeAmbiguous \ ambiguous
    /\ ambiguous' = ambiguous \cup {m}
    /\ UNCHANGED <<now, ended, closed, rayFinal, odWinner, link, content,
                   mappings, archive, ledger, requests, w, faults>>

\* raw_source_artifacts keeps the first non-NULL first_usable_at it is given.
record_raw_artifact(a) ==
    IF firstUsable[a] = 0
    THEN /\ firstUsable' = [firstUsable EXCEPT ![a] = now + 1]
         /\ now' = now + 1
    ELSE UNCHANGED <<firstUsable, now>>

\* The strict ingest worker archives the same detail as soon as it sees it.
StrictIngest(m) ==
    /\ ended[m] > 0
    /\ firstUsable[<<link[m], content[link[m]]>>] = 0
    /\ record_raw_artifact(<<link[m], content[link[m]]>>)
    /\ UNCHANGED <<providers, mappings, audit, evidence, ledger, requests, w,
                   faults>>

AcceptMapping(m) ==
    /\ m \notin valid /\ strict[m] < MaxMappings
    /\ strict' = [strict EXCEPT ![m] = @ + 1]
    /\ valid' = valid \cup {m}
    /\ UNCHANGED <<now, providers, archive, ledger, requests, w, faults>>

InvalidateMapping(m) ==
    /\ m \in valid \cap MayBeInvalid
    /\ valid' = valid \ {m}
    /\ UNCHANGED <<now, providers, strict, archive, ledger, requests, w,
                   faults>>

-----------------------------------------------------------------------------
(* Predictions.  The target is checked once, before the R.O.S.H. batch is  *)
(* fetched; created_at is stamped after the fetch and the row is inserted  *)
(* without a second look at the Map.                                       *)

validate_prediction_target(m) ==
    /\ result[m].winner = "none"
    /\ \A p \in Preds : PredMap[p] = m => settlement[p].winner = "none"
    /\ m \notin closed

RequestPrediction(p) ==
    /\ pred[p].phase = "none"
    /\ validate_prediction_target(PredMap[p])
    /\ pred' = [pred EXCEPT ![p].phase = "requested"]
    /\ UNCHANGED <<now, providers, mappings, archive, ledger, radiant, late, w,
                   faults>>

StampPrediction(p) ==
    /\ pred[p].phase = "requested"
    /\ pred' = [pred EXCEPT ![p] = [phase |-> "stamped", created |-> now + 1]]
    /\ now' = now + 1
    /\ late' = IF ended[PredMap[p]] > 0 THEN late \cup {p} ELSE late
    /\ UNCHANGED <<providers, mappings, archive, ledger, radiant, w, faults>>

persist_prediction(p) ==
    /\ pred[p].phase = "stamped"
    /\ pred' = [pred EXCEPT ![p].phase = "stored"]
    /\ UNCHANGED <<now, providers, mappings, archive, ledger, radiant, late, w,
                   faults>>

-----------------------------------------------------------------------------
(* The post-match worker.                                                  *)

\* Candidate sync archives the details of ended series before any labelling.
sync_exact_postmatch_candidate(m) ==
    /\ w.pc = "idle"
    /\ m \in closed \ evidence
    /\ record_raw_artifact(<<link[m], content[link[m]]>>)
    /\ evidence' \in {evidence, evidence \cup {m}}
    /\ <<firstUsable, evidence>>' # <<firstUsable, evidence>>
    /\ UNCHANGED <<providers, mappings, audit, ledger, requests, w, faults>>

BeginIteration ==
    /\ w.pc = "idle"
    /\ w' = IF valid = {} THEN IdleWorker
            ELSE [IdleWorker EXCEPT !.pc = "label", !.batch = valid]
    /\ UNCHANGED <<now, providers, mappings, archive, ledger, requests,
                   faults>>

\* The label_once of the current series returned: take the next of the batch.
Finish(m) ==
    [IdleWorker EXCEPT !.pc = IF w.batch = {m} THEN "idle" ELSE "label",
                       !.batch = w.batch \ {m}]

\* An exception leaves label_once: the rest of the batch is dropped.
Abort == w' = IdleWorker

\* The Map lost its valid mapping since the batch was read: an early return.
SkipMap(m) ==
    /\ w.pc = "label" /\ m \in w.batch
    /\ m \notin valid
    /\ w' = Finish(m)
    /\ UNCHANGED <<now, providers, mappings, archive, ledger, requests,
                   faults>>

Unresolved(m) == recon[m].status \notin {"confirmed", "manual_review"}

\* _refresh_raybet_final: a decisive answer becomes the newest audited final.
Refreshed(m) ==
    IF rayFinal[m] = "pending" THEN audit
    ELSE [audit EXCEPT ![m] = rayFinal[m]]

\* Preflight pins the mapping id.  Only an unresolved Map is refreshed; when
\* the refresh fails, or is not tried, raybet_matches.raw_json stands in for
\* the answer, fresh or not.
StartLabel(m) ==
    /\ w.pc = "label" /\ m \in w.batch
    /\ m \in valid
    /\ \E seen \in {"pending", rayFinal[m]} :
          /\ w' = [w EXCEPT !.pc = "refreshed", !.map = m,
                            !.mapping = strict[m], !.seen = seen]
          /\ \/ Unresolved(m) /\ seen = rayFinal[m] /\ audit' = Refreshed(m)
             \/ audit' = audit
    /\ UNCHANGED <<now, providers, mappings, firstUsable, evidence, ledger,
                   requests, faults>>

\* The exact candidate of the Map and the detail OpenDota serves for it.
FetchDetail ==
    /\ w.pc = "refreshed"
    /\ ended[w.map] > 0 /\ w.map \notin ambiguous
    /\ w' = [w EXCEPT !.pc = "fetched", !.content = content[link[w.map]]]
    /\ UNCHANGED <<now, providers, mappings, archive, ledger, requests,
                   faults>>

\* OpenDota does not list the match yet.
NoCandidate ==
    /\ w.pc = "refreshed"
    /\ ended[w.map] = 0
    /\ w' = Finish(w.map)
    /\ UNCHANGED <<now, providers, mappings, archive, ledger, requests,
                   faults>>

\* OpenDota does not answer: the exception leaves label_once.
FetchFails ==
    /\ w.pc = "refreshed" /\ faults < MaxFaults
    /\ faults' = faults + 1
    /\ Abort
    /\ UNCHANGED <<now, providers, mappings, archive, ledger, requests>>

\* Mutant: the trigger does not protect a confirmed row.
Mutant_UpdateAllowed(old, new) ==
    /\ old.status = "manual_review" => new.status = "manual_review"
    /\ old.mapping = new.mapping

\* guard_settlement_reconciliation_update, the BEFORE UPDATE trigger.
UpdateAllowed(old, new) ==
    /\ old.status = "manual_review" => new.status = "manual_review"
    /\ old.status = "confirmed" => new = old
    /\ old.mapping = new.mapping

ToReview(row, reason) ==
    [row EXCEPT !.status = "manual_review",
                !.reason = IF row.status = "manual_review" THEN @ ELSE reason]

\* Two exact candidates: the stored row, if there is one, goes to review.
Quarantine ==
    LET m == w.map
        row == ToReview(recon[m], "opendota_map_identity_ambiguous")
    IN  /\ w.pc = "refreshed" /\ m \in ambiguous
        /\ \/ /\ recon[m].status = "none"
              /\ w' = Finish(m) /\ recon' = recon
           \/ /\ recon[m].status # "none" /\ UpdateAllowed(recon[m], row)
              /\ w' = Finish(m) /\ recon' = [recon EXCEPT ![m] = row]
           \/ /\ recon[m].status # "none" /\ ~UpdateAllowed(recon[m], row)
              /\ Abort /\ recon' = recon
        /\ UNCHANGED <<now, providers, mappings, archive, result, settlement,
                       requests, faults>>

\* settled_at is taken here and offered as the artifact's first usable time.
ArchiveUsable ==
    /\ w.pc = "fetched"
    /\ w' = [w EXCEPT !.pc = "archived", !.settledAt = now + 1]
    /\ record_raw_artifact(Artifact(w.map))
    /\ UNCHANGED <<providers, mappings, audit, evidence, ledger, requests,
                   faults>>

\* The final the transaction works with: the newest audited one, else the
\* unaudited payload read before.
LatestRayBetFinal(m) == IF audit[m] = "pending" THEN w.seen ELSE audit[m]

\* Mutant: the two winners are not compared.
Mutant_reconcile_map_winners(ray, od) ==
    CASE ray = "conflict" -> <<"manual_review", "raybet_final_conflict">>
      [] ray = "pending"  -> <<"pending", "raybet_final_missing">>
      [] ray \in Sides -> <<"confirmed", "sources_consistent">>

reconcile_map_winners(ray, od) ==
    CASE ray = "conflict" -> <<"manual_review", "raybet_final_conflict">>
      [] ray = "pending"  -> <<"pending", "raybet_final_missing">>
      [] ray \in Sides /\ ray # od -> <<"manual_review", "winner_conflict">>
      [] ray \in Sides /\ ray = od -> <<"confirmed", "sources_consistent">>

\* _settlement_source_authority_valid: both raw payloads are archived, and the
\* artifact became usable at exactly this settled_at.
SourceAuthority(m) ==
    audit[m] # "pending" /\ firstUsable[Artifact(m)] = w.settledAt

StoredResultConflict(m) ==
    /\ result[m].winner # "none"
    /\ <<result[m].mapping, result[m].winner>> # <<w.mapping, odWinner[m]>>

\* The row this label asks for, before the stored rows are looked at.
Proposal(m) ==
    LET winners == reconcile_map_winners(LatestRayBetFinal(m), odWinner[m])
        judged  == IF StoredResultConflict(m)
                   THEN <<"manual_review", "stored_map_result_conflict">>
                   ELSE winners
        final   == IF judged[1] # "manual_review" /\ ~SourceAuthority(m)
                   THEN <<"manual_review",
                          IF audit[m] = "pending"
                          THEN "source_authority_missing"
                          ELSE "source_authority_invalid">>
                   ELSE judged
    IN  [status |-> final[1], reason |-> final[2], mapping |-> w.mapping,
         ray |-> LatestRayBetFinal(m), od |-> odWinner[m],
         first |-> w.settledAt]

\* Mutant: only rows still pending count as linked elsewhere.
Mutant_LinkedElsewhere(m) ==
    {n \in Maps \ {m} : link[n] = link[m] /\ recon[n].status = "pending"}

\* Other Maps already reconciled with the same Official Match ID.
LinkedElsewhere(m) ==
    {n \in Maps \ {m} : link[n] = link[m] /\ recon[n].status # "none"}

LineageConflict(m) ==
    recon[m].status # "none" /\ recon[m].mapping # w.mapping

SameIdentity(a, b) == a.ray = b.ray /\ a.od = b.od /\ a.first = b.first

\* The row record_settlement_reconciliation writes for the Map itself.
OwnRow(m) ==
    LET old == recon[m]
        new == IF LinkedElsewhere(m) = {} THEN Proposal(m)
               ELSE [Proposal(m) EXCEPT
                        !.status = "manual_review",
                        !.reason = "opendota_match_link_conflict"]
    IN  CASE LineageConflict(m) ->
                [old EXCEPT !.status = "manual_review",
                            !.reason = "mapping_lineage_conflict"]
          [] ~LineageConflict(m) /\ old.status = "manual_review" -> old
          [] ~LineageConflict(m) /\ old.status = "confirmed" ->
                IF new.status = "confirmed" /\ SameIdentity(old, new) THEN old
                ELSE [old EXCEPT !.status = "manual_review",
                                 !.reason = IF new.status = "manual_review" /\
                                               new.reason \in
                                                 {"opendota_match_link_conflict",
                                                  "stored_map_result_conflict"}
                                            THEN new.reason
                                            ELSE "source_result_changed"]
          [] ~LineageConflict(m) /\ old.status \in {"none", "pending"} -> new

\* Every row one call of record_settlement_reconciliation leaves behind.
ReconciledTable(m) ==
    [n \in Maps |->
        IF n = m THEN OwnRow(m)
        ELSE IF n \in LinkedElsewhere(m) /\ ~LineageConflict(m)
             THEN ToReview(recon[n], "opendota_match_link_conflict")
             ELSE recon[n]]

\* Mutant: the update guard also judges a first insert.
Mutant_TriggerRaises(m) ==
    \E n \in Maps : ~UpdateAllowed(recon[n], ReconciledTable(m)[n])

TriggerRaises(m) ==
    \E n \in Maps : /\ recon[n].status # "none"
                    /\ ~UpdateAllowed(recon[n], ReconciledTable(m)[n])

MappingHeld(m) == m \in valid /\ strict[m] = w.mapping

MappingChanged ==
    /\ w.pc = "archived" /\ ~MappingHeld(w.map)
    /\ w' = Finish(w.map)
    /\ UNCHANGED <<now, providers, mappings, archive, ledger, requests,
                   faults>>

ReconcileFails ==
    /\ w.pc = "archived" /\ MappingHeld(w.map)
    /\ TriggerRaises(w.map)
    /\ Abort
    /\ UNCHANGED <<now, providers, mappings, archive, ledger, requests,
                   faults>>

\* insert_map_result, under the confirmed row that was just written.
ResultInsertable(m, row) ==
    /\ row.status = "confirmed" /\ row.mapping = w.mapping
    /\ row.ray = odWinner[m] /\ row.od = odWinner[m]
    /\ row.first = w.settledAt

\* One transaction: evidence, both reconciliation writes and the result.
Reconcile ==
    LET m == w.map
        row == OwnRow(m)
        stored == result[m].winner # "none"
        insert == ~stored /\ ResultInsertable(m, row)
    IN  /\ w.pc = "archived" /\ MappingHeld(m)
        /\ ~TriggerRaises(m)
        /\ recon' = ReconciledTable(m)
        /\ result' = IF insert
                     THEN [result EXCEPT ![m] = [winner |-> odWinner[m],
                                                 mapping |-> w.mapping,
                                                 at |-> row.first]]
                     ELSE result
        /\ evidence' = IF SourceAuthority(m) /\ ~LineageConflict(m)
                       THEN evidence \cup {m} ELSE evidence
        /\ w' = IF row.status = "confirmed" /\ (stored \/ insert)
                THEN [w EXCEPT !.pc = "list"] ELSE Finish(m)
        /\ UNCHANGED <<now, providers, mappings, audit, firstUsable, settlement,
                       requests, faults>>

\* The predictions to settle are read after the commit.
ListPredictions ==
    LET found == {p \in Preds : PredMap[p] = w.map /\ pred[p].phase = "stored"}
    IN  /\ w.pc = "list"
        /\ w' = IF found = {} THEN Finish(w.map)
                ELSE [w EXCEPT !.pc = "settle", !.todo = found]
        /\ UNCHANGED <<now, providers, mappings, archive, ledger, requests,
                       faults>>

\* Mutant: only the result's first usable time bounds a prediction.
Mutant_CausalVerdict(p) ==
    IF pred[p].created >= result[PredMap[p]].at THEN "ineligible" ELSE "eligible"

CausalVerdict(p) ==
    LET m == PredMap[p]
    IN  IF pred[p].created >= ended[m] \/ pred[p].created >= result[m].at
        THEN "ineligible" ELSE "eligible"

\* Mutant: the first team is taken for the radiant one.
Mutant_WinnerSide(p) ==
    IF result[PredMap[p]].winner = "team_one" THEN "radiant" ELSE "dire"

\* settle_prediction maps the winning team to a side of the draft.
WinnerSide(p) ==
    IF result[PredMap[p]].winner = radiant[p] THEN "radiant" ELSE "dire"

SettlementRow(p) ==
    [winner |-> WinnerSide(p), verdict |-> CausalVerdict(p), at |-> w.settledAt]

\* Mutant: the trigger's CASE is the other way round.
Mutant_SettlementAllowed(p, row) ==
    result[PredMap[p]].winner =
        IF row.winner = "radiant" THEN "team_two" ELSE "team_one"

\* validate_live_draft_prospective_settlement, the BEFORE INSERT trigger.
SettlementAllowed(p, row) ==
    result[PredMap[p]].winner =
        IF row.winner = "radiant" THEN "team_one" ELSE "team_two"

\* One prediction, oldest first, in a transaction of its own.
SettleOne(p) ==
    LET row == SettlementRow(p)
        known == settlement[p].winner # "none"
    IN  /\ w.pc = "settle" /\ p \in w.todo
        /\ \A q \in w.todo : pred[p].created <= pred[q].created
        /\ \/ /\ known /\ settlement[p] # row
              /\ Abort /\ settlement' = settlement
           \/ /\ ~known /\ ~SettlementAllowed(p, row)
              /\ Abort /\ settlement' = settlement
           \/ /\ (known /\ settlement[p] = row) \/ SettlementAllowed(p, row)
              /\ ~known \/ settlement[p] = row
              /\ settlement' = [settlement EXCEPT ![p] = row]
              /\ w' = IF w.todo = {p} THEN Finish(w.map)
                      ELSE [w EXCEPT !.todo = @ \ {p}]
        /\ UNCHANGED <<now, providers, mappings, archive, recon, result,
                       requests, faults>>

\* The process dies; what was committed stays.
Crash ==
    /\ w.pc # "idle" /\ faults < MaxFaults
    /\ faults' = faults + 1
    /\ w' = IdleWorker
    /\ UNCHANGED <<now, providers, mappings, archive, ledger, requests>>

-----------------------------------------------------------------------------
WorkerStep ==
    \/ BeginIteration
    \/ \E m \in Maps : SkipMap(m) \/ StartLabel(m)
    \/ FetchDetail \/ NoCandidate \/ FetchFails \/ Quarantine
    \/ ArchiveUsable \/ MappingChanged \/ ReconcileFails \/ Reconcile
    \/ ListPredictions
    \/ \E p \in Preds : SettleOne(p)

Next ==
    \/ WorkerStep
    \/ \E m \in Maps :
          \/ MapEnds(m) \/ SeriesCloses(m) \/ RayBetPublishes(m)
          \/ SecondCandidateAppears(m) \/ StrictIngest(m)
          \/ AcceptMapping(m) \/ InvalidateMapping(m)
          \/ sync_exact_postmatch_candidate(m)
    \/ \E d \in DotaIds : OpenDotaReparses(d)
    \/ \E p \in Preds :
          RequestPrediction(p) \/ StampPrediction(p) \/ persist_prediction(p)
    \/ Crash

Spec == Init /\ [][Next]_vars

\* The worker loops for ever and catches every exception of an iteration.
Fairness == WF_vars(WorkerStep)

FairSpec == Spec /\ Fairness

-----------------------------------------------------------------------------
(* Properties.                                                             *)

\* Every row and every local of the worker has the shape the schema gives it.
TypeOK ==
    /\ now \in Nat
    /\ ended \in [Maps -> Nat]
    /\ closed \in SUBSET Maps
    /\ rayFinal \in [Maps -> Finals]
    /\ audit \in [Maps -> Finals]
    /\ odWinner \in [Maps -> Sides]
    /\ link \in [Maps -> DotaIds]
    /\ content \in [DotaIds -> 1 .. MaxContents]
    /\ firstUsable \in [DotaIds \X (1 .. MaxContents) -> Nat]
    /\ evidence \in SUBSET Maps
    /\ ambiguous \in SUBSET Maps
    /\ strict \in [Maps -> Nat]
    /\ valid \in SUBSET Maps
    /\ recon \in [Maps -> ReconRows]
    /\ result \in [Maps -> ResultRows]
    /\ radiant \in [Preds -> Sides]
    /\ pred \in [Preds -> PredRows]
    /\ late \in SUBSET Preds
    /\ settlement \in [Preds -> SettlementRows]
    /\ w \in WorkerStates
    /\ faults \in Nat

\* A Map has a result exactly when its reconciliation is confirmed, and then
\* the winner is the one OpenDota's detail and the newest archived RayBet
\* final both name, under the same mapping and first usable time
\* (_reconcile_and_settle, insert_map_result).
ResultRestsOnAgreement ==
    \A m \in Maps :
        /\ result[m].winner # "none" <=> recon[m].status = "confirmed"
        /\ recon[m].status = "confirmed" =>
              /\ result[m].winner = odWinner[m]
              /\ result[m].winner = recon[m].ray
              /\ result[m].winner = recon[m].od
              /\ result[m].winner = audit[m]
              /\ result[m].mapping = recon[m].mapping
              /\ result[m].at = recon[m].first

\* Two Maps never both get a result from one Official Match ID, whatever the
\* order in which they are labelled (the linked_elsewhere quarantine).
OneResultPerOfficialMatch ==
    \A m, n \in Maps :
        (m # n /\ result[m].winner # "none" /\ result[n].winner # "none")
            => link[m] # link[n]

\* A settlement repeats the result of its Map: it was written by the label run
\* that wrote the result, and it names the side of the winning team
\* (settle_prediction).
SettlementMatchesResult ==
    \A p \in Preds :
        settlement[p].winner # "none" =>
            /\ settlement[p].at = result[PredMap[p]].at
            /\ settlement[p].winner = "radiant"
                  <=> result[PredMap[p]].winner = radiant[p]

\* A prediction whose inputs arrived after the Map had ended is never settled
\* as eligible, however the request raced the end, the result and the worker.
EligibleMeansBlind ==
    \A p \in Preds : settlement[p].verdict = "eligible" => p \notin late

\* No step changes a confirmed reconciliation, a result, a stored prediction
\* or a settlement, and review is never left (triggers of migration 0010).
LedgerIsAppendOnly ==
    [][/\ \A m \in Maps :
             /\ recon[m].status = "confirmed" => recon'[m] = recon[m]
             /\ recon[m].status = "manual_review"
                    => recon'[m].status = "manual_review"
             /\ result[m].winner # "none" => result'[m] = result[m]
       /\ \A p \in Preds :
             /\ pred[p].phase = "stored" => pred'[p] = pred[p]
             /\ settlement[p].winner # "none"
                    => settlement'[p] = settlement[p]]_vars

\* A finished Map that stays strictly mapped and unambiguous is eventually
\* reconciled one way or the other (the worker's endless loop).
EveryMapDecided ==
    \A m \in Maps :
        <>[](ended[m] > 0 /\ m \in valid /\ m \notin ambiguous)
            => <>(recon[m].status # "none")

\* A prediction stored before its Map has a result is settled once the result
\* exists: the labeler "then appends live prediction settlements".
EarlyPredictionsSettle ==
    \A p \in Preds :
        [](pred[p].phase = "stored" /\ result[PredMap[p]].winner = "none"
            => [](result[PredMap[p]].winner # "none"
                    => <>(settlement[p].winner # "none")))

\* Strict identity and consistent winners are what a result requires: a Map
\* whose archived RayBet final and OpenDota winner agree is in review only
\* because its identity is in doubt, never because of who archived the detail
\* first.
AgreementIsNotReviewed ==
    \A m \in Maps :
        /\ recon[m].status = "manual_review"
        /\ recon[m].ray = recon[m].od /\ recon[m].ray = audit[m]
        => recon[m].reason \in {"mapping_lineage_conflict",
                                "opendota_match_link_conflict",
                                "opendota_map_identity_ambiguous"}

\* The tables as SettlementLedger sees them.
VerdictOf(m) ==
    CASE recon[m].status = "confirmed" -> result[m].winner
      [] recon[m].status = "manual_review" -> "review"
      [] OTHER -> "open"

Ledger == INSTANCE SettlementLedger
    WITH verdict <- [m \in Maps |-> VerdictOf(m)],
         settled <- [p \in Preds |-> settlement[p].winner]

\* The worker, its triggers and everything around them keep the promise of the
\* ledger: what a reader sees decided or settled is final, rests on one Map per
\* official match and names the side of the team that won.
ImplementsLedger == Ledger!Spec
=============================================================================

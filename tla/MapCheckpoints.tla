---------------------------- MODULE MapCheckpoints ----------------------------
(***************************************************************************)
(* live_betting/map_decision_checkpoints.py: the shadow decisions of one   *)
(* series, and their settlement.                                           *)
(*                                                                         *)
(* Every iteration of the worker takes one moment, decided_at, lists the   *)
(* maps with a locked draft and walks through them: a pregame checkpoint,  *)
(* then the five-minute checkpoints that are due.  Each one is written in  *)
(* a transaction of its own and read from what is stored at that time, so  *)
(* the moment of the decision stays behind while the world goes on.  An    *)
(* exception ends the iteration.  After the series, what was decided       *)
(* before the official end of its map is settled.                          *)
(*                                                                         *)
(* Nothing keeps a second worker away: after a hard end of the web process *)
(* the next one starts its own beside the one that is left.  They share    *)
(* the tables and no lock, so each walks on with what it has listed.       *)
(*                                                                         *)
(* Times and game clocks are in ticks.  Probabilities and prices are left  *)
(* out but for the question whether the edge is large enough; where only   *)
(* presence matters a value is chosen when it is read.                     *)
(***************************************************************************)
EXTENDS Integers, FiniteSets

CONSTANTS
    DecisionWorkers,   \* processes of map_decision_checkpoints
    MaxMap,        \* maps of the series
    Targets,       \* game clocks of the live checkpoints, five minutes apart
    CaptureWindow, \* LIVE_CHECKPOINT_CAPTURE_WINDOW_SECONDS
    StartWindow,   \* MAP_START_EVIDENCE_WINDOW_SECONDS
    PregameGrace,  \* PREGAME_MISSING_PREDICTION_GRACE_SECONDS
    PregameOddsAge, LiveOddsAge, VisionAge, OddsVisionGap,  \* the limits
    RecentAge,     \* LIVE_MATCH_MAX_AGE
    Announced,     \* explicit_raybet_map_times: maps whose start it tells
    LastTick, MaxFrames, MaxOdds,   \* bounds
    Unset          \* no time

Maps == 1 .. MaxMap

ASSUME TargetAssumption == MaxMap \in 1 .. 5 /\ Targets \subseteq Nat \ {0}
ASSUME LimitAssumption ==
    /\ {CaptureWindow, StartWindow, PregameGrace, PregameOddsAge, LiveOddsAge,
        VisionAge, OddsVisionGap, RecentAge} \subseteq Nat
    /\ {LastTick, MaxFrames, MaxOdds} \subseteq Nat /\ Unset \notin Nat

VARIABLES
    clock,       \* the time
    game,        \* what is played: the map, its clock, whether it is going on
    started, ended,   \* [Maps -> time]
    played,      \* [Maps -> duration], without the pauses
    provider,    \* raybet_matches: the first map that is not settled, MaxMap + 1
                 \* when there is none, 0 when the row is stale or odd
    open,        \* the status of the series
    locked,      \* [Maps -> time]: created_at of the locked mapping
    frames,      \* trusted vision snapshots
    odds,        \* trusted winner markets
    iteration,   \* record_due_checkpoints, by worker: decided_at, the maps and
                 \* the due checkpoints that are left, and where it is
    rows,        \* map_decision_checkpoints: decided_at by map and target
    settled      \* map_decision_checkpoint_settlements

gameVars == <<clock, game, started, ended, played>>
inputVars == <<provider, open, locked, frames, odds>>
storeVars == <<iteration, rows, settled>>
checkpointVars == <<gameVars, inputVars, storeVars>>

Times == 0 .. LastTick
MaybeTimes == Times \cup {Unset}
\* What live_draft_prospective_predictions may tell; the row may be missing.
Prediction == [present: BOOLEAN, paired: BOOLEAN, eligible: BOOLEAN,
               in_game: BOOLEAN]
Predictions == {p \in Prediction : p.paired \/ p.eligible \/ p.in_game => p.present}
Snapshots == [map: Maps, clock: Times, at: Times]
Odds == [map: Maps, at: Times]
Keys == Maps \X ({0} \cup Targets)    \* 0 is the pregame checkpoint
Iterations == [at: Times, maps: SUBSET Maps, latest: SUBSET Maps,
               stage: {"pregame", "list", "live"}, due: SUBSET Targets]

\* Between two iterations.
NoIteration ==
    [at |-> 0, maps |-> {}, latest |-> {}, stage |-> "pregame", due |-> {}]

CheckpointInit ==
    /\ clock = 0
    /\ game = [map |-> 0, clock |-> 0, on |-> FALSE]
    /\ started = [m \in Maps |-> Unset]
    /\ ended = [m \in Maps |-> Unset]
    /\ played = [m \in Maps |-> 0]
    /\ provider = 0
    /\ open = TRUE
    /\ locked = [m \in Maps |-> Unset]
    /\ frames = {}
    /\ odds = {}
    /\ iteration = [w \in DecisionWorkers |-> NoIteration]
    /\ rows = [k \in {} |-> 0]
    /\ settled = {}

-----------------------------------------------------------------------------
(* The game, the provider, the watcher, the odds monitor and the bridge.   *)

\* Time passes; a game that is not paused goes on.
Pass ==
    /\ clock < LastTick
    /\ clock' = clock + 1
    /\ \E runs \in {game.on, FALSE} :
        game' = [game EXCEPT !.clock = IF runs THEN @ + 1 ELSE @]
    /\ UNCHANGED <<started, ended, played, inputVars, storeVars>>

MapStarts ==
    /\ ~game.on /\ game.map < MaxMap
    /\ game' = [map |-> game.map + 1, clock |-> 0, on |-> TRUE]
    /\ started' = [started EXCEPT ![game.map + 1] = clock]
    /\ UNCHANGED <<clock, ended, played, inputVars, storeVars>>

MapEnds ==
    /\ game.on /\ game.clock > 0
    /\ game' = [game EXCEPT !.on = FALSE]
    /\ ended' = [ended EXCEPT ![game.map] = clock]
    /\ played' = [played EXCEPT ![game.map] = game.clock]
    /\ UNCHANGED <<clock, started, inputVars, storeVars>>

\* The provider is behind the game, or cannot be trusted for a while.
ProviderTells ==
    /\ open
    /\ \E m \in 0 .. IF game.on THEN game.map ELSE game.map + 1 : provider' = m
    /\ UNCHANGED <<gameVars, open, locked, frames, odds,
                   storeVars>>

SeriesEnds ==
    /\ game.map = MaxMap /\ ~game.on
    /\ open' = FALSE
    /\ UNCHANGED <<gameVars, provider, locked, frames, odds,
                   storeVars>>

\* The map that is played, was played last or comes next.
Present ==
    IF ~open THEN {} ELSE IF game.on THEN {game.map} ELSE {game.map, game.map + 1}

Locks(m) ==
    /\ m \in Present /\ locked[m] = Unset
    /\ locked' = [locked EXCEPT ![m] = clock]
    /\ UNCHANGED <<gameVars, provider, open, frames, odds,
                   storeVars>>

\* At most MaxFrames, and of odds MaxOdds, that are kept apart.
Captures ==
    /\ game.on /\ Cardinality(frames) < MaxFrames
    /\ frames' = frames \cup
            {[map |-> game.map, clock |-> game.clock, at |-> clock]}
    /\ UNCHANGED <<gameVars, provider, open, locked, odds,
                   storeVars>>

OddsArrive(m) ==
    /\ m \in Present /\ Cardinality(odds) < MaxOdds
    /\ odds' = odds \cup {[map |-> m, at |-> clock]}
    /\ UNCHANGED <<gameVars, provider, open, locked, frames,
                   storeVars>>

-----------------------------------------------------------------------------
(* What one checkpoint is read from.                                       *)

Latest(times) == CHOOSE t \in times : \A u \in times : u <= t

\* Mutant: the newest market, not the newest at the moment of the decision.
Mutant_latest_market(m, at) ==
    LET times == {o.at : o \in {x \in odds : x.map = m}}
    IN  IF times = {} THEN Unset ELSE Latest(times)

\* _latest_market: when it was observed.
latest_market(m, at) ==
    LET times == {o.at : o \in {x \in odds : x.map = m /\ x.at <= at}}
    IN  IF times = {} THEN Unset ELSE Latest(times)

\* _provider_map_started_at: the provider tells when the map has started.
StartTold(m) == m \in Announced /\ started[m] # Unset

\* A snapshot of a later map counts once a frame near that map's start has
\* been captured, or when it is not older than the start the provider tells.
Credible(f) ==
    \/ f.map = 1
    \/ \E g \in frames : g.map = f.map /\ g.clock <= StartWindow /\ g.at <= f.at
    \/ StartTold(f.map) /\ f.at >= started[f.map]

CredibleOf(m) == {f \in frames : f.map = m /\ Credible(f)}

\* _checkpoint_snapshot: the frame with the lowest clock in the window.
checkpoint_snapshot(m, target) ==
    LET inWindow == {f \in CredibleOf(m) :
                        f.clock \in target .. target + CaptureWindow}
    IN  {f \in inWindow : \A g \in inWindow :
            f.clock < g.clock \/ (f.clock = g.clock /\ f.at <= g.at)}

\* _age_seconds: what lies ahead has no age.
age_seconds(at, observed) == IF observed > at THEN 0 ELSE at - observed

Distance(a, b) == IF a > b THEN a - b ELSE b - a

\* _model_probabilities: the prediction has a probability that counts, and the
\* side of Radiant is known.
model_probabilities(p, direction) == p.paired /\ p.eligible /\ direction

Bet(edge) == IF edge THEN "bet" ELSE "skip"
EdgeReason(edge) == IF edge THEN "minimum_edge_met" ELSE "edge_below_threshold"

\* Mutant: the odds are looked at before the probability.
Mutant_pregame_reason(p, model, market, at, edge) ==
    IF p.in_game THEN "pregame_authority_after_map_start"
    ELSE IF ~p.present THEN "pregame_prediction_unavailable"
    ELSE IF ~p.eligible THEN "pregame_prediction_ineligible"
    ELSE IF market = Unset THEN "pregame_odds_unavailable"
    ELSE IF ~model THEN "pregame_probability_unavailable"
    ELSE IF age_seconds(at, market) > PregameOddsAge THEN "pregame_odds_stale"
    ELSE EdgeReason(edge)

\* The first reason of _pregame_values that applies.
pregame_reason(p, model, market, at, edge) ==
    IF p.in_game THEN "pregame_authority_after_map_start"
    ELSE IF ~p.present THEN "pregame_prediction_unavailable"
    ELSE IF ~p.eligible THEN "pregame_prediction_ineligible"
    ELSE IF ~model THEN "pregame_probability_unavailable"
    ELSE IF market = Unset THEN "pregame_odds_unavailable"
    ELSE IF age_seconds(at, market) > PregameOddsAge THEN "pregame_odds_stale"
    ELSE EdgeReason(edge)

\* A row, by what the auditor reads of it.  market and seen are the times of the
\* odds and of the frame that the function reads first, or Unset.  model and
\* edge are FALSE where the columns are NULL; has_edge tells whether
\* selected_edge was computed.
pregame_values(m, p, market, direction, edge, at) ==
    LET model == model_probabilities(p, direction)
        reason == pregame_reason(p, model, market, at, edge)
        decided == reason \in {"minimum_edge_met", "edge_below_threshold"}
    IN  [phase |-> "pregame", map |-> m, target |-> 0, at |-> at,
         decision |-> Bet(decided /\ edge), reason |-> reason,
         odds |-> market, frame |-> Unset, kills |-> FALSE,
         direction |-> FALSE, model |-> model, edge |-> edge,
         has_edge |-> decided, in_game |-> p.in_game]

\* Mutant: odds and frame may lie apart.
Mutant_gap(market, seen) == 0

gap(market, seen) == Distance(market, seen)

\* prior: the prediction gives a probability, which is looked at only once the
\* side of Radiant is known; valid: the model has a coefficient for the minute.
live_values(m, target, seen, market, prior, valid, kills, direction, edge, at) ==
    LET reason ==
            IF seen = Unset THEN "trusted_vision_checkpoint_missing"
            ELSE IF age_seconds(at, seen) > VisionAge THEN "live_vision_stale"
            ELSE IF ~kills THEN "live_kills_unavailable"
            ELSE IF ~direction THEN "live_team_direction_unavailable"
            ELSE IF market = Unset THEN "live_odds_unavailable"
            ELSE IF age_seconds(at, market) > LiveOddsAge THEN "live_odds_stale"
            ELSE IF gap(market, seen) > OddsVisionGap
            THEN "live_odds_vision_gap_exceeded"
            ELSE IF ~prior THEN "pregame_probability_unavailable"
            ELSE IF ~valid
            THEN "live_probability_checkpoint_minute_not_validated"
            ELSE EdgeReason(edge)
        decided == reason \in {"minimum_edge_met", "edge_below_threshold"}
    IN  [phase |-> "live", map |-> m, target |-> target, at |-> at,
         decision |-> Bet(decided /\ edge), reason |-> reason,
         odds |-> market, frame |-> seen, kills |-> kills /\ seen # Unset,
         direction |-> direction /\ seen # Unset, model |-> decided,
         edge |-> edge, has_edge |-> decided, in_game |-> FALSE]

-----------------------------------------------------------------------------
(* The worker.                                                             *)

Listed == {m \in Maps : locked[m] # Unset}
Least(S) == CHOOSE n \in S : \A k \in S : n <= k
Working(w) == iteration[w].maps # {}
Current(w) == Least(iteration[w].maps)   \* ORDER BY map_number
At(w, stage, m) == Working(w) /\ iteration[w].stage = stage /\ m = Current(w)
GoesOn(w, next) == iteration' = [iteration EXCEPT ![w] = next]

\* The loop goes on with the next map.
NextMap(w) ==
    IF iteration[w].maps = {Current(w)} THEN NoIteration
    ELSE [iteration[w] EXCEPT !.maps = @ \ {Current(w)}, !.stage = "pregame",
                              !.due = {}]

\* _locked_mappings: latest_locked_for_series is settled here.
LatestLocked(m) ==
    \A n \in Listed :
        locked[n] < locked[m] \/ (locked[n] = locked[m] /\ n <= m)

\* A worker takes the time of its decisions.  One that finds no map is left
\* out.
Begins(w) ==
    /\ ~Working(w) /\ open /\ Listed # {}
    /\ GoesOn(w, [at |-> clock, maps |-> Listed,
                  latest |-> {m \in Listed : LatestLocked(m)},
                  stage |-> "pregame", due |-> {}])
    /\ UNCHANGED <<gameVars, inputVars, rows, settled>>

\* The process ends, or a statement fails: what was written stays.
Fails(w) ==
    /\ Working(w)
    /\ GoesOn(w, NoIteration)
    /\ UNCHANGED <<gameVars, inputVars, rows, settled>>

\* _insert_checkpoint: a row that exists stays.
Insert(key, at) ==
    rows' = [k \in DOMAIN rows \cup {key} |->
                IF k \in DOMAIN rows THEN rows[k] ELSE at]

\* _pregame_mapping_is_current.
MappingIsCurrent(w, m) ==
    IF provider # 0 THEN provider = m ELSE m \in iteration[w].latest

PregameReady(m, p, at) == p.present \/ at - locked[m] >= PregameGrace

Passes(w) == GoesOn(w, [iteration[w] EXCEPT !.stage = "list"])

PassesPregame(w, m) ==
    /\ At(w, "pregame", m)
    /\ \/ ~MappingIsCurrent(w, m)
       \/ \E p \in Predictions : ~PregameReady(m, p, iteration[w].at)
    /\ Passes(w)
    /\ UNCHANGED <<gameVars, inputVars, rows, settled>>

PregameRows(m, at) ==
    LET market == latest_market(m, at)
    IN  {pregame_values(m, p, market, direction, edge, at) :
            p \in {q \in Predictions : PregameReady(m, q, at)},
            direction, edge \in BOOLEAN}

record_pregame_checkpoint(w, m) ==
    /\ At(w, "pregame", m) /\ MappingIsCurrent(w, m)
    /\ \A n \in Listed : n <= m
    /\ Insert(<<m, 0>>, iteration[w].at)
    /\ Passes(w)
    /\ UNCHANGED <<gameVars, inputVars, settled>>

\* _require_latest_locked_map raises, and the iteration ends.
Raises(w, m) ==
    /\ At(w, "pregame", m) /\ MappingIsCurrent(w, m)
    /\ \E n \in Listed : n > m
    /\ GoesOn(w, NoIteration)
    /\ UNCHANGED <<gameVars, inputVars, rows, settled>>

\* _latest_trusted_map_is_recent.
LatestMapIsRecent(m, at) ==
    \E f \in frames :
        /\ f.map = m /\ f.at <= at /\ at - f.at <= RecentAge
        /\ \A g \in frames : g.at < f.at \/ (g.at = f.at /\ g.map <= m)

\* The game clock that the map has reached, as far as one can tell.
Reached(m, at) ==
    LET clocks == {f.clock : f \in CredibleOf(m)}
    IN  IF provider \notin {0, m} THEN 0
        ELSE IF clocks # {}
        THEN IF provider = m \/ LatestMapIsRecent(m, at) THEN Latest(clocks)
             ELSE 0
        ELSE IF provider = m /\ StartTold(m) /\ started[m] <= at
        THEN at - started[m] ELSE 0

\* Mutant: a checkpoint that was missed is not made up for.
Mutant_due_live_checkpoint_minutes(m, at) ==
    {t \in Targets : /\ t <= Reached(m, at)
                     /\ \A u \in Targets : u <= Reached(m, at) => u <= t
                     /\ <<m, t>> \notin DOMAIN rows}

\* _due_live_checkpoint_minutes.
due_live_checkpoint_minutes(m, at) ==
    {t \in Targets : t <= Reached(m, at) /\ <<m, t>> \notin DOMAIN rows}

record_due(w, m) ==
    LET due == due_live_checkpoint_minutes(m, iteration[w].at)
    IN  /\ At(w, "list", m)
        /\ GoesOn(w, IF due = {} THEN NextMap(w)
                     ELSE [iteration[w] EXCEPT !.stage = "live", !.due = due])
        /\ UNCHANGED <<gameVars, inputVars, rows, settled>>

LiveRows(m, target, at) ==
    LET snapshot == checkpoint_snapshot(m, target)
        seen == IF snapshot = {} THEN Unset ELSE (CHOOSE f \in snapshot : TRUE).at
        market == latest_market(m, at)
    IN  {live_values(m, target, seen, market, prior, valid, kills, direction,
                     edge, at) :
            prior, valid, kills, direction, edge \in BOOLEAN}

record_live_checkpoint(w, m, target) ==
    /\ At(w, "live", m) /\ target = Least(iteration[w].due)
    /\ Insert(<<m, target>>, iteration[w].at)
    /\ GoesOn(w, IF iteration[w].due = {target} THEN NextMap(w)
                 ELSE [iteration[w] EXCEPT !.due = @ \ {target}])
    /\ UNCHANGED <<gameVars, inputVars, settled>>

\* start_time + duration_seconds of the official map.
OfficialEnd(m) == started[m] + played[m]

\* Mutant: whatever is on record is settled.
Mutant_Settles(k) == ended[k[1]] # Unset

Settles(k) == ended[k[1]] # Unset /\ rows[k] <= OfficialEnd(k[1])

\* It ends an iteration, and finds nothing as long as the series is open.
\* Results are confirmed map by map; here those of any set of ended maps are.
settle_open_checkpoints(w) ==
    /\ ~Working(w) /\ ~open
    /\ \E confirmed \in SUBSET Maps :
        settled' = settled \cup
            {k \in DOMAIN rows : k[1] \in confirmed /\ Settles(k)}
    /\ UNCHANGED <<gameVars, inputVars, iteration, rows>>

-----------------------------------------------------------------------------
CheckpointNext ==
    \/ Pass \/ MapStarts \/ MapEnds \/ ProviderTells \/ SeriesEnds \/ Captures
    \/ \E m \in Maps : Locks(m) \/ OddsArrive(m)
    \/ \E w \in DecisionWorkers :
        \/ Begins(w) \/ Fails(w) \/ settle_open_checkpoints(w)
        \/ \E m \in Maps :
            \/ PassesPregame(w, m) \/ record_pregame_checkpoint(w, m)
            \/ Raises(w, m) \/ record_due(w, m)
            \/ \E t \in Targets : record_live_checkpoint(w, m, t)

CheckpointSpec == CheckpointInit /\ [][CheckpointNext]_checkpointVars

-----------------------------------------------------------------------------
(* series_acceptance.py: what the auditor accepts, by reason.              *)

OddsFresh(v, limit) == v.odds # Unset /\ age_seconds(v.at, v.odds) <= limit

PregameTrace(v) ==
    LET fresh == OddsFresh(v, PregameOddsAge)
    IN  CASE v.decision = "bet" ->
                v.reason = "minimum_edge_met" /\ fresh /\ v.model /\ v.has_edge
                    /\ v.edge
          [] v.reason = "pregame_odds_unavailable" -> v.model /\ v.odds = Unset
          [] v.reason = "pregame_odds_stale" ->
                v.model /\ v.odds # Unset /\ ~fresh
          [] v.reason = "edge_below_threshold" ->
                v.model /\ fresh /\ v.has_edge /\ ~v.edge
          [] v.reason = "pregame_authority_after_map_start" ->
                ~v.has_edge /\ v.in_game
          [] OTHER -> v.decision = "skip" /\ ~v.model /\ ~v.has_edge

LiveTrace(v) ==
    LET vision == v.frame # Unset /\ age_seconds(v.at, v.frame) <= VisionAge
        side == vision /\ v.kills /\ v.direction
        fresh == OddsFresh(v, LiveOddsAge)
        near == side /\ fresh /\ gap(v.odds, v.frame) <= OddsVisionGap
    IN  CASE v.reason \in {"minimum_edge_met", "edge_below_threshold"} ->
                near /\ v.model /\ v.has_edge /\ (v.edge <=> v.decision = "bet")
          [] v.reason = "trusted_vision_checkpoint_missing" -> v.frame = Unset
          [] v.reason = "live_vision_stale" -> v.frame # Unset /\ ~vision
          [] v.reason = "live_kills_unavailable" -> vision /\ ~v.kills
          [] v.reason = "live_team_direction_unavailable" ->
                vision /\ v.kills /\ ~v.direction
          [] v.reason = "live_odds_unavailable" -> side /\ v.odds = Unset
          [] v.reason = "live_odds_stale" -> side /\ v.odds # Unset /\ ~fresh
          [] v.reason = "live_odds_vision_gap_exceeded" ->
                side /\ fresh /\ gap(v.odds, v.frame) > OddsVisionGap
          [] v.reason \in {"pregame_probability_unavailable",
                           "live_probability_checkpoint_minute_not_validated"} ->
                near /\ ~v.model
          [] OTHER -> FALSE

checkpoint_trace_is_consistent(v) ==
    IF v.phase = "pregame" THEN PregameTrace(v) ELSE LiveTrace(v)

-----------------------------------------------------------------------------
(* Properties.                                                             *)

\* The tables and the workers' locals have the shapes that the
\* schema and the code give them.
CheckpointTypeOK ==
    /\ clock \in Times
    /\ game \in [map: 0 .. MaxMap, clock: Times, on: BOOLEAN]
    /\ started \in [Maps -> MaybeTimes] /\ ended \in [Maps -> MaybeTimes]
    /\ played \in [Maps -> Times]
    /\ provider \in 0 .. MaxMap + 1 /\ open \in BOOLEAN
    /\ locked \in [Maps -> MaybeTimes]
    /\ frames \subseteq Snapshots /\ odds \subseteq Odds
    /\ iteration \in [DecisionWorkers -> Iterations]
    /\ DOMAIN rows \subseteq Keys
    /\ rows \in [DOMAIN rows -> Times]
    /\ settled \subseteq DOMAIN rows

\* What the worker could write in the present state.
WritableOf(w) ==
    (UNION {PregameRows(m, iteration[w].at) :
                m \in {n \in Maps : At(w, "pregame", n)}}) \cup
    (UNION {LiveRows(m, Least(iteration[w].due), iteration[w].at) :
                m \in {n \in Maps : At(w, "live", n)}})

Writable == UNION {WritableOf(w) : w \in DecisionWorkers}

\* Whatever the worker writes, in the order in which it looks for reasons, the
\* auditor takes for a consistent trace (_checkpoint_trace_is_consistent).
AuditAcceptsTrace == \A v \in Writable : checkpoint_trace_is_consistent(v)

\* A bet never rests on odds from after its decision, and never on a frame that
\* is more than the gap ahead of it: the frame is read when the row is written,
\* and one from after the decision counts as having no age.
LookaheadIsBounded ==
    \A v \in Writable : v.decision = "bet" =>
        /\ v.odds <= v.at
        /\ v.phase = "live" => v.frame <= v.at + OddsVisionGap

\* No checkpoint of a map is skipped: one is on record only when all that lie
\* before it are, whatever ends an iteration between two of them, however late a
\* worker lists what is due, and though another one writes between its list and
\* its rows.
NoCheckpointIsSkipped ==
    \A k \in DOMAIN rows : \A t \in Targets :
        t < k[2] => <<k[1], t>> \in DOMAIN rows

\* What is settled was decided before its map ended, however long the provider
\* went on telling that it was played.
SettledWereInPlay == \A k \in settled : rows[k] <= ended[k[1]]
=============================================================================

------------------------- MODULE MapCheckpointsProofs -------------------------
(***************************************************************************)
(* Proofs about MapCheckpoints, for every series, every set of checkpoints *)
(* and of workers, and whatever limits: what is settled was decided in     *)
(* play, the auditor accepts every row that can be written, a bet looks    *)
(* ahead no further than the gap, and no checkpoint is skipped.            *)
(***************************************************************************)
EXTENDS MapCheckpoints, WellFoundedInduction, TLAPS

\* The maps are played in their order, and the game clock never runs faster
\* than the time.
GameInOrder ==
    /\ game.on => game.map \in Maps
    /\ game.clock <= clock
    /\ \A m \in Maps :
        /\ m > game.map => started[m] = Unset /\ ended[m] = Unset
        /\ game.on /\ m = game.map =>
              /\ started[m] \in Times /\ ended[m] = Unset
              /\ started[m] + game.clock <= clock
        /\ ended[m] # Unset =>
              started[m] \in Times /\ OfficialEnd(m) <= ended[m]

\* What is settled belongs to a map that has ended, and was decided by its end.
SettledInTime ==
    \A k \in settled : ended[k[1]] # Unset /\ rows[k] <= OfficialEnd(k[1])

\* The inductive invariant.
CheckpointInv == CheckpointTypeOK /\ GameInOrder /\ SettledInTime

-----------------------------------------------------------------------------
(* The steps.                                                              *)

\* The bounds are numbers, and no time is Unset.
LEMMA TimesAreNumbers ==
    /\ Times \subseteq Nat /\ Unset \notin Times /\ LastTick \in Nat
    /\ 0 \in Times /\ MaxMap \in Nat
    /\ \A t \in Nat : t <= LastTick => t \in Times
  BY LimitAssumption, TargetAssumption DEF Times

\* A settlement stays in time while the map it belongs to is left alone.
LEMMA SettledStays ==
    ASSUME CheckpointInv, UNCHANGED <<rows, settled>>,
           \A m \in Maps : ended[m] # Unset =>
              /\ ended'[m] = ended[m]
              /\ started'[m] = started[m] /\ played'[m] = played[m]
    PROVE  SettledInTime'
  <1> SUFFICES ASSUME NEW k \in settled
               PROVE  ended'[k[1]] # Unset /\ rows[k] <= OfficialEnd(k[1])'
    BY DEF SettledInTime
  <1>1. k[1] \in Maps
    BY DEF CheckpointInv, CheckpointTypeOK, Keys
  <1>2. ended[k[1]] # Unset /\ rows[k] <= OfficialEnd(k[1])
    BY DEF CheckpointInv, SettledInTime
  <1> QED
    BY <1>1, <1>2 DEF OfficialEnd

\* Time passes.
LEMMA PassKeeps ==
    ASSUME CheckpointInv, Pass
    PROVE  CheckpointInv'
  <1>1. /\ clock \in Nat /\ clock' \in Times /\ clock' = clock + 1
        /\ game \in [map: 0 .. MaxMap, clock: Times, on: BOOLEAN]
        /\ game.clock \in Nat /\ game.clock <= clock
        /\ \A m \in Maps : started[m] \in Times => started[m] \in Nat
    BY TimesAreNumbers
        DEF Pass, CheckpointInv, CheckpointTypeOK, GameInOrder, Times
  <1>2. UNCHANGED <<started, ended, played, provider, open, locked, frames, odds,
                    iteration, rows, settled>>
    BY DEF Pass, inputVars, storeVars
  <1>3. PICK runs \in {game.on, FALSE} :
            game' = [game EXCEPT !.clock = IF runs THEN @ + 1 ELSE @]
    BY DEF Pass
  <1>4. /\ game' \in [map: 0 .. MaxMap, clock: Nat, on: BOOLEAN]
        /\ game'.map = game.map /\ game'.on = game.on
        /\ game'.clock = game.clock \/ game'.clock = game.clock + 1
    BY <1>1, <1>3, TimesAreNumbers
  <1>5. game'.clock \in Times /\ game'.clock <= clock'
    BY <1>1, <1>4, TimesAreNumbers DEF Times
  <1>6. game' \in [map: 0 .. MaxMap, clock: Times, on: BOOLEAN]
    BY <1>4, <1>5
  <1>7. GameInOrder'
    <2>1. game'.on => game'.map \in Maps
      BY <1>4 DEF CheckpointInv, GameInOrder
    <2>2. ASSUME NEW m \in Maps
          PROVE  /\ m > game'.map => started'[m] = Unset /\ ended'[m] = Unset
                 /\ game'.on /\ m = game'.map =>
                      /\ started'[m] \in Times /\ ended'[m] = Unset
                      /\ started'[m] + game'.clock <= clock'
                 /\ ended'[m] # Unset =>
                      started'[m] \in Times /\ OfficialEnd(m)' <= ended'[m]
      <3>1. /\ m > game.map => started[m] = Unset /\ ended[m] = Unset
            /\ game.on /\ m = game.map =>
                  /\ started[m] \in Times /\ ended[m] = Unset
                  /\ started[m] + game.clock <= clock
            /\ ended[m] # Unset =>
                  started[m] \in Times /\ OfficialEnd(m) <= ended[m]
        BY DEF CheckpointInv, GameInOrder
      <3>2. OfficialEnd(m)' = OfficialEnd(m)
        BY <1>2 DEF OfficialEnd
      <3> QED
        BY <1>1, <1>2, <1>4, <3>1, <3>2
    <2> QED
      BY <1>5, <2>1, <2>2 DEF GameInOrder
  <1>8. SettledInTime'
    BY <1>2, SettledStays
  <1> QED
    BY <1>1, <1>2, <1>6, <1>7, <1>8 DEF CheckpointInv, CheckpointTypeOK

\* The next map starts.
LEMMA MapStartsKeeps ==
    ASSUME CheckpointInv, MapStarts
    PROVE  CheckpointInv'
  <1> DEFINE n == game.map + 1
  <1>1. /\ clock \in Nat /\ clock \in Times /\ clock' = clock
        /\ game \in [map: 0 .. MaxMap, clock: Times, on: BOOLEAN]
        /\ game.map \in Nat /\ game.map < MaxMap /\ MaxMap \in Nat
        /\ started \in [Maps -> MaybeTimes] /\ ~game.on
    BY TimesAreNumbers DEF MapStarts, CheckpointInv, CheckpointTypeOK, Times
  <1>2. UNCHANGED <<ended, played, provider, open, locked, frames, odds,
                    iteration, rows, settled>>
    BY DEF MapStarts, inputVars, storeVars
  <1>3. /\ n \in Maps /\ n \in 0 .. MaxMap /\ n > game.map
        /\ game' = [map |-> n, clock |-> 0, on |-> TRUE]
        /\ started' = [started EXCEPT ![n] = clock]
    BY <1>1 DEF MapStarts, Maps
  <1> HIDE DEF n
  <1>4. /\ game' \in [map: 0 .. MaxMap, clock: Times, on: BOOLEAN]
        /\ game'.map = n /\ game'.clock = 0 /\ game'.on
    BY <1>3, TimesAreNumbers
  <1>5. started' \in [Maps -> MaybeTimes]
    BY <1>1, <1>3 DEF MaybeTimes
  <1>6. started[n] = Unset /\ ended[n] = Unset
    BY <1>3 DEF CheckpointInv, GameInOrder
  <1>7. \A m \in Maps : m # n => started'[m] = started[m]
    BY <1>1, <1>3
  <1>8. started'[n] = clock
    BY <1>1, <1>3
  <1>9. GameInOrder'
    <2>1. ASSUME NEW m \in Maps
          PROVE  /\ m > game'.map => started'[m] = Unset /\ ended'[m] = Unset
                 /\ game'.on /\ m = game'.map =>
                      /\ started'[m] \in Times /\ ended'[m] = Unset
                      /\ started'[m] + game'.clock <= clock'
                 /\ ended'[m] # Unset =>
                      started'[m] \in Times /\ OfficialEnd(m)' <= ended'[m]
      <3>1. /\ m > game.map => started[m] = Unset /\ ended[m] = Unset
            /\ ended[m] # Unset =>
                  started[m] \in Times /\ OfficialEnd(m) <= ended[m]
        BY DEF CheckpointInv, GameInOrder
      <3>2. m > n => m > game.map
        BY <1>1, <1>3 DEF n, Maps
      <3>3. CASE m = n
        BY <1>1, <1>2, <1>4, <1>6, <1>8, <3>3 DEF Maps
      <3>4. CASE m # n
        <4>1. started'[m] = started[m] /\ OfficialEnd(m)' = OfficialEnd(m)
          BY <1>2, <1>7, <3>4 DEF OfficialEnd
        <4> QED
          BY <1>2, <1>4, <3>1, <3>2, <3>4, <4>1
      <3> QED
        BY <3>3, <3>4
    <2>2. game'.clock <= clock'
      BY <1>1, <1>4
    <2> QED
      BY <1>3, <1>4, <2>1, <2>2 DEF GameInOrder
  <1>10. SettledInTime'
    <2>1. \A m \in Maps : ended[m] # Unset =>
              /\ ended'[m] = ended[m]
              /\ started'[m] = started[m] /\ played'[m] = played[m]
      BY <1>2, <1>6, <1>7
    <2> QED
      BY <1>2, <2>1, SettledStays
  <1> QED
    BY <1>1, <1>2, <1>4, <1>5, <1>9, <1>10 DEF CheckpointInv, CheckpointTypeOK

\* The map that is played ends.
LEMMA MapEndsKeeps ==
    ASSUME CheckpointInv, MapEnds
    PROVE  CheckpointInv'
  <1> DEFINE n == game.map
  <1>1. /\ clock \in Nat /\ clock \in Times /\ UNCHANGED <<clock, started>>
        /\ game \in [map: 0 .. MaxMap, clock: Times, on: BOOLEAN]
        /\ ended \in [Maps -> MaybeTimes] /\ played \in [Maps -> Times]
        /\ game.on
    BY TimesAreNumbers DEF MapEnds, CheckpointInv, CheckpointTypeOK, Times
  <1>2. UNCHANGED <<provider, open, locked, frames, odds, iteration, rows,
                    settled>>
    BY DEF MapEnds, inputVars, storeVars
  <1>3. /\ n \in Maps /\ started[n] \in Times /\ ended[n] = Unset
        /\ started[n] + game.clock <= clock /\ game.clock \in Times
        /\ ended' = [ended EXCEPT ![n] = clock]
        /\ played' = [played EXCEPT ![n] = game.clock]
        /\ game' = [game EXCEPT !.on = FALSE]
    BY <1>1 DEF MapEnds, CheckpointInv, GameInOrder
  <1> HIDE DEF n
  <1>4. /\ game' \in [map: 0 .. MaxMap, clock: Times, on: BOOLEAN]
        /\ game'.map = game.map /\ game'.clock = game.clock /\ ~game'.on
    BY <1>1, <1>3
  <1>5. ended' \in [Maps -> MaybeTimes] /\ played' \in [Maps -> Times]
    BY <1>1, <1>3 DEF MaybeTimes
  <1>6. \A m \in Maps : m # n => ended'[m] = ended[m] /\ played'[m] = played[m]
    BY <1>1, <1>3
  <1>7. ended'[n] = clock /\ played'[n] = game.clock
    BY <1>1, <1>3
  <1>8. GameInOrder'
    <2>1. ASSUME NEW m \in Maps
          PROVE  /\ m > game'.map => started'[m] = Unset /\ ended'[m] = Unset
                 /\ ended'[m] # Unset =>
                      started'[m] \in Times /\ OfficialEnd(m)' <= ended'[m]
      <3>1. /\ m > game.map => started[m] = Unset /\ ended[m] = Unset
            /\ ended[m] # Unset =>
                  started[m] \in Times /\ OfficialEnd(m) <= ended[m]
        BY DEF CheckpointInv, GameInOrder
      <3>2. CASE m = n
        <4>1. ~(m > game.map)
          BY <3>2 DEF n, Maps
        <4>2. OfficialEnd(m)' = started[n] + game.clock
          BY <1>1, <1>7, <3>2 DEF OfficialEnd
        <4> QED
          BY <1>1, <1>3, <1>4, <1>7, <3>2, <4>1, <4>2
      <3>3. CASE m # n
        <4>1. ended'[m] = ended[m] /\ OfficialEnd(m)' = OfficialEnd(m)
          BY <1>1, <1>6, <3>3 DEF OfficialEnd
        <4> QED
          BY <1>1, <1>4, <3>1, <3>3, <4>1
      <3> QED
        BY <3>2, <3>3
    <2>2. game'.clock <= clock'
      BY <1>1, <1>4 DEF CheckpointInv, GameInOrder
    <2> QED
      BY <1>4, <2>1, <2>2 DEF GameInOrder
  <1>9. SettledInTime'
    <2>1. \A m \in Maps : ended[m] # Unset =>
              /\ ended'[m] = ended[m]
              /\ started'[m] = started[m] /\ played'[m] = played[m]
      BY <1>1, <1>3, <1>6
    <2> QED
      BY <1>2, <2>1, SettledStays
  <1> QED
    BY <1>1, <1>2, <1>4, <1>5, <1>8, <1>9 DEF CheckpointInv, CheckpointTypeOK

\* The provider, the watcher, the odds monitor and the bridge only add.
LEMMA InputsKeep ==
    ASSUME CheckpointInv,
           \/ ProviderTells \/ SeriesEnds \/ Captures
           \/ \E m \in Maps : Locks(m) \/ OddsArrive(m)
    PROVE  CheckpointInv'
  <1>1. /\ UNCHANGED <<clock, game, started, ended, played>>
        /\ UNCHANGED <<iteration, rows, settled>>
    BY DEF ProviderTells, SeriesEnds, Captures, Locks, OddsArrive, gameVars,
           storeVars
  <1>2. GameInOrder' /\ SettledInTime'
    BY <1>1 DEF CheckpointInv, GameInOrder, SettledInTime, OfficialEnd
  <1>3. /\ clock \in Times /\ game.map \in 0 .. MaxMap /\ game.clock \in Times
        /\ locked \in [Maps -> MaybeTimes]
        /\ frames \subseteq Snapshots /\ odds \subseteq Odds
        /\ provider \in 0 .. MaxMap + 1 /\ open \in BOOLEAN
    BY DEF CheckpointInv, CheckpointTypeOK
  <1>4. /\ locked' \in [Maps -> MaybeTimes]
        /\ frames' \subseteq Snapshots /\ odds' \subseteq Odds
        /\ provider' \in 0 .. MaxMap + 1 /\ open' \in BOOLEAN
    <2>1. CASE ProviderTells
      <3>1. PICK k \in 0 .. IF game.on THEN game.map ELSE game.map + 1 :
                provider' = k
        BY <2>1 DEF ProviderTells
      <3>2. k \in 0 .. MaxMap + 1
        BY <1>3, <3>1, TimesAreNumbers
      <3> QED
        BY <1>3, <2>1, <3>1, <3>2 DEF ProviderTells
    <2>2. CASE SeriesEnds
      BY <1>3, <2>2 DEF SeriesEnds
    <2>3. CASE Captures
      <3>1. game.map \in Maps
        BY <2>3 DEF Captures, CheckpointInv, GameInOrder
      <3>2. [map |-> game.map, clock |-> game.clock, at |-> clock] \in Snapshots
        BY <1>3, <3>1 DEF Snapshots
      <3> QED
        BY <1>3, <2>3, <3>2 DEF Captures
    <2>4. ASSUME NEW m \in Maps, Locks(m)
          PROVE  /\ locked' \in [Maps -> MaybeTimes]
                 /\ UNCHANGED <<provider, open, frames, odds>>
      BY <1>3, <2>4 DEF Locks, MaybeTimes
    <2>5. ASSUME NEW m \in Maps, OddsArrive(m)
          PROVE  /\ odds' \subseteq Odds
                 /\ UNCHANGED <<provider, open, frames, locked>>
      <3>1. [map |-> m, at |-> clock] \in Odds
        BY <1>3 DEF Odds
      <3> QED
        BY <1>3, <2>5, <3>1 DEF OddsArrive
    <2> QED
      BY <1>3, <2>1, <2>2, <2>3, <2>4, <2>5
  <1> QED
    BY <1>1, <1>2, <1>4 DEF CheckpointInv, CheckpointTypeOK

\* A row is added; those that exist stay.
LEMMA InsertKeeps ==
    ASSUME CheckpointInv, NEW key \in Keys, NEW at \in Times, Insert(key, at)
    PROVE  /\ DOMAIN rows' \subseteq Keys /\ rows' \in [DOMAIN rows' -> Times]
           /\ DOMAIN rows \subseteq DOMAIN rows'
           /\ \A k \in DOMAIN rows : rows'[k] = rows[k]
  BY DEF CheckpointInv, CheckpointTypeOK, Insert

\* The iteration of one worker goes on.
LEMMA GoesOnTyped ==
    ASSUME CheckpointTypeOK, NEW w \in DecisionWorkers, NEW next,
           GoesOn(w, next)
    PROVE  /\ next \in Iterations => iteration' \in [DecisionWorkers -> Iterations]
           /\ iteration'[w] = next
           /\ \A v \in DecisionWorkers \ {w} : iteration'[v] = iteration[v]
  BY DEF CheckpointTypeOK, GoesOn

\* What a worker does in its iteration.
Works(w) ==
    \/ Begins(w) \/ Fails(w)
    \/ \E m \in Maps :
         \/ PassesPregame(w, m) \/ record_pregame_checkpoint(w, m)
         \/ Raises(w, m) \/ record_due(w, m)
         \/ \E t \in Targets : record_live_checkpoint(w, m, t)

\* An iteration has one of these forms after a step.
LEMMA NextIterations ==
    ASSUME CheckpointTypeOK, NEW w \in DecisionWorkers
    PROVE  /\ NoIteration \in Iterations /\ NextMap(w) \in Iterations
           /\ [iteration[w] EXCEPT !.stage = "list"] \in Iterations
           /\ \A due \in SUBSET Targets :
                /\ [iteration[w] EXCEPT !.due = due] \in Iterations
                /\ [iteration[w] EXCEPT !.stage = "live", !.due = due] \in Iterations
  <1>1. iteration[w] \in Iterations /\ NoIteration \in Iterations
    BY TimesAreNumbers DEF CheckpointTypeOK, NoIteration, Iterations
  <1> QED
    BY <1>1 DEF NextMap, Iterations

\* The iteration of a worker writes no row but the one it is at.
LEMMA WorkerKeeps ==
    ASSUME CheckpointInv, NEW w \in DecisionWorkers, Works(w)
    PROVE  CheckpointInv'
  <1>1. UNCHANGED <<clock, game, started, ended, played, provider, open, locked,
                    frames, odds, settled>>
    BY DEF Works, Begins, Fails, PassesPregame, record_pregame_checkpoint, Raises,
           record_due, record_live_checkpoint, gameVars, inputVars
  <1>2. GameInOrder'
    BY <1>1 DEF CheckpointInv, GameInOrder, OfficialEnd
  <1>t. CheckpointTypeOK /\ iteration[w] \in Iterations
    BY DEF CheckpointInv, CheckpointTypeOK
  <1>3. iteration' \in [DecisionWorkers -> Iterations]
    <2> SUFFICES \E next \in Iterations : GoesOn(w, next)
      BY <1>t, GoesOnTyped
    <2>1. /\ NoIteration \in Iterations /\ NextMap(w) \in Iterations
          /\ [iteration[w] EXCEPT !.stage = "list"] \in Iterations
          /\ \A due \in SUBSET Targets :
                /\ [iteration[w] EXCEPT !.due = due] \in Iterations
                /\ [iteration[w] EXCEPT !.stage = "live", !.due = due] \in Iterations
      BY <1>t, NextIterations
    <2>2. CASE Begins(w)
      <3>1. [at |-> clock, maps |-> Listed,
             latest |-> {m \in Listed : LatestLocked(m)},
             stage |-> "pregame", due |-> {}] \in Iterations
        BY <1>t DEF Listed, Iterations, CheckpointTypeOK
      <3> QED
        BY <2>2, <3>1 DEF Begins
    <2>3. CASE Fails(w)
      BY <2>1, <2>3 DEF Fails
    <2>4. ASSUME NEW m \in Maps,
                 \/ PassesPregame(w, m) \/ record_pregame_checkpoint(w, m)
                 \/ Raises(w, m)
          PROVE  \E next \in Iterations : GoesOn(w, next)
      BY <2>1, <2>4 DEF PassesPregame, record_pregame_checkpoint, Raises, Passes
    <2>5. ASSUME NEW m \in Maps, record_due(w, m)
          PROVE  \E next \in Iterations : GoesOn(w, next)
      <3>1. due_live_checkpoint_minutes(m, iteration[w].at) \in SUBSET Targets
        BY DEF due_live_checkpoint_minutes
      <3> QED
        BY <2>1, <2>5, <3>1 DEF record_due
    <2>6. ASSUME NEW m \in Maps, NEW t \in Targets, record_live_checkpoint(w, m, t)
          PROVE  \E next \in Iterations : GoesOn(w, next)
      <3>1. /\ iteration[w].due \ {t} \in SUBSET Targets
            /\ [iteration[w] EXCEPT !.due = @ \ {t}] =
                    [iteration[w] EXCEPT !.due = iteration[w].due \ {t}]
        BY <1>t DEF Iterations
      <3> QED
        BY <2>1, <2>6, <3>1 DEF record_live_checkpoint
    <2> QED
      BY <2>2, <2>3, <2>4, <2>5, <2>6 DEF Works
  <1>4. \/ UNCHANGED rows
        \/ \E key \in Keys : Insert(key, iteration[w].at)
    <2>1. ASSUME NEW m \in Maps, record_pregame_checkpoint(w, m)
          PROVE  \E key \in Keys : Insert(key, iteration[w].at)
      <3>1. <<m, 0>> \in Keys
        BY DEF Keys
      <3> QED
        BY <2>1, <3>1 DEF record_pregame_checkpoint
    <2>2. ASSUME NEW m \in Maps, NEW t \in Targets, record_live_checkpoint(w, m, t)
          PROVE  \E key \in Keys : Insert(key, iteration[w].at)
      <3>1. <<m, t>> \in Keys
        BY DEF Keys
      <3> QED
        BY <2>2, <3>1 DEF record_live_checkpoint
    <2> QED
      BY <2>1, <2>2 DEF Works, Begins, Fails, PassesPregame, Raises, record_due
  <1>5. /\ DOMAIN rows' \subseteq Keys /\ rows' \in [DOMAIN rows' -> Times]
        /\ DOMAIN rows \subseteq DOMAIN rows'
        /\ \A k \in DOMAIN rows : rows'[k] = rows[k]
    <2>1. iteration[w].at \in Times
      BY <1>t DEF Iterations
    <2> QED
      BY <1>4, <2>1, InsertKeeps DEF CheckpointInv, CheckpointTypeOK
  <1>6. SettledInTime'
    BY <1>1, <1>5 DEF CheckpointInv, CheckpointTypeOK, SettledInTime, OfficialEnd
  <1> QED
    BY <1>1, <1>2, <1>3, <1>5, <1>6 DEF CheckpointInv, CheckpointTypeOK

\* What is settled was decided by the official end of its map.
LEMMA SettlementKeeps ==
    ASSUME CheckpointInv, NEW w \in DecisionWorkers, settle_open_checkpoints(w)
    PROVE  CheckpointInv'
  <1>1. UNCHANGED <<clock, game, started, ended, played, provider, open, locked,
                    frames, odds, iteration, rows>>
    BY DEF settle_open_checkpoints, gameVars, inputVars
  <1>2. /\ settled' \subseteq DOMAIN rows
        /\ \A k \in settled' : k \in settled \/ Settles(k)
    BY DEF settle_open_checkpoints, CheckpointInv, CheckpointTypeOK
  <1>3. GameInOrder' /\ SettledInTime'
    BY <1>1, <1>2 DEF CheckpointInv, GameInOrder, SettledInTime, OfficialEnd,
                      Settles
  <1> QED
    BY <1>1, <1>2, <1>3 DEF CheckpointInv, CheckpointTypeOK

\* The invariant is inductive.
LEMMA CheckpointInvariant == CheckpointSpec => []CheckpointInv
  <1>1. CheckpointInit => CheckpointInv
    <2> SUFFICES ASSUME CheckpointInit PROVE CheckpointInv
      OBVIOUS
    <2>1. CheckpointTypeOK
      BY TimesAreNumbers DEF CheckpointInit, CheckpointTypeOK, MaybeTimes,
                             NoIteration, Iterations
    <2>2. GameInOrder
      BY TimesAreNumbers DEF CheckpointInit, GameInOrder, Maps
    <2>3. SettledInTime
      BY DEF CheckpointInit, SettledInTime
    <2> QED
      BY <2>1, <2>2, <2>3 DEF CheckpointInv
  <1>2. CheckpointInv /\ [CheckpointNext]_checkpointVars => CheckpointInv'
    <2> SUFFICES ASSUME CheckpointInv, [CheckpointNext]_checkpointVars
                 PROVE  CheckpointInv'
      OBVIOUS
    <2>1. CASE UNCHANGED checkpointVars
      BY <2>1 DEF checkpointVars, gameVars, inputVars, storeVars, CheckpointInv,
                  CheckpointTypeOK, GameInOrder, SettledInTime, OfficialEnd
    <2>2. CASE CheckpointNext
      BY <2>2, PassKeeps, MapStartsKeeps, MapEndsKeeps, InputsKeep, WorkerKeeps,
         SettlementKeeps DEF CheckpointNext, Works
    <2> QED
      BY <2>1, <2>2
  <1> QED
    BY <1>1, <1>2, PTL DEF CheckpointSpec

\* The tables and the worker's locals keep their types.
THEOREM CheckpointTypeTheorem == CheckpointSpec => []CheckpointTypeOK
  <1>1. CheckpointInv => CheckpointTypeOK
    BY DEF CheckpointInv
  <1> QED
    BY <1>1, CheckpointInvariant, PTL

\* What is settled was decided before the map ended, in every series and
\* whatever the provider told (settle_open_checkpoints).
THEOREM SettledTheorem == CheckpointSpec => []SettledWereInPlay
  <1>1. CheckpointInv => SettledWereInPlay
    <2> SUFFICES ASSUME CheckpointInv, NEW k \in settled
                 PROVE  rows[k] <= ended[k[1]]
      BY DEF SettledWereInPlay
    <2>1. k \in DOMAIN rows /\ k[1] \in Maps /\ rows[k] \in Nat
      BY TimesAreNumbers DEF CheckpointInv, CheckpointTypeOK, Keys
    <2>2. ended[k[1]] # Unset /\ rows[k] <= OfficialEnd(k[1])
      BY DEF CheckpointInv, SettledInTime
    <2>3. /\ started[k[1]] \in Nat /\ played[k[1]] \in Nat
          /\ ended[k[1]] \in Nat /\ OfficialEnd(k[1]) <= ended[k[1]]
      BY <2>1, <2>2, TimesAreNumbers
          DEF CheckpointInv, GameInOrder, CheckpointTypeOK, MaybeTimes
    <2> QED
      BY <2>1, <2>2, <2>3 DEF OfficialEnd
  <1> QED
    BY <1>1, CheckpointInvariant, PTL

-----------------------------------------------------------------------------
(* What a row is made of.                                                  *)

\* A non-empty set of natural numbers has a least element.
LEMMA LeastNatural ==
    ASSUME NEW S \in SUBSET Nat, S # {}
    PROVE  \E f \in S : \A g \in S : f <= g
  <1>1. PICK f \in S : \A g \in S : <<g, f>> \notin OpToRel(<, Nat)
    BY NatLessThanWellFounded, WFMin
  <1>2. \A g \in S : ~(g < f)
    BY <1>1 DEF OpToRel
  <1> QED
    BY <1>2

\* The latest of a set of times is one of them.
LEMMA LatestIs ==
    ASSUME NEW times \in SUBSET Times, times # {}
    PROVE  Latest(times) \in times /\ \A t \in times : t <= Latest(times)
  <1> DEFINE left == {LastTick - t : t \in times}
  <1>1. times \subseteq Nat /\ \A t \in times : t <= LastTick
    BY TimesAreNumbers DEF Times
  <1>2. left \in SUBSET Nat /\ left # {}
    <2>1. \A t \in times : LastTick - t \in Nat
      BY <1>1, TimesAreNumbers
    <2>2. PICK t \in times : TRUE
      OBVIOUS
    <2>3. LastTick - t \in left
      BY <2>2
    <2> QED
      BY <2>1, <2>3
  <1>3. PICK f \in left : \A g \in left : f <= g
    BY <1>2, LeastNatural
  <1>4. PICK t \in times : f = LastTick - t
    BY <1>3
  <1>5. \A u \in times : u <= t
    BY <1>1, <1>3, <1>4, TimesAreNumbers
  <1> QED
    BY <1>4, <1>5 DEF Latest

\* The market that a decision is read from is not one from after it.
LEMMA MarketIsOfThePast ==
    ASSUME CheckpointTypeOK, NEW m \in Maps, NEW at \in Times
    PROVE  \/ latest_market(m, at) = Unset
           \/ latest_market(m, at) \in Times /\ latest_market(m, at) <= at
  <1> DEFINE times == {o.at : o \in {x \in odds : x.map = m /\ x.at <= at}}
  <1>1. times \subseteq Times /\ \A t \in times : t <= at
    BY DEF CheckpointTypeOK, Odds
  <1>2. latest_market(m, at) = IF times = {} THEN Unset ELSE Latest(times)
    BY DEF latest_market
  <1> HIDE DEF times
  <1> QED
    BY <1>1, <1>2, LatestIs

\* The frame is one that is stored.
LEMMA SnapshotIsStored ==
    ASSUME CheckpointTypeOK, NEW m \in Maps, NEW target,
           checkpoint_snapshot(m, target) # {}
    PROVE  (CHOOSE f \in checkpoint_snapshot(m, target) : TRUE).at \in Times
  <1>1. checkpoint_snapshot(m, target) \subseteq Snapshots
    BY DEF checkpoint_snapshot, CredibleOf, CheckpointTypeOK
  <1>2. (CHOOSE f \in checkpoint_snapshot(m, target) : TRUE)
            \in checkpoint_snapshot(m, target)
    OBVIOUS
  <1> QED
    BY <1>1, <1>2 DEF Snapshots

\* Ages and gaps are numbers.
LEMMA AgesAreNumbers ==
    ASSUME NEW a \in Times, NEW b \in Times
    PROVE  /\ age_seconds(a, b) \in Nat
           /\ gap(a, b) \in Nat /\ b <= a + gap(a, b)
  BY TimesAreNumbers DEF age_seconds, gap, Distance

\* A pregame row, by its reason.
LEMMA PregameRowAccepted ==
    ASSUME NEW m \in Maps, NEW p \in Predictions, NEW market \in MaybeTimes,
           NEW at \in Times, NEW direction \in BOOLEAN, NEW edge \in BOOLEAN
    PROVE  LET v == pregame_values(m, p, market, direction, edge, at)
           IN  /\ checkpoint_trace_is_consistent(v)
               /\ v.at = at /\ v.phase = "pregame" /\ v.odds = market
               /\ v.decision = "bet" => market # Unset
  <1> DEFINE model == model_probabilities(p, direction)
             reason == pregame_reason(p, model, market, at, edge)
             decided == reason \in {"minimum_edge_met", "edge_below_threshold"}
             v == pregame_values(m, p, market, direction, edge, at)
             fresh == OddsFresh(v, PregameOddsAge)
             stale == age_seconds(at, market) > PregameOddsAge
  <1>1. /\ p.present \in BOOLEAN /\ p.paired \in BOOLEAN
        /\ p.eligible \in BOOLEAN /\ p.in_game \in BOOLEAN
        /\ p.paired \/ p.eligible \/ p.in_game => p.present
    BY DEF Predictions, Prediction
  <1>2. model <=> p.paired /\ p.eligible /\ direction
    BY DEF model_probabilities
  <1>3. /\ v.phase = "pregame" /\ v.at = at /\ v.reason = reason
        /\ v.odds = market
        /\ v.decision = Bet(decided /\ edge)
        /\ v.model = model /\ v.edge = edge /\ v.has_edge = decided
        /\ v.in_game = p.in_game
    BY DEF pregame_values
  <1>4. fresh <=> market # Unset /\ ~stale
    <2>1. market # Unset => age_seconds(at, market) \in Nat
      BY AgesAreNumbers DEF MaybeTimes
    <2> QED
      BY <1>3, <2>1, LimitAssumption DEF OddsFresh
  <1>5. /\ v.has_edge <=> decided
        /\ v.model <=> model
        /\ v.edge <=> edge
        /\ v.in_game <=> p.in_game
        /\ v.decision = "bet" <=> decided /\ edge
        /\ v.decision = "skip" <=> ~(decided /\ edge)
    BY <1>3 DEF Bet
  <1> HIDE DEF model, v, fresh, stale
  <1>6. reason = IF p.in_game THEN "pregame_authority_after_map_start"
                 ELSE IF ~p.present THEN "pregame_prediction_unavailable"
                 ELSE IF ~p.eligible THEN "pregame_prediction_ineligible"
                 ELSE IF ~model THEN "pregame_probability_unavailable"
                 ELSE IF market = Unset THEN "pregame_odds_unavailable"
                 ELSE IF stale THEN "pregame_odds_stale"
                 ELSE EdgeReason(edge)
    BY DEF pregame_reason, stale
  <1> HIDE DEF reason
  <1>7. PregameTrace(v)
    <2>1. CASE reason = "minimum_edge_met"
      <3>1. /\ v.decision = "bet" /\ v.reason = "minimum_edge_met"
            /\ fresh /\ v.model /\ v.has_edge /\ v.edge
        BY <1>3, <1>4, <1>5, <1>6, <2>1 DEF EdgeReason
      <3> QED
        BY <3>1 DEF PregameTrace, fresh
    <2>2. CASE reason = "edge_below_threshold"
      <3>1. /\ v.decision = "skip" /\ v.reason = "edge_below_threshold"
            /\ fresh /\ v.model /\ v.has_edge /\ ~v.edge
        BY <1>3, <1>4, <1>5, <1>6, <2>2 DEF EdgeReason
      <3> QED
        BY <3>1 DEF PregameTrace, fresh
    <2>3. CASE reason = "pregame_odds_unavailable"
      <3>1. /\ v.decision = "skip" /\ v.reason = "pregame_odds_unavailable"
            /\ v.model /\ v.odds = Unset
        BY <1>3, <1>5, <1>6, <2>3 DEF EdgeReason
      <3> QED
        BY <3>1 DEF PregameTrace
    <2>4. CASE reason = "pregame_odds_stale"
      <3>1. /\ v.decision = "skip" /\ v.reason = "pregame_odds_stale"
            /\ v.model /\ v.odds # Unset /\ ~fresh
        BY <1>3, <1>4, <1>5, <1>6, <2>4 DEF EdgeReason
      <3> QED
        BY <3>1 DEF PregameTrace, fresh
    <2>5. CASE reason = "pregame_authority_after_map_start"
      <3>1. /\ v.decision = "skip"
            /\ v.reason = "pregame_authority_after_map_start"
            /\ ~v.has_edge /\ v.in_game
        BY <1>3, <1>5, <1>6, <2>5 DEF EdgeReason
      <3> QED
        BY <3>1 DEF PregameTrace
    <2>6. CASE reason \in {"pregame_prediction_unavailable",
                           "pregame_prediction_ineligible",
                           "pregame_probability_unavailable"}
      <3>1. /\ v.decision = "skip" /\ v.reason = reason
            /\ ~v.model /\ ~v.has_edge
        BY <1>1, <1>2, <1>3, <1>5, <1>6, <2>6 DEF EdgeReason
      <3> QED
        BY <2>6, <3>1 DEF PregameTrace
    <2> QED
      BY <1>6, <2>1, <2>2, <2>3, <2>4, <2>5, <2>6 DEF EdgeReason
  <1>8. v.decision = "bet" => market # Unset
    BY <1>5, <1>6 DEF EdgeReason
  <1>9. checkpoint_trace_is_consistent(v)
    BY <1>3, <1>7 DEF checkpoint_trace_is_consistent
  <1> QED
    BY <1>3, <1>8, <1>9 DEF v

\* A live row, by its reason.
LEMMA LiveRowAccepted ==
    ASSUME NEW m \in Maps, NEW target, NEW seen \in MaybeTimes,
           NEW market \in MaybeTimes, NEW prior \in BOOLEAN, NEW valid \in BOOLEAN,
           NEW kills \in BOOLEAN, NEW direction \in BOOLEAN, NEW edge \in BOOLEAN,
           NEW at \in Times
    PROVE  LET v == live_values(m, target, seen, market, prior, valid, kills,
                                direction, edge, at)
           IN  /\ checkpoint_trace_is_consistent(v)
               /\ v.at = at /\ v.phase = "live" /\ v.odds = market
               /\ v.frame = seen
               /\ v.decision = "bet" =>
                    /\ market # Unset /\ seen # Unset
                    /\ gap(market, seen) <= OddsVisionGap
  <1> DEFINE v == live_values(m, target, seen, market, prior, valid, kills,
                              direction, edge, at)
             reason == v.reason
             decided == reason \in {"minimum_edge_met", "edge_below_threshold"}
             old == age_seconds(at, seen) > VisionAge
             stale == age_seconds(at, market) > LiveOddsAge
             apart == gap(market, seen) > OddsVisionGap
             vision == v.frame # Unset /\ age_seconds(v.at, v.frame) <= VisionAge
             fresh == OddsFresh(v, LiveOddsAge)
             near == gap(v.odds, v.frame) <= OddsVisionGap
  <1>1. /\ v.phase = "live" /\ v.at = at /\ v.odds = market /\ v.frame = seen
        /\ v.decision = Bet(decided /\ edge)
        /\ v.kills = (kills /\ seen # Unset)
        /\ v.direction = (direction /\ seen # Unset)
        /\ v.model = decided /\ v.has_edge = decided /\ v.edge = edge
    BY DEF live_values
  <1>2. /\ v.kills <=> kills /\ seen # Unset
        /\ v.direction <=> direction /\ seen # Unset
        /\ v.model <=> decided
        /\ v.has_edge <=> decided
        /\ v.edge <=> edge
        /\ v.decision = "bet" <=> decided /\ edge
    BY <1>1 DEF Bet
  <1>3. reason = IF seen = Unset THEN "trusted_vision_checkpoint_missing"
                 ELSE IF old THEN "live_vision_stale"
                 ELSE IF ~kills THEN "live_kills_unavailable"
                 ELSE IF ~direction THEN "live_team_direction_unavailable"
                 ELSE IF market = Unset THEN "live_odds_unavailable"
                 ELSE IF stale THEN "live_odds_stale"
                 ELSE IF apart THEN "live_odds_vision_gap_exceeded"
                 ELSE IF ~prior THEN "pregame_probability_unavailable"
                 ELSE IF ~valid
                 THEN "live_probability_checkpoint_minute_not_validated"
                 ELSE EdgeReason(edge)
    BY DEF live_values
  <1>4. /\ vision <=> seen # Unset /\ ~old
        /\ fresh <=> market # Unset /\ ~stale
        /\ seen # Unset /\ market # Unset => (near <=> ~apart)
    <2>1. /\ market # Unset => age_seconds(at, market) \in Nat
          /\ seen # Unset => age_seconds(at, seen) \in Nat
          /\ seen # Unset /\ market # Unset => gap(market, seen) \in Nat
      BY AgesAreNumbers DEF MaybeTimes
    <2>2. VisionAge \in Nat /\ LiveOddsAge \in Nat /\ OddsVisionGap \in Nat
      BY LimitAssumption
    <2> HIDE DEF v
    <2> QED
      BY <1>1, <2>1, <2>2 DEF OddsFresh
  <1> HIDE DEF v, old, stale, apart, vision, fresh, near
  <1>5. LiveTrace(v) <=>
          CASE reason \in {"minimum_edge_met", "edge_below_threshold"} ->
                /\ vision /\ v.kills /\ v.direction /\ fresh /\ near
                /\ v.model /\ v.has_edge /\ (v.edge <=> v.decision = "bet")
          [] reason = "trusted_vision_checkpoint_missing" -> v.frame = Unset
          [] reason = "live_vision_stale" -> v.frame # Unset /\ ~vision
          [] reason = "live_kills_unavailable" -> vision /\ ~v.kills
          [] reason = "live_team_direction_unavailable" ->
                vision /\ v.kills /\ ~v.direction
          [] reason = "live_odds_unavailable" ->
                vision /\ v.kills /\ v.direction /\ v.odds = Unset
          [] reason = "live_odds_stale" ->
                vision /\ v.kills /\ v.direction /\ v.odds # Unset /\ ~fresh
          [] reason = "live_odds_vision_gap_exceeded" ->
                /\ vision /\ v.kills /\ v.direction /\ fresh
                /\ gap(v.odds, v.frame) > OddsVisionGap
          [] reason \in {"pregame_probability_unavailable",
                         "live_probability_checkpoint_minute_not_validated"} ->
                vision /\ v.kills /\ v.direction /\ fresh /\ near /\ ~v.model
          [] OTHER -> FALSE
    BY DEF LiveTrace, vision, fresh, near
  <1> HIDE DEF reason
  <1>6. LiveTrace(v)
    <2>1. CASE reason \in {"minimum_edge_met", "edge_below_threshold"}
      <3>1. /\ vision /\ v.kills /\ v.direction /\ fresh /\ near
            /\ v.model /\ v.has_edge /\ (v.edge <=> v.decision = "bet")
        BY <1>2, <1>3, <1>4, <2>1 DEF EdgeReason
      <3> QED
        BY <1>5, <2>1, <3>1
    <2>2. CASE reason = "trusted_vision_checkpoint_missing"
      <3>1. v.frame = Unset
        BY <1>1, <1>3, <2>2 DEF EdgeReason
      <3> QED
        BY <1>5, <2>2, <3>1
    <2>3. CASE reason = "live_vision_stale"
      <3>1. v.frame # Unset /\ ~vision
        BY <1>1, <1>3, <1>4, <2>3 DEF EdgeReason
      <3> QED
        BY <1>5, <2>3, <3>1
    <2>4. CASE reason = "live_kills_unavailable"
      <3>1. vision /\ ~v.kills
        BY <1>2, <1>3, <1>4, <2>4 DEF EdgeReason
      <3> QED
        BY <1>5, <2>4, <3>1
    <2>5. CASE reason = "live_team_direction_unavailable"
      <3>1. vision /\ v.kills /\ ~v.direction
        BY <1>2, <1>3, <1>4, <2>5 DEF EdgeReason
      <3> QED
        BY <1>5, <2>5, <3>1
    <2>6. CASE reason = "live_odds_unavailable"
      <3>1. vision /\ v.kills /\ v.direction /\ v.odds = Unset
        BY <1>1, <1>2, <1>3, <1>4, <2>6 DEF EdgeReason
      <3> QED
        BY <1>5, <2>6, <3>1
    <2>7. CASE reason = "live_odds_stale"
      <3>1. vision /\ v.kills /\ v.direction /\ v.odds # Unset /\ ~fresh
        BY <1>1, <1>2, <1>3, <1>4, <2>7 DEF EdgeReason
      <3> QED
        BY <1>5, <2>7, <3>1
    <2>8. CASE reason = "live_odds_vision_gap_exceeded"
      <3>1. /\ vision /\ v.kills /\ v.direction /\ fresh
            /\ gap(v.odds, v.frame) > OddsVisionGap
        BY <1>1, <1>2, <1>3, <1>4, <2>8 DEF EdgeReason, apart
      <3> QED
        BY <1>5, <2>8, <3>1
    <2>9. CASE reason \in {"pregame_probability_unavailable",
                           "live_probability_checkpoint_minute_not_validated"}
      <3>1. vision /\ v.kills /\ v.direction /\ fresh /\ near /\ ~v.model
        BY <1>2, <1>3, <1>4, <2>9 DEF EdgeReason
      <3> QED
        BY <1>5, <2>9, <3>1
    <2> QED
      BY <1>3, <2>1, <2>2, <2>3, <2>4, <2>5, <2>6, <2>7, <2>8, <2>9
          DEF EdgeReason
  <1>7. v.decision = "bet" =>
            market # Unset /\ seen # Unset /\ gap(market, seen) <= OddsVisionGap
    <2>1. v.decision = "bet" => market # Unset /\ seen # Unset /\ ~apart
      BY <1>2, <1>3 DEF EdgeReason
    <2>2. market # Unset /\ seen # Unset => gap(market, seen) \in Nat
      BY AgesAreNumbers DEF MaybeTimes
    <2> QED
      BY <2>1, <2>2, LimitAssumption DEF apart
  <1>8. checkpoint_trace_is_consistent(v)
    BY <1>1, <1>6 DEF checkpoint_trace_is_consistent
  <1> QED
    BY <1>1, <1>7, <1>8 DEF v

-----------------------------------------------------------------------------
(* What is said of every row.                                              *)

\* A row that can be written is consistent, and looks ahead by the gap at most.
LEMMA WritableRows ==
    ASSUME CheckpointTypeOK, NEW v \in Writable
    PROVE  /\ checkpoint_trace_is_consistent(v)
           /\ v.decision = "bet" =>
                /\ v.odds <= v.at
                /\ v.phase = "live" => v.frame <= v.at + OddsVisionGap
  <1>0. PICK w \in DecisionWorkers : v \in WritableOf(w)
    BY DEF Writable
  <1> DEFINE at == iteration[w].at
  <1>1. at \in Times
    BY DEF CheckpointTypeOK, Iterations
  <1>2. ASSUME NEW m \in Maps
        PROVE  /\ latest_market(m, at) \in MaybeTimes
               /\ latest_market(m, at) # Unset => latest_market(m, at) <= at
    BY <1>1, MarketIsOfThePast DEF MaybeTimes
  <1> HIDE DEF at
  <1>3. ASSUME NEW m \in Maps, v \in PregameRows(m, at)
        PROVE  /\ checkpoint_trace_is_consistent(v)
               /\ v.phase = "pregame"
               /\ v.decision = "bet" => v.odds <= v.at
    <2>1. PICK p \in Predictions, direction \in BOOLEAN, edge \in BOOLEAN :
            v = pregame_values(m, p, latest_market(m, at), direction, edge, at)
      BY <1>3 DEF PregameRows
    <2>2. /\ checkpoint_trace_is_consistent(v)
          /\ v.at = at /\ v.phase = "pregame" /\ v.odds = latest_market(m, at)
          /\ v.decision = "bet" => latest_market(m, at) # Unset
      BY <1>1, <1>2, <2>1, PregameRowAccepted
    <2> QED
      BY <1>2, <2>2
  <1>4. ASSUME NEW m \in Maps, NEW target, v \in LiveRows(m, target, at)
        PROVE  /\ checkpoint_trace_is_consistent(v)
               /\ v.decision = "bet" =>
                    v.odds <= v.at /\ v.frame <= v.at + OddsVisionGap
    <2> DEFINE snapshot == checkpoint_snapshot(m, target)
               seen == IF snapshot = {} THEN Unset
                       ELSE (CHOOSE f \in snapshot : TRUE).at
               market == latest_market(m, at)
    <2>0. LiveRows(m, target, at) =
            {live_values(m, target, seen, market, prior, valid, kills,
                         direction, edge, at) :
                prior, valid, kills, direction, edge \in BOOLEAN}
      BY DEF LiveRows
    <2>2. seen \in MaybeTimes
      BY SnapshotIsStored DEF MaybeTimes
    <2>3. market \in MaybeTimes /\ (market # Unset => market <= at)
      BY <1>2
    <2> HIDE DEF seen, market, snapshot
    <2>1. PICK prior \in BOOLEAN, valid \in BOOLEAN, kills \in BOOLEAN,
               direction \in BOOLEAN, edge \in BOOLEAN :
            v = live_values(m, target, seen, market, prior, valid, kills,
                            direction, edge, at)
      BY <1>4, <2>0
    <2>4. /\ checkpoint_trace_is_consistent(v)
          /\ v.at = at /\ v.phase = "live" /\ v.odds = market /\ v.frame = seen
          /\ v.decision = "bet" =>
               /\ market # Unset /\ seen # Unset
               /\ gap(market, seen) <= OddsVisionGap
      BY <1>1, <2>1, <2>2, <2>3, LiveRowAccepted
    <2>5. ASSUME v.decision = "bet"
          PROVE  v.odds <= v.at /\ v.frame <= v.at + OddsVisionGap
      <3>1. /\ market \in Times /\ seen \in Times /\ market <= at
            /\ gap(market, seen) <= OddsVisionGap
        BY <2>2, <2>3, <2>4, <2>5 DEF MaybeTimes
      <3>2. gap(market, seen) \in Nat /\ seen <= market + gap(market, seen)
        BY <3>1, AgesAreNumbers
      <3>3. market \in Nat /\ seen \in Nat /\ at \in Nat /\ OddsVisionGap \in Nat
        BY <1>1, <3>1, TimesAreNumbers, LimitAssumption
      <3>4. seen <= at + OddsVisionGap
        BY <3>1, <3>2, <3>3
      <3> QED
        BY <2>4, <3>1, <3>4
    <2> QED
      BY <2>4, <2>5
  <1>5. \/ \E m \in Maps : v \in PregameRows(m, at)
        \/ \E m \in Maps : v \in LiveRows(m, Least(iteration[w].due), at)
    BY <1>0 DEF WritableOf, at
  <1> QED
    BY <1>3, <1>4, <1>5

\* The auditor accepts whatever the worker writes, for every series, prediction,
\* price and frame (_checkpoint_trace_is_consistent, _pregame_values,
\* _live_values).
THEOREM AuditTheorem == CheckpointSpec => []AuditAcceptsTrace
  <1>1. CheckpointInv => AuditAcceptsTrace
    BY WritableRows DEF CheckpointInv, AuditAcceptsTrace
  <1> QED
    BY <1>1, CheckpointInvariant, PTL

\* A bet looks ahead of its decision by no more than the gap between odds and
\* frame, and never at odds (_latest_market, _checkpoint_snapshot).
THEOREM LookaheadTheorem == CheckpointSpec => []LookaheadIsBounded
  <1>1. CheckpointInv => LookaheadIsBounded
    BY WritableRows DEF CheckpointInv, LookaheadIsBounded
  <1> QED
    BY <1>1, CheckpointInvariant, PTL
-----------------------------------------------------------------------------
(* No checkpoint of a map is skipped.                                      *)

\* Least is what its name says.
LEMMA LeastIs ==
    ASSUME NEW S \in SUBSET Nat, S # {}
    PROVE  Least(S) \in S /\ \A k \in S : Least(S) <= k
  BY LeastNatural DEF Least

\* Of the map that a worker walks through, what lies before a checkpoint that is
\* left to it is on record or left as well.
RestOf(w) ==
    iteration[w].stage = "live" =>
        /\ Working(w) /\ iteration[w].due # {}
        /\ \A u \in iteration[w].due, t \in Targets : t < u =>
              <<Current(w), t>> \in DOMAIN rows \/ t \in iteration[w].due

\* The inductive invariant of the order of the rows: what a worker has not
\* listed is on record, and stays there, whatever the other ones write.
OrderInv ==
    /\ CheckpointInv
    /\ \A w \in DecisionWorkers : RestOf(w)
    /\ NoCheckpointIsSkipped

\* The world goes on and the workers rest; a settlement, too, writes no row.
LEMMA WorldKeepsOrder ==
    ASSUME OrderInv,
           \/ Pass \/ MapStarts \/ MapEnds \/ ProviderTells \/ SeriesEnds
           \/ Captures \/ \E w \in DecisionWorkers : settle_open_checkpoints(w)
           \/ \E m \in Maps : Locks(m) \/ OddsArrive(m)
    PROVE  (\A w \in DecisionWorkers : RestOf(w)') /\ NoCheckpointIsSkipped'
  <1>1. UNCHANGED <<iteration, rows>>
    BY DEF Pass, MapStarts, MapEnds, ProviderTells, SeriesEnds, Captures,
           settle_open_checkpoints, Locks, OddsArrive, gameVars, storeVars
  <1> QED
    BY <1>1 DEF OrderInv, RestOf, NoCheckpointIsSkipped, Working, Current

\* Rows only come: what another worker has left is complete still.
LEMMA OthersRest ==
    ASSUME OrderInv, NEW w \in DecisionWorkers, NEW next, GoesOn(w, next),
           DOMAIN rows \subseteq DOMAIN rows', RestOf(w)'
    PROVE  \A v \in DecisionWorkers : RestOf(v)'
  <1> SUFFICES ASSUME NEW v \in DecisionWorkers, v # w PROVE RestOf(v)'
    OBVIOUS
  <1>1. iteration'[v] = iteration[v]
    BY GoesOnTyped DEF OrderInv, CheckpointInv
  <1>2. RestOf(v)
    BY DEF OrderInv
  <1> QED
    BY <1>1, <1>2 DEF RestOf, Working, Current

\* A worker takes the time, or stops between two rows.
LEMMA TurnKeepsOrder ==
    ASSUME OrderInv, NEW w \in DecisionWorkers,
           Begins(w) \/ Fails(w) \/ \E m \in Maps : Raises(w, m)
    PROVE  (\A v \in DecisionWorkers : RestOf(v)') /\ NoCheckpointIsSkipped'
  <1>1. PICK next : GoesOn(w, next) /\ next.stage = "pregame"
    BY DEF Begins, Fails, Raises, NoIteration
  <1>2. UNCHANGED rows
    BY DEF Begins, Fails, Raises
  <1>3. iteration'[w].stage = "pregame"
    BY <1>1, GoesOnTyped DEF OrderInv, CheckpointInv
  <1>4. RestOf(w)'
    BY <1>3 DEF RestOf
  <1> QED
    BY <1>1, <1>2, <1>4, OthersRest DEF OrderInv, NoCheckpointIsSkipped

\* The pregame checkpoint stands apart.
LEMMA PregameKeepsOrder ==
    ASSUME OrderInv, NEW w \in DecisionWorkers, NEW m \in Maps,
           PassesPregame(w, m) \/ record_pregame_checkpoint(w, m)
    PROVE  (\A v \in DecisionWorkers : RestOf(v)') /\ NoCheckpointIsSkipped'
  <1>1. /\ GoesOn(w, [iteration[w] EXCEPT !.stage = "list"])
        /\ iteration[w] \in Iterations
    BY DEF PassesPregame, record_pregame_checkpoint, Passes, OrderInv,
           CheckpointInv, CheckpointTypeOK
  <1>2. iteration'[w].stage = "list"
    BY <1>1, GoesOnTyped DEF OrderInv, CheckpointInv, Iterations
  <1>3. RestOf(w)'
    BY <1>2 DEF RestOf
  <1>4. UNCHANGED rows \/ Insert(<<m, 0>>, iteration[w].at)
    BY DEF PassesPregame, record_pregame_checkpoint
  <1>5. DOMAIN rows' \in {DOMAIN rows, DOMAIN rows \cup {<<m, 0>>}}
    BY <1>4 DEF Insert
  <1>6. NoCheckpointIsSkipped'
    <2> SUFFICES ASSUME NEW k \in DOMAIN rows', NEW t \in Targets, t < k[2]
                 PROVE  <<k[1], t>> \in DOMAIN rows'
      BY DEF NoCheckpointIsSkipped
    <2>1. t \in Nat /\ t # 0
      BY TargetAssumption
    <2>2. k # <<m, 0>>
      BY <2>1
    <2>3. k \in DOMAIN rows
      BY <1>5, <2>2
    <2> QED
      BY <1>5, <2>3 DEF OrderInv, NoCheckpointIsSkipped
  <1> QED
    BY <1>1, <1>3, <1>5, <1>6, OthersRest

\* The clock that a map has reached is a number.
LEMMA ReachedIsNumber ==
    ASSUME CheckpointTypeOK, NEW m \in Maps, NEW at \in Times
    PROVE  Reached(m, at) \in Nat
  <1> DEFINE clocks == {f.clock : f \in CredibleOf(m)}
  <1>1. clocks \in SUBSET Times
    BY DEF CheckpointTypeOK, CredibleOf, Snapshots
  <1>2. clocks # {} => Latest(clocks) \in Nat
    BY <1>1, LatestIs, TimesAreNumbers
  <1>3. ASSUME StartTold(m), started[m] <= at
        PROVE  at - started[m] \in Nat
    <2>1. started[m] \in Nat /\ at \in Nat
      BY <1>3, TimesAreNumbers DEF CheckpointTypeOK, MaybeTimes, StartTold
    <2> QED
      BY <1>3, <2>1
  <1> QED
    BY <1>2, <1>3 DEF Reached

\* What is listed as due reaches down to the first one that is missing.
LEMMA ListKeepsOrder ==
    ASSUME OrderInv, NEW w \in DecisionWorkers, NEW m \in Maps, record_due(w, m)
    PROVE  (\A v \in DecisionWorkers : RestOf(v)') /\ NoCheckpointIsSkipped'
  <1> DEFINE due == due_live_checkpoint_minutes(m, iteration[w].at)
             next == IF due = {} THEN NextMap(w)
                     ELSE [iteration[w] EXCEPT !.stage = "live", !.due = due]
  <1>1. /\ Working(w) /\ m = Current(w) /\ UNCHANGED rows
        /\ GoesOn(w, next)
    BY DEF record_due, At
  <1>2. /\ iteration[w] \in Iterations /\ iteration[w].at \in Times
        /\ Reached(m, iteration[w].at) \in Nat
    <2>1. iteration[w] \in Iterations /\ iteration[w].at \in Times
      BY DEF OrderInv, CheckpointInv, CheckpointTypeOK, Iterations
    <2> QED
      BY <2>1, ReachedIsNumber DEF OrderInv, CheckpointInv
  <1>3. \A u \in due, t \in Targets : t < u =>
            <<m, t>> \in DOMAIN rows \/ t \in due
    BY <1>2, TargetAssumption DEF due_live_checkpoint_minutes
  <1> HIDE DEF due
  <1>4. \/ next.stage = "pregame"
        \/ /\ next.maps = iteration[w].maps
           /\ next.due = due /\ due # {}
    BY <1>2 DEF NextMap, NoIteration, Iterations
  <1> HIDE DEF next
  <1>5. iteration'[w] = next
    BY <1>1, GoesOnTyped DEF OrderInv, CheckpointInv
  <1>6. RestOf(w)'
    BY <1>1, <1>3, <1>4, <1>5 DEF RestOf, Working, Current
  <1> QED
    BY <1>1, <1>6, OthersRest DEF OrderInv, NoCheckpointIsSkipped

\* The least of what is left is written: all that lie before it are on record.
LEMMA LiveKeepsOrder ==
    ASSUME OrderInv, NEW w \in DecisionWorkers, NEW m \in Maps,
           NEW target \in Targets, record_live_checkpoint(w, m, target)
    PROVE  (\A v \in DecisionWorkers : RestOf(v)') /\ NoCheckpointIsSkipped'
  <1> DEFINE left == iteration[w].due
             next == IF left = {target} THEN NextMap(w)
                     ELSE [iteration[w] EXCEPT !.due = left \ {target}]
  <1>0. iteration[w] \in Iterations
    BY DEF OrderInv, CheckpointInv, CheckpointTypeOK
  <1>1. /\ Working(w) /\ m = Current(w)
        /\ iteration[w].stage = "live" /\ target = Least(left)
        /\ Insert(<<m, target>>, iteration[w].at)
        /\ GoesOn(w, next)
    <2>1. [iteration[w] EXCEPT !.due = @ \ {target}] =
                [iteration[w] EXCEPT !.due = left \ {target}]
      BY <1>0 DEF Iterations
    <2> QED
      BY <2>1 DEF record_live_checkpoint, At
  <1>2. /\ left \in SUBSET Nat /\ left # {}
        /\ \A u \in left, t \in Targets : t < u =>
              <<m, t>> \in DOMAIN rows \/ t \in left
    <2>1. RestOf(w)
      BY DEF OrderInv
    <2> QED
      BY <1>0, <1>1, <2>1, TargetAssumption DEF Iterations, RestOf
  <1>3. target \in left /\ \A u \in left : target <= u
    BY <1>1, <1>2, LeastIs
  <1>4. \A t \in Targets : t < target => <<m, t>> \in DOMAIN rows
    <2> SUFFICES ASSUME NEW t \in Targets, t < target
                 PROVE  <<m, t>> \in DOMAIN rows
      OBVIOUS
    <2>1. t \in Nat /\ target \in Nat
      BY TargetAssumption
    <2>2. t \notin left
      BY <1>3, <2>1
    <2> QED
      BY <1>2, <1>3, <2>2
  <1> HIDE DEF left
  <1>5. \/ next.stage = "pregame"
        \/ /\ next.maps = iteration[w].maps
           /\ next.due = left \ {target} /\ left # {target}
    BY <1>0 DEF NextMap, NoIteration, Iterations
  <1> HIDE DEF next
  <1>6. iteration'[w] = next
    BY <1>1, GoesOnTyped DEF OrderInv, CheckpointInv
  <1>7. DOMAIN rows' = DOMAIN rows \cup {<<m, target>>}
    BY <1>1 DEF Insert
  <1>8. RestOf(w)'
    <2>1. CASE next.stage = "pregame"
      BY <1>6, <2>1 DEF RestOf
    <2>2. CASE /\ next.maps = iteration[w].maps
               /\ next.due = left \ {target} /\ left # {target}
      <3>1. /\ Working(w)' /\ Current(w)' = m
            /\ iteration'[w].due = left \ {target} /\ left \ {target} # {}
        BY <1>1, <1>3, <1>6, <2>2 DEF Working, Current
      <3>2. \A u \in left \ {target}, t \in Targets : t < u =>
                <<m, t>> \in DOMAIN rows' \/ t \in left \ {target}
        BY <1>2, <1>7
      <3> QED
        BY <3>1, <3>2 DEF RestOf
    <2> QED
      BY <1>5, <2>1, <2>2
  <1>9. NoCheckpointIsSkipped'
    <2> SUFFICES ASSUME NEW k \in DOMAIN rows', NEW t \in Targets, t < k[2]
                 PROVE  <<k[1], t>> \in DOMAIN rows'
      BY DEF NoCheckpointIsSkipped
    <2>1. CASE k \in DOMAIN rows
      BY <1>7, <2>1 DEF OrderInv, NoCheckpointIsSkipped
    <2>2. CASE k = <<m, target>>
      BY <1>4, <1>7, <2>2
    <2> QED
      BY <1>7, <2>1, <2>2
  <1> QED
    BY <1>1, <1>7, <1>8, <1>9, OthersRest

\* A live checkpoint of a map is on record only together with all that lie
\* before it, for every series, every set of checkpoints and any number of
\* workers, wherever an iteration ends (record_due_checkpoints,
\* _due_live_checkpoint_minutes, _insert_checkpoint).
THEOREM OrderTheorem == CheckpointSpec => []NoCheckpointIsSkipped
  <1> DEFINE Rest == \A w \in DecisionWorkers : RestOf(w)
  <1>1. CheckpointInit => Rest /\ NoCheckpointIsSkipped
    BY DEF CheckpointInit, NoIteration, RestOf, NoCheckpointIsSkipped
  <1>2. OrderInv /\ CheckpointInv' /\ [CheckpointNext]_checkpointVars => OrderInv'
    <2> SUFFICES ASSUME OrderInv, CheckpointInv', [CheckpointNext]_checkpointVars
                 PROVE  OrderInv'
      OBVIOUS
    <2>1. CASE UNCHANGED checkpointVars
      BY <2>1 DEF checkpointVars, storeVars, OrderInv, RestOf,
                  NoCheckpointIsSkipped, Working, Current
    <2>2. CASE CheckpointNext
      <3>1. (\A w \in DecisionWorkers : RestOf(w)') /\ NoCheckpointIsSkipped'
        BY <2>2, WorldKeepsOrder, TurnKeepsOrder, PregameKeepsOrder,
           ListKeepsOrder, LiveKeepsOrder DEF CheckpointNext
      <3> QED
        BY <3>1 DEF OrderInv
    <2> QED
      BY <2>1, <2>2
  <1>3. OrderInv => NoCheckpointIsSkipped
    BY DEF OrderInv
  <1>4. CheckpointInv /\ Rest /\ NoCheckpointIsSkipped => OrderInv
    BY DEF OrderInv
  <1> HIDE DEF Rest
  <1> QED
    BY <1>1, <1>2, <1>3, <1>4, CheckpointInvariant, PTL DEF CheckpointSpec
=============================================================================

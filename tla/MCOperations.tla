----------------------------- MODULE MCOperations -----------------------------
(***************************************************************************)
(* Five components side by side, on one instance each: the control         *)
(* service, the evidence retention, the decision checkpoints, the clock    *)
(* tracker and the strict ingest with two workers.  They share no state    *)
(* here, so a behaviour is one of the component that scene names, and the  *)
(* others keep their initial states: the product of their state spaces     *)
(* says nothing.                                                           *)
(*                                                                         *)
(* The checkpoints have two scenes: two maps and one iteration at a time,  *)
(* and one map on which the iterations of two workers overlap.             *)
(***************************************************************************)
EXTENDS ControlService, EvidenceRetention, MapCheckpoints, ClockTracker, TLC

CONSTANTS
    r1, r2,                                      \* ControlService
    k1, k2,                                      \* MapCheckpoints
    s1,                                          \* EvidenceRetention
    w1, w2, x1, e1,                              \* StrictIngest
    partial, parsed, foreign, NoContent, NoWorker

VARIABLES
    scene,
    row, att, cyc, activeIn, rescanIn, listed, age, serves, active, lost

ingestVars == <<row, att, cyc, activeIn, rescanIn, listed, age, serves, active,
                lost>>

MCWorkers == {w1, w2}
MCMatches == {x1}
MCEvents == {e1}
MCEventOf == x1 :> e1
MCContents == {partial, parsed, foreign}
MCLacks == (partial :> {"source", "gold"}) @@ (parsed :> {})
           @@ (foreign :> {})
MCForeign == {foreign}
MCDelays == <<1, 2>>

\* An old web process has left its worker behind.
Ingest == INSTANCE StrictIngest WITH
    Workers <- MCWorkers, Matches <- MCMatches, Events <- MCEvents,
    EventOf <- MCEventOf, Contents <- MCContents, MissingOf <- MCLacks,
    OutOfScope <- MCForeign, Delays <- MCDelays,
    ActivePoll <- 1, Rescan <- 2, Window <- 3,
    LastChange <- 0, MaxCycle <- 0, MaxDown <- 0, MaxFaults <- 1,
    faults <- lost

Scenes == {"control", "retention", "checkpoints", "overlap", "clock", "ingest"}

\* Two maps and one iteration at a time; the odds are those of the second map.
OneIteration ==
    /\ \A v, w \in DecisionWorkers : Working(v)' /\ Working(w)' => v = w
    /\ \A o \in odds' : o.map = 2

\* Two workers on the first map.
OneMap == game'.map <= 1 /\ \A m \in Maps : m > 1 => locked'[m] = Unset

MCInit ==
    /\ scene \in Scenes
    /\ Init /\ RetentionInit /\ CheckpointInit /\ ClockInit
    /\ Ingest!Init
    /\ scene # "ingest" => serves = [m \in {x1} |-> partial]

MCNext ==
    /\ UNCHANGED scene
    /\ \/ scene = "control" /\ Next
            /\ UNCHANGED <<retentionVars, checkpointVars,
                           clockVars, ingestVars>>
       \/ scene = "retention" /\ RetentionNext
            /\ UNCHANGED <<vars, checkpointVars,
                           clockVars, ingestVars>>
       \/ /\ CheckpointNext
          /\ \/ scene = "checkpoints" /\ OneIteration
             \/ scene = "overlap" /\ OneMap
          /\ UNCHANGED <<vars, retentionVars,
                         clockVars, ingestVars>>
       \/ scene = "clock" /\ ClockNext
            /\ UNCHANGED <<vars, retentionVars,
                           checkpointVars, ingestVars>>
       \/ scene = "ingest" /\ Ingest!Next
            /\ UNCHANGED <<vars, retentionVars,
                           checkpointVars, clockVars>>

MCSpec == MCInit /\ [][MCNext]_<<scene, vars, retentionVars,
                                 checkpointVars, clockVars, ingestVars>>

\* A countdown with its sign and one without it, a jump, a late clock.
MCReadings == {-3, 0, 3, 16, 17, 190}

\* The decision workers are not told from one another.
MCSymmetry == Permutations(DecisionWorkers)

\* With two workers, one of them left behind by an old web process, an attempt
\* never overwrites the outcome of a newer one (attempt_generation in record_*).
OutcomeStands == Ingest!OutcomeStands
=============================================================================

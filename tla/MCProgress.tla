------------------------------ MODULE MCProgress ------------------------------
(***************************************************************************)
(* The strict ingest with one worker, and the capture of one stream        *)
(* watcher, side by side under the fairness of each.  They share no state: *)
(* a behaviour is one of the component that scene names, and the other     *)
(* keeps its initial state.                                                *)
(***************************************************************************)
EXTENDS StrictIngest, TLC

CONSTANTS w1, x1, e1, e2, partial, parsed, corrected, foreign

OneEvent == (x1 :> e1)

\* A basic result without a parse, a full parse, a different full parse, and a
\* detail that names another league.
Lacks == (partial :> {"source", "gold"}) @@ (parsed :> {})
         @@ (corrected :> {}) @@ (foreign :> {})

TwoDelays == <<1, 2>>

VARIABLES
    scene,
    managed, now, lc, manifest, firstGame, reading, pending, pc, map,
    samples, awaiting, rewound, recent, complete, providerMap, storedMap,
    since, crashes

captureVars == <<managed, now, lc, manifest, firstGame, reading, pending, pc,
                 map, samples, awaiting, rewound, recent, complete, providerMap,
                 storedMap, since, crashes>>
allVars == <<scene, vars, captureVars>>

Capture == INSTANCE CaptureLifecycle WITH
    DraftWindow <- 2, DraftSupport <- 2, DraftSpan <- 1,
    GameWindow <- 2, GameSupport <- 2, GameSpan <- 1,
    GapLimit <- 1, Interval <- 4, Grace <- 2, CheckEvery <- 1, MaxRows <- 20,
    Gaps <- {1}, MaxMap <- 1, Modes <- BOOLEAN, EndBy <- 1, MaxTime <- 6,
    MaxCrashes <- 1

MCInit ==
    /\ scene \in {"ingest", "capture"}
    /\ Init /\ Capture!Init
    /\ scene = "capture" => serves = [m \in Matches |-> partial]
    /\ scene = "ingest" => managed

MCNext ==
    \/ scene = "ingest" /\ Next /\ UNCHANGED <<scene, captureVars>>
    \/ scene = "capture" /\ Capture!Next /\ UNCHANGED <<scene, vars>>

WorkerProceeds(w) ==
    scene = "ingest" /\ WorkerStep(w) /\ UNCHANGED <<scene, captureVars>>
TimePasses == scene = "ingest" /\ Tick /\ UNCHANGED <<scene, captureVars>>
WatcherProceeds ==
    scene = "capture" /\ Capture!WatcherStep /\ UNCHANGED <<scene, vars>>

\* The fairness of both specifications.
MCSpec ==
    /\ MCInit /\ [][MCNext]_allVars
    /\ \A w \in Workers : WF_allVars(WorkerProceeds(w))
    /\ WF_allVars(TimePasses)
    /\ WF_allVars(WatcherProceeds)

\* Once the series is complete a watcher that keeps running closes itself
\* (mark_provider_complete, should_close).
CaptureCloses == Capture!ClosesAfterCompletion
=============================================================================

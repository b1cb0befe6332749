# A verification project for the RayBet / Dota 2 match intelligence system

This directory holds TLA+ modules for the parts of the program whose
correctness depends on order, failure and concurrency, TLC configurations that
check them on small instances, and TLAPS proofs of the properties that matter
most for every value of the constants. Paths without a prefix are relative to
the repository's root; `PROJECT.json` says line by line which code each
definition stands for.

| module | what it is |
|---|---|
| `PostmatchSettlement` | how a Map gets its official result and its live predictions are settled |
| `SettlementLedger` | what the settlement tables promise a reader: the abstract specification it implements |
| `StrictIngest` | how completed matches of approved events are discovered, fetched, retried and corrected |
| `IngestLedger` | what the table of ingested matches promises a reader: the abstract specification it implements |
| `CaptureLifecycle` | the evidence schedule of a stream watcher |
| `StreamSupervisor` | which matches get a watcher, what becomes of those that fail, and how a supervisor ends |
| `ControlService` | how the web process starts, stops and restarts a managed process, beside those of the operator |
| `DraftAnchor` | which draft the frames of a Map agree on, whatever order they arrive in and whatever watchers overlap |
| `EvidenceRetention` | the frame files of a series: published, journaled, registered, replayed, retired, deleted |
| `MapCheckpoints` | the shadow decisions of a series, their audit and their settlement |
| `ClockTracker` | which of the clocks read off the frames is believed |
| `MCPostmatchSettlement`, `MCStreamSupervisor` | instances of one component for TLC |
| `MCSettlementLinks`, `MCOperations`, `MCProgress` | instances of several components, side by side (section 3) |
| `PostmatchSettlementProofs`, `StrictIngestProofs`, `StreamSupervisorProofs`, `ControlServiceProofs`, `DraftAnchorProofs`, `CaptureLifecycleProofs`, `MapCheckpointsProofs`, `VisionProofs` (retention and clock tracker) | the inductive invariants and 38 theorems |

## 1. The system

The program joins live odds, frames of the broadcast and verified post-match
facts "without allowing later evidence to rewrite an earlier decision"
(`CONTEXT.md`). It is a set of Python processes around one PostgreSQL
database:

* the **web process** (`web/main.py`) serves the views, generates predictions
  on request, and starts three workers: strict ingest, post-match, map decision
  checkpoints. None of the three is registered: after a hard end of the web
  process they live on, and the next web process starts them a second time;
* the **control service** (`web/control.py`, `live_betting/process_control.py`)
  starts, stops and restarts the managed processes: the odds **monitor** and
  the **stream supervisor**, which in turn starts one **watcher** per live
  match;
* the processes do not talk to each other. They interact through rows of the
  database, through files (manifests, journals, frames, archived payloads) and
  by starting and terminating one another. What protects a row are its triggers
  and constraints, so the triggers are part of the models.

### Components

State, operations, what is hard, what makes it correct. "M" marks what is
modelled here, "m" what another module models partly, "-" what is not.

| | component | state | operations | hard behaviour | correct when |
|---|---|---|---|---|---|
| M | post-match settlement (`postmatch_monitor.py`, `storage.py`, migration 0010) | reconciliation and result per Map, the batch and locals of the worker | sync candidates, label a Map, reconcile, insert the result, settle predictions | commits between awaits, a batch that an exception ends, two Maps of one official match, providers that correct themselves | a result rests on two agreeing sources, is never rewritten, and every Map is decided |
| M | live draft prediction bridge (`live_draft_prospective_bridge.py`, migration 0034) | prediction, its request, its settlement | validate the target, fetch, persist, settle | a request that takes seconds races the end of its Map and its settlement | no late prediction counts as eligible; an early one is settled |
| M | capture lifecycle and watcher loop (`capture_lifecycle.py`, `watch_raybet_stream.py`) | phase, windows of samples, schedule; manifest on disk | observe a frame, mark complete, restore, close | death between two captures of one frame; gaps, restarts, the end of the series | milestones once and in order; Maps that go on; the final frame is kept; a watcher ends |
| M | strict event ingest (`ingest.py`, `scheduler.py`, `ingest_adapters.py`) | status row per match, checkpoints, attempts in flight | discover, select, begin, fetch, record; retry, rescan | two workers, slow attempts, a process that dies anywhere, details that change | an outcome stands; a detail only improves; nothing is forgotten |
| M | stream supervisor (`supervise_raybet_streams.py`) | children, retry states, output baselines, all in memory | read the evidence, retain, reap, start, report; interrupt, kill, stop | exits seen at two moments, counters reset from several sides, four slots, a death that forgets the children | a failing match is given up in the end, the best evidence gets the slot, a stop leaves nothing behind |
| M | control service (`web/control.py`, `process_control.py`) | registry row, audit of requests, owned process | ensure, start, stop, restart, verify identity | a process runs before its row is committed; heartbeats of the dead; unreadable identities; hard ends of the web process; processes of the operator's | the service never runs it twice; a row that says stopped is true; a request acts once |
| M | draft anchor (`storage.py`, the operator's scripts) | anchor, conflicts, confirmed observations, invalidations | insert an observation, rebuild, exclude a Map, invalidate, freeze | frames arrive out of order and twice, from two watchers whose transactions lock nothing; a conflict discards what follows | the anchor is a function of the frames, not of their arrival, and a lost update is made good |
| M | frame registry and retention (`vision_retention.py`, `vision_frame_registry.py`, `observation_writer.py`) | files, journal, registry, retirements, references | publish, append, register, replay; scan, read, retire, unlink | a cleanup that reads once and deletes one by one while watchers register | nothing that is referred to loses its file |
| M | map decision checkpoints (`map_decision_checkpoints.py`) | write-once rows, settlements | list due checkpoints, write pregame and live rows, settle | the decision's moment stays behind the data it is read from; one exception ends the round; two workers | no decision looks ahead, none after the end is settled, none is skipped, the auditor finds each trace consistent |
| M | map state tracker (`map_state.py`) | last clock, windows, countdown | update, reset | misread clocks, a countdown with its sign or without | a confirmed clock has support |
| m | series acceptance (`series_acceptance.py`) | none | recompute whether a row is consistent | its order of reasons against the worker's | it accepts what the worker writes |
| m | strict eligibility and mapping acceptance | mapping versions | accept, invalidate | a mapping changes under a running label | eligible only with one lineage |
| m | raw source archive (`raw_archive.py`, `raw_registry.py`) | artifact and its first usable time | record | several writers of one artifact | the first writer's time is kept |
| m | completed match facts (`facts.py`) | none | extract, readiness | - | pure |
| m | event registry | approved events | approve, reject, expire | review against discovery | one approval per event |
| m | database session and migrations | nested transactions | begin, commit, roll back | a failed savepoint in a shared connection | all or nothing |
| m | odds collector (`monitor.py`, `raybet.py`) | listing cache, published rows, delay and claim per request | list, publish, priority and full cycle | see section 4 | a failing request never blocks the others |
| - | odds response audit, browser ingest, live match state, vision calibration, views | rows only | verify, report, show | - | pure or read-only |
| - | team rating, STRATZ R.O.S.H., vision recognition | models | compute | numeric | numeric, out of TLC's reach |
| - | statistics fetch, tests, documents | - | - | - | read for intent |

`PROJECT.json` lists each with its files, and under `hazards` every place in
this code that is hard to test, with the properties that would catch it.

### How the components meet

    RayBet ----finals----> audit --+
    OpenDota --details---> archive +--> post-match worker --> reconciliation
       |                      ^                                  |  result
       +----> strict ingest --+          web process --> predictions
                                                            |
                                              settlement <--+

    control service --starts, stops--> supervisor --starts--> watcher
                                                                | frames
       checkpoints <--- clock, snapshots, anchor <--- registry <-+-- journal
            |                                            ^
       settlement, audit                              cleanup

Strict ingest and the post-match worker archive the same OpenDota detail; the
archive keeps the first `first_usable_at` it is given. That one shared cell
decides whether a label of the post-match worker is accepted, which is why
`PostmatchSettlement` contains strict ingest as an action of its environment.

The lower half is a chain in which every module takes its neighbour through a
small interface. To the control service a supervisor is a process that beats
and dies; to the supervisor a watcher is a process that writes a heartbeat and
exits, and a stop by the control service is the enumeration and termination of
its tree (`StopBegins`, `StopTerminates`, `StopEnds`). To the store a watcher
is a source of frames, in any order, repeated and two at once, because a watcher
that a killed supervisor left behind reads the same stream as its successor. To the
cleanup the store is a set of references that grows. To the checkpoints all of
these are frames with a time and a clock, of which some are credible.

## 2. The modules and the code

### PostmatchSettlement

One behaviour is the post-match worker (`postmatch_monitor.main`, an endless
loop) among everything that may happen around it. The worker is one sequential
process; its place is `w.pc`:

| `w.pc` | the code is |
|---|---|
| `idle` | between two iterations; candidate sync runs here |
| `label` | in `label_once` calls for a batch, in any order (the query has no ORDER BY) |
| `refreshed` | after `_refresh_raybet_final`, with the mapping id pinned by preflight |
| `fetched` | OpenDota's detail is in hand |
| `archived` | it is archived, `settled_at` is taken |
| `list`, `settle` | the result is committed, predictions are read and settled one by one |

Every arrow between two places is one transaction or one await, so that every
other actor may step in between. An exception anywhere is `Abort`: the rest of
the batch is dropped, as in `main`. `OwnRow`, `ReconciledTable` and
`TriggerRaises` are `record_settlement_reconciliation` with its own row, the
rows of the other Maps it sends to review, and the trigger of migration 0010
that judges each of them; `Reconcile` is the whole transaction with evidence,
both writes and the result. `SettleOne` writes one settlement under the trigger
of migration 0034, translated from its CASE and not from what it is for.

The environment: a Map ends, its series closes, RayBet publishes or corrects a
final, OpenDota parses again, a second exact candidate appears, an operator
accepts and invalidates mappings, strict ingest archives, the web process asks
for predictions in three separate steps (validate, stamp after the fetch,
insert).

Time: `now` counts the instants that some row stores, so that it is finite
without a bound: a stamp that is taken and never stored is `now + 1`. Only the
order of stamps matters to the code.

Left out: the scoring and scanning of candidates and their backoff (a Map's
exact candidate is `link`, and a second one may appear), the constant
processor version, the one-shot command line, the P0 history the same
transaction writes, and the several ways a prediction is recorded as missing.

### SettlementLedger

The abstract specification has no worker, no provider and no clock: a Map is
open until it is decided for one team or sent to review, one official match
decides at most one Map, and a prediction is settled once, after its Map, for
the side its winning team played. `PostmatchSettlement` implements it with
`verdict` read from the reconciliation and result of a Map (`VerdictOf`) and
`settled` from the settlement; `ImplementsLedger` is checked and proved. Three
transactions of the program are steps of it: the worker's reconciliation (one
Map decided, or several sent to review at once), the ambiguity quarantine, and
one settlement. Everything else stutters.

### CaptureLifecycle

`observe` is the method of the same name, one operator per block
(`DraftStage`, `GameStage`, `MapStage`, `PeriodicStage`, `FinalStage`);
`restore` replays the rows of the manifest, one `RestoreRow` after the other, and
`Restored` is that with `restore_game_started`.
The loop of the watcher is the actions around it: the completion check every
`CheckEvery` frames, dropped frames after a clock reset, the next Map under
`--map-number`, waiting for the completion of the series, the captures of a
frame written one at a time (`WriteTrigger`, with a `Crash` possible between
any two), the observation appended last, the code after the loop.

`managed` is a watcher that the supervisor started; the other kind is one that
an operator started with `--map-number`. `providerMap` is the Map that RayBet
names, `storedMap` the one that the row of the match names, which the odds
monitor brings up to date some time later (`ProviderStored`). A supervised
watcher that starts or is restarted takes its Map from a payload that it fetches
and does not store, from the stored payload when the fetch fails, or is on Map 1
or the operator's index while the row has not gone live (`match_source`):
`StartMaps` is every Map up to the provider's. Once it runs, it takes the stored
Map at a completion check, if that is a later one (`MapNow`). `since` remembers
how many rows were written before the newest restart on a Map that the provider
had left behind.

The object's own Map is not in the manifest: after a restart the first frame
sets it and announces nothing. A watcher that dies is restarted with the
manifest of its predecessor. A reading is reduced to what the conditions of
`observe` tell apart.

Left out: recognition, the registration and retention of frames, the stable
variant of the watcher, and the pacing of the loop.

### StrictIngest

The scheduler (`run_due`: active poll, recent rescan), `StrictIngestService.run_once`
(discovery, selection, one attempt per match) and the SQL adapters that record
outcomes. `cyc[w]` is the scheduler run of a worker, `att[w][m]` the locals of
`_ingest_match`. Each attempt is status read, begin, fetch and record, a
transaction each. Every begin raises `attempt_generation`; since it is compared
for equality only, the model keeps the worker that holds the newest one.
`Workers` with two elements is the situation after a hard restart of the web
process.

Time is relative: `due`, `activeIn`, `rescanIn` are ticks until, `age` and
`elapsed` ticks since, each cut off where the code makes no difference any
more. `Tick` waits for a worker that has something to do (it looks every 30
seconds, far less than a tick) and may pass while a run lasts, up to
`MaxCycle`, or while a worker is down, up to `MaxDown`.

Details are elements of `Contents` with the parts they lack (`MissingOf`).
`AcceptVersion` is `_accept_version` with its four readiness scores and the set
comparison; the readiness formulas are those of `facts.py`. `record_scope_rejection`
is the two transactions that follow a detail of another league, whose second
one keeps the review of the first.

Left out: the catalog scan that finds event candidates, and its backoff; event
reconciliation; the one-shot command line.

### IngestLedger

The abstract specification has no worker, no generation and no clock. A match
is `new` until its first attempt; then it is `owed` another one until its delays
are used up (`spent`), its complete detail is stored (`complete`) or it is
`rejected`. What is stored is only replaced by something better, a match in
question stays in question, and no step returns to a stage that was left.
`StrictIngest` implements it with the stage read from a row (`StageOf`).
`StageOf` has a sixth value, `lost`: attempted, incomplete, with delays left
and no retry on record. The ledger has no such stage, so that a row that gets
there is no step of it; `RetryIsScheduled` says the same of states.

### StreamSupervisor

`pc` is the place in one iteration of `supervise`: `look` (evidence, retained
watchers, output of children that have exited), `reap` (exited and unwanted
children, retry states, the list of matches to start), `start` (one match after
the other while slots are free, then health), `sleep`. A child may exit between
`look` and `reap`; the code then counts it as one that wrote nothing, whatever it
has written, so that its count of attempts may run ahead of the ghost `silent`,
which counts the starts that really changed nothing.

`changed[m]` stands for the comparison of output and heartbeat with the
baselines taken at the start; `beat[m]` is the heartbeat file, which outlives
its watcher; `orphans[m]` are the watchers of a match whose supervisor is gone.
A supervisor ends in three ways: an interrupt (its `finally` reaps all), a kill
(its children run on), a stop, which is `terminate_process_tree`: the children
are enumerated once, terminated one by one, and the parent, which goes on
iterating meanwhile, last.

Left out: what makes a heartbeat trusted, log files, the command line.

### ControlService

One managed component. `cs` is the request inside the lock and its transaction:
the step, the row as the transaction sees it, and the response to store. A
process is an element of `Procs`, which stands for pid and creation time. The
steps that a commit or a wait separates are actions of their own, since between
them the component may beat or die and the web process may end: it is spawned
in `Start`, and its row is committed in `Commit`. `fresh_supervisor_heartbeat`
is the second authority, with the comparison against the row's own stop; when
a request stops the component and starts it again in one transaction the stamp
is not committed yet, hence `stamped` and `later`.

The web process starts the component at its own start and asks no heartbeat
(`Ignores`); the operator may start a process of his own at any time, whatever
else runs (`StandaloneStarts`). So two may run, and `OneSupervisor` is about the
processes of the service: of these at most one is alive.

`clean` remembers whether a fault has lost a process: a commit that failed, or
a hard end, after a process was started and before its row was stored, and an
identity that the system refuses to show. The properties hold as long as it is
true, and each of these faults breaks them: that is what the code's order of
spawn and commit costs, and the model has the steps in which it happens.

Left out: the event log, the wording of responses, errors of the operating
system while it enumerates children.

### DraftAnchor

A frame stands for one confirmed observation with a registered file, numbered
in event order; frames may share a moment. A delivery is one transaction at READ
COMMITTED that locks nothing it reads, and is modelled statement by statement:
it reads the anchor (`insert_vision_observation`), the conflicts, the
observations with their invalidations (`reads_conflicts`, `reads_observations`),
each as committed by then, and overwrites the anchor (`writes`) or ends without
a trace (`rolls_back`). Watchers interleave between any two of these. Of two
that insert the first anchor one fails on the key; the row of an artifact makes
a second delivery of the same frame wait for the first. Frames come in any
order; one that is stored may be delivered again, as a restarted watcher does
with its journal. What follows the first UPDATE of the anchor is one step with
it, because that row is locked until the commit.

An update can be lost: the anchor is then made of rows that have changed since.
`stale` says so of the last delivery, `everStale` of one before it, and `Mended`
is when the anchor may be relied on: the last delivery worked with what was
there, and no two frames share a moment if an earlier one did not. The
properties are stated of that, and section 4 says what happens otherwise.

`Rebuild` is `_rebuild_vision_draft_anchor` with its inputs, which are only the
anchor, the recorded conflicts and the observations still confirmed: what an
earlier rebuild has unconfirmed and not recorded is gone. `ExcludeMap` is the
invalidation of a Map that was not played; `invalidate` and `freeze_draft_map`
are the operator's script, whose transactions are rolled back (section 4).
`vision_drafts(cutoff)` is what the post-match worker reads.

### EvidenceRetention

A frame is its content (files are named by their hash), so that two rows may
share one file. A watcher publishes, appends to its journal and stores, one
action each, and may die in between; a start replays the last rows of the
journal. The cleanup scans the files, reads the references in one transaction
(`ReadReferences` with `Audit`, `CapturedFirst`, `ToDelete`), and then retires
and unlinks frame after frame. `overtaken` remembers frames that were
registered or cited for the first time while the running cleanup had them in
its plan; they are what its single reading cannot protect.

Left out: the dry run, relocation of the directory, links and unsafe paths,
hashing, matches that the operator excludes. The references that anchors,
conflicts and snapshots make are any subset of the frames of the series.

### MapCheckpoints

A worker takes one moment per iteration (`Begins`), and then walks through
the maps in their order (`Current`): the pregame checkpoint, the list of the
live ones that are due, and those from the lowest on. `iteration[w]` holds what is
left of it for the worker `w`; every row is written in its own transaction, from what is stored by
then, and an error or the end of the process leaves it there (`Fails`).
`pregame_values` and `live_values` are the functions of the same names, reduced
to the columns that the auditor reads; their reasons come in the order of the
code. `checkpoint_trace_is_consistent` is the auditor's
function, translated from `series_acceptance.py` and not from the worker.
`AuditAcceptsTrace` and `LookaheadIsBounded` quantify over every row that a
worker could write in a state (`Writable`), whatever prediction, direction,
kills and edge it finds. `AuditAcceptsTrace` is about the check of the trace
only: `_checkpoint_audit`, which calls it, also wants both kill counts in every
row with a trusted frame (`series_acceptance.py:1233-1245`), and so rejects the
rows whose reason is that they are not known. `NoCheckpointIsSkipped` says that
the rows of a map have no holes, although the list of what is due is read in one
state and written in many, may be cut short anywhere, and another worker may
write in between. `DecisionWorkers` with two elements is the situation after a
hard end of the web process; nothing but `ON CONFLICT DO NOTHING` (`Insert`)
stands between the two. The order of the moments of decision is not claimed:
two workers break it (section 4).

Around it the game is played and paused, the provider is ahead or behind or
cannot be trusted, frames and odds arrive, and mappings are locked. Assumed: a
frame carries its true map and clock, and is stored when it is captured (the
lag of the stream is left out); the provider tells the start of the maps in
`Announced`.

Left out: probabilities and prices beyond "is the edge large enough", the read
model of the views, health rows.

### ClockTracker

`MapStateTracker` as a function of its readings. `Prepared` is what the sign
detection does before a reading is judged; `Jumps`, `FallsBack` and `Follows`
are the three ways it is judged. `history` keeps the readings since the last
reset, so that `ConfirmedIsSupported` can say what a confirmation must rest on.
A reading is negative when the reader has seen the sign (`clock_reader.py`), and
broadcasts with and without it, or misread signs, may mix.
Left out: the count of equal readings that tells a pause.

## 3. The runs

Twelve runs, each of at most four minutes with two workers.

| run | shows | bounds |
|---|---|---|
| `settlement_safety` | a result exists only where both winners agree, a settlement repeats its result, no late prediction is settled as eligible, and every step is one of the ledger | 1 Map, 1 prediction, 2 mapping versions, every kind of final, 1 fault, a second candidate, either side radiant |
| `settlement_links` | two Maps with one official match: at most one gets a result; no settled row changes. The draft anchor: it is the one of the frames that have arrived, and a causal reading stays | 2 Maps, 1 official match, 2 versions of the detail; 4 frames, 2 drafts, 2 watchers |
| `settlement_liveness` | a Map is decided; a prediction stored before the result is settled | 1 Map, 2 predictions, no fault |
| `capture_safety` | milestones, periodic captures once there is one, draft confirmation, the final frame, and Maps that never go back | 2 Maps, 6 seconds, both kinds of watcher, 2 crashes |
| `progress` | strict ingest: a match is attempted and its next attempt on record, a complete detail is stored, a correction is reviewed, every step is one of the ledger; capture: a watcher of a complete series closes | 1 worker, 1 match, 2 events, 4 details, 1 fault; 1 Map, 6 seconds, 1 crash |
| `supervisor` | silent starts are bounded, an orderly stop leaves no watcher, slots go to the best evidence, evidence is served, idle watchers are released | 2 matches, 1 slot, 2 failures, 1 change of the database, 1 fault |
| `operations` | control service, evidence retention, decision checkpoints with one and with two workers, clock tracker, strict ingest with two workers | see below |
| `settlement_first_usable`, `settlement_relabel`, `settlement_swapped_sides`, `capture_awaiting`, `capture_restarts` | violations, see section 4 | |

`settlement_links`, `operations` and `progress` put components side by side that
share no state there. `scene` is chosen in the initial state, and a behaviour is one of the
component it names; the others keep their initial state. This is a way to ask
several small questions in one run and nothing else: the product of the state
spaces would say nothing that its factors do not.

Why these bounds are enough to be interesting:

* *Settlement.* What one Map can do to itself needs a mapping that is replaced
  while a label holds the old one (2 versions), a final that is corrected or
  contradicted after it was read (3 finals), one crash or outage, and a
  prediction anywhere in the order. What Maps can do to each other is the
  quarantine of a shared official match: two Maps and one id; two versions of
  the detail let the first label succeed and the second one meet a new
  artifact. The theorems cover the rest.
* *Capture.* The windows are as short as they can be and still be windows
  (three draft samples of which two count, two game samples), the interval and
  the grace period are 2 and 3 seconds, and the gaps between frames lie on
  both sides of `GapLimit`. Six seconds are enough for draft, game, a
  periodic capture before and after a crash, the final and the end of the
  grace period. Two crashes are what one restart cannot show: a manifest that a
  restarted watcher has written. The completion check falls on every second
  frame, so that the milestones meet it in every phase. For `CaptureCloses` the
  check falls on every frame and six seconds suffice: what matters there is the
  end, the grace period and a crash inside it. `ASSUME GapAssumption` (no frame waits as
  long as the grace period) is what the code's 20 s read timeout and 90 s grace
  period give.
* *Ingest.* Two workers and one match are all that fencing can see, since each
  match has its own row. The two-worker scene lets no time pass during a
  scheduler run (`MaxCycle = 0`): the order of the steps of two workers is
  free all the same, and what time changes there (a retry due sooner) is
  covered by the theorems, which assume no value of `MaxCycle`. In `progress`
  a scheduler run may last a tick, a worker may be down for a tick, and a
  detail may change until one tick after its start; the window of six ticks
  then leaves the rescan a chance at the last change, as the code's seven days
  do. The second event keeps the active poll away from the due matches of an
  event that has ended.
* *Supervisor.* Two matches compete for one slot; the rows are a live match, a
  prematch probe and a closed one; two starts are the limit. One change of the
  database takes evidence away or brings it, one fault is a kill, a stop, an
  interrupt, a failed read or a failed spawn, anywhere. `HeartbeatGrace` and
  `OutputAge` are 0 ticks: a heartbeat counts in the tick it was written in,
  which is what both limits come down to when an iteration is as long as they
  are. The theorems assume no values.
* *Control.* Three processes are the one that is lost, the one that takes its
  place and a third to collide with, and any of them may be the operator's; two
  requests, two lifetimes of the web process, one fault.
* *Anchor.* Two drafts, three sides, any order of arrival. In the scene `anchor`
  three frames, the last two of one moment, are delivered one at a time, again
  and after the map was excluded: a draft clash, a side clash, both, and a frame
  on either side of them. In the scene `watchers` there is one more frame before
  these, each is delivered until it is stored, and two watchers overlap in every
  way: one delivery that loses what the other wrote, a third that makes it good,
  and a fourth to come after. Replays and exclusions beside an overlap are left
  to the theorems.
* *Retention.* One series with two rows and two contents, so that rows may share
  a frame, and a replay of the last row; `Ttl` 2, `Grace` 1, capacity 1 let a frame expire by age, by
  capacity, and not yet. Two series are not checked: that the capacity of one
  directory is shared by all of them (section 4) is in the model, and the
  theorem holds for any number.
* *Checkpoints.* Two maps, two targets, two ticks, one frame and one market at
  a time: a decision, a datum before, at or after it, a pause, a provider that
  is late, two checkpoints that fall due at once, and a failure between them. In
  the scene `checkpoints` one iteration runs at a time, of either worker, and the
  odds are those of the second map, as those of the first are read in the same
  way; in `overlap` two iterations interleave on one map.
* *Clock.* The readings -3, 0, 3, 16, 17 and 190 lie on both sides of zero and of
  the limits 3, 10 and 180, and six of them in a row reach a countdown with its
  sign and one without it, its end, a jump and a freeze.

`CHECK_DEADLOCK FALSE` appears in the runs with captures (a watcher exits) and
where a component comes to its bound. Symmetry is used where it halves a scene
and only in runs without liveness: the Maps and the watchers of
`settlement_links`, the decision workers of `operations`. The drafts of a frame
are symmetric too, and the constraint `FirstIsX` names the first one.

Every property has a mutant beside the definition it changes (`Mutant_...`),
listed in `PROJECT.json`: a plausible bug in that code under which the property
fails in the same run.

### Fairness

* *Settlement*: `WF_vars(WorkerStep)`. The worker's `main` loops for ever and
  catches every exception of an iteration, so a step it can take is taken.
  Nothing else is fair: no Map has to end, no provider has to answer well.
* *Capture*: weak fairness of `WatcherStep`. While frames arrive the loop
  handles them; when none arrives for 20 s the watcher ends with an error,
  which is `Crash`. A restart is not fair: `ClosesAfterCompletion` counts a
  dead watcher as closed, since the supervisor starts none for a series that is
  over.
* *Ingest*: weak fairness of `WorkerStep(w)` for each worker and of `Tick`. For
  a live worker it is its endless loop; that a dead one is started again is an
  assumption about the operator, not a property of the code: the web process
  starts its ingest worker once, at its own start. `Tick` is the clock. Crashes
  and failed fetches are bounded in every run with fairness.
* *Supervisor*: `WF_vars(SupervisorStep)`: the loop catches every exception of
  an iteration; `WF_vars(Tick)`: it sleeps for a time and wakes up;
  `WF_vars(StopStep)`: a stop that has begun waits for each process with a
  limit. Watchers owe nothing: they may write for ever or never, and exit or
  not. A restart of the supervisor is not fair, so `EvidenceIsServed` counts a
  supervisor that is down as an answer.

## 4. The findings

Each is a run in which TLC finds what a comment or document of the repository
denies.

1. **`settlement_first_usable`**. `_settlement_source_authority_valid` demands
   that the artifact became usable at exactly this label's `settled_at`, while
   the archive keeps the first time it was given. A detail that strict ingest,
   candidate sync or an interrupted label archived earlier sends a Map whose
   winners agree to review, for good.
2. **`settlement_relabel`**. The labelling query selects confirmed Maps too.
   Labelling one again proposes a later first usable time, the demotion of the
   confirmed row raises in the trigger, and `main` drops the rest of the batch,
   in every iteration. Another Map may never be labelled.
3. **`settlement_swapped_sides`**. The trigger of migration 0034 compares the
   winner's seat (`team_one`) with the side `radiant`; the code settles by team
   identity. A prediction whose radiant team is RayBet's second team is never
   settled.
4. **`capture_awaiting`**. A watcher with `--map-number` that waits for the
   completion of the series calls `close()` before it leaves the loop, and the
   code that would capture the final frame afterwards runs in phase
   `ended_grace` only. The grace period it waited for has no effect.
5. **`capture_restarts`**. "Do not backfill a burst of missed screenshots; the
   next slot starts a fresh interval" (`capture_lifecycle.py:120-121`). A
   watcher that is restarted before its game is confirmed takes the game from
   its output file and captures periodically, with no milestone in the manifest.
   Restarted again, `restore` finds the last periodic capture and sets the next
   slot an interval after it, but the phase is still `waiting_for_stream`, so
   that `restore_game_started` overwrites the slot with the first game frame
   plus an interval (`capture_lifecycle.py:172`). That is past, and the next
   frame is captured at once. `StartedSpacing` is what holds: with a milestone
   before them, periodic captures are an interval apart, across any restarts.

`settlement_liveness` therefore has one Map and the first team on the radiant
side: it shows what holds when neither 2 nor 3 is in the way. With several
Maps or swapped sides the same properties are the two violations.

Met while modelling, without a run of their own, because nothing in the
repository states the opposite or because a run would repeat one above:

* a watcher that is restarted while its fetch fails, or while the row has not
  gone live, starts on an earlier Map than the one it captured
  (`watch_raybet_stream.py:488-543`), and its captures name that Map until the
  stored one takes it on. `MapsGoOn` is stated up to such a restart and again
  from it;
* `README.md:39-48` has the operator start the odds collector and then the web
  process, which starts a second one: `web/main.py:163-167` calls
  `ensure_started` with `ignore_supervisor_heartbeat=True`;
* of two watchers that overlap, the later commit overwrites the anchor, its
  conflict and the confirmed rows with what it made of earlier ones
  (`storage.py:1953-2010`, 662-735). What a conflict excluded is confirmed and
  read again until the next delivery. That one makes it good, as every frame is
  still confirmed or recorded, but for one case: a canonical frame of the very
  moment of a conflict is unconfirmed and not recorded, known by the anchor only,
  and forgotten when a stale rebuild overwrites that;
* of two decision workers that overlap, one with an older moment may write a
  later checkpoint after the other has written the earlier one
  (`map_decision_checkpoints.py:78`, 1170-1202), so that the moments of decision
  do not follow the order of the checkpoints;
* the audit of a series rejects every row whose live kills are not available,
  which the check of the trace accepts (`series_acceptance.py:1233-1245`);
* a Map whose RayBet final is missing is reconciled as pending, fails the
  source authority and goes to review (`storage.py:2484-2492`), so it is never
  labelled once the final arrives;
* a worker that dies after the result is committed leaves the predictions of
  its Map unsettled: the next label of that Map raises as in finding 2
  (`postmatch_monitor.py:1481`);
* after a restart that follows a `game_started` or `map_changed` row alone, a
  watcher has no next periodic slot (`capture_lifecycle.py:150`); the window of
  game samples survives a gap when the first frame after it shows no game
  (245-266); the last map number is not restored (131-164); a manifest is read
  for its last 2000 rows only (324);
* an incomplete detail recorded with a spent retry budget leaves its match
  `retryable` without a next retry, while a failure then says `failed`;
* an incomplete detail that arrives after a complete one leaves a
  `next_retry_at` that `run_once` skips for ever, since the stored detail is
  complete;
* one league listing that fails ends the ingest worker, and nobody starts it
  again;
* due matches of events that have ended are not polled while any event is
  active; the rescan finds them within its window;
* a correction is put to review although it is the stored detail, when another
  worker stored it between this attempt's status read and its begin;
* a map that is excluded while in conflict invalidates the frames of the clash;
  the anchor that is rebuilt from later frames keeps the moment of the old
  conflict until those clash too, and then takes the later moment
  (`storage.py:585-596`), so that an earlier causal reading, empty until then,
  finds a draft. `CausalReadIsStable` is stated of maps never excluded;
* a row of a journal whose frame a cleanup has retired makes the replay raise
  at every start of the watcher, until it falls out of the rows that are
  replayed (`observation_writer.py:52`);
* the capacity "per match" of the cleanup is applied to the directory `sha256`
  that all matches share;
* a failing identity check makes `start` go on to a second process and `stop`
  record one that still runs (`control.py:473`);
* a mapping that is current by the provider, while a later map is locked,
  raises in `_require_latest_locked_map` and ends the iteration for every
  series behind it (`map_decision_checkpoints.py:442`);
* the official end of a map leaves its pauses out, so the last checkpoints of a
  paused map are never settled (`map_decision_checkpoints.py:339`);
* `scripts/invalidate_vision_observations.py` writes its rows and then calls
  `_invalidate_vision_dependents` of the store or, with `--freeze-draft`,
  `_invalidate_draft_dependents` (lines 119 and 273). No class defines either:
  the transaction is rolled back, and nothing is ever invalidated or frozen. In
  `DraftAnchor` the two scripts are steps that change nothing;
* when the canonical frame is itself of the moment of a conflict, the anchor may
  take its side from another frame of that moment.

## 5. The proofs

TLAPS checks every theorem for every value of the constants, from the named
assumptions of the modules only (`PredMapAssumption`, `RadiantAssumption`,
`FinalAssumption`, `BoundAssumption`, `NoMapAssumption`; `EventAssumption`,
`ContentAssumption`, `DelayAssumption`, `IntervalAssumption`;
`MatchAssumption`, `RowAssumption`; `ProcAssumption`, `RequestAssumption`;
`FrameAssumption`; `RetentionAssumption`, `ReadingAssumption`;
`WindowAssumption`, `PeriodAssumption`, `GapAssumption`; `TargetAssumption`,
`LimitAssumption`). They give the constants their shapes, bounds are natural
numbers, absent values are not elements, and sets from which a first or last
element is chosen are finite. `GapAssumption` is the only one about how the
limits of the code compare: no frame waits as long as the grace period, which
the 20 s of a read and the 90 s of the period give. TLC evaluates them in the
passing runs.

The bounds of the models are constants like any other: what is proved holds for
every value of them, hence for runs of every length, any number of crashes and
a manifest, a history or a table of any size.

### PostmatchSettlementProofs

    IInv == TypeOK /\ HoldsMap /\ ResultRestsOnAgreement /\ OneResultPerOfficialMatch

`HoldsMap` says that a worker past `label` holds a Map; without it `Reconcile`
could write a row for no Map, and the type invariant is not inductive.
`ResultRestsOnAgreement` carries itself because it says both directions: a
result exists *exactly* for confirmed Maps. Its steps that are not trivial:

* `Reconcile`. `OwnRowType` and `ProposalType` find that a confirmed row is
  either the stored one or a proposal whose winners agree and whose source
  authority holds; with the trigger (`OwnRowStep`) a confirmed row that is new
  meets every condition of `insert_map_result`, so the transaction never
  confirms without a result. A stored result of an unconfirmed Map is excluded
  by the invariant itself.
* other Maps (`OtherRows`): they are only ever sent to review, and a confirmed
  one among them makes the trigger raise.
* `StartLabel` may change the newest archived final, but only of a Map that is
  neither confirmed nor reviewed (`StartLabelAgreement`): this guard is what
  keeps the agreement with `audit` true afterwards.

`OneResultPerOfficialMatch` follows from the agreement invariant and
`LinkedElsewhere`: a Map is confirmed anew only if no other Map with the same
official match has any row. Theorems: `TypeCorrect`, `AgreementTheorem`,
`OfficialMatchTheorem`, and `LedgerTheorem` for the action property, from the
same invariant.

The second invariant is the one for settlements and the refinement:

    SInv == IInv /\ HoldsResult /\ StampsInOrder
                 /\ SettlementMatchesResult /\ EligibleMeansBlind

`HoldsResult` is why a settlement repeats its result although the two are
separate transactions: a worker past its reconciliation has found or written the
result under its own `settled_at`. When the result was there already, the row
was confirmed again, which needs the same first usable time (`ConfirmedAgain`);
that is the whole reason why a later label cannot settle a prediction under
another time. `StampsInOrder` says that a late prediction was created after the
end of its Map, so that the audit of `settle_prediction`, which compares stamps
and never looks at the request, gives the right verdict. `SettlementTheorem` and
`BlindTheorem` follow; the settlement trigger plays no part in either.

`RefinementTheorem` maps every step to the ledger. A transaction that confirms a
Map has found no other Map with its official match, so it is `Decide`; any other
transaction of the worker sends to review exactly the Maps that are in review
afterwards and were not before (`ReviewStep`), and these were open, because
review and confirmation are final (`ReconKept`).

### StrictIngestProofs

    IInv == TypeOK /\ Fence

`Fence` relates a worker that holds the newest generation of a match and has an
attempt in flight to the row: the row is in `detail_pending` and its
`retry_count` is the count of the attempt. That is what the comparison of the
generation buys: an attempt that passes it finds the row as its own begin left
it, so recording over a recorded outcome is impossible (`OutcomeTheorem`), and
`retry_count - 1` never reads past the delays. The second half of the type
invariant, `next_retry_at` is set only within the budget, needs it too.

`AcceptanceTheorem` is about `_accept_version` alone: for any two details it
accepts exactly the first one and those that lack strictly less. The four
readiness scores it compares decide nothing, because each is monotone in what is
missing. `ImprovementTheorem` lifts it to every step of the system.

    LInv == IInv /\ SeenStands /\ \A m \in Matches : RowInv(row[m])

`RetryTheorem` and `LedgerTheorem` need more than the fence. The record
of an attempt sets `next_retry_at` to NULL when it has fetched a complete
detail, also when it stores nothing, because the detail is the one that it read
before it began. That loses the match unless what was read then is what is
stored now. `SeenStands` says that a complete detail is, which holds as nothing
lacks strictly less than nothing (`CompleteStays`). `RowInv` is what a row says of its own past: one
without an attempt has nothing stored and is not in question, and one that was
attempted, is in scope, incomplete and within its delays has a retry.
`NextRetryExact` adds that the next retry is NULL exactly when the delays are
used up. `Move` lists what one transaction may do to a row in the terms of the
ledger; the lemmas `BegunRow`, `FailedRowMove`, `RejectedRowMove` and
`RecordedRowMove` place each transaction in the list, and `MoveIsLedgerStep`
turns a place into an action of `IngestLedger`. The run has one worker; the
theorem has any number of them, with late answers and deaths.

### StreamSupervisorProofs

    IInv == TypeOK /\ SlotsCounted /\ Startable /\ HeldBack
                   /\ SilenceCounted /\ OutputKnown /\ StopKnows

`SilentStartsBounded` needs two counters compared: `SilenceCounted` says that
the starts without output are at most the attempts of the retry state, which
the code can only overcount (a child that exits between the look and the reap
counts as silent), and `Startable` says that a match with a spent budget is
never queued. The step that is not trivial is `Report`, which forgets the retry
state of a match: `OutputKnown` says that what it forgets it for was written by
a capture, and that ended the silence. `HeldBack` is what `BestFirst` compares
with: when matches are started, one without a child is in the queue or has a
reason not to be. `StopKnows` is the enumeration of a stop, still complete
unless a match was started since. Theorems: `TypeTheorem`, `SilenceTheorem`,
`StopTheorem`, and `PriorityTheorem` for the action property.

### ControlServiceProofs

    IInv == TypeOK /\ InOrder /\ Created /\ Tracked
                   /\ OwnBeatUntrusted /\ RefusedForStrangersOnly /\ Unanswered

`Tracked`: whatever the service has started and still runs is the process that
its row names, the committed one between requests and the transaction's own
within one. Of the operator's processes nothing needs to be said: they may start
and end anywhere, and the service neither knows nor spares its own for them.
`OwnBeatUntrusted` is the second authority: the heartbeat
of a process of the service's own is never trusted, because the row either says
that it runs or was stopped after it. Theorems: `OneTheorem`, `StoppedTheorem`,
`RefusalTheorem`, and `OnceTheorem` from `Unanswered`.

### DraftAnchorProofs

    IInv == AnchorTypeOK, the shapes of what is open, and, of a Map never excluded,
            /\ (everStale => Distinct) => Covered
            /\ Mended => Kept
            /\ Distinct => Backed

A rebuild does not see what the frames showed, but what the anchor, the
conflicts and the confirmed observations have kept of it, the *view* (`View`).
`Kept` is what holds while no delivery works with rows that have changed since:
the view and the truth agree up to the first clash, whatever is lost lies at or
after it, and the anchor is what the truth says. From this `CandidatesAre` and
`RebuildKeeps` conclude that a rebuild with one more frame finds the same
canonical frame, side and cutoff as one that sees everything, even when the new
frame is older than all of them, becomes canonical and changes what clashes.

A rebuild on rows that have changed since breaks that, and the proof is about
what it does not break. It forgets no frame: each stays confirmed, recorded or in
the anchor, and only what is late is recorded (`Covered`). That is enough for the
next delivery that reads what it overwrites: `RebuildKeeps` takes `Covered` and
gives `Kept`, whatever the anchor says in between. That a stale delivery keeps
`Covered` (`RebuildCovers`) needs `Backed`: what every open transaction has read
is true of the frames that have arrived, if incomplete (`Founded`, `TrueOf`), and
the frame of its anchor is on record outside of the anchor. The last part is what
two frames of one moment may break, hence `Distinct`.

`EventTimeTheorem` is the consequence, for any number of frames and watchers. It
is the only proof here that speaks of an unbounded set of events in any order,
and needs the well-founded order of the natural numbers for its first elements.

`CausalTheorem` compares what is read at a cutoff before and after a delivery
that leaves no lost update behind.
`ReadingIs` uses the invariant once more: of a map that was never excluded the
reading is a function of the frames that have arrived: the canonical draft with
its side, if a frame up to the cutoff shows the side and no frame up to it
clashes (`Reading`). A frame captured after the cutoff changes neither
(`LaterFrame`), so the two readings are one. The property was first stated of
every map; the attempt to prove it showed that an excluded one breaks it, which
TLC finds with four frames of four moments (see "Met while modelling").

### CaptureLifecycleProofs

    CaptureInv == Typed /\ RowsArePast /\ Retained /\ InOrder

The object, the captures that still wait to be written and the manifest are
three copies of one history, and a crash keeps only the last of them. `Ready`
says how they fit: a milestone that was captured or waits is behind the phase,
those that wait come in their order, none was captured before, and once a
milestone is captured the next periodic slot is an interval after the last
periodic capture. Every stage of `observe` keeps this
(`ObservedReady`), writing one capture moves it from the queue to the rows
(`WrittenReady`), and a restart has to find it again (`RestoredReady`).

What a restart finds is what `restore` computes from a manifest of any length.
`Knows(rows, n, l)` says what the object `l` knows after the first `n` rows, and
`KnowsMore` that one more row keeps it; the induction over the rows needs no
induction theorem, only the least element of a set of natural numbers
(`LeastNatural`, from `WellFoundedInduction`). The attempt to prove the spacing
of periodic captures without `Told` (a milestone before them) failed on
`RestoredReady`, and TLC then found the two restarts of finding 5.

`MilestoneTheorem` and `SpacingTheorem` hold while
`Len(manifest) <= MaxRows`. The condition is the code's: `load_manifest` keeps the
last 2000 rows (more than sixteen hours of periodic captures), and beyond them a
restart forgets milestones and may capture them again. `TypeTheorem`,
`FinalTheorem` and `SustainedTheorem` have no such condition.

`Retained` follows the final capture: when a supervised watcher is between two
frames and in its grace period, the final is captured, or the period began with
the newest frame and that frame was dropped; `GapAssumption` then says that
another frame comes before the period is over. `SustainedTheorem` needs
`FollowsRecent`: while the watcher waits for a draft its own window is the end
of the ghost `recent`, and no two frames in it are farther apart than the gap.

`MapTheorem` rests on `MapInv`. The Map is kept in four places: by the provider,
the watcher, the object and the rows, and a crash takes the middle two. The
rows since the last start on a Map left behind (`since`), the object and the
frame in hand are never ahead of the watcher, nor the watcher ahead of the
provider, from which any other restart takes its Map. The stored Map may lag
behind all of them; that a running watcher takes it only if it is later is why
it does no harm. An object that has seen a Map at all since its restart has seen
the latest of these rows, so a change that it sees is a change to a Map that none
of them announces yet (`NewChange`). Within a frame the captures are ranked (`Ranked`, `RankedHead`),
so the change is announced once even when the frame also confirms the game.
This one needs no bound on the manifest, as no Map is read back from it.

### MapCheckpointsProofs

    CheckpointInv == CheckpointTypeOK /\ GameInOrder /\ SettledInTime

`GameInOrder` says that the maps are played in their order and the clock of the
game is never ahead of the time that has passed; `SettledInTime` compares a
decision with the official end, which leaves out the pauses and is therefore
never after the real one: `SettledTheorem`. The moment of an iteration may lie
before frames, prices and mappings that it reads; `AuditTheorem` and
`LookaheadTheorem` go through every reason `pregame_values` and `live_values` can
give a row that is written now, and show that the auditor, who sees only the
columns, comes to the same verdict and that a bet has passed the age checks on
the right side of its decision (`WritableRows`).

    OrderInv == CheckpointInv /\ (\A w \in DecisionWorkers : RestOf(w))
                /\ NoCheckpointIsSkipped

That the rows have no holes is not inductive: the list of an iteration is from
an earlier state. `RestOf` says of a worker's list what the property says of the
rows: what lies before a checkpoint that is left to it is on record or left as
well; so the least of the list may always be written. Rows are never taken back,
so what another worker writes in between only helps (`OthersRest`):
`OrderTheorem`.

### VisionProofs

    DeletionInv == PlanIsCurrent /\ PlanIsFound

What a cleanup has read is still true of the frames that are not overtaken:
this is the invariant, and it is inductive without a type invariant, for any
number of watchers, series and references. `LineageTheorem` follows.

    RetentionInv == TablesOK /\ CleanupOK, and the types of the clock, the
                    files, the journals and the watchers

`RetentionTypeTheorem`: what is stored, cited or retired is registered, because
`StoreKeepsTables` cites frames of stored rows only; a row is typed from the
watcher that made it through the journal into any replay.

    ClockInv == ClockTypeOK /\ TracksHistory /\ ConfirmedIsSupported

The tracker keeps two short windows and forgets the rest, while what it must not
do is said of everything it has read. `TracksHistory` says that each window
shows readings of the history, in their order and with the sign the tracker
gives them (`Shows`: an increasing function into the history), and that it
turns signs only after a reading not below zero that followed a slightly larger
one (`CountdownSeen`). A confirmation looks at a full
window; as the function is increasing its readings are different ones, and
there are as many of them as are asked for (`SupportTheorem`).

### Only model-checked

* liveness under fairness, and whatever needs ENABLED, is out of this prover's
  reach: `EveryMapDecided`, `EarlyPredictionsSettle`, `CaptureCloses`,
  `EveryMatchAttempted`, `CompleteIsIngested`, `CorrectionIsReviewed`,
  `EvidenceIsServed`, `IdleIsReleased`.

The other way round, what a theorem says for all constants and a run would only
repeat is in no run. The types of the settlement, the control service, the
anchor, the retention, the checkpoints and the clock are theorems (`TypeCorrect`,
`TypeTheorem`, `AnchorTypeTheorem`, `RetentionTypeTheorem`,
`CheckpointTypeTheorem`, `ClockTypeTheorem`); `ImprovementTheorem` is part of
what `IngestLedger` allows, and `progress` checks that every step is one of it.
`OutcomeStands` is checked in `operations`, where two workers meet.

## 6. Not modelled, and what could be next

* *Vision recognition, team rating, R.O.S.H., live probability*: numeric models
  over images and histories. What the rest of the program sees of them is an
  arbitrary reading or probability, and that is how the modules take them.
* *Read-only views and reports* (`web/monitoring.py`, most of
  `series_acceptance.py`, `live_match_state.py`, the routers): queries and their
  presentation. A module would have nothing but a state that does not change.
* *Parsers and clients* (RayBet, OpenDota, STRATZ, browser messages): one
  payload in, rows or an error out.
* *How a mapping becomes strictly eligible* (`strict_eligibility.py`): a long
  chain of checks over stored rows that keeps no state between calls; the
  settlement module sees the versions that result.
* *The offline tools* (statistics fetch, calibration, training): run by hand, on
  files of their own.

Together these are more than half of the lines of the repository, which is why
the share of lines that definitions stand for is far from the whole.

What could be next, in this order: the channels of the odds collector (listing
cache, claims, backoff per request, dead threads); two series in
`EvidenceRetention`; the crash between a result and its settlements as a
property of its own once re-labelling a confirmed Map no longer raises; a
common run of supervisor and capture lifecycle in which a watcher's capture
decides the heartbeat.

## 7. Running it

    tlc -workers 2 -config MCSettlementSafety.cfg MCPostmatchSettlement.tla
    tlc -workers 2 -config MCSettlementLinks.cfg MCSettlementLinks.tla
    tlc -workers 2 -config MCSettlementLiveness.cfg MCPostmatchSettlement.tla
    tlc -workers 2 -config MCCaptureSafety.cfg CaptureLifecycle.tla
    tlc -workers 2 -config MCProgress.cfg MCProgress.tla
    tlc -workers 2 -config MCSupervisor.cfg MCStreamSupervisor.tla
    tlc -workers 2 -config MCOperations.cfg MCOperations.tla
    tlapm PostmatchSettlementProofs.tla
    tlapm StrictIngestProofs.tla
    tlapm StreamSupervisorProofs.tla
    tlapm ControlServiceProofs.tla
    tlapm DraftAnchorProofs.tla
    tlapm CaptureLifecycleProofs.tla
    tlapm MapCheckpointsProofs.tla
    tlapm VisionProofs.tla

The remaining five configurations (`MCSettlementFirstUsable.cfg`,
`MCSettlementRelabel.cfg`, `MCSettlementSwappedSides.cfg`, with
`MCPostmatchSettlement`; `MCCaptureAwaiting.cfg` and `MCCaptureRestarts.cfg` with
`CaptureLifecycle`) end with the counterexamples of section 4.

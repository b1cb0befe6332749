-------------------------- MODULE CaptureLifecycle --------------------------
(***************************************************************************)
(* The evidence schedule of one stream watcher.                            *)
(*                                                                         *)
(* vision/capture_lifecycle.py turns the readings of single frames into    *)
(* milestones (draft_started, game_started, ended_final), map changes and  *)
(* periodic captures.  It keeps its state in memory; what survives a       *)
(* restart of the watcher is the manifest, one line per capture.  The      *)
(* loop of scripts/watch_raybet_stream.py feeds it frames, asks the        *)
(* database every CheckEvery frames whether the series is complete, and    *)
(* appends the captures of a frame to the manifest one by one, each with   *)
(* its own fsync, so the process may die between any two of them.          *)
(*                                                                         *)
(* Time is whole seconds from 1, so that 0 stands for None.  A reading is  *)
(* reduced to the screen state, whether it satisfies the code's condition  *)
(* for a valid draft or a valid game frame, and the Map passed with it.    *)
(***************************************************************************)
EXTENDS Integers, Sequences, FiniteSets, SequencesExt

CONSTANTS
    DraftWindow, DraftSupport, DraftSpan,  \* 5 samples, 4 of them, 4 seconds
    GameWindow, GameSupport, GameSpan,     \* 5 samples, 3 of them, 2 seconds
    GapLimit,     \* longest pause between two frames of one confirmation, 5 s
    Interval,     \* evidence_interval, 30 s
    Grace,        \* end_grace_seconds, 90 s
    CheckEvery,   \* COMPLETION_CHECK_INTERVAL, 15 frames
    MaxRows,      \* manifest rows that load_manifest keeps, 2000
    Gaps,         \* seconds that may pass between two frames
    MaxMap,       \* Maps of the series
    Modes,        \* values of managed: how the watcher may have been started
    EndBy,        \* bound: the series is complete by then
    MaxTime,      \* bound on the clock
    MaxCrashes    \* bound on the crashes

ASSUME WindowAssumption ==
    /\ DraftWindow \in Nat \ {0} /\ DraftSupport \in 1 .. DraftWindow
    /\ GameWindow \in Nat \ {0} /\ GameSupport \in 1 .. GameWindow
    /\ DraftSpan \in Nat /\ GameSpan \in Nat /\ GapLimit \in Nat
ASSUME PeriodAssumption ==
    /\ Interval \in Nat \ {0} /\ Grace \in Nat \ {0}
    /\ CheckEvery \in Nat \ {0} /\ MaxRows \in Nat \ {0}
    /\ MaxMap \in Nat \ {0} /\ Modes \subseteq BOOLEAN
ASSUME BoundAssumption ==
    /\ Gaps \subseteq Nat \ {0}
    /\ EndBy \in Nat /\ MaxTime \in Nat /\ MaxCrashes \in Nat

\* No frame waits as long as the grace period: a read gives up after 20 s.
ASSUME GapAssumption == \A g \in Gaps : g < Grace

VARIABLES
    managed,      \* the supervisor started the watcher: no --map-number
    now,          \* captured_at of the newest frame
    lc,           \* the CaptureLifecycle object
    manifest,     \* the rows of <match>.manifest.jsonl
    firstGame,    \* captured_at of the first persisted game observation
    reading,      \* the frame in hand
    pending,      \* its captures that are not in the manifest yet
    pc,           \* where the watcher is
    map,          \* its map_number
    samples,      \* sample_count modulo CheckEvery
    awaiting,     \* awaiting_series_completion
    rewound,      \* the newest frame was dropped by a clock reset
    recent,       \* the newest DraftWindow frames of this process, for the
                  \* properties only
    complete,     \* the database says that the series is decided
    providerMap,  \* the current Map according to the provider
    storedMap,    \* the same according to the row of the match, which the
                  \* monitor refreshes some time later
    since,        \* rows captured before the newest start on a Map that the
                  \* provider had left behind, for the properties only
    crashes       \* crashes so far

watcher == <<reading, pending, pc, map, samples, awaiting, rewound, recent>>
provider == <<complete, providerMap, storedMap, managed>>
vars == <<now, lc, manifest, firstGame, watcher, provider, since, crashes>>

CapturePhase == {"waiting_for_stream", "draft_candidate", "draft_started",
                 "game_started", "ended_grace", "closed"}
Triggers == {"draft_started", "game_started", "map_changed", "periodic_30s",
             "ended_final"}
Readings ==
    [screen: {"draft", "game"}, valid: BOOLEAN, map: 1 .. MaxMap]
        \cup [screen: {"game", "other"}, valid: {FALSE}, map: {0}]
Samples == [at: 1 .. MaxTime, ok: BOOLEAN]

Fresh ==
    [phase |-> "waiting_for_stream", draft |-> <<>>, game |-> <<>>,
     drafted |-> FALSE, played |-> FALSE, next |-> 0, map |-> 0,
     final |-> FALSE, closeAt |-> 0]

NoReading == [screen |-> "other", valid |-> FALSE, map |-> 0]

\* The Map of a watcher that starts (match_source).  The supervisor passes
\* --refresh-url, and a fetched payload of a live match names the provider's
\* Map.  When the fetch fails the payload kept in the row counts, and a row
\* whose status is not yet "2" leaves the operator's index or Map 1: both may be
\* behind.  An operator's command line names Map 1.
StartMaps == IF managed THEN 1 .. providerMap ELSE {1}

Init ==
    /\ managed \in Modes
    /\ now = 0
    /\ lc = Fresh
    /\ manifest = <<>>
    /\ firstGame = 0
    /\ reading = NoReading
    /\ pending = <<>>
    /\ pc = "frame"
    /\ providerMap \in 1 .. MaxMap /\ storedMap \in 1 .. providerMap
    /\ map \in StartMaps
    /\ samples = 0
    /\ awaiting = FALSE
    /\ rewound = FALSE
    /\ recent = <<>>
    /\ complete = FALSE
    /\ since = 0
    /\ crashes = 0

-----------------------------------------------------------------------------
(* The class CaptureLifecycle: one operator per block of observe().        *)

\* Mutant: the deque has no maxlen.
Mutant_Push(q, s, size) == Append(q, s)

\* deque(maxlen=size).append(s)
Push(q, s, size) == Append(IF Len(q) = size THEN Tail(q) ELSE q, s)

Supported(q, support) == Cardinality({i \in DOMAIN q : q[i].ok}) >= support

\* Mutant: an interruption of the stream does not clear the window.
Mutant_Continued(q, t) == q

\* The window that the frame at t may extend: none after an interruption.
Continued(q, t) == IF q # <<>> /\ t - Last(q).at > GapLimit THEN <<>> ELSE q

\* A valid draft frame extends the window and may confirm the draft.
ValidDraft(l, t) ==
    LET q == Push(Continued(l.draft, t), [at |-> t, ok |-> TRUE], DraftWindow)
        confirmed == /\ l.phase # "draft_started"
                     /\ Len(q) >= DraftWindow /\ Supported(q, DraftSupport)
                     /\ t - q[1].at >= DraftSpan
    IN  IF confirmed
        THEN [l EXCEPT !.draft = q, !.phase = "draft_started",
                       !.drafted = TRUE, !.next = t + Interval]
        ELSE [l EXCEPT !.draft = q,
                       !.phase = IF @ = "draft_started" THEN @
                                 ELSE "draft_candidate"]

\* Any other frame counts against a candidate and may drop it.
OtherThanDraft(l, t) ==
    LET q == Push(l.draft, [at |-> t, ok |-> FALSE], DraftWindow)
        dropped == ~Supported(q, 1)
                   \/ (l.draft # <<>> /\ t - Last(l.draft).at > GapLimit)
    IN  IF dropped
        THEN [l EXCEPT !.draft = <<>>, !.phase = "waiting_for_stream"]
        ELSE [l EXCEPT !.draft = q]

DraftStage(l, t, r) ==
    IF /\ r.screen = "draft" /\ r.valid
       /\ l.phase \in {"waiting_for_stream", "draft_candidate", "draft_started"}
    THEN ValidDraft(l, t)
    ELSE IF l.phase = "draft_candidate" THEN OtherThanDraft(l, t) ELSE l

\* _capture_immediate: the first capture starts the periodic schedule.
Scheduled(l, t) == [l EXCEPT !.next = IF @ = 0 THEN t + Interval ELSE @]

GameStage(l, t, r) ==
    LET valid == r.screen = "game" /\ r.valid
        q == Push(IF valid THEN Continued(l.game, t) ELSE l.game,
                  [at |-> t, ok |-> valid], GameWindow)
        confirmed == /\ valid /\ Len(q) >= GameSupport
                     /\ Supported(q, GameSupport) /\ t - q[1].at >= GameSpan
    IN  IF l.phase \notin {"waiting_for_stream", "draft_candidate",
                           "draft_started"}
        THEN l
        ELSE IF confirmed
        THEN Scheduled([l EXCEPT !.game = q, !.phase = "game_started",
                                 !.played = TRUE], t)
        ELSE [l EXCEPT !.game = q]

MapChanges(l, r) ==
    /\ r.map # 0 /\ l.map # 0 /\ r.map # l.map
    /\ l.phase \in {"game_started", "ended_grace"}

MapStage(l, t, r) ==
    LET m == IF MapChanges(l, r) THEN Scheduled(l, t) ELSE l
    IN  IF r.map = 0 THEN m ELSE [m EXCEPT !.map = r.map]

PeriodicDue(l, t) ==
    /\ l.phase \in {"draft_started", "game_started", "ended_grace"}
    /\ l.next # 0 /\ t >= l.next

\* _capture_periodic: a late frame starts a fresh interval, nothing is
\* backfilled.
PeriodicStage(l, t) ==
    IF PeriodicDue(l, t) THEN [l EXCEPT !.next = t + Interval] ELSE l

FinalDue(l) == l.phase = "ended_grace" /\ ~l.final

FinalStage(l, t) ==
    IF FinalDue(l) THEN Scheduled([l EXCEPT !.final = TRUE], t) ELSE l

\* The object after observe() and the events of its triggers, in order.
observe(l, t, r) ==
    LET draft == DraftStage(l, t, r)
        game == GameStage(draft, t, r)
        mapped == MapStage(game, t, r)
        periodic == PeriodicStage(mapped, t)
        If(condition, event) == IF condition THEN <<event>> ELSE <<>>
    IN  [object |-> FinalStage(periodic, t),
         triggers |->
            If(draft.phase = "draft_started" /\ l.phase # "draft_started",
               "draft_started")
            \o If(game.phase = "game_started" /\ draft.phase # "game_started",
                  "game_started")
            \o If(MapChanges(game, r), "map_changed")
            \o If(PeriodicDue(mapped, t), "periodic_30s")
            \o If(FinalDue(periodic), "ended_final")]

\* Mutant: the grace period starts anew at every check.
Mutant_mark_provider_complete(l, t) ==
    [l EXCEPT !.phase = "ended_grace", !.closeAt = t + Grace]

\* Mutant: entering the grace period counts as having emitted the final.
Mutant_mark_complete_final(l, t) ==
    IF l.phase \in {"closed", "ended_grace"} THEN l
    ELSE [l EXCEPT !.phase = "ended_grace", !.closeAt = t + Grace,
                   !.final = TRUE]

mark_provider_complete(l, t) ==
    IF l.phase \in {"closed", "ended_grace"} THEN l
    ELSE [l EXCEPT !.phase = "ended_grace", !.closeAt = t + Grace]

should_close(l, t) == l.phase = "ended_grace" /\ l.closeAt # 0 /\ t >= l.closeAt

\* Mutant: the final of an earlier process is not remembered.
Mutant_RestoreRow_final(l, row) ==
    CASE row.event = "draft_started" ->
            [l EXCEPT !.drafted = TRUE, !.phase = "draft_started",
                      !.next = row.at + Interval]
      [] row.event = "periodic_30s" -> [l EXCEPT !.next = row.at + Interval]
      [] row.event = "ended_final" ->
            [l EXCEPT !.phase = "ended_grace", !.closeAt = row.at + Grace]
      [] OTHER -> [l EXCEPT !.phase = "game_started"]

\* Mutant: periodic captures of an earlier process are not remembered.
Mutant_RestoreRow_periodic(l, row) ==
    CASE row.event = "draft_started" ->
            [l EXCEPT !.drafted = TRUE, !.phase = "draft_started",
                      !.next = row.at + Interval]
      [] row.event = "periodic_30s" -> l
      [] row.event = "ended_final" ->
            [l EXCEPT !.final = TRUE, !.phase = "ended_grace",
                      !.closeAt = row.at + Grace]
      [] OTHER -> [l EXCEPT !.phase = "game_started"]

\* One manifest row replayed by restore().
RestoreRow(l, row) ==
    CASE row.event = "draft_started" /\ ~l.drafted ->
            [l EXCEPT !.drafted = TRUE, !.phase = "draft_started",
                      !.next = row.at + Interval]
      [] row.event = "game_started" /\ ~l.played ->
            [l EXCEPT !.played = TRUE, !.phase = "game_started"]
      [] row.event = "periodic_30s" -> [l EXCEPT !.next = row.at + Interval]
      [] row.event = "map_changed" -> [l EXCEPT !.phase = "game_started"]
      [] row.event = "ended_final" ->
            [l EXCEPT !.final = TRUE, !.phase = "ended_grace",
                      !.closeAt = row.at + Grace]
      [] OTHER -> l

load_manifest ==
    SubSeq(manifest, IF Len(manifest) > MaxRows THEN Len(manifest) - MaxRows + 1
                     ELSE 1, Len(manifest))

\* restore(): the rows replayed one after the other.
restore(rows) ==
    LET after[i \in 0 .. Len(rows)] ==
            IF i = 0 THEN Fresh ELSE RestoreRow(after[i - 1], rows[i])
    IN  after[Len(rows)]

\* For a watcher whose manifest says nothing, the first game observation of the
\* output file counts (restore_game_started).
Restored ==
    LET l == restore(load_manifest)
    IN  IF l.phase = "waiting_for_stream" /\ firstGame # 0
        THEN [l EXCEPT !.played = TRUE, !.phase = "game_started",
                       !.next = firstGame + Interval]
        ELSE l

-----------------------------------------------------------------------------
(* The provider, and its row in the database as the monitor keeps it.      *)

ProviderAdvances ==
    /\ ~complete /\ providerMap < MaxMap
    /\ providerMap' = providerMap + 1
    /\ UNCHANGED <<managed, now, lc, manifest, firstGame, watcher, complete,
                   storedMap, since, crashes>>

\* The monitor stores what the provider says (upsert of raybet_matches).
ProviderStored ==
    /\ ~complete /\ storedMap < providerMap
    /\ storedMap' = providerMap
    /\ UNCHANGED <<managed, now, lc, manifest, firstGame, watcher, complete,
                   providerMap, since, crashes>>

ProviderCompletes ==
    /\ ~complete /\ now <= EndBy
    /\ complete' = TRUE
    /\ UNCHANGED <<managed, now, lc, manifest, firstGame, watcher, providerMap,
                   storedMap, since, crashes>>

-----------------------------------------------------------------------------
(* The watcher's loop.  Every frame starts with the completion check.      *)

CheckDue == samples + 1 = CheckEvery

\* The object after _provider_series_state was asked.
Checked(t) ==
    IF CheckDue /\ complete THEN mark_provider_complete(lc, t) ELSE lc

\* Mutant: the row's Map is taken whether or not it is a later one.
Mutant_MapNow == IF CheckDue /\ ~complete /\ managed THEN storedMap ELSE map

MapNow ==
    IF CheckDue /\ ~complete /\ managed /\ storedMap > map
    THEN storedMap ELSE map

\* A frame arrives g seconds after the newest one.
Arrives(g) ==
    /\ pc = "frame" /\ now + g <= MaxTime
    /\ now' = now + g
    /\ samples' = (samples + 1) % CheckEvery

\* The grace period is over: close() and break, and the code after the loop
\* sees a closed object.
CloseAfterGrace(g) ==
    /\ Arrives(g)
    /\ should_close(Checked(now + g), now + g)
    /\ lc' = [Checked(now + g) EXCEPT !.phase = "closed"]
    /\ pc' = "exited"
    /\ map' = MapNow
    /\ UNCHANGED <<manifest, firstGame, reading, pending, awaiting, rewound,
                   recent, provider, since, crashes>>

\* What a frame may show while the watcher is on Map m.
FrameReadings(m) ==
    [screen: {"draft"}, valid: BOOLEAN, map: {m}]
        \cup [screen: {"game"}, valid: BOOLEAN, map: {m}]
        \cup [screen: {"game", "other"}, valid: {FALSE}, map: {0}]

\* A frame is read with the watcher on Map m and handed to the object.
Observed(g, m) ==
    \E r \in FrameReadings(m) :
        LET result == observe(Checked(now + g), now + g, r)
        IN  /\ lc' = result.object
            /\ pending' = result.triggers
            /\ reading' = r
            /\ recent' = Push(recent, [at |-> now + g,
                                       ok |-> r.screen = "draft" /\ r.valid],
                              DraftWindow)
            /\ map' = m /\ pc' = "write" /\ rewound' = FALSE

ObserveFrame(g) ==
    /\ Arrives(g) /\ ~awaiting
    /\ ~should_close(Checked(now + g), now + g)
    /\ Observed(g, MapNow)
    /\ UNCHANGED <<manifest, firstGame, awaiting, provider, since, crashes>>

\* The clock ran before and now shows the start of a game.  Either five frames
\* outside the game came in between or the watcher was restarted in between, so
\* it does not happen to two frames in a row.
ClockRestarted == ~awaiting /\ ~rewound /\ firstGame # 0

\* A managed watcher drops the frame and waits for the provider to name the
\* next Map.
DropFrame(g) ==
    /\ Arrives(g) /\ ClockRestarted /\ managed
    /\ ~should_close(Checked(now + g), now + g)
    /\ lc' = Checked(now + g)
    /\ map' = MapNow /\ rewound' = TRUE
    /\ UNCHANGED <<manifest, firstGame, reading, pending, pc, awaiting, recent,
                   provider, since, crashes>>

\* Under --map-number: on to the next Map, with this frame or, right after a
\* restart of the watcher, with the next one.
NextMap(g) ==
    /\ Arrives(g) /\ ClockRestarted /\ ~managed /\ map < MaxMap
    /\ ~should_close(Checked(now + g), now + g)
    /\ \/ Observed(g, map + 1)
       \/ /\ lc' = Checked(now + g)
          /\ map' = map + 1 /\ rewound' = TRUE
          /\ UNCHANGED <<reading, pending, pc, recent>>
    /\ UNCHANGED <<manifest, firstGame, awaiting, provider, since, crashes>>

\* Under --map-number on the last Map: the series must be over.
AwaitCompletion(g) ==
    /\ Arrives(g) /\ ClockRestarted /\ ~managed /\ map = MaxMap
    /\ ~should_close(Checked(now + g), now + g)
    /\ lc' = mark_provider_complete(Checked(now + g), now + g)
    /\ awaiting' = TRUE /\ rewound' = TRUE
    /\ UNCHANGED <<manifest, firstGame, reading, pending, pc, map, recent,
                   provider, since, crashes>>

\* While it waits, a frame is read for the heartbeat only.
AwaitFrame(g) ==
    /\ Arrives(g) /\ awaiting
    /\ ~should_close(Checked(now + g), now + g)
    /\ lc' = Checked(now + g)
    /\ UNCHANGED <<manifest, firstGame, reading, pending, pc, map, awaiting,
                   rewound, recent, provider, since, crashes>>

\* _write_manifest_event, one trigger after the other.
WriteTrigger ==
    /\ pc = "write" /\ pending # <<>>
    /\ manifest' = Append(manifest, [event |-> Head(pending), at |-> now,
                                     map |-> reading.map])
    /\ pending' = Tail(pending)
    /\ UNCHANGED <<now, lc, firstGame, reading, pc, map, samples, awaiting,
                   rewound, recent, provider, since, crashes>>

\* The observation is appended after the captures of its frame.
AppendObservation ==
    /\ pc = "write" /\ pending = <<>>
    /\ firstGame' = IF reading.screen = "game" /\ firstGame = 0 THEN now
                    ELSE firstGame
    /\ pc' = "frame" /\ reading' = NoReading
    /\ UNCHANGED <<now, lc, manifest, pending, map, samples, awaiting, rewound,
                   recent, provider, since, crashes>>

\* The Map of last_observation: the latest one observed, or none when a frame
\* without a Map was kept after it; before the first the watcher's own.
LastMaps == {0, IF lc.map = 0 THEN map ELSE lc.map}

\* --count frames were read: the loop ends without close().
FramesRunOut ==
    /\ pc = "frame" /\ ~managed /\ now > 0
    /\ \E last \in LastMaps :
          manifest' = IF FinalDue(lc)
                      THEN Append(manifest, [event |-> "ended_final",
                                             at |-> now, map |-> last])
                      ELSE manifest
    /\ lc' = [lc EXCEPT !.phase = "closed"]
    /\ pc' = "exited"
    /\ UNCHANGED <<now, firstGame, reading, pending, map, samples, awaiting,
                   rewound, recent, provider, since, crashes>>

\* The process dies, a write fails, or no frame arrives for 20 s.
Crash ==
    /\ pc \in {"frame", "write"} /\ crashes < MaxCrashes
    /\ crashes' = crashes + 1
    /\ pc' = "down"
    /\ lc' = Fresh /\ pending' = <<>> /\ reading' = NoReading
    /\ UNCHANGED <<now, manifest, firstGame, map, samples, awaiting, rewound,
                   recent, provider, since>>

\* The supervisor starts the watcher again, some time later.
Restart ==
    /\ pc = "down"
    /\ lc' = Restored
    /\ pc' = "frame" /\ samples' = 0 /\ awaiting' = FALSE /\ rewound' = FALSE
    /\ \E m \in StartMaps :
          /\ map' = m
          /\ since' = IF managed /\ m < providerMap THEN Len(manifest)
                       ELSE since
    /\ recent' = <<>>
    /\ UNCHANGED <<now, manifest, firstGame, reading, pending, provider,
                   crashes>>

Frame ==
    \E g \in Gaps :
        \/ CloseAfterGrace(g) \/ ObserveFrame(g) \/ DropFrame(g) \/ NextMap(g)
        \/ AwaitCompletion(g) \/ AwaitFrame(g)

WatcherStep == Frame \/ WriteTrigger \/ AppendObservation

Next ==
    \/ WatcherStep \/ FramesRunOut
    \/ ProviderAdvances \/ ProviderStored \/ ProviderCompletes
    \/ Crash \/ Restart

Spec == Init /\ [][Next]_vars

\* The stream delivers frames and the loop handles them.
Fairness == WF_vars(WatcherStep)

FairSpec == Spec /\ Fairness

-----------------------------------------------------------------------------
(* Properties.                                                             *)

SampleSeq(q, size) == Len(q) <= size /\ \A i \in DOMAIN q : q[i] \in Samples

\* The object's fields, the bounded windows and the watcher's locals.
TypeOK ==
    /\ now \in 0 .. MaxTime
    /\ lc.phase \in CapturePhase
    /\ SampleSeq(lc.draft, DraftWindow) /\ SampleSeq(lc.game, GameWindow)
    /\ lc.next \in Nat /\ lc.closeAt \in Nat /\ lc.map \in 0 .. MaxMap
    /\ {lc.drafted, lc.played, lc.final, awaiting, rewound, complete,
        managed}
          \subseteq BOOLEAN
    /\ \A i \in DOMAIN manifest :
          manifest[i] \in [event: Triggers, at: 1 .. MaxTime, map: 0 .. MaxMap]
    /\ firstGame \in 0 .. MaxTime
    /\ reading \in Readings \cup {NoReading}
    /\ \A i \in DOMAIN pending : pending[i] \in Triggers
    /\ pc \in {"frame", "write", "down", "exited"}
    /\ map \in 1 .. MaxMap /\ providerMap \in 1 .. MaxMap
    /\ storedMap \in 1 .. providerMap /\ since \in Nat
    /\ samples \in 0 .. CheckEvery - 1
    /\ crashes \in 0 .. MaxCrashes

\* A milestone is captured once per series and in order, draft, game, final,
\* however often the watcher died between the captures of a frame ("prevents
\* duplicate lifecycle events").
MilestonesInOrder ==
    \A i, j \in DOMAIN manifest :
        i < j =>
            /\ manifest[j].event = "draft_started" =>
                  manifest[i].event \notin {"draft_started", "game_started",
                                            "ended_final"}
            /\ manifest[j].event = "game_started" =>
                  manifest[i].event \notin {"game_started", "ended_final"}
            /\ manifest[j].event = "ended_final" =>
                  manifest[i].event # "ended_final"

\* Two periodic captures are an interval apart, across restarts too: missed
\* ones are not backfilled (_capture_periodic, restore).
PeriodicSpacing ==
    \A i, j \in DOMAIN manifest :
        (i < j /\ manifest[i].event = "periodic_30s"
               /\ manifest[j].event = "periodic_30s")
            => manifest[j].at - manifest[i].at >= Interval

\* The same once the manifest tells how far the series is: a draft, a game, a
\* Map change or the final was captured before.  Only then does a restart take
\* the schedule from the manifest and not from the output file (restore,
\* restore_game_started).
StartedSpacing ==
    \A i, j \in DOMAIN manifest :
        (/\ i < j /\ manifest[i].event = "periodic_30s"
         /\ manifest[j].event = "periodic_30s"
         /\ \E k \in DOMAIN manifest :
                k < i /\ manifest[k].event # "periodic_30s")
            => manifest[j].at - manifest[i].at >= Interval

\* A watcher that ends by itself after the series is complete has captured the
\* final frame: the grace period exists for it (mark_provider_complete).
FinalIsRetained ==
    pc = "exited" /\ lc.closeAt # 0
        => \E i \in DOMAIN manifest : manifest[i].event = "ended_final"

\* The same for the watchers that the supervisor starts, which know the end of
\* the series from the database only, also when they died and were restarted
\* around it.
CleanExitKeepsFinal == managed => FinalIsRetained

\* However often the watcher dies between the captures of a frame, the captures
\* of a managed watcher never go back to an earlier Map, and the change to a Map
\* is captured once, across every restart but one that begins on a Map which the
\* provider has left behind: from there on it holds again.  A Map of the row
\* that lags never takes a running watcher back (provider_map > map_number).
MapsGoOn ==
    managed =>
        \A i, j \in DOMAIN manifest :
            since < i /\ i < j =>
                /\ manifest[i].map # 0 /\ manifest[j].map # 0
                      => manifest[i].map <= manifest[j].map
                /\ manifest[i].event = "map_changed"
                   /\ manifest[j].event = "map_changed"
                      => manifest[i].map < manifest[j].map

\* The draft is confirmed only by DraftSupport draft frames among the newest
\* DraftWindow frames of one uninterrupted process and stream (observe).
DraftNeedsSustainedFrames ==
    [][lc.phase # "draft_started" /\ lc'.phase = "draft_started" /\ pc = "frame"
        => /\ Len(recent') = DraftWindow
           /\ Supported(recent', DraftSupport)
           /\ \A i \in 1 .. DraftWindow - 1 :
                 recent'[i + 1].at - recent'[i].at <= GapLimit]_vars

\* Once the series is complete a watcher that keeps running closes itself.
ClosesAfterCompletion == complete ~> pc \in {"exited", "down"}
=============================================================================

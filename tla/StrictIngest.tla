----------------------------- MODULE StrictIngest -----------------------------
(***************************************************************************)
(* Strict ingestion of the completed matches of approved events            *)
(* (event_intelligence/ingest.py, scheduler.py, ingest_adapters.py).       *)
(*                                                                         *)
(* A worker process runs the scheduler: an active poll discovers the       *)
(* matches of the active events and retries what is due, a recent rescan   *)
(* fetches every match of the last days again.  Each selected match goes   *)
(* through begin, fetch and record, one transaction each, with awaits in   *)
(* between, and every begin fences off the attempts before it.             *)
(*                                                                         *)
(* A second worker is one that outlived its web process: the web process   *)
(* starts its ingest worker without registering it anywhere.               *)
(*                                                                         *)
(* Time is relative, so that the clock needs no bound: a timestamp is kept *)
(* as the ticks until it is reached (next_retry_at, the checkpoints) or    *)
(* since it was (start_time, the now of a scheduler run), each up to the   *)
(* value beyond which the code makes no difference.  attempt_generation    *)
(* grows with every begin and is compared for equality only, so it is kept *)
(* as the worker that holds the newest generation.                         *)
(***************************************************************************)
EXTENDS Integers, Sequences

CONSTANTS
    Workers, Matches, Events,
    EventOf,       \* [Matches -> Events]
    Contents,      \* details that OpenDota may serve, by content hash
    MissingOf,     \* [Contents -> SUBSET Parts]: what each of them lacks
    OutOfScope,    \* details that contradict the approved event
    NoContent, NoWorker,
    Delays,        \* RETRY_DELAYS in ticks
    ActivePoll,    \* ACTIVE_POLL_INTERVAL in ticks
    Rescan,        \* RECENT_RESCAN_INTERVAL in ticks
    Window,        \* RECENT_RESCAN_WINDOW in ticks
    LastChange,    \* bound: OpenDota neither lists an older match nor changes
                   \* its detail
    MaxCycle,      \* bound on the ticks one scheduler run lasts
    MaxDown,       \* bound on the ticks a dead worker stays down
    MaxFaults      \* bound on crashes and failed fetches

Parts == {"source", "basic", "players", "draft", "gold", "objectives"}

ASSUME EventAssumption == EventOf \in [Matches -> Events]
ASSUME ContentAssumption ==
    /\ MissingOf \in [Contents -> SUBSET Parts]
    /\ OutOfScope \subseteq Contents /\ NoContent \notin Contents
    /\ NoWorker \notin Workers
ASSUME DelayAssumption == Delays \in Seq(Nat \ {0}) /\ Delays # <<>>
ASSUME IntervalAssumption ==
    /\ ActivePoll \in Nat \ {0} /\ Rescan \in Nat \ {0} /\ Window \in Nat
    /\ LastChange \in Nat /\ MaxCycle \in Nat /\ MaxDown \in Nat
    /\ MaxFaults \in Nat

VARIABLES
    row,       \* match_ingest_status
    att,       \* [Workers -> [Matches -> ...]]: locals of _ingest_match
    cyc,       \* [Workers -> ...]: the scheduler run of each worker
    activeIn,  \* ticks until the active poll is due, 0 when it is
    rescanIn,  \* ticks until the recent rescan is due
    listed,    \* matches in OpenDota's league listing
    age,       \* [Matches -> Nat]: ticks since start_time
    serves,    \* [Matches -> Contents]: the detail OpenDota serves now
    active,    \* events that contain the present
    faults

world == <<listed, serves, active>>
timers == <<activeIn, rescanIn, age>>
vars == <<row, att, cyc, timers, world, faults>>

NoRetry == -1     \* next_retry_at IS NULL
Budget == Len(Delays)

Outcomes == {"detailed", "retryable", "failed", "review_required"}
Rows ==
    [known: BOOLEAN, scope: BOOLEAN, retries: 0 .. Budget + 1,
     due: Nat \cup {NoRetry},
     state: {"discovered", "detail_pending"} \cup Outcomes,
     content: Contents \cup {NoContent}, review: BOOLEAN,
     newest: Workers \cup {NoWorker}]
Attempts ==
    [pc: {"none", "selected", "read", "begun", "fetched"},
     seen: Contents \cup {NoContent}, count: 0 .. Budget + 1,
     got: Contents \cup {NoContent}]
Cycles ==
    [pc: {"sleep", "discover", "ingest", "polled", "dead"},
     kind: {"active", "recent"}, left: SUBSET Matches, new: SUBSET Matches,
     events: SUBSET Events, elapsed: Nat]

UnknownRow ==
    [known |-> FALSE, scope |-> TRUE, retries |-> 0, due |-> NoRetry,
     state |-> "discovered", content |-> NoContent, review |-> FALSE,
     newest |-> NoWorker]
NoAttempt == [pc |-> "none", seen |-> NoContent, count |-> 0,
              got |-> NoContent]
Asleep == [pc |-> "sleep", kind |-> "active", left |-> {}, new |-> {},
           events |-> {}, elapsed |-> 0]

Init ==
    /\ row = [m \in Matches |-> UnknownRow]
    /\ att = [w \in Workers |-> [m \in Matches |-> NoAttempt]]
    /\ cyc = [w \in Workers |-> Asleep]
    /\ activeIn = 0 /\ rescanIn = 0
    /\ listed = {}
    /\ age = [m \in Matches |-> 0]
    /\ serves \in [Matches -> Contents \ OutOfScope]
    /\ active = Events
    /\ faults = 0

Complete(c) == c # NoContent /\ MissingOf[c] = {}
DetailComplete(m) == Complete(row[m].content)
Minus(x, y) == IF x > y THEN x - y ELSE 0

-----------------------------------------------------------------------------
(* OpenDota, the calendar and the clock.                                   *)

MatchIsListed(m) ==
    /\ m \notin listed /\ age[m] <= LastChange
    /\ listed' = listed \cup {m}
    /\ UNCHANGED <<row, att, cyc, timers, serves, active, faults>>

\* Parsing goes on after the match is listed, and a detail may be corrected.
DetailChanges(m) ==
    /\ m \in listed /\ age[m] < LastChange
    /\ \E c \in Contents \ {serves[m]} : serves' = [serves EXCEPT ![m] = c]
    /\ UNCHANGED <<row, att, cyc, timers, listed, active, faults>>

EventEnds(e) ==
    /\ e \in active
    /\ active' = active \ {e}
    /\ UNCHANGED <<row, att, cyc, timers, listed, serves, faults>>

\* A worker looks for due work every 30 seconds, far less than a tick.
Timely(w) ==
    CASE cyc[w].pc = "dead" -> cyc[w].elapsed < MaxDown
      [] cyc[w].pc = "sleep" -> activeIn > 0 /\ rescanIn > 0
      [] OTHER -> cyc[w].elapsed < MaxCycle

Tick ==
    /\ \A w \in Workers : Timely(w)
    /\ activeIn' = Minus(activeIn, 1) /\ rescanIn' = Minus(rescanIn, 1)
    /\ age' = [m \in Matches |->
                  IF age[m] <= Window + MaxCycle THEN age[m] + 1 ELSE age[m]]
    /\ row' = [m \in Matches |->
                  [row[m] EXCEPT !.due = IF @ = NoRetry THEN NoRetry
                                         ELSE Minus(@, 1)]]
    /\ cyc' = [w \in Workers |->
                  IF cyc[w].pc = "sleep" THEN cyc[w]
                  ELSE [cyc[w] EXCEPT !.elapsed = @ + 1]]
    /\ UNCHANGED <<att, world, faults>>

-----------------------------------------------------------------------------
(* run_due and run_once.                                                   *)

Poll(w, kind, elapsed, events) ==
    /\ cyc' = [cyc EXCEPT ![w] =
                  [pc |-> "discover", kind |-> kind, new |-> {},
                   left |-> {m \in listed : EventOf[m] \in events},
                   events |-> events, elapsed |-> elapsed]]
    /\ UNCHANGED <<row, att, timers, world, faults>>

poll_active(w) ==
    /\ cyc[w].pc = "sleep" /\ activeIn = 0
    /\ Poll(w, "active", 0, active)

\* Comes after the active poll, with the same now.
rescan_recent(w) ==
    /\ rescanIn = 0
    /\ cyc[w].pc = "polled" \/ (cyc[w].pc = "sleep" /\ activeIn > 0)
    /\ Poll(w, "recent", cyc[w].elapsed, Events)

RunEnds(w) ==
    /\ cyc[w].pc = "polled" /\ rescanIn > 0
    /\ cyc' = [cyc EXCEPT ![w] = Asleep]
    /\ UNCHANGED <<row, att, timers, world, faults>>

\* Mutant: a match that is listed again starts anew.
Mutant_record_discovered_match(w, m) ==
    /\ cyc[w].pc = "discover" /\ m \in cyc[w].left
    /\ cyc' = [cyc EXCEPT ![w].left = @ \ {m},
                          ![w].new = IF row[m].known THEN @ ELSE @ \cup {m}]
    /\ row' = [row EXCEPT ![m].known = TRUE, ![m].state = "discovered"]
    /\ UNCHANGED <<att, timers, world, faults>>

\* A listed match gets its row, once; a row is never selected by this insert
\* alone after its run has died.
record_discovered_match(w, m) ==
    /\ cyc[w].pc = "discover" /\ m \in cyc[w].left
    /\ cyc' = [cyc EXCEPT ![w].left = @ \ {m},
                          ![w].new = IF row[m].known THEN @ ELSE @ \cup {m}]
    /\ row' = [row EXCEPT ![m].known = TRUE]
    /\ UNCHANGED <<att, timers, world, faults>>

\* start_time >= now of the run - RECENT_RESCAN_WINDOW
Recent(w, m) == age[m] - cyc[w].elapsed <= Window

\* An active poll without any active event asks for the due matches of all.
list_due_match_ids(w) ==
    {m \in Matches :
        /\ row[m].known /\ row[m].due = 0
        /\ cyc[w].events = {} \/ EventOf[m] \in cyc[w].events
        /\ cyc[w].kind = "recent" => Recent(w, m)}

\* Mutant: the rescan looks at due matches only.
Mutant_list_recent(w) == {}

list_recent_rescan_match_ids(w) ==
    IF cyc[w].kind = "recent"
    THEN {m \in Matches : row[m].known /\ row[m].scope /\ Recent(w, m)}
    ELSE {}

SelectMatches(w) ==
    LET recent == list_recent_rescan_match_ids(w)
        selected == {m \in cyc[w].new \cup list_due_match_ids(w) \cup recent :
                        DetailComplete(m) => m \in recent}
    IN  /\ cyc[w].pc = "discover" /\ cyc[w].left = {}
        /\ att' = [att EXCEPT ![w] =
                      [m \in Matches |->
                          [NoAttempt EXCEPT !.pc = IF m \in selected
                                                   THEN "selected"
                                                   ELSE "none"]]]
        /\ cyc' = [cyc EXCEPT ![w].pc = "ingest", ![w].new = {}]
        /\ UNCHANGED <<row, timers, world, faults>>

\* Every match of the run is done: the checkpoint is the start of the run.
set_scheduler_checkpoint(w) ==
    /\ cyc[w].pc = "ingest"
    /\ \A m \in Matches : att[w][m].pc = "none"
    /\ IF cyc[w].kind = "active"
       THEN /\ activeIn' = Minus(ActivePoll, cyc[w].elapsed)
            /\ cyc' = [cyc EXCEPT ![w].pc = "polled"]
            /\ UNCHANGED rescanIn
       ELSE /\ rescanIn' = Minus(Rescan, cyc[w].elapsed)
            /\ cyc' = [cyc EXCEPT ![w] = Asleep]
            /\ UNCHANGED activeIn
    /\ UNCHANGED <<row, att, age, world, faults>>

-----------------------------------------------------------------------------
(* _ingest_match.                                                          *)

get_ingest_status(w, m) ==
    /\ att[w][m].pc = "selected"
    /\ att' = [att EXCEPT ![w][m].pc = "read", ![w][m].seen = row[m].content]
    /\ UNCHANGED <<row, cyc, timers, world, faults>>

\* Mutant: the last delay is used again and again.
Mutant_next_retry_at(w, count) ==
    Minus(Delays[IF count > Budget THEN Budget ELSE count], cyc[w].elapsed)

\* next_retry_at(now of the run, count)
next_retry_at(w, count) ==
    IF count > Budget THEN NoRetry ELSE Minus(Delays[count], cyc[w].elapsed)

\* Mutant: the retry is left to the record of the outcome.
Mutant_begin_ingest_attempt(w, m) ==
    LET count == IF row[m].retries > Budget THEN Budget + 1
                 ELSE row[m].retries + 1
    IN  /\ att[w][m].pc = "read"
        /\ row' = [row EXCEPT ![m].retries = count, ![m].newest = w,
                              ![m].due = NoRetry,
                              ![m].state = "detail_pending"]
        /\ att' = [att EXCEPT ![w][m].pc = "begun", ![w][m].count = count]
        /\ UNCHANGED <<cyc, timers, world, faults>>

\* retry_count counts on beyond the budget, where it makes no difference.
begin_ingest_attempt(w, m) ==
    LET count == IF row[m].retries > Budget THEN Budget + 1
                 ELSE row[m].retries + 1
    IN  /\ att[w][m].pc = "read"
        /\ row' = [row EXCEPT ![m].retries = count, ![m].newest = w,
                              ![m].due = next_retry_at(w, count),
                              ![m].state = "detail_pending"]
        /\ att' = [att EXCEPT ![w][m].pc = "begun", ![w][m].count = count]
        /\ UNCHANGED <<cyc, timers, world, faults>>

\* The detail is fetched and archived.
FetchMatch(w, m) ==
    /\ att[w][m].pc = "begun"
    /\ att' = [att EXCEPT ![w][m].pc = "fetched", ![w][m].got = serves[m]]
    /\ UNCHANGED <<row, cyc, timers, world, faults>>

\* Mutant: an attempt records although a newer one has begun.
Mutant_Superseded(w, m) == FALSE

\* Another attempt has begun since: retry_count, last_attempt_at and
\* attempt_generation differ from this attempt's.
Superseded(w, m) == row[m].newest # w

Finished(w, m) == att' = [att EXCEPT ![w][m] = NoAttempt]

FailedRow(r, next) ==
    [r EXCEPT !.state = IF @ = "review_required" THEN @
                        ELSE IF next # NoRetry THEN "retryable" ELSE "failed",
              !.due = next]

\* The fetch fails, and so does archiving: record_ingest_failure.
FetchFails(w, m) ==
    /\ att[w][m].pc = "begun" /\ faults < MaxFaults
    /\ faults' = faults + 1
    /\ row' = IF Superseded(w, m) THEN row
              ELSE [row EXCEPT ![m] =
                       FailedRow(@, next_retry_at(w, att[w][m].count))]
    /\ Finished(w, m)
    /\ UNCHANGED <<cyc, timers, world>>

\* The detail is outside the approved scope: the row leaves it for good, and
\* the failure that is recorded next keeps the review.
record_scope_rejection(w, m) ==
    /\ att[w][m].pc = "fetched" /\ att[w][m].got \in OutOfScope
    /\ row' = IF Superseded(w, m) THEN row
              ELSE [row EXCEPT ![m] =
                       FailedRow([@ EXCEPT !.scope = FALSE, !.review = TRUE,
                                           !.state = "review_required"],
                                 NoRetry)]
    /\ Finished(w, m)
    /\ UNCHANGED <<cyc, timers, world, faults>>

\* Readiness of the four components that _accept_version compares, from what
\* a detail lacks: 2 for ready and for unscorable, 0 for retryable.
Score(missing, needs) == IF missing \cap needs = {} THEN 2 ELSE 0
ReadinessScore(missing) ==
    <<Score(missing, Parts),
      Score(missing, {"source", "basic", "players"}),
      Score(missing, {"source", "basic"}),
      Score(missing, {"source", "basic", "draft"})>>

NoDegradation(old, new) ==
    \A i \in 1 .. 4 : ReadinessScore(new)[i] >= ReadinessScore(old)[i]
Improved(old, new) ==
    \E i \in 1 .. 4 : ReadinessScore(new)[i] > ReadinessScore(old)[i]

AcceptVersion(old, new) ==
    \/ old = NoContent
    \/ /\ NoDegradation(MissingOf[old], MissingOf[new])
       /\ MissingOf[new] \subseteq MissingOf[old]
       /\ \/ Improved(MissingOf[old], MissingOf[new])
          \/ MissingOf[new] # MissingOf[old]

\* Mutant: a detail that differs from an equally complete one is dropped.
Mutant_Correction(old, new) == FALSE

Correction(old, new) ==
    /\ old # NoContent /\ ~AcceptVersion(old, new)
    /\ MissingOf[new] = MissingOf[old]

\* ingest_state from detailed_parse_state
StateOf(c) == IF Complete(c) THEN "detailed" ELSE "retryable"

\* The row after _record_ingest_success, by its three ways: the hash is the
\* one read before the attempt, the version is accepted, or it is not.
RecordedRow(r, a, next) ==
    LET unchanged == a.seen = a.got
        content == IF ~unchanged /\ AcceptVersion(r.content, a.got)
                   THEN a.got ELSE r.content
    IN  [r EXCEPT !.content = content,
                  !.review = @ \/ (~unchanged /\ Correction(r.content, a.got)),
                  !.retries = IF Complete(a.got) THEN 0 ELSE @,
                  !.due = next, !.state = StateOf(content)]

record_ingest_success(w, m) ==
    LET a == att[w][m]
        next == IF Complete(a.got) THEN NoRetry ELSE next_retry_at(w, a.count)
    IN  /\ a.pc = "fetched" /\ a.got \notin OutOfScope
        /\ row' = IF Superseded(w, m) THEN row
                  ELSE [row EXCEPT ![m] = RecordedRow(@, a, next)]
        /\ Finished(w, m)
        /\ UNCHANGED <<cyc, timers, world, faults>>

-----------------------------------------------------------------------------

\* The process dies: it is killed, or a league listing fails, whose exception
\* nothing catches.
WorkerDies(w) ==
    /\ cyc[w].pc # "dead" /\ faults < MaxFaults
    /\ faults' = faults + 1
    /\ cyc' = [cyc EXCEPT ![w] = [Asleep EXCEPT !.pc = "dead"]]
    /\ att' = [att EXCEPT ![w] = [m \in Matches |-> NoAttempt]]
    /\ UNCHANGED <<row, timers, world>>

WorkerStarts(w) ==
    /\ cyc[w].pc = "dead"
    /\ cyc' = [cyc EXCEPT ![w] = Asleep]
    /\ UNCHANGED <<row, att, timers, world, faults>>

IngestMatch(w, m) ==
    \/ get_ingest_status(w, m) \/ begin_ingest_attempt(w, m)
    \/ FetchMatch(w, m) \/ record_scope_rejection(w, m)
    \/ record_ingest_success(w, m)

WorkerStep(w) ==
    \/ poll_active(w) \/ rescan_recent(w) \/ RunEnds(w)
    \/ SelectMatches(w) \/ set_scheduler_checkpoint(w)
    \/ \E m \in Matches : record_discovered_match(w, m) \/ IngestMatch(w, m)
    \/ WorkerStarts(w)

Next ==
    \/ \E w \in Workers :
          \/ WorkerStep(w) \/ WorkerDies(w)
          \/ \E m \in Matches : FetchFails(w, m)
    \/ \E m \in Matches : MatchIsListed(m) \/ DetailChanges(m)
    \/ \E e \in Events : EventEnds(e)
    \/ Tick

Spec == Init /\ [][Next]_vars

\* Every live worker goes on, a dead one is started again, time passes.
Fairness == (\A w \in Workers : WF_vars(WorkerStep(w))) /\ WF_vars(Tick)

FairSpec == Spec /\ Fairness

-----------------------------------------------------------------------------
(* Properties.                                                             *)

\* The shapes the schema and the coroutine's locals have; a retry is scheduled
\* for as long as the budget of delays lasts, and no longer.
TypeOK ==
    /\ row \in [Matches -> Rows]
    /\ \A m \in Matches : row[m].due # NoRetry => row[m].retries \in 1 .. Budget
    /\ att \in [Workers -> [Matches -> Attempts]]
    /\ cyc \in [Workers -> Cycles]
    /\ activeIn \in Nat /\ rescanIn \in Nat /\ age \in [Matches -> Nat]
    /\ listed \subseteq Matches /\ serves \in [Matches -> Contents]
    /\ active \subseteq Events
    /\ faults \in 0 .. MaxFaults

\* The outcome of the newest attempt stands until another attempt begins: a
\* slow attempt of another worker never overwrites it, whether it succeeded,
\* failed or was rejected (attempt_generation in record_*).
OutcomeStands ==
    [][\A m \in Matches :
          row[m].state \in Outcomes /\ row'[m].state # "detail_pending"
          => /\ row'[m].state = row[m].state
             /\ row'[m].content = row[m].content
             /\ row'[m].review = row[m].review
             /\ row'[m].retries = row[m].retries]_vars

\* A stored detail is replaced only by one that lacks strictly less: a
\* correction or a poorer parse never overwrites it (_accept_version).
DetailOnlyImproves ==
    [][\A m \in Matches :
          row[m].content # NoContent /\ row'[m].content # row[m].content
          => /\ MissingOf[row'[m].content] \subseteq MissingOf[row[m].content]
             /\ MissingOf[row'[m].content] # MissingOf[row[m].content]]_vars

\* Once a match was attempted its next attempt is on record, until its detail
\* is complete, it has left the scope or its delays are used up: begin commits
\* the retry before the fetch, so no death or stale answer loses the match.
RetryIsScheduled ==
    \A m \in Matches :
        /\ row[m].state # "discovered" /\ row[m].scope
        /\ ~DetailComplete(m) /\ row[m].retries <= Budget
        => row[m].due # NoRetry

\* How far IngestLedger sees a match.
StageOf(r) ==
    CASE ~r.scope -> "rejected"
      [] r.scope /\ Complete(r.content) -> "complete"
      [] r.scope /\ ~Complete(r.content) ->
            IF r.state = "discovered" THEN "new"
            ELSE IF r.due # NoRetry THEN "owed"
            ELSE IF r.retries > Budget THEN "spent" ELSE "lost"

Ledger == INSTANCE IngestLedger WITH
    stage <- [m \in Matches |-> StageOf(row[m])],
    detail <- [m \in Matches |-> row[m].content],
    review <- [m \in Matches |-> row[m].review]

\* The workers with their fences, deaths and late answers keep the promises of
\* the table: no match is lost, taken back or left with a poorer detail.
ImplementsLedger == Ledger!Spec

\* A match that was discovered is attempted, also when the worker died between
\* its discovery and its attempt: next_retry_at is still NULL then, and only
\* the rescan of the recent days finds it.
EveryMatchAttempted ==
    \A m \in Matches :
        row[m].known ~> row[m].state # "discovered"

\* A complete detail that OpenDota keeps serving is stored, or the match is
\* in review: retries, rescans and restarts leave no match behind.
CompleteIsIngested ==
    \A m \in Matches :
        (row[m].known /\ [](Complete(serves[m]) /\ serves[m] \notin OutOfScope))
            ~> (DetailComplete(m) \/ ~row[m].scope)

\* A correction of a complete detail that OpenDota keeps serving is put to
\* review: it is neither stored nor lost.
CorrectionIsReviewed ==
    \A m \in Matches : \A c \in {d \in Contents \ OutOfScope : Complete(d)} :
        (row[m].known /\ DetailComplete(m) /\ row[m].content # c
            /\ [](serves[m] = c))
            ~> row[m].review
=============================================================================

--------------------------- MODULE StreamSupervisor ---------------------------
(***************************************************************************)
(* scripts/supervise_raybet_streams.py: one supervisor and its watchers.   *)
(*                                                                         *)
(* Every iteration reads which matches have evidence in the database,      *)
(* keeps those whose watcher still captures, reaps exited and unwanted     *)
(* watchers, starts new ones in order of priority while slots are free,    *)
(* and reports health.  What the supervisor knows of its children is in    *)
(* memory only: a supervisor that is killed leaves them running, and its   *)
(* successor starts others.  A stop by the control service enumerates the  *)
(* tree once and terminates what it found, children first.                 *)
(*                                                                         *)
(* Time is counted in iterations (args.interval); an iteration is shorter  *)
(* than a tick.  retry_at and the heartbeat's captured_at are kept as      *)
(* distances from now.  A row of raybet_matches is reduced to what         *)
(* active_match_evidence tells apart.                                      *)
(***************************************************************************)
EXTENDS Integers, Sequences, FiniteSets

CONSTANTS
    Matches,         \* match ids, naturals for the order of their names
    Rows,            \* rows that a match may have in the database
    MaxConcurrent,   \* MAX_CONCURRENT_WATCHERS, 4
    Delays,          \* WATCHER_RETRY_DELAYS in ticks, one less than the limit
    ProbeDelay,      \* PREMATCH_PROBE_RETRY_DELAY in ticks
    OutputAge,       \* OUTPUT_MAX_AGE in ticks
    HeartbeatGrace,  \* RUNNING_HEARTBEAT_GRACE in ticks
    MaxChanges,      \* bound: changes of the database
    MaxFaults        \* bound: failed reads and spawns, kills, stops

ASSUME MatchAssumption == Matches \subseteq Nat /\ IsFiniteSet(Matches)
ASSUME DelayAssumption ==
    /\ Delays \in Seq(Nat \ {0}) /\ Delays # << >> /\ ProbeDelay \in Nat \ {0}
    /\ OutputAge \in Nat /\ HeartbeatGrace \in Nat
    /\ OutputAge <= HeartbeatGrace
ASSUME BoundAssumption ==
    /\ MaxConcurrent \in Nat
    /\ MaxChanges \in Nat /\ MaxFaults \in Nat

RowType ==
    [status: {"1", "2", "unlisted", "closed"},  \* of the listing
     fresh: BOOLEAN,       \* raybet_match_is_live: updated recently
     url: BOOLEAN,         \* a public stream is stored
     video: BOOLEAN,       \* a fresh browser video event
     window: BOOLEAN]      \* inside the prematch window
ASSUME RowAssumption == Rows \subseteq RowType

VARIABLES
    row,        \* raybet_matches
    pc,         \* the supervisor: "down", or its place in the iteration
    seen,       \* evidence of this iteration
    active,     \* the matches with evidence or a capturing child
    exited,     \* exited_output: exited children seen before the reap, whose
                \* output changed
    queue,      \* matches that are ready for a start in this iteration
    slots,      \* how many of them may still be started
    child,      \* the supervisor's children
    changed,    \* output or heartbeat differs from the baseline of the start
    beat,       \* the heartbeat file of a match
    retry,      \* retry_states
    orphans,    \* watchers of a match without a parent
    targets,    \* children that a stop has enumerated and not yet terminated
    stopping,   \* a stop is under way
    silent,     \* for the properties: starts in a row that changed nothing
    unclean,    \* for the properties: a kill, or a start after a stop's
                \* enumeration
    changes, faults

memory == <<seen, active, exited, queue, slots, retry>>
stop == <<targets, stopping>>
ghosts == <<silent, unclean>>
bounds == <<changes, faults>>
vars == <<row, pc, memory, child, changed, beat, orphans, stop, ghosts, bounds>>

MaxFailures == Len(Delays) + 1     \* WATCHER_MAX_START_FAILURES

Evidence == {"none", "verified_public_stream", "fresh_browser_video",
             "ephemeral_stream_refresh_probe", "prematch_verified_stream",
             "prematch_ephemeral_stream_probe"}
Child == {"none", "running", "exited"}
NoBeat == [age |-> HeartbeatGrace + 1, open |-> FALSE, trusted |-> FALSE]
Beats == [age: 0 .. HeartbeatGrace + 1, open: BOOLEAN, trusted: BOOLEAN]

\* A heartbeat a tick later; what no condition reads any more is dropped.
Older(b) ==
    IF b.age >= HeartbeatGrace \/ (~b.open /\ b.age >= OutputAge) THEN NoBeat
    ELSE [age |-> b.age + 1, open |-> b.open,
          trusted |-> b.trusted /\ b.age < OutputAge]

NoRetry == [attempts |-> 0, wait |-> 0, exhausted |-> FALSE]

Init ==
    /\ row \in [Matches -> Rows]
    /\ pc = "look"
    /\ seen = [m \in Matches |-> "none"]
    /\ active = {}
    /\ exited = {}
    /\ queue = {}
    /\ slots = 0
    /\ child = [m \in Matches |-> "none"]
    /\ changed = [m \in Matches |-> FALSE]
    /\ beat = [m \in Matches |-> NoBeat]
    /\ retry = [m \in Matches |-> NoRetry]
    /\ orphans = [m \in Matches |-> 0]
    /\ targets = {}
    /\ stopping = FALSE
    /\ silent = [m \in Matches |-> 0]
    /\ unclean = FALSE
    /\ changes = 0
    /\ faults = 0

-----------------------------------------------------------------------------
(* The helpers of the supervisor.                                          *)

\* active_match_evidence, for one row.
EvidenceOf(r) ==
    CASE r.status = "2" /\ r.fresh ->
            IF r.url THEN "verified_public_stream"
            ELSE IF r.video THEN "fresh_browser_video"
            ELSE "ephemeral_stream_refresh_probe"
      [] r.status \in {"1", "unlisted"} /\ r.window ->
            IF r.url THEN "prematch_verified_stream"
            ELSE "prematch_ephemeral_stream_probe"
      [] OTHER -> "none"

Priority(e) ==
    CASE e \in {"verified_public_stream", "fresh_browser_video",
                "ephemeral_stream_refresh_probe"} -> 0
      [] e = "prematch_verified_stream" -> 1
      [] OTHER -> 2

Children == {m \in Matches : child[m] # "none"}
Running == {m \in Matches : child[m] = "running"}

\* Mutant: a closed capture keeps its watcher as well.
Mutant_retain(evidence) ==
    {m \in Matches : evidence[m] # "none"}
        \cup {m \in Children : beat[m].age <= HeartbeatGrace + 1}

\* _retain_running_watchers: a child, dead or alive, whose heartbeat is young.
retain_running_watchers(evidence) ==
    {m \in Matches : evidence[m] # "none"}
        \cup {m \in Children : beat[m].open /\ beat[m].age <= HeartbeatGrace}

\* Mutant: an attempt that changed nothing is not counted.
Mutant_after_failure(previous, produced, probe) ==
    [attempts |-> 1, wait |-> Delays[1], exhausted |-> FALSE]

watcher_retry_after_failure(previous, produced, probe) ==
    LET attempts == IF produced THEN 1 ELSE previous.attempts + 1
        exhausted == attempts >= MaxFailures
    IN  IF probe /\ ~produced
        THEN [attempts |-> 1, wait |-> ProbeDelay, exhausted |-> FALSE]
        ELSE [attempts |-> attempts,
              wait |-> IF exhausted THEN 0 ELSE Delays[attempts],
              exhausted |-> exhausted]

\* Mutant: the slots of running children are not subtracted.
Mutant_free_slots(children) == MaxConcurrent

free_slots(children) == MaxConcurrent - Cardinality(children)

\* Mutant: any failure keeps a match back.
Mutant_startable_never(wanted, children, retries) ==
    {m \in wanted \ children : retries[m].attempts = 0}

\* The matches that startable_matches takes from, as many as there are slots.
startable_matches(wanted, children, retries) ==
    {m \in wanted \ children : ~retries[m].exhausted /\ retries[m].wait = 0}

\* Mutant: by name only.
Mutant_FirstOf(ready, m) == m \in ready /\ \A n \in ready : m <= n

\* m comes first in ready: by priority, then by name.
FirstOf(ready, m) ==
    /\ m \in ready
    /\ \A n \in ready :
        \/ Priority(seen[m]) < Priority(seen[n])
        \/ Priority(seen[m]) = Priority(seen[n]) /\ m <= n

-----------------------------------------------------------------------------
(* The environment: the database, the watchers, the clock.                 *)

RowChanges(m) ==
    /\ changes < MaxChanges
    /\ \E r \in Rows \ {row[m]} : row' = [row EXCEPT ![m] = r]
    /\ changes' = changes + 1
    /\ UNCHANGED <<pc, memory, child, changed, beat, orphans, stop, ghosts,
                   faults>>

\* A watcher of m, the child or an orphan, writes its heartbeat: trusted or
\* not, and closed when its capture has ended.
WatcherCaptures(m) ==
    /\ child[m] = "running" \/ orphans[m] > 0
    /\ \E open, trusted \in BOOLEAN :
        beat' = [beat EXCEPT ![m] =
                    [age |-> 0, open |-> open, trusted |-> trusted]]
    /\ changed' = [changed EXCEPT ![m] = child[m] # "none"]
    /\ silent' = [silent EXCEPT ![m] = 0]
    /\ UNCHANGED <<row, pc, memory, child, orphans, stop, unclean, bounds>>

WatcherExits(m) ==
    /\ child[m] = "running"
    /\ child' = [child EXCEPT ![m] = "exited"]
    /\ UNCHANGED <<row, pc, memory, changed, beat, orphans, stop, ghosts,
                   bounds>>

OrphanExits(m) ==
    /\ orphans[m] > 0
    /\ orphans' = [orphans EXCEPT ![m] = @ - 1]
    /\ UNCHANGED <<row, pc, memory, child, changed, beat, stop, ghosts, bounds>>

-----------------------------------------------------------------------------
(* One iteration of the supervisor.                                        *)

Look ==
    /\ pc = "look"
    /\ seen' = [m \in Matches |-> EvidenceOf(row[m])]
    /\ active' = retain_running_watchers(seen')
    /\ exited' = {m \in active' : child[m] = "exited" /\ changed[m]}
    /\ pc' = "reap"
    /\ UNCHANGED <<row, queue, slots, retry, child, changed, beat, orphans,
                   stop, ghosts, bounds>>

\* The database cannot be read: the iteration ends.
LookFails ==
    /\ pc = "look" /\ faults < MaxFaults
    /\ pc' = "sleep"
    /\ faults' = faults + 1
    /\ UNCHANGED <<row, memory, child, changed, beat, orphans, stop, ghosts,
                   changes>>

Probes(m) == seen[m] = "prematch_ephemeral_stream_probe"

\* reap_children, the retry states and the list of matches to start.  A child
\* that exited after Look is reaped too, and is not in exited_output.
Reap ==
    LET failed == {m \in active : child[m] = "exited"}
        kept == {m \in active : child[m] = "running"}
    IN  /\ pc = "reap"
        /\ child' = [m \in Matches |-> IF m \in kept THEN "running" ELSE "none"]
        /\ retry' = [m \in Matches |->
                IF m \notin active THEN NoRetry
                ELSE IF m \in failed
                THEN watcher_retry_after_failure(retry[m], m \in exited,
                                                 Probes(m))
                ELSE retry[m]]
        /\ silent' = [m \in Matches |->
                IF m \notin active \/ (m \in failed /\ changed[m]) THEN 0
                ELSE IF m \in failed
                THEN IF Probes(m) THEN 1 ELSE silent[m] + 1
                ELSE silent[m]]
        /\ queue' = startable_matches(active, kept, retry')
        /\ slots' = free_slots(kept)
        /\ exited' = {}
        /\ changed' = [m \in Matches |-> changed[m] /\ m \in kept]
        /\ pc' = "start"
        /\ UNCHANGED <<row, seen, active, beat, orphans, stop, unclean, bounds>>

Starting(m) == pc = "start" /\ slots > 0 /\ FirstOf(queue, m)

\* The next match of the list gets a watcher; the baselines are taken first.
Start(m) ==
    /\ Starting(m)
    /\ child' = [child EXCEPT ![m] = "running"]
    /\ changed' = [changed EXCEPT ![m] = FALSE]
    /\ queue' = queue \ {m}
    /\ slots' = slots - 1
    /\ unclean' = (unclean \/ stopping)
    /\ UNCHANGED <<row, pc, seen, active, exited, retry, beat, orphans, stop,
                   silent, bounds>>

SpawnFails(m) ==
    /\ Starting(m) /\ faults < MaxFaults
    /\ retry' = [retry EXCEPT ![m] =
                    watcher_retry_after_failure(@, FALSE, FALSE)]
    /\ silent' = [silent EXCEPT ![m] = @ + 1]
    /\ queue' = queue \ {m}
    /\ slots' = slots - 1
    /\ faults' = faults + 1
    /\ UNCHANGED <<row, pc, seen, active, exited, child, changed, beat, orphans,
                   stop, unclean, changes>>

\* The end of the iteration; its locals are not read again.
Sleeps ==
    /\ pc' = "sleep"
    /\ seen' = [m \in Matches |-> "none"]
    /\ active' = {} /\ queue' = {} /\ slots' = 0

\* A log file cannot be opened: the rest of the iteration is skipped.
OpenFails ==
    /\ \E m \in Matches : Starting(m)
    /\ faults < MaxFaults
    /\ Sleeps
    /\ faults' = faults + 1
    /\ UNCHANGED <<row, exited, retry, child, changed, beat, orphans, stop,
                   ghosts, changes>>

\* supervisor_health: a running child whose own heartbeat is young and trusted.
Producing(m) ==
    /\ child[m] = "running" /\ changed[m]
    /\ beat[m].trusted /\ beat[m].age <= OutputAge

Report ==
    /\ pc = "start" /\ (queue = {} \/ slots = 0)
    /\ retry' = [m \in Matches |-> IF m \in active /\ Producing(m) THEN NoRetry
                                   ELSE retry[m]]
    /\ Sleeps
    /\ UNCHANGED <<row, exited, child, changed, beat, orphans, stop, ghosts,
                   bounds>>

Tick ==
    /\ pc \in {"sleep", "down"} /\ ~stopping
    /\ pc' = IF pc = "sleep" THEN "look" ELSE "down"
    /\ beat' = [m \in Matches |-> Older(beat[m])]
    /\ retry' = [m \in Matches |->
            [retry[m] EXCEPT !.wait = IF @ = 0 THEN 0 ELSE @ - 1]]
    /\ UNCHANGED <<row, seen, active, exited, queue, slots, child, changed,
                   orphans, stop, ghosts, bounds>>

-----------------------------------------------------------------------------
(* How a supervisor ends, and starts again.                                *)

\* Everything it had in memory is gone; what runs on is without a parent.
Ends(left) ==
    /\ pc' = "down"
    /\ seen' = [m \in Matches |-> "none"]
    /\ active' = {} /\ exited' = {} /\ queue' = {} /\ slots' = 0
    /\ retry' = [m \in Matches |-> NoRetry]
    /\ silent' = [m \in Matches |-> 0]
    /\ child' = [m \in Matches |-> "none"]
    /\ orphans' = [m \in Matches |-> IF m \in left THEN orphans[m] + 1
                                     ELSE orphans[m]]
    /\ targets' = {} /\ stopping' = FALSE

\* KeyboardInterrupt: the finally block reaps every child.
Interrupt ==
    /\ pc # "down" /\ ~stopping /\ faults < MaxFaults
    /\ Ends({})
    /\ faults' = faults + 1
    /\ UNCHANGED <<row, changed, beat, unclean, changes>>

Kill ==
    /\ pc # "down" /\ ~stopping /\ faults < MaxFaults
    /\ Ends(Running)
    /\ unclean' = TRUE
    /\ faults' = faults + 1
    /\ UNCHANGED <<row, changed, beat, changes>>

\* terminate_process_tree: the children are enumerated once ...
StopBegins ==
    /\ pc # "down" /\ ~stopping /\ faults < MaxFaults
    /\ targets' = Running
    /\ stopping' = TRUE
    /\ faults' = faults + 1
    /\ UNCHANGED <<row, pc, memory, child, changed, beat, orphans, ghosts,
                   changes>>

\* ... and terminated one by one ...
StopTerminates(m) ==
    /\ m \in targets
    /\ targets' = targets \ {m}
    /\ child' = [child EXCEPT ![m] = IF @ = "running" THEN "exited" ELSE @]
    /\ UNCHANGED <<row, pc, memory, changed, beat, orphans, stopping, ghosts,
                   bounds>>

\* Mutant: the supervisor is terminated before its children.
Mutant_StopEnds ==
    /\ stopping
    /\ Ends(Running)
    /\ UNCHANGED <<row, changed, beat, unclean, bounds>>

\* ... the supervisor last.
StopEnds ==
    /\ stopping /\ targets = {}
    /\ Ends(Running)
    /\ UNCHANGED <<row, changed, beat, unclean, bounds>>

Restart ==
    /\ pc = "down"
    /\ pc' = "look"
    /\ UNCHANGED <<row, memory, child, changed, beat, orphans, stop, ghosts,
                   bounds>>

-----------------------------------------------------------------------------
SupervisorStep ==
    \/ Look \/ LookFails \/ Reap \/ OpenFails \/ Report
    \/ \E m \in Matches : Start(m) \/ SpawnFails(m)

StopStep == StopEnds \/ \E m \in Matches : StopTerminates(m)

Next ==
    \/ SupervisorStep \/ Tick
    \/ Interrupt \/ Kill \/ StopBegins \/ StopStep \/ Restart
    \/ \E m \in Matches :
        RowChanges(m) \/ WatcherCaptures(m) \/ WatcherExits(m) \/ OrphanExits(m)

\* The supervisor loops for ever and catches every exception of an iteration;
\* the clock goes on; a stop that has begun is carried out.
Spec == Init /\ [][Next]_vars /\ WF_vars(SupervisorStep) /\ WF_vars(Tick)
             /\ WF_vars(StopStep)

-----------------------------------------------------------------------------
(* Properties.                                                             *)

\* Every variable has its type; an exhausted match has failed as often as the
\* limit says; a wait never exceeds the delays; at most MaxConcurrent children.
TypeOK ==
    /\ row \in [Matches -> Rows]
    /\ pc \in {"down", "look", "reap", "start", "sleep"}
    /\ seen \in [Matches -> Evidence]
    /\ active \subseteq Matches /\ exited \subseteq Matches
    /\ queue \subseteq Matches /\ slots \in 0 .. MaxConcurrent
    /\ child \in [Matches -> Child]
    /\ Cardinality(Children) <= MaxConcurrent
    /\ changed \in [Matches -> BOOLEAN]
    /\ beat \in [Matches -> Beats]
    /\ retry \in [Matches ->
            [attempts: 0 .. MaxFailures, wait: Nat, exhausted: BOOLEAN]]
    /\ orphans \in [Matches -> Nat]
    /\ targets \subseteq Matches /\ stopping \in BOOLEAN
    /\ silent \in [Matches -> Nat] /\ unclean \in BOOLEAN
    /\ changes \in 0 .. MaxChanges /\ faults \in 0 .. MaxFaults

\* A match whose watchers exit without having written anything is given up
\* after MaxFailures starts in a row, however exits, failed spawns, captures
\* of others and health reports are ordered in between.  Probes of a match
\* that is not live start the count anew, and so does a loss of evidence.
SilentStartsBounded == \A m \in Matches : silent[m] <= MaxFailures

\* A watcher outlives its supervisor only if the supervisor was killed, or
\* started it while a stop was already terminating the children it had found.
NoWatcherIsLeftBehind == ~unclean => \A m \in Matches : orphans[m] = 0

\* A free slot goes to the match of the best evidence: no match is started
\* while one of higher priority, seen in the same iteration, is ready.
BestFirst ==
    [][\A m, n \in Matches :
        /\ child[m] = "none" /\ child'[m] = "running"
        /\ n \in active /\ child[n] = "none"
        /\ Priority(seen[n]) < Priority(seen[m])
        => retry[n].exhausted \/ retry[n].wait > 0]_vars

Evident(m) == EvidenceOf(row[m]) # "none"

\* A match with lasting evidence gets a watcher while a slot is free, unless
\* it is given up after its failures.
EvidenceIsServed ==
    \A m \in Matches :
        Evident(m) ~> \/ child[m] = "running" \/ retry[m].exhausted
                      \/ Cardinality(Children) = MaxConcurrent
                      \/ ~Evident(m) \/ pc = "down"

Capturing(m) == beat[m].open /\ beat[m].age <= HeartbeatGrace

\* A match without evidence whose watcher has closed its capture, or stopped
\* writing, gives its slot back.
IdleIsReleased ==
    \A m \in Matches :
        ~Evident(m) /\ ~Capturing(m)
            ~> child[m] = "none" \/ Evident(m) \/ Capturing(m)
=============================================================================

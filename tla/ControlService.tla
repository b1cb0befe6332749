---------------------------- MODULE ControlService ----------------------------
(***************************************************************************)
(* web/control.py: one managed component, started and stopped by the web   *)
(* process at its own start and on request.                                *)
(*                                                                         *)
(* The service works under a lock and in one transaction per request, but  *)
(* a process it starts is outside of both: it runs before its row in       *)
(* monitor_process_registry is committed, and it outlives the web process. *)
(* The registry row names a process by pid and creation time (an element   *)
(* of Procs, never used twice).  A second authority is the heartbeat the   *)
(* component writes to service_health: when the registry knows of nothing, *)
(* a young heartbeat says that somebody else runs the component.           *)
(*                                                                         *)
(* Steps of one request that take milliseconds are one action; those with  *)
(* a wait or a commit between them are not.  Ages are in ticks.            *)
(***************************************************************************)
EXTENDS Integers, FiniteSets

CONSTANTS
    Procs,        \* processes of the component, naturals in order of creation
    Requests,     \* request ids of the control API
    NoProc,       \* no process; not an element of Procs
    NoRequest,    \* the start of the web process itself
    Timeout,      \* supervisor_timeout_seconds in ticks
    MaxWebs,      \* bound: starts of the web process
    MaxFaults     \* bound: commits that fail, identities that cannot be read

ASSUME ProcAssumption ==
    Procs \subseteq Nat /\ NoProc \notin Procs /\ IsFiniteSet(Procs)
ASSUME RequestAssumption ==
    NoRequest \notin Requests /\ "operator" \notin Requests \cup {NoRequest}
ASSUME BoundAssumption ==
    Timeout \in Nat \ {0} /\ MaxWebs \in Nat /\ MaxFaults \in Nat

VARIABLES
    web,          \* the web process: "down", "starting", "up"
    cs,           \* the request inside the lock and its transaction
    owned,        \* _owned: the process that this web process started last
    registry,     \* the committed row of the component
    audit,        \* monitor_control_audit: the stored response of a request
    proc,         \* the processes
    starter,      \* for the properties: who started a process
    beat,         \* age of last_heartbeat_at; Timeout + 1: too old or none
    beatNew,      \* it is later than the registry's updated_at
    beatBy,       \* for the properties: who wrote it
    refused,      \* for the properties: whose heartbeat made the service refuse
    clean,        \* for the properties: no fault has lost a process yet
    webs, faults

world == <<proc, starter, beat, beatNew, beatBy>>
ghosts == <<refused, clean>>
vars == <<web, cs, owned, registry, audit, world, ghosts, webs, faults>>

Statuses == {"none", "running", "stopped"}
\* A row names a process exactly while it says running.
Row == {r \in [status: Statuses, proc: Procs \cup {NoProc}] :
            r.status = "running" <=> r.proc # NoProc}
Actions == {"ensure", "start", "stop", "restart"}
Steps == {"idle", "start", "stop", "terminate", "commit"}
Responses == {"none", "ok", "failed"}

Sections ==
    [step: Steps, request: Requests \cup {NoRequest}, action: Actions,
     row: Row, response: Responses, stamped: BOOLEAN, later: BOOLEAN]

\* later: a heartbeat was written after the transaction's own stop stamp.
Idle == [step |-> "idle", request |-> NoRequest, action |-> "start",
         row |-> [status |-> "none", proc |-> NoProc], response |-> "none",
         stamped |-> FALSE, later |-> FALSE]

Init ==
    /\ web = "down"
    /\ cs = Idle
    /\ owned = NoProc
    /\ registry = [status |-> "none", proc |-> NoProc]
    /\ audit = [r \in Requests |-> "none"]
    /\ proc = [p \in Procs |-> "unused"]
    /\ starter = [p \in Procs |-> NoRequest]
    /\ beat = Timeout + 1
    /\ beatNew = FALSE
    /\ beatBy = NoProc
    /\ refused = NoProc
    /\ clean = TRUE
    /\ webs = 0
    /\ faults = 0

Live == {p \in Procs : proc[p] = "running"}

\* The process that is created next.
IsNext(p) ==
    proc[p] = "unused" /\ \A q \in Procs : q < p => proc[q] # "unused"

-----------------------------------------------------------------------------
(* What the service reads.  Inside a transaction it sees its own row.      *)

\* Mutant: a process that another web process started is not looked up.
Mutant_Inspect(row) ==
    IF row.status = "running" /\ row.proc = owned /\ row.proc \in Live
    THEN "running" ELSE "stopped"

\* _inspect: the state of the process that the row names.
Inspect(row) ==
    IF row.status # "running" THEN "stopped"
    ELSE IF row.proc \in Live THEN "running" ELSE "stopped"

\* Mutant: the row's own stop is not compared with the heartbeat.
Mutant_fresh_supervisor_heartbeat(row, new) ==
    row.status # "running" /\ beat <= Timeout

\* _fresh_supervisor_heartbeat, where _inspect found nothing that runs: a
\* registered process that is dead makes every heartbeat untrustworthy, and
\* a heartbeat from before the stop does not count.
fresh_supervisor_heartbeat(row, new) ==
    /\ row.status # "running"
    /\ beat <= Timeout
    /\ row.status = "stopped" => new

Fresh == fresh_supervisor_heartbeat(cs.row, IF cs.stamped THEN cs.later
                                            ELSE beatNew)

-----------------------------------------------------------------------------
(* A request takes the lock, or the web process starts its component.      *)

\* The transaction of a request opens with the committed row.
Opened(request, action, step) ==
    [Idle EXCEPT !.request = request, !.action = action, !.step = step,
                 !.row = registry]

WebStarts ==
    /\ web = "down" /\ webs < MaxWebs
    /\ web' = "starting"
    /\ cs' = Opened(NoRequest, "ensure", "start")
    /\ owned' = NoProc
    /\ webs' = webs + 1
    /\ UNCHANGED <<registry, audit, world, ghosts, faults>>

\* Mutant: the stored response of the request is not looked up.
Mutant_Execute(r) ==
    /\ web = "up" /\ cs.step = "idle"
    /\ \E a \in {"start", "stop", "restart"} :
        cs' = Opened(r, a, IF a = "start" THEN "start" ELSE "stop")
    /\ UNCHANGED <<web, owned, registry, audit, world, ghosts, webs, faults>>

\* execute: a request whose response is stored is answered from the audit.
Execute(r) ==
    /\ web = "up" /\ cs.step = "idle" /\ audit[r] = "none"
    /\ \E a \in {"start", "stop", "restart"} :
        cs' = Opened(r, a, IF a = "start" THEN "start" ELSE "stop")
    /\ UNCHANGED <<web, owned, registry, audit, world, ghosts, webs, faults>>

Answer(response) == [cs EXCEPT !.step = "commit", !.response = response]

\* _start finds its process running.
AlreadyRunning ==
    /\ cs.step = "start" /\ Inspect(cs.row) = "running"
    /\ cs' = Answer("ok")
    /\ UNCHANGED <<web, owned, registry, audit, world, ghosts, webs, faults>>

\* The web process and a restart ignore the heartbeat.
Ignores == cs.action \in {"ensure", "restart"}

\* Somebody else's heartbeat: nothing is started, nothing is stopped.
Refuse ==
    /\ \/ cs.step = "start" /\ ~Ignores
       \/ cs.step = "stop"
    /\ Inspect(cs.row) = "stopped" /\ Fresh
    /\ cs' = Answer("failed")
    /\ refused' = beatBy
    /\ UNCHANGED <<web, owned, registry, audit, world, clean, webs, faults>>

-----------------------------------------------------------------------------
(* Starting a process.                                                     *)

\* The registered process runs, but the system denies a look at it: neither
\* running nor stopped, so neither authority is asked.
Unverifiable == Inspect(cs.row) = "running" /\ faults < MaxFaults

MayStart == Inspect(cs.row) = "stopped" /\ (Ignores \/ ~Fresh)

Started(p) ==
    /\ IsNext(p)
    /\ proc' = [proc EXCEPT ![p] = "running"]
    /\ starter' = [starter EXCEPT ![p] = cs.request]
    /\ owned' = p
    /\ cs' = [Answer("ok") EXCEPT !.row = [status |-> "running", proc |-> p],
                                  !.stamped = FALSE, !.later = FALSE]
    /\ UNCHANGED <<web, registry, audit, beat, beatNew, beatBy, refused, webs>>

Start(p) ==
    /\ cs.step = "start" /\ MayStart
    /\ Started(p)
    /\ UNCHANGED <<clean, faults>>

StartBesideUnverifiable(p) ==
    /\ cs.step = "start" /\ Unverifiable
    /\ Started(p)
    /\ clean' = FALSE
    /\ faults' = faults + 1

\* An exception leaves the transaction: nothing of it is stored.  The start
\* of the web process ends with it, and close() takes what it owns along.
RollsBack ==
    /\ cs' = Idle
    /\ web' = IF web = "starting" THEN "down" ELSE web
    /\ UNCHANGED <<registry, audit, starter, beat, beatNew, beatBy, refused>>

\* The process exits before it was observed.
StartRaises(p) ==
    /\ cs.step = "start" /\ MayStart /\ IsNext(p)
    /\ proc' = [proc EXCEPT ![p] = "dead"]
    /\ RollsBack
    /\ UNCHANGED <<owned, clean, webs, faults>>

-----------------------------------------------------------------------------
(* Stopping it.                                                            *)

StopRunning ==
    /\ cs.step = "stop" /\ Inspect(cs.row) = "running"
    /\ cs' = [cs EXCEPT !.step = "terminate"]
    /\ UNCHANGED <<web, owned, registry, audit, world, ghosts, webs, faults>>

\* The UPDATE of a row that does not exist changes nothing.
StopRow ==
    LET row == IF cs.row.status = "none" THEN cs.row
               ELSE [status |-> "stopped", proc |-> NoProc]
    IN  [cs EXCEPT !.row = row, !.stamped = (row.status = "stopped"),
                   !.later = FALSE,
                   !.step = IF cs.action = "restart" THEN "start" ELSE "commit",
                   !.response = IF cs.action = "restart" THEN "none" ELSE "ok"]

\* The tree of the process is gone; the row is stamped afterwards.
Terminated ==
    /\ cs.step = "terminate"
    /\ proc' = [proc EXCEPT ![cs.row.proc] = "dead"]
    /\ owned' = NoProc
    /\ cs' = StopRow
    /\ UNCHANGED <<web, registry, audit, starter, beat, beatNew, beatBy, ghosts,
                   webs, faults>>

\* Mutant: the result of the termination is not looked at.
Mutant_TerminateFails ==
    /\ cs.step = "terminate"
    /\ owned' = NoProc
    /\ cs' = StopRow
    /\ UNCHANGED <<web, registry, audit, world, ghosts, webs, faults>>

\* The process cannot be terminated, or is gone before it is looked up.
TerminateFails ==
    /\ cs.step = "terminate"
    /\ cs' = Answer("failed")
    /\ UNCHANGED <<web, owned, registry, audit, world, ghosts, webs, faults>>

StopNothing ==
    /\ cs.step = "stop" /\ Inspect(cs.row) = "stopped" /\ ~Fresh
    /\ owned' = NoProc
    /\ cs' = StopRow
    /\ UNCHANGED <<web, registry, audit, world, ghosts, webs, faults>>

StopUnverifiable ==
    /\ cs.step = "stop" /\ Unverifiable
    /\ owned' = NoProc
    /\ cs' = StopRow
    /\ clean' = FALSE
    /\ faults' = faults + 1
    /\ UNCHANGED <<web, registry, audit, world, refused, webs>>

-----------------------------------------------------------------------------
(* The end of the transaction, and of the web process.                     *)

\* The transaction has started a process that the committed row does not name.
Uncommitted == cs.row.proc \notin {NoProc, registry.proc}

Commit ==
    /\ cs.step = "commit"
    /\ registry' = cs.row
    /\ audit' = IF cs.request = NoRequest THEN audit
                ELSE [audit EXCEPT ![cs.request] = cs.response]
    /\ beatNew' = IF cs.stamped THEN cs.later ELSE beatNew
    /\ web' = "up"
    /\ cs' = Idle
    /\ UNCHANGED <<owned, proc, starter, beat, beatBy, ghosts, webs, faults>>

CommitFails ==
    /\ cs.step = "commit" /\ faults < MaxFaults
    /\ faults' = faults + 1
    /\ RollsBack
    /\ clean' = (clean /\ (web = "starting" \/ ~Uncommitted))
    /\ proc' = [p \in Procs |-> IF web = "starting" /\ p = owned /\ p \in Live
                                THEN "dead" ELSE proc[p]]
    /\ owned' = IF web = "starting" THEN NoProc ELSE owned
    /\ UNCHANGED webs

\* close(): what this web process owns is terminated, the rows stay.
WebCloses ==
    /\ web = "up" /\ cs.step = "idle"
    /\ web' = "down"
    /\ proc' = [p \in Procs |-> IF p = owned /\ p \in Live THEN "dead"
                                ELSE proc[p]]
    /\ owned' = NoProc
    /\ UNCHANGED <<cs, registry, audit, starter, beat, beatNew, beatBy, ghosts,
                   webs, faults>>

\* A hard end, anywhere: the processes run on.
WebDies ==
    /\ web # "down"
    /\ web' = "down"
    /\ cs' = Idle
    /\ owned' = NoProc
    /\ clean' = (clean /\ ~Uncommitted)
    /\ UNCHANGED <<registry, audit, world, refused, webs, faults>>

-----------------------------------------------------------------------------
(* The processes, the operator, the clock.                                 *)

Heartbeat(p) ==
    /\ beat' = 0
    /\ beatNew' = TRUE
    /\ beatBy' = p
    /\ cs' = [cs EXCEPT !.later = cs.stamped]

Beats(p) ==
    /\ p \in Live
    /\ Heartbeat(p)
    /\ UNCHANGED <<web, owned, registry, audit, proc, starter, ghosts, webs,
                   faults>>

Dies(p) ==
    /\ p \in Live
    /\ proc' = [proc EXCEPT ![p] = "dead"]
    /\ UNCHANGED <<web, cs, owned, registry, audit, starter, beat, beatNew,
                   beatBy, ghosts, webs, faults>>

\* The operator ends a standalone process, which writes a last heartbeat.
Interrupted(p) ==
    /\ p \in Live /\ starter[p] = "operator"
    /\ proc' = [proc EXCEPT ![p] = "dead"]
    /\ Heartbeat(p)
    /\ UNCHANGED <<web, owned, registry, audit, starter, ghosts, webs, faults>>

\* The operator starts the component in a terminal, whatever else runs: the
\* README of the repository starts the collector before the web process, which
\* starts one of its own.
StandaloneStarts(p) ==
    /\ IsNext(p)
    /\ proc' = [proc EXCEPT ![p] = "running"]
    /\ starter' = [starter EXCEPT ![p] = "operator"]
    /\ UNCHANGED <<web, cs, owned, registry, audit, beat, beatNew, beatBy,
                   ghosts, webs, faults>>

Tick ==
    /\ beat <= Timeout
    /\ beat' = beat + 1
    /\ UNCHANGED <<web, cs, owned, registry, audit, proc, starter, beatNew,
                   beatBy, ghosts, webs, faults>>

-----------------------------------------------------------------------------
Next ==
    \/ WebStarts \/ AlreadyRunning \/ Refuse
    \/ StopRunning \/ Terminated \/ TerminateFails \/ StopNothing
    \/ StopUnverifiable \/ Commit \/ CommitFails \/ WebCloses \/ WebDies \/ Tick
    \/ \E r \in Requests : Execute(r)
    \/ \E p \in Procs :
        \/ Start(p) \/ StartBesideUnverifiable(p) \/ StartRaises(p)
        \/ Beats(p) \/ Dies(p) \/ Interrupted(p) \/ StandaloneStarts(p)

Spec == Init /\ [][Next]_vars

-----------------------------------------------------------------------------
(* Properties.                                                             *)

\* Every variable has its type; a row names a process only while it says
\* running, and a heartbeat's age is capped at the one that nobody trusts.
TypeOK ==
    /\ web \in {"down", "starting", "up"}
    /\ cs \in Sections
    /\ owned \in Procs \cup {NoProc}
    /\ registry \in Row
    /\ audit \in [Requests -> Responses]
    /\ proc \in [Procs -> {"unused", "running", "dead"}]
    /\ starter \in [Procs -> Requests \cup {NoRequest, "operator"}]
    /\ beat \in 0 .. Timeout + 1 /\ beatNew \in BOOLEAN
    /\ beatBy \in Procs \cup {NoProc} /\ refused \in Procs \cup {NoProc}
    /\ clean \in BOOLEAN /\ webs \in 0 .. MaxWebs /\ faults \in 0 .. MaxFaults

\* The service never runs the component twice: of the processes that it has
\* started at most one is alive, across requests, hard ends of the web process
\* and of the component, and beside any process of the operator's, as long as no
\* transaction that started a process was lost and every identity could be read.
OneSupervisor ==
    clean => \A p, q \in Live :
                starter[p] # "operator" /\ starter[q] # "operator" => p = q

\* A row that says stopped is true: whatever still runs was started by the
\* operator, with the same exceptions.
StoppedMeansStopped ==
    (clean /\ cs.step = "idle" /\ registry.status = "stopped")
        => \A p \in Live : starter[p] = "operator"

\* The service refuses only for the sake of a process it did not start: the
\* heartbeat of one it has just stopped never stands in the way of a start.
RefusedForStrangersOnly ==
    (clean /\ refused # NoProc) => starter[refused] = "operator"

\* A request id that is sent again starts nothing again once it was answered.
RequestActsOnce ==
    [][\A r \in Requests : audit[r] # "none" =>
        {p \in Procs : starter'[p] = r} = {p \in Procs : starter[p] = r}]_vars
=============================================================================

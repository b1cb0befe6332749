------------------------- MODULE ControlServiceProofs -------------------------
(***************************************************************************)
(* Proofs about ControlService, for every set of requests, any number of   *)
(* processes and starts of the web process, and every bound on faults.     *)
(***************************************************************************)
EXTENDS ControlService, TLAPS

\* The process that the service knows: the one of the row it would see.
Known == IF cs.step = "idle" THEN registry.proc ELSE cs.row.proc

\* A heartbeat is not trusted against a row that runs, nor against one that
\* was stopped after it.
Untrusted(r, new) == r.status = "running" \/ (r.status = "stopped" /\ ~new)

\* The places of a request: what its transaction may have started is owned,
\* and the start of the web process ends with a row that runs.
InOrder ==
    /\ web = "down" => cs.step = "idle"
    /\ web = "starting" => /\ cs.action = "ensure" /\ cs.step \in {"start", "commit"}
                           /\ cs.step = "commit" => cs.row.status = "running"
    /\ cs.step \in {"start", "stop", "terminate"} => ~Uncommitted
    /\ cs.step = "terminate" => cs.row.status = "running"
    /\ cs.step # "idle" /\ Uncommitted => owned = cs.row.proc

\* Processes that are named, heard of or started have been created.
Created ==
    /\ beatBy # NoProc => proc[beatBy] # "unused"
    /\ refused # NoProc => proc[refused] # "unused"
    /\ registry.proc # NoProc => proc[registry.proc] # "unused"
    /\ cs.row.proc # NoProc => proc[cs.row.proc] # "unused"
    /\ \A p \in Procs : proc[p] = "unused" => starter[p] = NoRequest

\* What the service has started and still runs is what it knows.
Tracked == clean => \A p \in Live : starter[p] # "operator" => p = Known

\* The heartbeat of a process of the service's own never makes it refuse.
OwnBeatUntrusted ==
    (web = "up" /\ clean /\ beatBy # NoProc /\ starter[beatBy] # "operator") =>
        /\ (cs.step = "idle" \/ ~Uncommitted) => Untrusted(registry, beatNew)
        /\ cs.step # "idle" =>
              Untrusted(cs.row, IF cs.stamped THEN cs.later ELSE beatNew)

\* A request that is being worked on has not been answered.
Unanswered ==
    cs.step # "idle" /\ cs.request \in Requests => audit[cs.request] = "none"

\* The inductive invariant.
IInv == /\ TypeOK /\ InOrder /\ Created
        /\ Tracked /\ OwnBeatUntrusted
        /\ RefusedForStrangersOnly /\ Unanswered

-----------------------------------------------------------------------------
(* The operators.                                                          *)

\* The section of nobody.
LEMMA IdleType ==
    /\ Idle \in Sections
    /\ Idle.step = "idle" /\ Idle.row.proc = NoProc /\ ~Idle.stamped
    /\ Idle.action = "start" /\ Idle.request = NoRequest
  BY DEF Idle, Sections, Steps, Actions, Row, Statuses, Responses

\* An answer ends the work of a transaction and keeps its row.
LEMMA AnswerFields ==
    ASSUME cs \in Sections, NEW r \in Responses
    PROVE  /\ Answer(r) \in Sections
           /\ Answer(r).step = "commit" /\ Answer(r).row = cs.row
           /\ Answer(r).action = cs.action /\ Answer(r).request = cs.request
           /\ Answer(r).stamped = cs.stamped /\ Answer(r).later = cs.later
  BY DEF Answer, Sections, Steps

\* A row that exists is stopped, and stamped with the time of the stop.
LEMMA StopRowFields ==
    ASSUME cs \in Sections
    PROVE  /\ StopRow \in Sections
           /\ StopRow.step = IF cs.action = "restart" THEN "start" ELSE "commit"
           /\ StopRow.action = cs.action /\ StopRow.request = cs.request
           /\ StopRow.row.proc = IF cs.row.status = "none" THEN cs.row.proc
                                 ELSE NoProc
           /\ StopRow.row.status = IF cs.row.status = "none" THEN "none"
                                   ELSE "stopped"
           /\ StopRow.stamped <=> cs.row.status # "none"
           /\ ~StopRow.later
  BY DEF StopRow, Sections, Steps, Row, Statuses, Responses

\* A start names its process in the row of the transaction.
LEMMA StartedFields ==
    ASSUME cs \in Sections, NEW p \in Procs, Started(p)
    PROVE  /\ cs' \in Sections
           /\ cs'.step = "commit" /\ cs'.action = cs.action
           /\ cs'.request = cs.request /\ ~cs'.stamped
           /\ cs'.row.status = "running" /\ cs'.row.proc = p
  <1>1. "ok" \in Responses
    BY DEF Responses
  <1>2. [status |-> "running", proc |-> p] \in Row
    BY ProcAssumption DEF Row, Statuses
  <1> QED
    BY <1>1, <1>2, AnswerFields DEF Started, Sections

\* A transaction opens with the committed row and without a stamp.
LEMMA OpenedFields ==
    ASSUME registry \in Row, NEW r \in Requests \cup {NoRequest}, NEW a \in Actions,
           NEW s \in Steps
    PROVE  /\ Opened(r, a, s) \in Sections
           /\ Opened(r, a, s).step = s /\ Opened(r, a, s).action = a
           /\ Opened(r, a, s).request = r
           /\ Opened(r, a, s).row = registry /\ ~Opened(r, a, s).stamped
  BY IdleType DEF Opened, Idle, Sections

-----------------------------------------------------------------------------
(* The first state and the steps.                                          *)

\* The first state: nothing runs and nothing is known.
LEMMA InitIInv == Init => IInv
  <1> SUFFICES ASSUME Init PROVE IInv
    OBVIOUS
  <1>1. Live = {}
    BY DEF Init, Live
  <1>2. TypeOK
    <2>1. [status |-> "none", proc |-> NoProc] \in Row
      BY DEF Row, Statuses
    <2>2. /\ beat \in 0 .. Timeout + 1
          /\ webs \in 0 .. MaxWebs /\ faults \in 0 .. MaxFaults
      BY BoundAssumption DEF Init
    <2> QED
      BY IdleType, <2>1, <2>2 DEF Init, TypeOK, Responses
  <1>3. InOrder /\ Created
    BY IdleType DEF Init, InOrder, Created
  <1>4. Tracked /\ OwnBeatUntrusted
    BY <1>1 DEF Init, Tracked, OwnBeatUntrusted
  <1>5. RefusedForStrangersOnly /\ Unanswered
    BY IdleType DEF Init, RefusedForStrangersOnly, Unanswered
  <1> QED
    BY <1>2, <1>3, <1>4, <1>5 DEF IInv

\* The clock: only the age of the heartbeat moves.
LEMMA TickStep == ASSUME IInv, Tick PROVE IInv'
  <1>1. /\ UNCHANGED <<web, cs, owned, registry, audit, proc, starter, beatNew,
                       beatBy, refused, clean, webs, faults>>
        /\ beat <= Timeout /\ beat' = beat + 1
    BY DEF Tick, ghosts
  <1>2. TypeOK'
    BY <1>1, BoundAssumption DEF IInv, TypeOK
  <1>3. InOrder' /\ Created' /\ Tracked' /\ OwnBeatUntrusted'
    BY <1>1 DEF IInv, InOrder, Created, Tracked, OwnBeatUntrusted, Uncommitted,
       Known, Untrusted, Live
  <1>4. RefusedForStrangersOnly' /\ Unanswered'
    BY <1>1 DEF IInv, RefusedForStrangersOnly, Unanswered
  <1> QED
    BY <1>2, <1>3, <1>4 DEF IInv

\* A request begins: it sees the committed row.
LEMMA BeginStep ==
    ASSUME IInv, WebStarts \/ \E r \in Requests : Execute(r)
    PROVE  IInv'
  <1>1. /\ UNCHANGED <<registry, audit, proc, starter, beat, beatNew, beatBy,
                       refused, clean, faults>>
        /\ web' = "starting" \/ (web' = "up" /\ web = "up")
        /\ owned' = owned \/ owned' = NoProc
        /\ webs' = webs \/ (webs < MaxWebs /\ webs' = webs + 1)
    BY DEF WebStarts, Execute, world, ghosts
  <1> DEFINE
        Begun(r, a, s) ==
          /\ cs.step = "idle" /\ cs' = Opened(r, a, s)
          /\ web' = "starting" => a = "ensure" /\ s = "start"
          /\ r \in Requests => audit[r] = "none"
  <1>2. PICK r \in Requests \cup {NoRequest}, a \in Actions, s \in {"start", "stop"} :
          Begun(r, a, s)
    <2>1. CASE WebStarts
      <3>1. Begun(NoRequest, "ensure", "start")
        BY <2>1, RequestAssumption DEF WebStarts, IInv, InOrder
      <3> QED
        BY <3>1 DEF Actions
    <2>2. ASSUME NEW r \in Requests, Execute(r)
          PROVE  \E a \in Actions, s \in {"start", "stop"} : Begun(r, a, s)
      <3>1. PICK a \in {"start", "stop", "restart"} :
              cs' = Opened(r, a, IF a = "start" THEN "start" ELSE "stop")
        BY <2>2 DEF Execute
      <3>2. Begun(r, a, IF a = "start" THEN "start" ELSE "stop")
        BY <2>2, <3>1 DEF Execute
      <3> QED
        BY <3>2 DEF Actions
    <2> QED
      BY <2>1, <2>2
  <1>3. /\ cs' \in Sections
        /\ cs'.step = s /\ cs'.action = a /\ cs'.request = r
        /\ cs'.row = registry /\ ~cs'.stamped
    BY <1>2, OpenedFields DEF IInv, TypeOK, Steps
  <1>4. TypeOK'
    BY <1>1, <1>3, BoundAssumption DEF IInv, TypeOK
  <1>5. InOrder' /\ Created'
    BY <1>1, <1>2, <1>3 DEF IInv, InOrder, Created, Uncommitted
  <1>6. Tracked'
    BY <1>1, <1>2, <1>3 DEF IInv, Tracked, Known, Live
  <1>7. OwnBeatUntrusted'
    BY <1>1, <1>2, <1>3 DEF IInv, OwnBeatUntrusted, Untrusted
  <1>8. RefusedForStrangersOnly' /\ Unanswered'
    BY <1>1, <1>2, <1>3 DEF IInv, RefusedForStrangersOnly, Unanswered
  <1> QED
    BY <1>4, <1>5, <1>6, <1>7, <1>8 DEF IInv

\* A request is answered without a process: one runs already, somebody else's
\* heartbeat forbids it, or a process cannot be terminated.
LEMMA AnsweredStep ==
    ASSUME IInv, AlreadyRunning \/ Refuse \/ TerminateFails
    PROVE  IInv'
  <1>1. PICK r \in Responses :
          /\ UNCHANGED <<web, owned, registry, audit, proc, starter, beat,
                         beatNew, beatBy, clean, webs, faults>>
          /\ cs.step # "idle" /\ cs' = Answer(r)
          /\ AlreadyRunning => cs.row.status = "running"
          /\ Refuse \/ TerminateFails => cs.step # "start" \/ cs.action # "ensure"
          /\ refused' = refused \/ (Refuse /\ refused' = beatBy)
    BY DEF AlreadyRunning, Refuse, TerminateFails, world, ghosts, Responses,
       Inspect, Ignores
  <1>2. /\ cs' \in Sections
        /\ cs'.step = "commit" /\ cs'.row = cs.row
        /\ cs'.action = cs.action /\ cs'.request = cs.request
        /\ cs'.stamped = cs.stamped /\ cs'.later = cs.later
    BY <1>1, AnswerFields DEF IInv, TypeOK
  <1>3. TypeOK'
    BY <1>1, <1>2 DEF IInv, TypeOK
  <1>4. InOrder'
    BY <1>1, <1>2 DEF IInv, InOrder, Uncommitted
  <1>5. Created' /\ Tracked'
    BY <1>1, <1>2 DEF IInv, Created, Tracked, Known, Live
  <1>6. OwnBeatUntrusted' /\ Unanswered'
    BY <1>1, <1>2 DEF IInv, OwnBeatUntrusted, Untrusted, Uncommitted, Unanswered
  <1>7. RefusedForStrangersOnly'
    <2>1. CASE refused' = refused
      BY <1>1, <2>1 DEF IInv, RefusedForStrangersOnly
    <2>2. CASE Refuse /\ refused' = beatBy
      <3>1. web = "up"
        BY <1>1, <2>2 DEF IInv, TypeOK, InOrder, Refuse, Ignores
      <3>2. ~Untrusted(cs.row, IF cs.stamped THEN cs.later ELSE beatNew)
        BY <2>2 DEF Refuse, Fresh, fresh_supervisor_heartbeat, Untrusted
      <3>3. clean /\ beatBy # NoProc => starter[beatBy] = "operator"
        BY <1>1, <3>1, <3>2 DEF IInv, OwnBeatUntrusted
      <3> QED
        BY <1>1, <2>2, <3>3 DEF RefusedForStrangersOnly
    <2> QED
      BY <1>1, <2>1, <2>2
  <1> QED
    BY <1>3, <1>4, <1>5, <1>6, <1>7 DEF IInv

\* A row that is to be stopped runs: the termination begins.
LEMMA StopRunningStep == ASSUME IInv, StopRunning PROVE IInv'
  <1>1. /\ UNCHANGED <<web, owned, registry, audit, proc, starter, beat, beatNew,
                       beatBy, refused, clean, webs, faults>>
        /\ cs.step = "stop" /\ cs.row.status = "running"
        /\ cs' = [cs EXCEPT !.step = "terminate"]
    BY DEF StopRunning, world, ghosts, Inspect
  <1>2. /\ cs' \in Sections
        /\ cs'.step = "terminate" /\ cs'.row = cs.row
        /\ cs'.action = cs.action /\ cs'.request = cs.request
        /\ cs'.stamped = cs.stamped /\ cs'.later = cs.later
    BY <1>1 DEF IInv, TypeOK, Sections, Steps
  <1>3. TypeOK'
    BY <1>1, <1>2 DEF IInv, TypeOK
  <1>4. InOrder' /\ Created' /\ Tracked'
    BY <1>1, <1>2 DEF IInv, InOrder, Uncommitted, Created, Tracked, Known, Live
  <1>5. OwnBeatUntrusted' /\ RefusedForStrangersOnly' /\ Unanswered'
    BY <1>1, <1>2 DEF IInv, OwnBeatUntrusted, Untrusted, Uncommitted,
       RefusedForStrangersOnly, Unanswered
  <1> QED
    BY <1>3, <1>4, <1>5 DEF IInv

\* A process is started where the known one does not run, or where its
\* identity cannot be read, and then the account is lost.
LEMMA StartStep ==
    ASSUME IInv, NEW p \in Procs, Start(p) \/ StartBesideUnverifiable(p)
    PROVE  IInv'
  <1>1. /\ UNCHANGED <<web, registry, audit, beat, beatNew, beatBy, refused,
                       webs>>
        /\ cs.step = "start" /\ Started(p) /\ proc[p] = "unused"
        /\ proc' = [proc EXCEPT ![p] = "running"]
        /\ starter' = [starter EXCEPT ![p] = cs.request]
        /\ owned' = p
        /\ clean' = clean \/ clean' = FALSE
        /\ faults' = faults \/ (faults < MaxFaults /\ faults' = faults + 1)
        /\ clean' => Inspect(cs.row) = "stopped"
    BY DEF Start, StartBesideUnverifiable, Started, IsNext, MayStart,
       Unverifiable
  <1>2. /\ cs' \in Sections
        /\ cs'.step = "commit" /\ cs'.action = cs.action
        /\ cs'.request = cs.request /\ ~cs'.stamped
        /\ cs'.row.status = "running" /\ cs'.row.proc = p
    BY <1>1, StartedFields DEF IInv, TypeOK
  <1>3. p \notin Live /\ Live' = Live \cup {p} /\ p # NoProc /\ p # registry.proc
    BY <1>1, ProcAssumption DEF IInv, TypeOK, Live, Created
  <1>4. /\ cs.request \in Requests \cup {NoRequest} /\ cs.request # "operator"
        /\ starter'[p] = cs.request
        /\ \A q \in Procs \ {p} : starter'[q] = starter[q] /\ proc'[q] = proc[q]
        /\ proc'[p] = "running"
    BY <1>1, RequestAssumption DEF IInv, TypeOK, Sections
  <1>5. beatBy # p /\ refused # p
    BY <1>1, ProcAssumption DEF IInv, Created
  <1>6. clean' \in BOOLEAN /\ faults' \in 0 .. MaxFaults
    <2>1. clean' \in BOOLEAN
      BY <1>1 DEF IInv, TypeOK
    <2>2. faults' \in 0 .. MaxFaults
      BY <1>1, BoundAssumption DEF IInv, TypeOK
    <2> QED
      BY <2>1, <2>2
  <1>7. TypeOK'
    <2>1. /\ proc' \in [Procs -> {"unused", "running", "dead"}]
          /\ starter' \in [Procs -> Requests \cup {NoRequest, "operator"}]
      BY <1>1, <1>4 DEF IInv, TypeOK
    <2> QED
      BY <1>1, <1>2, <1>6, <2>1 DEF IInv, TypeOK
  <1>8. InOrder' /\ Created'
    BY <1>1, <1>2, <1>3, <1>4, <1>5 DEF IInv, TypeOK, InOrder, Created, Uncommitted
  <1>9. Tracked'
    <2>1. ASSUME clean', NEW q \in Live, starter[q] # "operator", q # p
          PROVE  FALSE
      <3>1. q = cs.row.proc
        BY <1>1, <2>1 DEF IInv, Tracked, Known
      <3>2. cs.row.status = "running"
        BY <3>1, ProcAssumption DEF IInv, TypeOK, Sections, Row, Live
      <3> QED
        BY <1>1, <2>1, <3>1, <3>2 DEF Inspect
    <2> QED
      BY <1>2, <1>3, <1>4, <2>1 DEF Tracked, Known, Live
  <1>10. OwnBeatUntrusted'
    BY <1>1, <1>2, <1>3 DEF OwnBeatUntrusted, Untrusted, Uncommitted
  <1>11. RefusedForStrangersOnly' /\ Unanswered'
    BY <1>1, <1>2, <1>4, <1>5 DEF IInv, TypeOK, RefusedForStrangersOnly, Unanswered
  <1> QED
    BY <1>7, <1>8, <1>9, <1>10, <1>11 DEF IInv

\* The row is stopped: what the service knew is dead, or the account is lost.
LEMMA StoppedStep ==
    ASSUME IInv, Terminated \/ StopNothing \/ StopUnverifiable
    PROVE  IInv'
  <1>1. /\ UNCHANGED <<web, registry, audit, starter, beat, beatNew, beatBy,
                       refused, webs>>
        /\ cs.step \in {"stop", "terminate"} /\ cs' = StopRow
        /\ owned' = NoProc
        /\ proc' = proc \/ proc' = [proc EXCEPT ![cs.row.proc] = "dead"]
        /\ clean' = clean \/ clean' = FALSE
        /\ faults' = faults \/ (faults < MaxFaults /\ faults' = faults + 1)
    BY DEF Terminated, StopNothing, StopUnverifiable, world, ghosts, Unverifiable
  <1>2. /\ cs' \in Sections
        /\ cs'.step = IF cs.action = "restart" THEN "start" ELSE "commit"
        /\ cs'.action = cs.action /\ cs'.request = cs.request
        /\ cs'.row.proc = IF cs.row.status = "none" THEN cs.row.proc ELSE NoProc
        /\ cs'.row.status = IF cs.row.status = "none" THEN "none" ELSE "stopped"
        /\ cs'.stamped <=> cs.row.status # "none"
        /\ ~cs'.later
    BY <1>1, StopRowFields DEF IInv, TypeOK
  <1>3. cs.row \in Row /\ cs'.row.proc = NoProc
    BY <1>2 DEF IInv, TypeOK, Sections, Row
  <1>4. /\ proc' \in [Procs -> {"unused", "running", "dead"}]
        /\ Live' \subseteq Live
        /\ \A q \in Procs : proc'[q] = "unused" <=> proc[q] = "unused"
    <2>1. CASE proc' = proc
      BY <2>1 DEF Live, IInv, TypeOK
    <2>2. CASE proc' = [proc EXCEPT ![cs.row.proc] = "dead"]
      <3>1. cs.row.proc # NoProc => proc[cs.row.proc] # "unused"
        BY DEF IInv, Created
      <3>2. proc \in [Procs -> {"unused", "running", "dead"}]
        BY DEF IInv, TypeOK
      <3>3. CASE cs.row.proc = NoProc
        BY <2>2, <3>2, <3>3, ProcAssumption DEF Live
      <3>4. CASE cs.row.proc # NoProc
        BY <2>2, <3>1, <3>2, <3>4 DEF Live
      <3> QED
        BY <3>3, <3>4
    <2> QED
      BY <1>1, <2>1, <2>2
  <1>5. ASSUME clean', NEW q \in Live', starter[q] # "operator" PROVE FALSE
    <2>1. q = cs.row.proc /\ q \in Procs /\ q \in Live
      BY <1>1, <1>4, <1>5 DEF IInv, Tracked, Known, Live
    <2>2. cs.row.status = "running" /\ Inspect(cs.row) = "running"
      BY <1>3, <2>1, ProcAssumption DEF Inspect, Row
    <2>3. CASE Terminated
      BY <1>5, <2>1, <2>3 DEF Terminated, Live, IInv, TypeOK
    <2> QED
      BY <1>5, <2>2, <2>3 DEF StopNothing, StopUnverifiable
  <1>6. clean' \in BOOLEAN /\ faults' \in 0 .. MaxFaults
    <2>1. clean' \in BOOLEAN
      BY <1>1 DEF IInv, TypeOK
    <2>2. faults' \in 0 .. MaxFaults
      BY <1>1, BoundAssumption DEF IInv, TypeOK
    <2> QED
      BY <2>1, <2>2
  <1>7. TypeOK'
    BY <1>1, <1>2, <1>4, <1>6 DEF IInv, TypeOK
  <1>8. InOrder'
    BY <1>1, <1>2, <1>3 DEF IInv, InOrder, Uncommitted
  <1>9. Created'
    BY <1>1, <1>3, <1>4 DEF IInv, TypeOK, Created, Row
  <1>10. Tracked'
    BY <1>1, <1>5 DEF Tracked
  <1>11. OwnBeatUntrusted'
    BY <1>1, <1>2, <1>3 DEF IInv, OwnBeatUntrusted, InOrder, Untrusted, TypeOK,
       Row, Statuses
  <1>12. RefusedForStrangersOnly' /\ Unanswered'
    BY <1>1, <1>2 DEF IInv, RefusedForStrangersOnly, Unanswered
  <1> QED
    BY <1>7, <1>8, <1>9, <1>10, <1>11, <1>12 DEF IInv

\* A process ends by itself, or with the web process that owns it.
LEMMA EndStep ==
    ASSUME IInv, WebCloses \/ \E p \in Procs : Dies(p)
    PROVE  IInv'
  <1>1. /\ UNCHANGED <<cs, registry, audit, starter, beat, beatNew, beatBy,
                       refused, clean, webs, faults>>
        /\ web' = web \/ (web' = "down" /\ cs.step = "idle")
        /\ owned' = owned \/ (owned' = NoProc /\ cs.step = "idle")
    BY DEF WebCloses, Dies, ghosts
  <1>2. /\ proc' \in [Procs -> {"unused", "running", "dead"}]
        /\ \A q \in Procs : /\ proc'[q] = "unused" <=> proc[q] = "unused"
                            /\ proc'[q] = proc[q] \/ proc'[q] = "dead"
    BY DEF WebCloses, Dies, Live, IInv, TypeOK
  <1>3. Live' \subseteq Live
    BY <1>2 DEF Live
  <1>4. TypeOK'
    BY <1>1, <1>2 DEF IInv, TypeOK
  <1>5. InOrder' /\ Created'
    BY <1>1, <1>2 DEF IInv, TypeOK, InOrder, Created, Uncommitted, Sections, Row
  <1>6. Tracked'
    BY <1>1, <1>3 DEF IInv, Tracked, Known
  <1>7. OwnBeatUntrusted' /\ RefusedForStrangersOnly' /\ Unanswered'
    BY <1>1 DEF IInv, OwnBeatUntrusted, Untrusted, Uncommitted,
       RefusedForStrangersOnly, Unanswered
  <1> QED
    BY <1>4, <1>5, <1>6, <1>7 DEF IInv

\* A transaction is lost; a process that it had started is dead too, or the
\* account is lost with it.
LEMMA LossStep ==
    ASSUME IInv, WebDies \/ CommitFails \/ \E p \in Procs : StartRaises(p)
    PROVE  IInv'
  <1>1. /\ UNCHANGED <<registry, audit, starter, beat, beatNew, beatBy, refused,
                       webs>>
        /\ cs' = Idle
        /\ owned' = owned \/ owned' = NoProc
        /\ web' = "down" \/ (web' = web /\ web # "starting")
        /\ faults' = faults \/ (faults < MaxFaults /\ faults' = faults + 1)
    <2>1. CASE WebDies
      BY <2>1 DEF WebDies, world
    <2>2. CASE CommitFails
      BY <2>2 DEF CommitFails, RollsBack
    <2>3. CASE \E p \in Procs : StartRaises(p)
      BY <2>3 DEF StartRaises, RollsBack
    <2> QED
      BY <2>1, <2>2, <2>3
  <1>2. /\ proc' \in [Procs -> {"unused", "running", "dead"}]
        /\ \A q \in Procs : /\ proc'[q] = "unused" => proc[q] = "unused"
                            /\ proc'[q] = proc[q] \/ proc'[q] = "dead"
    BY DEF WebDies, CommitFails, StartRaises, Live, world, IInv, TypeOK
  <1>3. Live' \subseteq Live
    BY <1>2 DEF Live
  <1>4. /\ clean' \in BOOLEAN /\ (clean' => clean)
        /\ clean' /\ cs.step # "idle" /\ Uncommitted => cs.row.proc \notin Live'
        /\ clean' /\ cs.step # "idle" /\ Uncommitted => web = "starting"
    <2>1. clean \in BOOLEAN
      BY DEF IInv, TypeOK
    <2>2. CASE WebDies
      BY <2>1, <2>2 DEF WebDies
    <2>3. CASE CommitFails
      <3>1. clean' = (clean /\ (web = "starting" \/ ~Uncommitted))
        BY <2>3 DEF CommitFails
      <3>2. cs.step # "idle" /\ Uncommitted => owned = cs.row.proc
        BY DEF IInv, InOrder
      <3>3. web = "starting" => owned \notin Live'
        BY <2>3 DEF CommitFails, Live
      <3> QED
        BY <2>1, <3>1, <3>2, <3>3
    <2>4. CASE \E p \in Procs : StartRaises(p)
      <3>1. clean' = clean /\ cs.step = "start"
        BY <2>4 DEF StartRaises
      <3> QED
        BY <2>1, <3>1 DEF IInv, InOrder
    <2> QED
      BY <2>2, <2>3, <2>4
  <1>5. TypeOK'
    <2>1. faults' \in 0 .. MaxFaults
      BY <1>1, BoundAssumption DEF IInv, TypeOK
    <2> QED
      BY <1>1, <1>2, <1>4, <2>1, IdleType DEF IInv, TypeOK
  <1>6. InOrder' /\ Unanswered'
    BY <1>1, IdleType DEF InOrder, Unanswered
  <1>7. Created'
    BY <1>1, <1>2, IdleType DEF IInv, TypeOK, Created, Row
  <1>8. Tracked'
    <2> SUFFICES ASSUME clean', NEW q \in Live', starter[q] # "operator"
                 PROVE  q = registry.proc
      BY <1>1, IdleType DEF Tracked, Known
    <2>1. q = Known /\ q \in Procs
      BY <1>3, <1>4 DEF IInv, Tracked, Live
    <2>2. CASE cs.step = "idle"
      BY <2>1, <2>2 DEF Known
    <2>3. CASE cs.step # "idle"
      BY <1>4, <2>1, <2>3, ProcAssumption DEF Known, Uncommitted
    <2> QED
      BY <2>2, <2>3
  <1>9. OwnBeatUntrusted'
    BY <1>1, <1>4, IdleType DEF IInv, OwnBeatUntrusted
  <1>10. RefusedForStrangersOnly'
    BY <1>1, <1>4 DEF IInv, RefusedForStrangersOnly
  <1> QED
    BY <1>5, <1>6, <1>7, <1>8, <1>9, <1>10 DEF IInv

\* The commit makes the row of the transaction the one that everybody sees.
LEMMA CommitStep == ASSUME IInv, Commit PROVE IInv'
  <1>1. /\ UNCHANGED <<owned, proc, starter, beat, beatBy, refused, clean, webs,
                       faults>>
        /\ cs.step = "commit" /\ cs' = Idle /\ web' = "up"
        /\ registry' = cs.row
        /\ beatNew' = IF cs.stamped THEN cs.later ELSE beatNew
    BY DEF Commit, ghosts
  <1>2. audit' \in [Requests -> Responses]
    BY DEF Commit, IInv, TypeOK, Sections
  <1>3. TypeOK'
    BY <1>1, <1>2, IdleType DEF IInv, TypeOK, Sections
  <1>4. InOrder' /\ Created' /\ Unanswered'
    BY <1>1, IdleType DEF IInv, InOrder, Created, Unanswered
  <1>5. Tracked' /\ RefusedForStrangersOnly'
    BY <1>1, IdleType DEF IInv, Tracked, Known, Live, RefusedForStrangersOnly
  <1>6. OwnBeatUntrusted'
    BY <1>1, IdleType DEF IInv, TypeOK, InOrder, OwnBeatUntrusted, Untrusted
  <1> QED
    BY <1>3, <1>4, <1>5, <1>6 DEF IInv

\* A heartbeat, alone or with the end of a standalone process.
LEMMA BeatStep ==
    ASSUME IInv, NEW p \in Procs, Beats(p) \/ Interrupted(p)
    PROVE  IInv'
  <1>1. /\ UNCHANGED <<web, owned, registry, audit, starter, refused, clean,
                       webs, faults>>
        /\ beat' = 0 /\ beatNew' = TRUE /\ beatBy' = p
        /\ cs' = [cs EXCEPT !.later = cs.stamped]
    BY DEF Beats, Interrupted, Heartbeat, ghosts
  <1>2. /\ cs' \in Sections
        /\ cs'.step = cs.step /\ cs'.row = cs.row
        /\ cs'.action = cs.action /\ cs'.request = cs.request
        /\ cs'.stamped = cs.stamped /\ (cs'.later <=> cs.stamped)
    BY <1>1 DEF IInv, TypeOK, Sections
  <1>3. /\ proc' \in [Procs -> {"unused", "running", "dead"}]
        /\ \A q \in Procs : proc'[q] = "unused" <=> proc[q] = "unused"
        /\ p \in Live /\ Live' \subseteq Live /\ proc'[p] # "unused"
        /\ Interrupted(p) => starter[p] = "operator"
    BY DEF Beats, Interrupted, Live, IInv, TypeOK
  <1>4. TypeOK'
    BY <1>1, <1>2, <1>3, BoundAssumption DEF IInv, TypeOK
  <1>5. InOrder' /\ Unanswered'
    BY <1>1, <1>2 DEF IInv, InOrder, Unanswered, Uncommitted
  <1>6. Created'
    BY <1>1, <1>2, <1>3 DEF IInv, TypeOK, Created, Sections, Row
  <1>7. RefusedForStrangersOnly'
    BY <1>1 DEF IInv, RefusedForStrangersOnly
  <1>8. Tracked'
    BY <1>1, <1>2, <1>3 DEF IInv, Tracked, Known
  <1>9. OwnBeatUntrusted'
    <2> SUFFICES ASSUME clean, starter[p] # "operator"
                 PROVE  /\ (cs.step = "idle" \/ ~Uncommitted)
                           => registry.status = "running"
                        /\ cs.step # "idle" => cs.row.status = "running"
      BY <1>1, <1>2 DEF OwnBeatUntrusted, Untrusted, Uncommitted
    <2>1. p = Known /\ p # NoProc
      BY <1>3, ProcAssumption DEF IInv, Tracked, Live
    <2>2. /\ registry.proc = p => registry.status = "running"
          /\ cs.row.proc = p => cs.row.status = "running"
      BY <2>1 DEF IInv, TypeOK, Sections, Row
    <2> QED
      BY <2>1, <2>2 DEF Known, Uncommitted
  <1> QED
    BY <1>4, <1>5, <1>6, <1>7, <1>8, <1>9 DEF IInv

\* The operator starts a process that the service does not know of.
LEMMA StandaloneStep ==
    ASSUME IInv, NEW p \in Procs, StandaloneStarts(p)
    PROVE  IInv'
  <1>1. /\ UNCHANGED <<web, cs, owned, registry, audit, beat, beatNew, beatBy,
                       refused, clean, webs, faults>>
        /\ proc[p] = "unused"
        /\ proc' = [proc EXCEPT ![p] = "running"]
        /\ starter' = [starter EXCEPT ![p] = "operator"]
    BY DEF StandaloneStarts, IsNext, ghosts
  <1>2. /\ proc'[p] = "running" /\ starter'[p] = "operator"
        /\ \A q \in Procs \ {p} : starter'[q] = starter[q] /\ proc'[q] = proc[q]
        /\ Live' = Live \cup {p}
    BY <1>1 DEF IInv, TypeOK, Live
  <1>3. beatBy # p /\ refused # p
    BY <1>1, ProcAssumption DEF IInv, Created
  <1>4. TypeOK'
    BY <1>1 DEF IInv, TypeOK
  <1>5. InOrder' /\ Unanswered'
    BY <1>1 DEF IInv, InOrder, Unanswered, Uncommitted
  <1>6. Created'
    BY <1>1, <1>2 DEF IInv, TypeOK, Created, Sections, Row
  <1>7. Tracked'
    BY <1>1, <1>2 DEF IInv, Tracked, Known, Live
  <1>8. OwnBeatUntrusted'
    BY <1>1, <1>2, <1>3 DEF IInv, TypeOK, OwnBeatUntrusted, Untrusted, Uncommitted
  <1>9. RefusedForStrangersOnly'
    BY <1>1, <1>2, <1>3 DEF IInv, TypeOK, RefusedForStrangersOnly
  <1> QED
    BY <1>4, <1>5, <1>6, <1>7, <1>8, <1>9 DEF IInv

\* No step breaks the invariant, wherever the web process and the component
\* end.
THEOREM Inductive == IInv /\ [Next]_vars => IInv'
  <1> SUFFICES ASSUME IInv, [Next]_vars PROVE IInv'
    OBVIOUS
  <1>1. CASE \/ WebStarts \/ AlreadyRunning \/ Refuse \/ StopRunning \/ Terminated
             \/ TerminateFails \/ StopNothing \/ StopUnverifiable \/ Commit
             \/ CommitFails \/ WebCloses \/ WebDies \/ Tick
             \/ \E r \in Requests : Execute(r)
    BY <1>1, BeginStep, AnsweredStep, StopRunningStep, StoppedStep, CommitStep,
       LossStep, EndStep, TickStep
  <1>2. CASE \E p \in Procs :
                \/ Start(p) \/ StartBesideUnverifiable(p) \/ StartRaises(p)
                \/ Beats(p) \/ Dies(p) \/ Interrupted(p) \/ StandaloneStarts(p)
    BY <1>2, StartStep, LossStep, EndStep, BeatStep, StandaloneStep
  <1>3. CASE UNCHANGED vars
    BY <1>3 DEF vars, world, ghosts, IInv, TypeOK, InOrder, Created, Tracked,
       OwnBeatUntrusted, RefusedForStrangersOnly, Unanswered, Uncommitted,
       Untrusted, Known, Live
  <1> QED
    BY <1>1, <1>2, <1>3 DEF Next

\* The invariant holds in every behaviour of the service.
THEOREM Invariant == Spec => []IInv
  BY InitIInv, Inductive, PTL DEF Spec

-----------------------------------------------------------------------------
(* What follows for every behaviour.                                       *)

\* TypeOK, and with it that a row names a process only while it says running.
THEOREM TypeTheorem == Spec => []TypeOK
  <1>1. IInv => TypeOK
    BY DEF IInv
  <1> QED
    BY <1>1, Invariant, PTL

\* OneSupervisor: whatever the service starts next, the process that it knows
\* is dead by then, so it never runs the component twice, whoever else does.
THEOREM OneTheorem == Spec => []OneSupervisor
  <1>1. IInv => OneSupervisor
    BY DEF IInv, Tracked, OneSupervisor
  <1> QED
    BY <1>1, Invariant, PTL

\* StoppedMeansStopped: a committed row that says stopped leaves no process
\* that the service has started.
THEOREM StoppedTheorem == Spec => []StoppedMeansStopped
  <1>1. ASSUME IInv, clean, cs.step = "idle", registry.status = "stopped",
               NEW p \in Live
        PROVE  starter[p] = "operator"
    <2>1. registry.proc = NoProc /\ p # NoProc
      BY <1>1, ProcAssumption DEF IInv, TypeOK, Row, Live
    <2> QED
      BY <1>1, <2>1 DEF IInv, Tracked, Known
  <1>2. IInv => StoppedMeansStopped
    BY <1>1 DEF StoppedMeansStopped
  <1> QED
    BY <1>2, Invariant, PTL

\* RefusedForStrangersOnly: the service never refuses for the heartbeat of a
\* process that it has started, and perhaps stopped, itself.
THEOREM RefusalTheorem == Spec => []RefusedForStrangersOnly
  <1>1. IInv => RefusedForStrangersOnly
    BY DEF IInv
  <1> QED
    BY <1>1, Invariant, PTL

\* RequestActsOnce: once a request is answered it starts nothing, however
\* often it is sent again.
THEOREM OnceTheorem == Spec => RequestActsOnce
  <1>1. ASSUME IInv, [Next]_vars, NEW r \in Requests, audit[r] # "none",
               NEW p \in Procs
        PROVE  starter'[p] = r <=> starter[p] = r
    <2>1. ASSUME NEW x \in Procs, Started(x), cs.step = "start"
          PROVE  starter'[p] = r <=> starter[p] = r
      <3>1. proc[x] = "unused" /\ starter[x] = NoRequest
        BY <1>1, <2>1 DEF Started, IsNext, IInv, Created
      <3>2. cs.request # r
        BY <1>1, <2>1 DEF IInv, Unanswered
      <3> QED
        BY <1>1, <2>1, <3>1, <3>2, RequestAssumption DEF Started, IInv, TypeOK
    <2>2. ASSUME NEW x \in Procs, StandaloneStarts(x)
          PROVE  starter'[p] = r <=> starter[p] = r
      <3>1. proc[x] = "unused" /\ starter[x] = NoRequest
        BY <1>1, <2>2 DEF StandaloneStarts, IsNext, IInv, Created
      <3> QED
        BY <1>1, <2>2, <3>1, RequestAssumption DEF StandaloneStarts, IInv, TypeOK
    <2>3. \/ starter' = starter
          \/ \E x \in Procs : \/ Started(x) /\ cs.step = "start"
                              \/ StandaloneStarts(x)
      BY <1>1 DEF Next, vars, world, WebStarts, AlreadyRunning, Refuse,
         StopRunning, Terminated, TerminateFails, StopNothing, StopUnverifiable,
         Commit, CommitFails, WebCloses, WebDies, Tick, Execute, Start,
         StartBesideUnverifiable, StartRaises, Beats, Dies, Interrupted, RollsBack
    <2> QED
      BY <2>1, <2>2, <2>3
  <1>2. ASSUME IInv, [Next]_vars
        PROVE  \A r \in Requests : audit[r] # "none" =>
                 {p \in Procs : starter'[p] = r} = {p \in Procs : starter[p] = r}
    BY <1>1, <1>2
  <1> QED
    BY <1>2, Invariant, PTL DEF Spec, RequestActsOnce
=============================================================================

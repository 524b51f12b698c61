-------------------------------- MODULE Fleet --------------------------------
(***************************************************************************)
(* The fleet coordinator of browser-helper (src/src/fleet): worker nodes,  *)
(* the sessions allocated to them, the health poller and the failover of a *)
(* node that went down.                                                    *)
(*                                                                         *)
(* The coordinator runs on one asyncio event loop.  Its storage is SQLite  *)
(* behind an asyncio lock that is never contended, so no storage call      *)
(* yields, and neither does the capture of a session's state.  A task      *)
(* gives way to others only while it waits for a worker: for the answer to *)
(* a launch or to a health probe.  An action is a stretch between two such *)
(* answers; a failover or a check goes through the stretch session by      *)
(* session and node by node, in the phases of Running, and while a task is *)
(* in one of them no other task moves.                                     *)
(*                                                                         *)
(* Left out: node capabilities and urls (pairwise different), captured     *)
(* state, and the API's affinity, capacity and deletion operations, which  *)
(* no caller uses.                                                         *)
(***************************************************************************)
EXTENDS Naturals, Sequences, FiniteSets, SequencesExt

CONSTANTS
    Nodes,       (* worker nodes; a node registered anew is another node     *)
    Sessions,    (* session ids; clients may choose them                     *)
    Clients,     (* tasks that serve POST /fleet/session                     *)
    Operators,   (* tasks that serve rechecks and POST /fleet/failover       *)
    Rechecked,   (* the rows that operators recheck one by one               *)
    Poller,      (* the poll loop's task                                     *)
    Capacity,    (* capacity of a worker                                     *)
    MaxQueue,    (* max_queue                                                *)
    Overlap,     (* bound: tasks in progress at the same time                *)
    Local,       (* node_local, the coordinator as a host                    *)
    NoNode,      (* "no node"                                                *)
    NoSession    (* "no session"                                             *)

ASSUME FleetAssumption ==
    /\ IsFiniteSet(Sessions)
    /\ IsFiniteSet(Clients)
    /\ IsFiniteSet(Operators)
    /\ Poller \notin Clients \cup Operators
    /\ Clients \cap Operators = {}
    /\ Capacity \in Nat \ {0}
    /\ MaxQueue \in Nat
    /\ Overlap \in Nat \ {0}
    /\ Local \notin Nodes
    /\ Rechecked \subseteq Nodes \cup {Local}
    /\ NoNode \notin Nodes \cup {Local}
    /\ NoSession \notin Sessions

Rows == Nodes \cup {Local}
Procs == Clients \cup Operators \cup {Poller}

VARIABLES
    reg,        (* fleet_nodes: "new" (no row), "live", or "gone"            *)
    healthy,    (* fleet_nodes.healthy                                       *)
    load,       (* fleet_nodes.active_sessions                               *)
    status,     (* fleet_sessions.status, "none" without a row               *)
    place,      (* fleet_sessions.node_id                                    *)
    queue,      (* fleet_queue: the sessions asked for                       *)
    last,       (* the checker's _last_healthy                               *)
    cooling,    (* the nodes whose _cooldown_until lies ahead                *)
    at,         (* per task: where it is                                     *)
    sid,        (* per task: the session it launches                         *)
    target,     (* per task: the node it waits for                           *)
    failed,     (* per task: allocate()'s failed_nodes                       *)
    from,       (* per task: the node it fails over                          *)
    rest,       (* per task: the sessions it has still to transfer           *)
    unprobed    (* per task: the nodes it has still to check                 *)

nodeVars == <<reg, healthy, load>>
sessionVars == <<status, place>>
checkerVars == <<last, cooling>>
launchVars == <<sid, failed>>
jobVars == <<from, rest, unprobed>>
vars == <<nodeVars, sessionVars, queue, checkerVars, at, target,
          launchVars, jobVars>>

-----------------------------------------------------------------------------
(* The storage. *)

Waiting == {"idle", "launch", "probe"}
Running == {"transfer", "check"}

(* No task holds the event loop.                                             *)
LoopFree == \A p \in Procs : at[p] \in Waiting

Busy == {p \in Procs : at[p] # "idle"}

(* An idle task takes up something new.                                      *)
MayBegin(p) == LoopFree /\ at[p] = "idle" /\ Cardinality(Busy) < Overlap

LiveNodes == {n \in Nodes : reg[n] = "live"}
ActiveOn(n) == {s \in Sessions : status[s] = "active" /\ place[s] = n}

(* update_node_health: a deregistered node is not touched.                   *)
HealthSet(n, up) ==
    IF n \in LiveNodes THEN [healthy EXCEPT ![n] = up] ELSE healthy

(* MAX(active_sessions - 1, 0)                                               *)
OneLess(count) == IF count > 0 THEN count - 1 ELSE 0

CandidatesUpToCapacity(excluded) ==
    {n \in LiveNodes \ excluded : healthy[n] /\ load[n] <= Capacity}

(* list_healthy, filtered by capacity and by what must not be selected.      *)
Candidates(excluded) ==
    {n \in LiveNodes \ excluded : healthy[n] /\ load[n] < Capacity}

(* least_loaded: whom of the tied nodes the round robin takes depends on all *)
(* earlier picks.                                                            *)
LeastLoaded(excluded) ==
    LET candidates == Candidates(excluded)
    IN {n \in candidates : \A m \in candidates : load[n] <= load[m]}

(* add_session                                                               *)
InsertRow(s, n) ==
    /\ status' = [status EXCEPT ![s] = "active"]
    /\ place' = [place EXCEPT ![s] = n]
    /\ load' = [load EXCEPT ![n] = @ + 1]

(* reassign_session: a row that is not active moves without being counted.   *)
ReassignRow(s, n) ==
    /\ status' = [status EXCEPT ![s] = "active"]
    /\ place' = [place EXCEPT ![s] = n]
    /\ load' = IF status[s] = "active" /\ place[s] # n
               THEN [load EXCEPT ![place[s]] = OneLess(@), ![n] = @ + 1]
               ELSE load

(* The record of a fresh allocation: a session id that has a row already is  *)
(* refused (session_exists), after the launch.                               *)
RecordAllocated(s, n) ==
    IF status[s] = "none" THEN InsertRow(s, n)
                          ELSE UNCHANGED <<sessionVars, load>>

(* The record of a transfer.                                                 *)
RelocateRecord(s, n) ==
    IF status[s] = "none" THEN InsertRow(s, n) ELSE ReassignRow(s, n)

(* The hidden row of the coordinator is inserted and at once deregistered.   *)
EnsureLocalNode == reg' = [reg EXCEPT ![Local] = "gone"]

-----------------------------------------------------------------------------
(* Registration. *)

Register(n) ==
    /\ LoopFree
    /\ n \in Nodes
    /\ reg[n] = "new"
    /\ reg' = [reg EXCEPT ![n] = "live"]
    /\ healthy' = [healthy EXCEPT ![n] = TRUE]
    /\ UNCHANGED <<load, sessionVars, queue, checkerVars, at, target,
                   launchVars, jobVars>>

(* The node's sessions keep their rows.                                      *)
Unregister(n) ==
    /\ LoopFree
    /\ n \in LiveNodes
    /\ reg' = [reg EXCEPT ![n] = "gone"]
    /\ healthy' = [healthy EXCEPT ![n] = FALSE]
    /\ load' = [load EXCEPT ![n] = 0]
    /\ UNCHANGED <<sessionVars, queue, checkerVars, at, target,
                   launchVars, jobVars>>

-----------------------------------------------------------------------------
(* POST /fleet/session: allocate() up to the launch request, or to the end   *)
(* when there is no candidate.  (queue_full changes nothing.)                *)

AllocateRemote(c, s) ==
    /\ MayBegin(c)
    /\ \E n \in LeastLoaded({}) : target' = [target EXCEPT ![c] = n]
    /\ sid' = [sid EXCEPT ![c] = s]
    /\ at' = [at EXCEPT ![c] = "launch"]
    /\ UNCHANGED <<nodeVars, sessionVars, queue, checkerVars, failed, jobVars>>

AllocateLocal(c, s) ==
    /\ MayBegin(c)
    /\ LiveNodes = {}
    /\ EnsureLocalNode
    /\ RecordAllocated(s, Local)
    /\ UNCHANGED <<healthy, queue, checkerVars, at, target, launchVars, jobVars>>

AllocateQueuedUnbounded(c, s) ==
    /\ MayBegin(c)
    /\ Candidates({}) = {}
    /\ LiveNodes # {}
    /\ Len(queue) <= MaxQueue
    /\ queue' = Append(queue, s)
    /\ UNCHANGED <<nodeVars, sessionVars, checkerVars, at, target,
                   launchVars, jobVars>>

AllocateQueued(c, s) ==
    /\ MayBegin(c)
    /\ Candidates({}) = {}
    /\ LiveNodes # {}
    /\ Len(queue) < MaxQueue
    /\ queue' = Append(queue, s)
    /\ UNCHANGED <<nodeVars, sessionVars, checkerVars, at, target,
                   launchVars, jobVars>>

-----------------------------------------------------------------------------
(* The answer to a launch. *)

(* The task's allocate() is over; a failover goes on with its next session.  *)
EndLaunch(p) ==
    /\ at' = [at EXCEPT ![p] = IF p \in Clients THEN "idle" ELSE "transfer"]
    /\ sid' = [sid EXCEPT ![p] = NoSession]
    /\ target' = [target EXCEPT ![p] = NoNode]
    /\ failed' = [failed EXCEPT ![p] = {}]

LaunchOK(p) ==
    /\ LoopFree
    /\ at[p] = "launch"
    /\ IF p \in Clients THEN RecordAllocated(sid[p], target[p])
                        ELSE RelocateRecord(sid[p], target[p])
    /\ EndLaunch(p)
    /\ UNCHANGED <<reg, healthy, queue, checkerVars, jobVars>>

(* allocate() never selects a node that has failed it, nor the node that is  *)
(* being failed over.                                                        *)
ExcludedFailedOnly(p) == failed[p]
ExcludedSourceOnly(p) == {from[p]}
Excluded(p) == failed[p] \cup {from[p]}

(* The node is marked unhealthy and the next candidate asked.  When none is  *)
(* left a client gets no_healthy_nodes, a failover hosts the session itself. *)
LaunchFails(p) ==
    /\ LoopFree
    /\ at[p] = "launch"
    /\ healthy' = HealthSet(target[p], FALSE)
    /\ \/ /\ \E n \in LeastLoaded(Excluded(p) \cup {target[p]}) :
                target' = [target EXCEPT ![p] = n]
          /\ failed' = [failed EXCEPT ![p] = @ \cup {target[p]}]
          /\ UNCHANGED <<reg, load, sessionVars, at, sid>>
       \/ /\ LeastLoaded(Excluded(p) \cup {target[p]}) = {}
          /\ EndLaunch(p)
          /\ IF p \in Clients
             THEN UNCHANGED <<reg, load, sessionVars>>
             ELSE EnsureLocalNode /\ RelocateRecord(sid[p], Local)
    /\ UNCHANGED <<queue, checkerVars, jobVars>>

-----------------------------------------------------------------------------
(* Health checks. *)

(* A cycle of the poll loop, or an operator's recheck of every node.         *)
CheckAll(p) ==
    /\ MayBegin(p)
    /\ p \notin Clients
    /\ at' = [at EXCEPT ![p] = "check"]
    /\ unprobed' = [unprobed EXCEPT ![p] = LiveNodes]
    /\ UNCHANGED <<nodeVars, sessionVars, queue, checkerVars, target,
                   launchVars, from, rest>>

(* A recheck of one node, deregistered or not.                               *)
CheckOne(p, n) ==
    /\ MayBegin(p)
    /\ p \in Operators
    /\ n \in Rechecked
    /\ reg[n] # "new"
    /\ at' = [at EXCEPT ![p] = "check"]
    /\ unprobed' = [unprobed EXCEPT ![p] = {n}]
    /\ UNCHANGED <<nodeVars, sessionVars, queue, checkerVars, target,
                   launchVars, from, rest>>

(* The next node is probed; the poll loop skips a node in cooldown.          *)
CheckNext(p) ==
    /\ at[p] = "check"
    /\ \E n \in unprobed[p] :
        /\ unprobed' = [unprobed EXCEPT ![p] = @ \ {n}]
        /\ IF p = Poller /\ n \in cooling
           THEN UNCHANGED <<at, target>>
           ELSE /\ at' = [at EXCEPT ![p] = "probe"]
                /\ target' = [target EXCEPT ![p] = n]
    /\ UNCHANGED <<nodeVars, sessionVars, queue, checkerVars, launchVars,
                   from, rest>>

CheckDone(p) ==
    /\ at[p] = "check"
    /\ unprobed[p] = {}
    /\ at' = [at EXCEPT ![p] = "idle"]
    /\ UNCHANGED <<nodeVars, sessionVars, queue, checkerVars, target,
                   launchVars, jobVars>>

(* The worker answers 200.                                                   *)
ProbeUp(p) ==
    /\ LoopFree
    /\ at[p] = "probe"
    /\ healthy' = HealthSet(target[p], TRUE)
    /\ last' = [last EXCEPT ![target[p]] = "up"]
    /\ cooling' = cooling \ {target[p]}
    /\ at' = [at EXCEPT ![p] = "check"]
    /\ target' = [target EXCEPT ![p] = NoNode]
    /\ UNCHANGED <<reg, load, sessionVars, queue, launchVars, jobVars>>

(* It does not: the node cools down, and at the start of an unhealthy        *)
(* episode the hook fails its sessions over before the check goes on.        *)
ProbeDown(p) ==
    /\ LoopFree
    /\ at[p] = "probe"
    /\ healthy' = HealthSet(target[p], FALSE)
    /\ last' = [last EXCEPT ![target[p]] = "down"]
    /\ cooling' = cooling \cup {target[p]}
    /\ target' = [target EXCEPT ![p] = NoNode]
    /\ IF last[target[p]] = "down"
       THEN at' = [at EXCEPT ![p] = "check"] /\ UNCHANGED <<from, rest>>
       ELSE /\ at' = [at EXCEPT ![p] = "transfer"]
            /\ from' = [from EXCEPT ![p] = target[p]]
            /\ rest' = [rest EXCEPT ![p] = ActiveOn(target[p])]
    /\ UNCHANGED <<reg, load, sessionVars, queue, launchVars, unprobed>>

CooldownEnds(n) ==
    /\ n \in cooling
    /\ cooling' = cooling \ {n}
    /\ UNCHANGED <<nodeVars, sessionVars, queue, last, at, target,
                   launchVars, jobVars>>

-----------------------------------------------------------------------------
(* Failover. *)

(* POST /fleet/failover, of a whole node or of one session.                  *)
FailoverBegin(p, n) ==
    /\ MayBegin(p)
    /\ p \in Operators
    /\ healthy' = HealthSet(n, FALSE)
    /\ at' = [at EXCEPT ![p] = "transfer"]
    /\ from' = [from EXCEPT ![p] = n]
    /\ \/ rest' = [rest EXCEPT ![p] = ActiveOn(n)]
       \/ \E s \in Sessions : rest' = [rest EXCEPT ![p] = {s}]
    /\ UNCHANGED <<reg, load, sessionVars, queue, checkerVars, target,
                   launchVars, unprobed>>

(* _transfer_session: allocate() with the failed node excluded ...           *)
TransferRemote(p) ==
    /\ at[p] = "transfer"
    /\ \E s \in rest[p], n \in LeastLoaded(Excluded(p)) :
        /\ rest' = [rest EXCEPT ![p] = @ \ {s}]
        /\ sid' = [sid EXCEPT ![p] = s]
        /\ target' = [target EXCEPT ![p] = n]
    /\ at' = [at EXCEPT ![p] = "launch"]
    /\ UNCHANGED <<nodeVars, sessionVars, queue, checkerVars, failed,
                   from, unprobed>>

(* ... or, when there is no candidate, the coordinator itself at once.       *)
TransferLocal(p) ==
    /\ at[p] = "transfer"
    /\ LeastLoaded(Excluded(p)) = {}
    /\ \E s \in rest[p] :
        /\ rest' = [rest EXCEPT ![p] = @ \ {s}]
        /\ RelocateRecord(s, Local)
    /\ EnsureLocalNode
    /\ UNCHANGED <<healthy, queue, checkerVars, at, target, launchVars,
                   from, unprobed>>

(* The report; the check that called the hook goes on, if one did.           *)
TransferDone(p) ==
    /\ at[p] = "transfer"
    /\ rest[p] = {}
    /\ at' = [at EXCEPT ![p] = "check"]
    /\ from' = [from EXCEPT ![p] = NoNode]
    /\ UNCHANGED <<nodeVars, sessionVars, queue, checkerVars, target,
                   launchVars, rest, unprobed>>

-----------------------------------------------------------------------------
(* Release, the queue, and the coordinator's process. *)

ReleaseUncounted(s) ==
    /\ LoopFree
    /\ status[s] = "active"
    /\ status' = [status EXCEPT ![s] = "closed"]
    /\ UNCHANGED <<nodeVars, place, queue, checkerVars, at, target,
                   launchVars, jobVars>>

(* POST /fleet/session/{id}/release.                                         *)
Release(s) ==
    /\ LoopFree
    /\ status[s] = "active"
    /\ status' = [status EXCEPT ![s] = "closed"]
    /\ load' = [load EXCEPT ![place[s]] = OneLess(@)]
    /\ UNCHANGED <<reg, healthy, place, queue, checkerVars, at, target,
                   launchVars, jobVars>>

(* A sweep removes the entries past their ttl; entry by entry here, since    *)
(* each one expires at a time of its own.                                    *)
Sweep ==
    /\ LoopFree
    /\ \E i \in 1..Len(queue) : queue' = RemoveAt(queue, i)
    /\ UNCHANGED <<nodeVars, sessionVars, checkerVars, at, target,
                   launchVars, jobVars>>

NoTask(value) == [p \in Procs |-> value]
Unknown == [n \in Rows |-> "unknown"]

(* The coordinator's process ends and starts again: the database is kept.    *)
Restart ==
    /\ at' = NoTask("idle")
    /\ sid' = NoTask(NoSession)
    /\ target' = NoTask(NoNode)
    /\ failed' = NoTask({})
    /\ from' = NoTask(NoNode)
    /\ rest' = NoTask({})
    /\ unprobed' = NoTask({})
    /\ last' = Unknown
    /\ cooling' = {}
    /\ UNCHANGED <<nodeVars, sessionVars, queue>>

-----------------------------------------------------------------------------
Init ==
    /\ reg = [n \in Rows |-> "new"]
    /\ healthy = [n \in Rows |-> FALSE]
    /\ load = [n \in Rows |-> 0]
    /\ status = [s \in Sessions |-> "none"]
    /\ place = [s \in Sessions |-> NoNode]
    /\ queue = <<>>
    /\ last = Unknown
    /\ cooling = {}
    /\ at = NoTask("idle")
    /\ sid = NoTask(NoSession)
    /\ target = NoTask(NoNode)
    /\ failed = NoTask({})
    /\ from = NoTask(NoNode)
    /\ rest = NoTask({})
    /\ unprobed = NoTask({})

Allocate(c, s) == AllocateRemote(c, s) \/ AllocateLocal(c, s) \/ AllocateQueued(c, s)

(* What a task does once it has begun.                                       *)
TaskStep(p) ==
    \/ LaunchOK(p) \/ LaunchFails(p)
    \/ CheckNext(p) \/ CheckDone(p) \/ ProbeUp(p) \/ ProbeDown(p)
    \/ TransferRemote(p) \/ TransferLocal(p) \/ TransferDone(p)

Next ==
    \/ \E n \in Nodes : Register(n) \/ Unregister(n)
    \/ \E c \in Clients, s \in Sessions : Allocate(c, s)
    \/ \E p \in Procs : TaskStep(p) \/ CheckAll(p)
    \/ \E p \in Operators, n \in Rows : CheckOne(p, n) \/ FailoverBegin(p, n)
    \/ \E s \in Sessions : Release(s)
    \/ \E n \in Rows : CooldownEnds(n)
    \/ Sweep
    \/ Restart

Spec == Init /\ [][Next]_vars

-----------------------------------------------------------------------------
(* Every variable keeps its type; in particular a session with a row has a   *)
(* host, whoever waits for an answer knows of whom, and the queue never      *)
(* exceeds max_queue.                                                        *)
TypeOK ==
    /\ reg \in [Rows -> {"new", "live", "gone"}]
    /\ healthy \in [Rows -> BOOLEAN]
    /\ load \in [Rows -> Nat]
    /\ status \in [Sessions -> {"none", "active", "closed"}]
    /\ place \in [Sessions -> Rows \cup {NoNode}]
    /\ \A s \in Sessions : status[s] # "none" => place[s] \in Rows
    /\ queue \in Seq(Sessions)
    /\ Len(queue) <= MaxQueue
    /\ last \in [Rows -> {"unknown", "up", "down"}]
    /\ cooling \subseteq Rows
    /\ at \in [Procs -> Waiting \cup Running]
    /\ sid \in [Procs -> Sessions \cup {NoSession}]
    /\ target \in [Procs -> Rows \cup {NoNode}]
    /\ \A p \in Procs : at[p] = "launch" => sid[p] \in Sessions /\ target[p] \in Nodes
    /\ \A p \in Procs : at[p] = "probe" => target[p] \in Rows
    /\ failed \in [Procs -> SUBSET Nodes]
    /\ from \in [Procs -> Rows \cup {NoNode}]
    /\ rest \in [Procs -> SUBSET Sessions]
    /\ unprobed \in [Procs -> SUBSET Rows]

(* The tasks that wait for a launch on n.                                    *)
Launching(n) == {p \in Procs : at[p] = "launch" /\ target[p] = n}

(* allocate() checks the capacity before the launch and counts the session   *)
(* after it, so capacity may be exceeded: by no more than the tasks that     *)
(* passed the check together, however often they do and whatever fails.      *)
OvercommitBounded ==
    \A n \in Nodes : load[n] + Cardinality(Launching(n)) <= Capacity - 1 + Overlap

(* No capacity is lost: a slot that active_sessions counts as used is used   *)
(* by an active session, across failovers, releases and restarts.            *)
NoLostCapacity == \A n \in Rows : load[n] <= Cardinality(ActiveOn(n))

(* active_sessions of a live node is the number of its active sessions       *)
(* ("maintaining both load counters").                                       *)
CountersAgree == \A n \in LiveNodes : load[n] = Cardinality(ActiveOn(n))

(* A transfer away from a failed worker ends on another host, even if the    *)
(* worker has come back meanwhile and is healthy again.                      *)
FailoverMovesAway ==
    [][\A p \in Procs \ Clients :
          from[p] \in Nodes /\ at[p] = "launch" /\ at'[p] = "transfer"
              => place'[sid[p]] # from[p]]_vars

-----------------------------------------------------------------------------
(* Launches and probes have timeouts, and the event loop runs ready tasks    *)
(* first in, first out, so a task that is ready again and again runs in the  *)
(* end.  Clients, operators, workers and the poll timer owe nothing.         *)
Fairness == \A p \in Procs : SF_vars(TaskStep(p))

FairSpec == Spec /\ Fairness

(* Every allocation, check and failover comes to its end: allocate()'s loop  *)
(* over the candidates cannot go round for ever while nodes flap.            *)
EveryTaskEnds == \A p \in Procs : at[p] # "idle" ~> at[p] = "idle"

(* A queued request does not wait for ever beside a free slot ("the queue    *)
(* drainer allocates the session right after the pop").                      *)
QueueServed ==
    \A s \in Sessions :
        <>[](\E i \in 1..Len(queue) : queue[i] = s)
            => []<>(Candidates({}) = {})

=============================================================================

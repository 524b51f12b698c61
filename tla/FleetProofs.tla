----------------------------- MODULE FleetProofs -----------------------------
(***************************************************************************)
(* Theorems about Fleet, for every number of nodes, sessions and tasks and *)
(* every capacity, queue limit and overlap.                                *)
(***************************************************************************)
EXTENDS Fleet, FiniteSetTheorems, TLAPS

(* A queue without one of its entries.                                       *)
LEMMA RemoveAtShortens ==
    ASSUME NEW S, NEW q \in Seq(S), NEW i \in 1..Len(q)
    PROVE  /\ RemoveAt(q, i) \in Seq(S)
           /\ Len(RemoveAt(q, i)) = Len(q) - 1
<1>1. SubSeq(q, 1, i - 1) \in Seq(S) /\ Len(SubSeq(q, 1, i - 1)) = i - 1
  OBVIOUS
<1>2. SubSeq(q, i + 1, Len(q)) \in Seq(S) /\ Len(SubSeq(q, i + 1, Len(q))) = Len(q) - i
  OBVIOUS
<1>3. \A a, b \in Seq(S) : a \o b \in Seq(S) /\ Len(a \o b) = Len(a) + Len(b)
  OBVIOUS
<1>4. Len(q) \in Nat /\ (i - 1) + (Len(q) - i) = Len(q) - 1
  OBVIOUS
<1> QED
  BY <1>1, <1>2, <1>3, <1>4 DEF RemoveAt

(* The types of what the records of sessions change.                         *)
SessionTypes ==
    /\ load \in [Rows -> Nat]
    /\ status \in [Sessions -> {"none", "active", "closed"}]
    /\ place \in [Sessions -> Rows \cup {NoNode}]
    /\ \A x \in Sessions : status[x] # "none" => place[x] \in Rows

(* The two ways a session is recorded, and no record at all, keep the types. *)
LEMMA RecordTypes ==
    ASSUME TypeOK, NEW s \in Sessions, NEW n \in Rows,
           RecordAllocated(s, n) \/ RelocateRecord(s, n)
    PROVE  SessionTypes'
<1>1. CASE InsertRow(s, n)
  BY <1>1 DEF InsertRow, TypeOK, SessionTypes
<1>2. CASE ReassignRow(s, n)
  BY <1>2 DEF ReassignRow, OneLess, TypeOK, SessionTypes
<1>3. CASE UNCHANGED <<sessionVars, load>>
  BY <1>3 DEF sessionVars, TypeOK, SessionTypes
<1> QED
  BY <1>1, <1>2, <1>3 DEF RecordAllocated, RelocateRecord

(* Whom the scheduler picks: a live worker with a free slot, none of those   *)
(* it must not select.                                                       *)
LEMMA PickedIsFree ==
    ASSUME NEW excluded, NEW n \in LeastLoaded(excluded)
    PROVE  n \in Nodes /\ n \notin excluded /\ load[n] < Capacity
BY DEF LeastLoaded, Candidates, LiveNodes

(* Every step of the coordinator keeps the types.                            *)
LEMMA TypeStep == TypeOK /\ [Next]_vars => TypeOK'
<1> SUFFICES ASSUME TypeOK, [Next]_vars
             PROVE  TypeOK'
  OBVIOUS
<1>0. \A s \in Sessions, n \in Rows :
        RecordAllocated(s, n) \/ RelocateRecord(s, n) => SessionTypes'
  BY RecordTypes
<1> USE FleetAssumption DEF TypeOK, Waiting, Running, Rows, nodeVars, sessionVars,
                            checkerVars, launchVars, jobVars
<1>1. ASSUME NEW n \in Nodes, Register(n)
      PROVE  TypeOK'
  BY <1>1 DEF Register
<1>2. ASSUME NEW n \in Nodes, Unregister(n)
      PROVE  TypeOK'
  BY <1>2 DEF Unregister
<1>3. ASSUME NEW c \in Clients, NEW s \in Sessions, AllocateRemote(c, s)
      PROVE  TypeOK'
  <2>1. PICK n \in LeastLoaded({}) : target' = [target EXCEPT ![c] = n]
    BY <1>3 DEF AllocateRemote
  <2>2. n \in Nodes
    BY PickedIsFree
  <2> QED
    BY <1>3, <2>1, <2>2 DEF AllocateRemote
<1>4. ASSUME NEW c \in Clients, NEW s \in Sessions, AllocateLocal(c, s)
      PROVE  TypeOK'
  BY <1>0, <1>4 DEF SessionTypes, AllocateLocal, EnsureLocalNode
<1>5. ASSUME NEW c \in Clients, NEW s \in Sessions, AllocateQueued(c, s)
      PROVE  TypeOK'
  BY <1>5 DEF AllocateQueued
<1>6. ASSUME NEW p \in Procs, LaunchOK(p)
      PROVE  TypeOK'
  BY <1>0, <1>6 DEF SessionTypes, LaunchOK, EndLaunch
<1>7. ASSUME NEW p \in Procs, LaunchFails(p)
      PROVE  TypeOK'
  <2>1. healthy' \in [Rows -> BOOLEAN]
    BY <1>7 DEF LaunchFails, HealthSet
  <2>2. CASE \E n \in LeastLoaded(Excluded(p) \cup {target[p]}) :
                target' = [target EXCEPT ![p] = n]
             /\ failed' = [failed EXCEPT ![p] = @ \cup {target[p]}]
             /\ UNCHANGED <<reg, load, sessionVars, at, sid>>
    <3>1. PICK n \in LeastLoaded(Excluded(p) \cup {target[p]}) :
                target' = [target EXCEPT ![p] = n]
      BY <2>2
    <3>2. n \in Nodes /\ target[p] \in Nodes
      BY <1>7, PickedIsFree DEF LaunchFails
    <3>3. /\ target' \in [Procs -> Rows \cup {NoNode}]
          /\ target'[p] \in Nodes
          /\ \A x \in Procs : x # p => target'[x] = target[x]
      BY <3>1, <3>2
    <3>4. failed' \in [Procs -> SUBSET Nodes]
      BY <2>2, <3>2
    <3>5. at' = at /\ sid' = sid /\ at[p] = "launch"
      BY <1>7, <2>2 DEF LaunchFails
    <3>6. /\ \A x \in Procs : at'[x] = "launch" => sid'[x] \in Sessions /\ target'[x] \in Nodes
          /\ \A x \in Procs : at'[x] = "probe" => target'[x] \in Rows
      BY <3>3, <3>5
    <3>7. UNCHANGED <<reg, load, status, place, queue, last, cooling, from, rest, unprobed>>
      BY <1>7, <2>2 DEF LaunchFails
    <3> QED
      BY <2>1, <3>3, <3>4, <3>5, <3>6, <3>7
  <2>3. CASE EndLaunch(p) /\ p \in Clients /\ UNCHANGED <<reg, load, sessionVars>>
    BY <1>7, <2>1, <2>3 DEF LaunchFails, EndLaunch
  <2>4. CASE EndLaunch(p) /\ EnsureLocalNode /\ RelocateRecord(sid[p], Local)
    BY <1>0, <1>7, <2>1, <2>4 DEF SessionTypes, LaunchFails, EndLaunch, EnsureLocalNode
  <2> QED
    BY <1>7, <2>2, <2>3, <2>4 DEF LaunchFails
<1>8. ASSUME NEW p \in Procs, CheckNext(p)
      PROVE  TypeOK'
  <2>1. PICK n \in unprobed[p] :
            /\ unprobed' = [unprobed EXCEPT ![p] = @ \ {n}]
            /\ \/ UNCHANGED <<at, target>>
               \/ at' = [at EXCEPT ![p] = "probe"] /\ target' = [target EXCEPT ![p] = n]
    BY <1>8 DEF CheckNext
  <2>2. n \in Rows
    OBVIOUS
  <2>3. unprobed' \in [Procs -> SUBSET Rows]
    BY <2>1
  <2>4. CASE UNCHANGED <<at, target>>
    BY <1>8, <2>3, <2>4 DEF CheckNext
  <2>5. CASE at' = [at EXCEPT ![p] = "probe"] /\ target' = [target EXCEPT ![p] = n]
    BY <1>8, <2>2, <2>3, <2>5 DEF CheckNext
  <2> QED
    BY <2>1, <2>4, <2>5
<1>9. ASSUME NEW p \in Procs, CheckDone(p)
      PROVE  TypeOK'
  BY <1>9 DEF CheckDone
<1>10. ASSUME NEW p \in Procs, ProbeUp(p)
       PROVE  TypeOK'
  BY <1>10 DEF ProbeUp, HealthSet
<1>11. ASSUME NEW p \in Procs, ProbeDown(p)
       PROVE  TypeOK'
  <2>1. /\ healthy' \in [Rows -> BOOLEAN]
        /\ last' \in [Rows -> {"unknown", "up", "down"}]
        /\ cooling' \subseteq Rows
        /\ target' \in [Procs -> Rows \cup {NoNode}]
    BY <1>11 DEF ProbeDown, HealthSet
  <2>2. ActiveOn(target[p]) \subseteq Sessions
    BY DEF ActiveOn
  <2>3. /\ at' \in [Procs -> Waiting \cup Running]
        /\ at'[p] \in Running
        /\ from' \in [Procs -> Rows \cup {NoNode}]
        /\ rest' \in [Procs -> SUBSET Sessions]
    <3>1. at[p] = "probe" /\ target[p] \in Rows
      BY <1>11 DEF ProbeDown
    <3>2. CASE last[target[p]] = "down"
      <4>1. at' = [at EXCEPT ![p] = "check"] /\ from' = from /\ rest' = rest
        BY <1>11, <3>2 DEF ProbeDown
      <4> QED
        BY <4>1
    <3>3. CASE last[target[p]] # "down"
      <4>1. /\ at' = [at EXCEPT ![p] = "transfer"]
            /\ from' = [from EXCEPT ![p] = target[p]]
            /\ rest' = [rest EXCEPT ![p] = ActiveOn(target[p])]
        BY <1>11, <3>3 DEF ProbeDown
      <4> QED
        BY <2>2, <3>1, <4>1
    <3> QED
      BY <3>2, <3>3
  <2>4. \A x \in Procs : x # p => at'[x] = at[x] /\ target'[x] = target[x]
    BY <1>11 DEF ProbeDown
  <2> QED
    BY <1>11, <2>1, <2>3, <2>4 DEF ProbeDown
<1>12. ASSUME NEW p \in Procs, TransferRemote(p)
       PROVE  TypeOK'
  <2>1. PICK s \in rest[p], n \in LeastLoaded(Excluded(p)) :
            /\ rest' = [rest EXCEPT ![p] = @ \ {s}]
            /\ sid' = [sid EXCEPT ![p] = s]
            /\ target' = [target EXCEPT ![p] = n]
    BY <1>12 DEF TransferRemote
  <2>2. s \in Sessions /\ n \in Nodes
    BY PickedIsFree
  <2> QED
    BY <1>12, <2>1, <2>2 DEF TransferRemote
<1>13. ASSUME NEW p \in Procs, TransferLocal(p)
       PROVE  TypeOK'
  BY <1>0, <1>13 DEF SessionTypes, TransferLocal, EnsureLocalNode
<1>14. ASSUME NEW p \in Procs, TransferDone(p)
       PROVE  TypeOK'
  BY <1>14 DEF TransferDone
<1>15. ASSUME NEW p \in Procs, CheckAll(p)
       PROVE  TypeOK'
  BY <1>15 DEF CheckAll, LiveNodes
<1>16. ASSUME NEW p \in Operators, NEW n \in Rows, CheckOne(p, n)
       PROVE  TypeOK'
  BY <1>16 DEF CheckOne
<1>17. ASSUME NEW p \in Operators, NEW n \in Rows, FailoverBegin(p, n)
       PROVE  TypeOK'
  <2>1. healthy' \in [Rows -> BOOLEAN]
    BY <1>17 DEF FailoverBegin, HealthSet
  <2>2. rest' \in [Procs -> SUBSET Sessions]
    BY <1>17 DEF FailoverBegin, ActiveOn
  <2> QED
    BY <1>17, <2>1, <2>2 DEF FailoverBegin
<1>18. ASSUME NEW s \in Sessions, Release(s)
       PROVE  TypeOK'
  BY <1>18 DEF Release, OneLess
<1>19. ASSUME NEW n \in Rows, CooldownEnds(n)
       PROVE  TypeOK'
  BY <1>19 DEF CooldownEnds
<1>20. CASE Sweep
  BY <1>20, RemoveAtShortens DEF Sweep
<1>21. CASE Restart
  BY <1>21 DEF Restart, NoTask, Unknown
<1>22. CASE UNCHANGED vars
  BY <1>22 DEF vars
<1> QED
  BY <1>1, <1>2, <1>3, <1>4, <1>5, <1>6, <1>7, <1>8, <1>9, <1>10, <1>11, <1>12,
     <1>13, <1>14, <1>15, <1>16, <1>17, <1>18, <1>19, <1>20, <1>21, <1>22
     DEF Next, Allocate, TaskStep

(* The variables keep their types, whatever workers, clients and operators   *)
(* do and whenever the coordinator restarts.                                 *)
THEOREM TypeCorrect == Spec => []TypeOK
<1>1. Init => TypeOK
  BY FleetAssumption DEF Init, TypeOK, NoTask, Unknown, Rows, Waiting, Running
<1> QED
  BY <1>1, TypeStep, PTL DEF Spec

-----------------------------------------------------------------------------
(* How much capacity can be exceeded. *)

(* No more tasks are in progress than may overlap.                           *)
BusyBound == Cardinality(Busy) <= Overlap

(* Busy and the sets of tasks below are finite.                              *)
LEMMA TasksFinite ==
    /\ IsFiniteSet(Procs)
    /\ IsFiniteSet(Busy) /\ IsFiniteSet(Busy')
    /\ \A n : IsFiniteSet(Launching(n)) /\ IsFiniteSet(Launching(n)')
<1>1. IsFiniteSet(Procs)
  BY FleetAssumption, FS_Union, FS_Singleton DEF Procs
<1>2. /\ Busy \subseteq Procs /\ Busy' \subseteq Procs
      /\ \A n : Launching(n) \subseteq Procs /\ Launching(n)' \subseteq Procs
  BY DEF Busy, Launching
<1> QED
  BY <1>1, <1>2, FS_Subset

(* A task becomes busy only when fewer than Overlap are.                     *)
LEMMA BusyStep == TypeOK /\ BusyBound /\ [Next]_vars => BusyBound'
<1> SUFFICES ASSUME TypeOK, BusyBound, [Next]_vars
             PROVE  BusyBound'
  OBVIOUS
<1>1. \/ Busy' \subseteq Busy
      \/ \E p \in Procs : Cardinality(Busy) < Overlap /\ Busy' = Busy \cup {p}
  <2> USE DEF Busy, TypeOK
  <2>1. ASSUME NEW n \in Nodes, Register(n) \/ Unregister(n)
        PROVE  Busy' = Busy
    BY <2>1 DEF Register, Unregister
  <2>2. ASSUME NEW c \in Clients, NEW s \in Sessions, AllocateRemote(c, s)
        PROVE  Cardinality(Busy) < Overlap /\ Busy' = Busy \cup {c}
    BY <2>2 DEF AllocateRemote, MayBegin, Procs
  <2>3. ASSUME NEW c \in Clients, NEW s \in Sessions,
               AllocateLocal(c, s) \/ AllocateQueued(c, s)
        PROVE  Busy' = Busy
    BY <2>3 DEF AllocateLocal, AllocateQueued
  <2>4. ASSUME NEW p \in Procs, TaskStep(p)
        PROVE  Busy' \subseteq Busy
    BY <2>4 DEF TaskStep, LaunchOK, LaunchFails, EndLaunch, CheckNext, CheckDone, ProbeUp,
                ProbeDown, TransferRemote, TransferLocal, TransferDone
  <2>5. ASSUME NEW p \in Procs, CheckAll(p)
        PROVE  Cardinality(Busy) < Overlap /\ Busy' = Busy \cup {p}
    BY <2>5 DEF CheckAll, MayBegin
  <2>6. ASSUME NEW p \in Operators, NEW n \in Rows, CheckOne(p, n) \/ FailoverBegin(p, n)
        PROVE  Cardinality(Busy) < Overlap /\ Busy' = Busy \cup {p}
    <3>1. p \in Procs
      BY DEF Procs
    <3>2. \/ at' = [at EXCEPT ![p] = "check"]
          \/ at' = [at EXCEPT ![p] = "transfer"]
      BY <2>6 DEF CheckOne, FailoverBegin
    <3>3. Cardinality(Busy) < Overlap
      BY <2>6 DEF CheckOne, FailoverBegin, MayBegin
    <3> QED
      BY <3>1, <3>2, <3>3
  <2>7. ASSUME NEW s \in Sessions, Release(s)
        PROVE  Busy' = Busy
    BY <2>7 DEF Release
  <2>8. ASSUME NEW n \in Rows, CooldownEnds(n)
        PROVE  Busy' = Busy
    BY <2>8 DEF CooldownEnds
  <2>9. CASE Sweep
    BY <2>9 DEF Sweep
  <2>10. CASE Restart
    BY <2>10 DEF Restart, NoTask
  <2>11. CASE UNCHANGED vars
    BY <2>11 DEF vars
  <2> QED
    BY <2>1, <2>2, <2>3, <2>4, <2>5, <2>6, <2>7, <2>8, <2>9, <2>10, <2>11
       DEF Next, Allocate, Procs
<1>2. CASE Busy' \subseteq Busy
  <2>1. Cardinality(Busy') <= Cardinality(Busy) /\ Cardinality(Busy) \in Nat
        /\ Cardinality(Busy') \in Nat
    BY <1>2, TasksFinite, FS_Subset, FS_CardinalityType
  <2> QED
    BY <2>1, FleetAssumption DEF BusyBound
<1>3. ASSUME NEW p \in Procs, Cardinality(Busy) < Overlap, Busy' = Busy \cup {p}
      PROVE  BusyBound'
  <2>1. /\ Cardinality(Busy) \in Nat
        /\ Cardinality(Busy \cup {p})
              = IF p \in Busy THEN Cardinality(Busy) ELSE Cardinality(Busy) + 1
    BY TasksFinite, FS_AddElement, FS_CardinalityType
  <2> QED
    BY <1>3, <2>1, FleetAssumption DEF BusyBound
<1> QED
  BY <1>1, <1>2, <1>3

(* A record raises the counter of the host by one at most, and no other.     *)
LEMMA RecordLoad ==
    ASSUME TypeOK, NEW s \in Sessions, NEW m \in Rows, NEW n \in Rows,
           RecordAllocated(s, m) \/ RelocateRecord(s, m)
    PROVE  load'[n] <= load[n] + 1 /\ (n # m => load'[n] <= load[n])
<1> USE DEF TypeOK
<1>1. CASE InsertRow(s, m)
  BY <1>1 DEF InsertRow
<1>2. CASE ReassignRow(s, m)
  BY <1>2 DEF ReassignRow, OneLess
<1>3. CASE UNCHANGED <<sessionVars, load>>
  BY <1>3
<1> QED
  BY <1>1, <1>2, <1>3 DEF RecordAllocated, RelocateRecord

(* How a step changes the load of a worker and the launches under way there: *)
(* neither grows, or the worker was just picked and has a free slot, or the  *)
(* answer to a launch arrived.                                               *)
Eased(n) == load'[n] <= load[n] /\ Launching(n)' \subseteq Launching(n)
Picked(n) == load'[n] = load[n] /\ load[n] < Capacity
Answered(n) ==
    \E p \in Launching(n) : /\ load'[n] <= load[n] + 1
                            /\ Launching(n)' = Launching(n) \ {p}

(* The end of a launch, whatever is recorded.                                *)
LEMMA EndLaunchStep ==
    ASSUME TypeOK, NEW n \in Nodes, NEW p \in Procs, EndLaunch(p), at[p] = "launch",
           load'[n] <= load[n] + 1, n # target[p] => load'[n] <= load[n]
    PROVE  Eased(n) \/ Answered(n)
<1> USE DEF TypeOK, EndLaunch, Launching
<1>1. Launching(n)' = Launching(n) \ {p}
  OBVIOUS
<1>2. CASE n = target[p]
  <2>1. p \in Launching(n)
    BY <1>2
  <2> QED
    BY <1>1, <2>1 DEF Answered
<1>3. CASE n # target[p]
  BY <1>1, <1>3 DEF Eased
<1> QED
  BY <1>2, <1>3

(* Every step of the coordinator is of one of these kinds, for every worker. *)
LEMMA LoadStep ==
    ASSUME TypeOK, [Next]_vars, NEW n \in Nodes
    PROVE  Eased(n) \/ Picked(n) \/ Answered(n)
<1> USE FleetAssumption DEF TypeOK
<1>0. n \in Rows /\ n # Local /\ load[n] \in Nat
  BY DEF Rows
<1>1. ASSUME UNCHANGED <<load, at, target>>
      PROVE  Eased(n)
  BY <1>0, <1>1 DEF Eased, Launching
<1>2. ASSUME NEW m \in Nodes, Register(m)
      PROVE  Eased(n)
  BY <1>1, <1>2 DEF Register
<1>3. ASSUME NEW m \in Nodes, Unregister(m)
      PROVE  Eased(n)
  BY <1>0, <1>3 DEF Unregister, Eased, Launching
<1>4. ASSUME NEW c \in Clients, NEW s \in Sessions, AllocateRemote(c, s)
      PROVE  Eased(n) \/ Picked(n)
  <2>1. PICK m \in LeastLoaded({}) : target' = [target EXCEPT ![c] = m]
    BY <1>4 DEF AllocateRemote
  <2>2. at' = [at EXCEPT ![c] = "launch"] /\ load' = load
    BY <1>4 DEF AllocateRemote, nodeVars
  <2>3. CASE m = n
    BY <1>0, <2>2, <2>3, PickedIsFree DEF Picked
  <2>4. CASE m # n
    BY <1>0, <2>1, <2>2, <2>4 DEF Eased, Launching
  <2> QED
    BY <2>3, <2>4
<1>5. ASSUME NEW c \in Clients, NEW s \in Sessions, AllocateLocal(c, s)
      PROVE  Eased(n)
  <2>1. load'[n] <= load[n]
    BY <1>0, <1>5, RecordLoad DEF AllocateLocal, Rows
  <2> QED
    BY <1>5, <2>1 DEF AllocateLocal, Eased, Launching
<1>6. ASSUME NEW c \in Clients, NEW s \in Sessions, AllocateQueued(c, s)
      PROVE  Eased(n)
  BY <1>1, <1>6 DEF AllocateQueued, nodeVars
<1>7. ASSUME NEW p \in Procs, LaunchOK(p)
      PROVE  Eased(n) \/ Answered(n)
  <2>1. at[p] = "launch" /\ EndLaunch(p) /\ sid[p] \in Sessions /\ target[p] \in Rows
    BY <1>7 DEF LaunchOK, Rows
  <2>2. RecordAllocated(sid[p], target[p]) \/ RelocateRecord(sid[p], target[p])
    BY <1>7 DEF LaunchOK
  <2>3. load'[n] <= load[n] + 1 /\ (n # target[p] => load'[n] <= load[n])
    BY <1>0, <2>1, <2>2, RecordLoad
  <2> QED
    BY <2>1, <2>3, EndLaunchStep
<1>8. ASSUME NEW p \in Procs, LaunchFails(p)
      PROVE  Eased(n) \/ Picked(n) \/ Answered(n)
  <2>1. CASE \E m \in LeastLoaded(Excluded(p) \cup {target[p]}) :
                target' = [target EXCEPT ![p] = m] /\ UNCHANGED <<load, at>>
    <3>1. PICK m \in LeastLoaded(Excluded(p) \cup {target[p]}) :
                target' = [target EXCEPT ![p] = m] /\ UNCHANGED <<load, at>>
      BY <2>1
    <3>2. CASE m = n
      BY <1>0, <3>1, <3>2, PickedIsFree DEF Picked
    <3>3. CASE m # n
      BY <1>0, <3>1, <3>3 DEF Eased, Launching
    <3> QED
      BY <3>2, <3>3
  <2>2. CASE EndLaunch(p) /\ (load' = load \/ RelocateRecord(sid[p], Local))
    <3>1. at[p] = "launch" /\ sid[p] \in Sessions /\ Local \in Rows
      BY <1>8 DEF LaunchFails, Rows
    <3>2. load'[n] <= load[n]
      BY <1>0, <2>2, <3>1, RecordLoad
    <3>3. load'[n] \in Nat
      BY <1>0, TypeStep
    <3>4. load'[n] <= load[n] + 1
      BY <1>0, <3>2, <3>3
    <3>5. Eased(n) \/ Answered(n)
      BY <2>2, <3>1, <3>2, <3>4, EndLaunchStep
    <3> QED
      BY <3>5
  <2> QED
    BY <1>8, <2>1, <2>2 DEF LaunchFails
<1>9. ASSUME NEW p \in Procs, CheckNext(p)
      PROVE  Eased(n)
  <2>1. /\ at[p] = "check" /\ load' = load
        /\ \/ UNCHANGED <<at, target>>
           \/ /\ at' = [at EXCEPT ![p] = "probe"]
              /\ \E m \in unprobed[p] : target' = [target EXCEPT ![p] = m]
    BY <1>9 DEF CheckNext, nodeVars
  <2> QED
    BY <1>0, <1>1, <2>1 DEF Eased, Launching
<1>10. ASSUME NEW p \in Procs, TransferRemote(p)
       PROVE  Eased(n) \/ Picked(n)
  <2>1. PICK m \in LeastLoaded(Excluded(p)) : target' = [target EXCEPT ![p] = m]
    BY <1>10 DEF TransferRemote
  <2>2. at' = [at EXCEPT ![p] = "launch"] /\ load' = load
    BY <1>10 DEF TransferRemote, nodeVars
  <2>3. CASE m = n
    BY <1>0, <2>2, <2>3, PickedIsFree DEF Picked
  <2>4. CASE m # n
    BY <1>0, <2>1, <2>2, <2>4 DEF Eased, Launching
  <2> QED
    BY <2>3, <2>4
<1>11. ASSUME NEW p \in Procs, TransferLocal(p)
       PROVE  Eased(n)
  <2>1. \E s \in rest[p] : RelocateRecord(s, Local)
    BY <1>11 DEF TransferLocal
  <2>2. load'[n] <= load[n]
    BY <1>0, <2>1, RecordLoad DEF Rows
  <2> QED
    BY <1>11, <2>2 DEF TransferLocal, Eased, Launching
<1>12. ASSUME NEW p \in Procs, CheckDone(p) \/ TransferDone(p) \/ CheckAll(p)
       PROVE  Eased(n)
  BY <1>0, <1>12 DEF CheckDone, TransferDone, CheckAll, nodeVars, Eased, Launching
<1>13. ASSUME NEW p \in Procs, ProbeUp(p) \/ ProbeDown(p)
       PROVE  Eased(n)
  <2>1. /\ at'[p] # "launch" /\ load' = load
        /\ \A x \in Procs : x # p => at'[x] = at[x] /\ target'[x] = target[x]
    <3>1. CASE ProbeUp(p)
      BY <3>1 DEF ProbeUp
    <3>2. CASE ProbeDown(p)
      <4>1. /\ load' = load /\ target' = [target EXCEPT ![p] = NoNode]
            /\ \/ at' = [at EXCEPT ![p] = "check"]
               \/ at' = [at EXCEPT ![p] = "transfer"]
        BY <3>2 DEF ProbeDown
      <4> QED
        BY <4>1
    <3> QED
      BY <1>13, <3>1, <3>2
  <2> QED
    BY <1>0, <2>1 DEF Eased, Launching
<1>14. ASSUME NEW p \in Operators, NEW m \in Rows, CheckOne(p, m) \/ FailoverBegin(p, m)
       PROVE  Eased(n)
  <2>1. /\ at'[p] # "launch" /\ load' = load /\ p \in Procs
        /\ \A x \in Procs : x # p => at'[x] = at[x]
        /\ target' = target
    BY <1>14 DEF CheckOne, FailoverBegin, nodeVars, Procs
  <2> QED
    BY <1>0, <2>1 DEF Eased, Launching
<1>15. ASSUME NEW s \in Sessions, Release(s)
       PROVE  Eased(n)
  BY <1>0, <1>15 DEF Release, OneLess, Eased, Launching
<1>16. ASSUME NEW m \in Rows, CooldownEnds(m)
       PROVE  Eased(n)
  BY <1>1, <1>16 DEF CooldownEnds, nodeVars
<1>17. CASE Sweep
  BY <1>1, <1>17 DEF Sweep, nodeVars
<1>18. CASE Restart
  BY <1>0, <1>18 DEF Restart, NoTask, nodeVars, Eased, Launching
<1>19. CASE UNCHANGED vars
  BY <1>1, <1>19 DEF vars, nodeVars
<1> QED
  BY <1>2, <1>3, <1>4, <1>5, <1>6, <1>7, <1>8, <1>9, <1>10, <1>11, <1>12,
     <1>13, <1>14, <1>15, <1>16, <1>17, <1>18, <1>19
     DEF Next, Allocate, TaskStep

(* The inductive invariant.                                                  *)
FleetInv == TypeOK /\ BusyBound /\ OvercommitBounded

LEMMA FleetInvStep == FleetInv /\ [Next]_vars => FleetInv'
<1> SUFFICES ASSUME FleetInv, [Next]_vars
             PROVE  FleetInv'
  OBVIOUS
<1>1. TypeOK' /\ BusyBound'
  BY TypeStep, BusyStep DEF FleetInv
<1>2. ASSUME NEW n \in Nodes
      PROVE  load'[n] + Cardinality(Launching(n)') <= Capacity - 1 + Overlap
  <2> DEFINE waiting == Cardinality(Launching(n))
             waitingNext == Cardinality(Launching(n)')
  <2>1. /\ load[n] \in Nat /\ load'[n] \in Nat
        /\ load[n] + waiting <= Capacity - 1 + Overlap
    BY <1>1 DEF FleetInv, TypeOK, OvercommitBounded, Rows
  <2>2. waiting \in Nat /\ waitingNext \in Nat /\ Capacity \in Nat /\ Overlap \in Nat
    BY TasksFinite, FS_CardinalityType, FleetAssumption
  <2>3. CASE Eased(n)
    <3>1. waitingNext <= waiting
      BY <2>3, TasksFinite, FS_Subset DEF Eased
    <3> QED
      BY <2>1, <2>2, <2>3, <3>1 DEF Eased
  <2>4. CASE Picked(n)
    <3>1. Launching(n)' \subseteq Busy'
      BY DEF Launching, Busy
    <3>2. waitingNext <= Cardinality(Busy') /\ Cardinality(Busy') \in Nat
      BY <3>1, TasksFinite, FS_Subset, FS_CardinalityType
    <3>3. Cardinality(Busy') <= Overlap
      BY <1>1 DEF BusyBound
    <3> QED
      BY <2>1, <2>2, <2>4, <3>2, <3>3 DEF Picked
  <2>5. CASE Answered(n)
    <3>1. PICK p \in Launching(n) : /\ load'[n] <= load[n] + 1
                                    /\ Launching(n)' = Launching(n) \ {p}
      BY <2>5 DEF Answered
    <3>2. waitingNext = waiting - 1
      BY <3>1, TasksFinite, FS_RemoveElement
    <3> QED
      BY <2>1, <2>2, <3>1, <3>2
  <2> QED
    BY <1>1, <2>3, <2>4, <2>5, LoadStep DEF FleetInv
<1> QED
  BY <1>1, <1>2 DEF FleetInv, OvercommitBounded

(* A worker is over its capacity by no more than the tasks that may pass the *)
(* capacity check together: for every fleet, capacity and number of tasks.   *)
THEOREM OvercommitIsBounded == Spec => []OvercommitBounded
<1>1. Init => FleetInv
  <2> SUFFICES ASSUME Init
               PROVE  FleetInv
    OBVIOUS
  <2>1. TypeOK
    BY FleetAssumption DEF Init, TypeOK, NoTask, Unknown, Rows, Waiting, Running
  <2>2. Busy = {} /\ \A n \in Nodes : Launching(n) = {} /\ load[n] = 0
    BY DEF Init, NoTask, Busy, Launching, Rows
  <2> QED
    BY <2>1, <2>2, FS_EmptySet, FleetAssumption DEF FleetInv, BusyBound, OvercommitBounded
<1>2. FleetInv => OvercommitBounded
  BY DEF FleetInv
<1> QED
  BY <1>1, <1>2, FleetInvStep, PTL DEF Spec

-----------------------------------------------------------------------------
(* No capacity is lost. *)

(* How a step changes the load of a host and the sessions active there.      *)
Kept(n) == load'[n] <= load[n] /\ ActiveOn(n) \subseteq ActiveOn(n)'
Left(n) ==
    \E s \in ActiveOn(n) : /\ load'[n] = OneLess(load[n])
                           /\ ActiveOn(n)' = ActiveOn(n) \ {s}
Came(n) ==
    \E s \in Sessions \ ActiveOn(n) : /\ load'[n] <= load[n] + 1
                                      /\ ActiveOn(n)' = ActiveOn(n) \cup {s}
Reset(n) == load'[n] = 0

LEMMA RecordActive ==
    ASSUME TypeOK, NEW s \in Sessions, NEW m \in Rows, NEW n \in Rows,
           RecordAllocated(s, m) \/ RelocateRecord(s, m)
    PROVE  Kept(n) \/ Left(n) \/ Came(n)
<1> USE DEF TypeOK
<1>0. load[n] \in Nat
  OBVIOUS
<1>1. CASE InsertRow(s, m) /\ status[s] = "none"
  <2>1. CASE n = m
    <3>1. s \in Sessions \ ActiveOn(n) /\ ActiveOn(n)' = ActiveOn(n) \cup {s}
      BY <1>1, <2>1 DEF InsertRow, ActiveOn
    <3>2. load'[n] <= load[n] + 1
      BY <1>0, <1>1, <2>1 DEF InsertRow
    <3> QED
      BY <3>1, <3>2 DEF Came
  <2>2. CASE n # m
    BY <1>0, <1>1, <2>2 DEF InsertRow, ActiveOn, Kept
  <2> QED
    BY <2>1, <2>2
<1>2. CASE ReassignRow(s, m) /\ status[s] = "active" /\ place[s] # m
  <2>1. load' = [load EXCEPT ![place[s]] = OneLess(@), ![m] = @ + 1] /\ place[s] \in Rows
    BY <1>2 DEF ReassignRow
  <2>2. CASE n = place[s]
    <3>1. s \in ActiveOn(n) /\ ActiveOn(n)' = ActiveOn(n) \ {s}
      BY <1>2, <2>2 DEF ReassignRow, ActiveOn
    <3>2. load'[n] = OneLess(load[n])
      BY <1>2, <2>1, <2>2
    <3> QED
      BY <3>1, <3>2 DEF Left
  <2>3. CASE n = m
    <3>1. s \in Sessions \ ActiveOn(n) /\ ActiveOn(n)' = ActiveOn(n) \cup {s}
      BY <1>2, <2>3 DEF ReassignRow, ActiveOn
    <3>2. load'[n] <= load[n] + 1
      BY <1>0, <1>2, <2>1, <2>3
    <3> QED
      BY <3>1, <3>2 DEF Came
  <2>4. CASE n # place[s] /\ n # m
    BY <1>0, <1>2, <2>1, <2>4 DEF ReassignRow, ActiveOn, Kept
  <2> QED
    BY <2>2, <2>3, <2>4
<1>3. CASE ReassignRow(s, m) /\ ~(status[s] = "active" /\ place[s] # m)
  BY <1>0, <1>3 DEF ReassignRow, ActiveOn, Kept
<1>4. CASE UNCHANGED <<sessionVars, load>>
  BY <1>0, <1>4 DEF sessionVars, ActiveOn, Kept
<1> QED
  BY <1>1, <1>2, <1>3, <1>4 DEF RecordAllocated, RelocateRecord

(* Every step is of one of these kinds, for every host.                      *)
LEMMA ActiveStep ==
    ASSUME TypeOK, [Next]_vars, NEW n \in Rows
    PROVE  Kept(n) \/ Left(n) \/ Came(n) \/ Reset(n)
<1> USE FleetAssumption DEF TypeOK
<1>0. load[n] \in Nat /\ Local \in Rows
  BY DEF Rows
<1>1. ASSUME UNCHANGED <<load, sessionVars>>
      PROVE  Kept(n)
  BY <1>0, <1>1 DEF sessionVars, ActiveOn, Kept
<1>2. ASSUME NEW s \in Sessions, NEW m \in Rows,
             RecordAllocated(s, m) \/ RelocateRecord(s, m)
      PROVE  Kept(n) \/ Left(n) \/ Came(n)
  BY <1>2, RecordActive
<1>3. ASSUME NEW m \in Nodes, Register(m)
      PROVE  Kept(n)
  BY <1>1, <1>3 DEF Register
<1>4. ASSUME NEW m \in Nodes, Unregister(m)
      PROVE  Kept(n) \/ Reset(n)
  <2>1. load' = [load EXCEPT ![m] = 0] /\ UNCHANGED sessionVars /\ m \in Rows
    BY <1>4 DEF Unregister, Rows
  <2>2. CASE n = m
    BY <2>1, <2>2 DEF Reset
  <2>3. CASE n # m
    BY <1>0, <2>1, <2>3 DEF sessionVars, ActiveOn, Kept
  <2> QED
    BY <2>2, <2>3
<1>5. ASSUME NEW c \in Clients, NEW s \in Sessions, AllocateLocal(c, s)
      PROVE  Kept(n) \/ Left(n) \/ Came(n)
  BY <1>0, <1>2, <1>5 DEF AllocateLocal
<1>6. ASSUME NEW c \in Clients, NEW s \in Sessions,
             AllocateRemote(c, s) \/ AllocateQueued(c, s)
      PROVE  Kept(n)
  BY <1>1, <1>6 DEF AllocateRemote, AllocateQueued, nodeVars
<1>7. ASSUME NEW p \in Procs, LaunchOK(p)
      PROVE  Kept(n) \/ Left(n) \/ Came(n)
  <2>1. sid[p] \in Sessions /\ target[p] \in Rows
    BY <1>7 DEF LaunchOK, Rows
  <2> QED
    BY <1>2, <1>7, <2>1 DEF LaunchOK
<1>8. ASSUME NEW p \in Procs, LaunchFails(p)
      PROVE  Kept(n) \/ Left(n) \/ Came(n)
  <2>1. sid[p] \in Sessions
    BY <1>8 DEF LaunchFails
  <2>2. UNCHANGED <<load, sessionVars>> \/ RelocateRecord(sid[p], Local)
    BY <1>8 DEF LaunchFails
  <2> QED
    BY <1>0, <1>1, <1>2, <2>1, <2>2
<1>9. ASSUME NEW p \in Procs, TransferLocal(p)
      PROVE  Kept(n) \/ Left(n) \/ Came(n)
  <2>1. \E s \in rest[p] : RelocateRecord(s, Local)
    BY <1>9 DEF TransferLocal
  <2> QED
    BY <1>0, <1>2, <2>1
<1>10. ASSUME NEW p \in Procs,
              \/ CheckNext(p) \/ CheckDone(p) \/ CheckAll(p)
              \/ ProbeUp(p) \/ ProbeDown(p) \/ TransferRemote(p) \/ TransferDone(p)
       PROVE  Kept(n)
  <2>1. UNCHANGED <<load, sessionVars>>
    BY <1>10 DEF CheckNext, CheckDone, CheckAll, ProbeUp, ProbeDown, TransferRemote,
                 TransferDone, nodeVars
  <2> QED
    BY <1>1, <2>1
<1>11. ASSUME NEW p \in Operators, NEW m \in Rows, CheckOne(p, m) \/ FailoverBegin(p, m)
       PROVE  Kept(n)
  <2>1. UNCHANGED <<load, sessionVars>>
    BY <1>11 DEF CheckOne, FailoverBegin, nodeVars
  <2> QED
    BY <1>1, <2>1
<1>12. ASSUME NEW s \in Sessions, Release(s)
       PROVE  Kept(n) \/ Left(n)
  <2>1. /\ status[s] = "active" /\ place[s] \in Rows /\ place' = place
        /\ status' = [status EXCEPT ![s] = "closed"]
        /\ load' = [load EXCEPT ![place[s]] = OneLess(@)]
    BY <1>12 DEF Release
  <2>2. CASE n = place[s]
    <3>1. s \in ActiveOn(n) /\ ActiveOn(n)' = ActiveOn(n) \ {s}
      BY <2>1, <2>2 DEF ActiveOn
    <3> QED
      BY <2>1, <2>2, <3>1 DEF Left
  <2>3. CASE n # place[s]
    BY <1>0, <2>1, <2>3 DEF ActiveOn, Kept
  <2> QED
    BY <2>2, <2>3
<1>13. ASSUME NEW m \in Rows, CooldownEnds(m)
       PROVE  Kept(n)
  BY <1>1, <1>13 DEF CooldownEnds, nodeVars
<1>14. CASE Sweep
  BY <1>1, <1>14 DEF Sweep, nodeVars
<1>15. CASE Restart
  BY <1>1, <1>15 DEF Restart, nodeVars
<1>16. CASE UNCHANGED vars
  BY <1>1, <1>16 DEF vars, nodeVars
<1> QED
  BY <1>3, <1>4, <1>5, <1>6, <1>7, <1>8, <1>9, <1>10, <1>11, <1>12, <1>13, <1>14,
     <1>15, <1>16 DEF Next, Allocate, TaskStep

LEMMA NoLostCapacityStep == TypeOK /\ NoLostCapacity /\ [Next]_vars => NoLostCapacity'
<1> SUFFICES ASSUME TypeOK, NoLostCapacity, [Next]_vars, NEW n \in Rows
             PROVE  load'[n] <= Cardinality(ActiveOn(n)')
  BY DEF NoLostCapacity
<1> DEFINE active == Cardinality(ActiveOn(n))
           activeNext == Cardinality(ActiveOn(n)')
<1>1. load[n] \in Nat /\ load'[n] \in Nat /\ load[n] <= active
  BY TypeStep DEF TypeOK, NoLostCapacity
<1>2. IsFiniteSet(ActiveOn(n)) /\ IsFiniteSet(ActiveOn(n)')
  <2>1. ActiveOn(n) \subseteq Sessions /\ ActiveOn(n)' \subseteq Sessions
    BY DEF ActiveOn
  <2> QED
    BY <2>1, FS_Subset, FleetAssumption
<1>3. active \in Nat /\ activeNext \in Nat
  BY <1>2, FS_CardinalityType
<1>4. CASE Kept(n)
  <2>1. active <= activeNext
    BY <1>2, <1>4, FS_Subset DEF Kept
  <2> QED
    BY <1>1, <1>3, <1>4, <2>1 DEF Kept
<1>5. CASE Left(n)
  <2>1. activeNext = active - 1 /\ load'[n] = OneLess(load[n])
    BY <1>2, <1>5, FS_RemoveElement DEF Left
  <2> QED
    BY <1>1, <1>3, <2>1 DEF OneLess
<1>6. CASE Came(n)
  <2>1. activeNext = active + 1 /\ load'[n] <= load[n] + 1
    BY <1>2, <1>6, FS_AddElement DEF Came
  <2> QED
    BY <1>1, <1>3, <2>1
<1>7. CASE Reset(n)
  BY <1>3, <1>7 DEF Reset
<1> QED
  BY <1>4, <1>5, <1>6, <1>7, ActiveStep

(* A slot that active_sessions counts as used is used: for every fleet,      *)
(* across failovers, releases, deregistrations and restarts.                 *)
THEOREM CapacityIsNotLost == Spec => []NoLostCapacity
<1>1. Init => NoLostCapacity
  <2> SUFFICES ASSUME Init, NEW n \in Rows
               PROVE  load[n] <= Cardinality(ActiveOn(n))
    BY DEF NoLostCapacity
  <2>1. load[n] = 0 /\ ActiveOn(n) = {}
    BY DEF Init, ActiveOn
  <2> QED
    BY <2>1, FS_EmptySet
<1> QED
  BY <1>1, NoLostCapacityStep, TypeCorrect, PTL DEF Spec

-----------------------------------------------------------------------------
(* A failover moves sessions away from the node that failed. *)

(* No failover waits for a launch on the node it is emptying.                *)
LaunchesElsewhere == \A p \in Procs \ Clients : at[p] = "launch" => target[p] # from[p]

(* What a step of the coordinator does to a task that transfers sessions.    *)
LEMMA TransferStep ==
    ASSUME TypeOK, LaunchesElsewhere, [Next]_vars, NEW p \in Procs \ Clients
    PROVE  /\ at'[p] = "launch" => target'[p] # from'[p]
           /\ from[p] \in Nodes /\ at[p] = "launch" /\ at'[p] = "transfer"
                 => place'[sid[p]] # from[p]
<1> DEFINE Goal == /\ at'[p] = "launch" => target'[p] # from'[p]
                   /\ from[p] \in Nodes /\ at[p] = "launch" /\ at'[p] = "transfer"
                         => place'[sid[p]] # from[p]
<1> USE FleetAssumption DEF TypeOK
<1>0. at[p] = "launch" => target[p] # from[p]
  BY DEF LaunchesElsewhere
<1>1. ASSUME at'[p] = at[p], target'[p] = target[p], from'[p] = from[p]
      PROVE  Goal
  BY <1>0, <1>1
<1>2. ASSUME at'[p] # "launch", at[p] # "launch"
      PROVE  Goal
  BY <1>2
<1>3. ASSUME NEW c \in Clients, NEW s \in Sessions, Allocate(c, s)
      PROVE  Goal
  BY <1>1, <1>3 DEF Allocate, AllocateRemote, AllocateLocal, AllocateQueued, jobVars
<1>4. ASSUME NEW q \in Procs, TaskStep(q), q # p
      PROVE  Goal
  <2>1. at'[p] = at[p] /\ target'[p] = target[p]
    <3>1. CASE LaunchOK(q)
      BY <1>4, <3>1 DEF LaunchOK, EndLaunch
    <3>2. CASE LaunchFails(q)
      BY <1>4, <3>2 DEF LaunchFails, EndLaunch
    <3>3. CASE CheckNext(q) \/ CheckDone(q) \/ ProbeUp(q)
      BY <1>4, <3>3 DEF CheckNext, CheckDone, ProbeUp
    <3>4. CASE ProbeDown(q)
      BY <1>4, <3>4 DEF ProbeDown
    <3>5. CASE TransferRemote(q) \/ TransferLocal(q) \/ TransferDone(q)
      BY <1>4, <3>5 DEF TransferRemote, TransferLocal, TransferDone
    <3> QED
      BY <1>4, <3>1, <3>2, <3>3, <3>4, <3>5 DEF TaskStep
  <2>2. from'[p] = from[p]
    BY <1>4 DEF TaskStep, LaunchOK, LaunchFails, CheckNext, CheckDone, ProbeUp, ProbeDown,
                TransferRemote, TransferLocal, TransferDone, jobVars
  <2> QED
    BY <1>1, <2>1, <2>2
<1>5. CASE LaunchOK(p)
  <2>1. /\ at[p] = "launch" /\ at'[p] = "transfer"
        /\ RelocateRecord(sid[p], target[p]) /\ sid[p] \in Sessions
    BY <1>5 DEF LaunchOK, EndLaunch
  <2>2. place'[sid[p]] = target[p]
    BY <2>1 DEF RelocateRecord, InsertRow, ReassignRow
  <2> QED
    BY <1>0, <2>1, <2>2
<1>6. CASE LaunchFails(p)
  <2>1. at[p] = "launch" /\ sid[p] \in Sessions /\ from' = from
    BY <1>6 DEF LaunchFails, jobVars
  <2>2. CASE /\ at' = at
             /\ \E n \in LeastLoaded(Excluded(p) \cup {target[p]}) :
                   target' = [target EXCEPT ![p] = n]
    <3>1. target'[p] \notin Excluded(p)
      BY <2>2, PickedIsFree
    <3> QED
      BY <2>1, <2>2, <3>1 DEF Excluded
  <2>3. CASE EndLaunch(p) /\ RelocateRecord(sid[p], Local)
    <3>1. at'[p] = "transfer"
      BY <2>3 DEF EndLaunch
    <3>2. place'[sid[p]] = Local
      BY <2>1, <2>3 DEF RelocateRecord, InsertRow, ReassignRow
    <3> QED
      BY <3>1, <3>2
  <2> QED
    BY <1>6, <2>2, <2>3 DEF LaunchFails
<1>7. CASE TransferRemote(p)
  <2>1. PICK n \in LeastLoaded(Excluded(p)) : target' = [target EXCEPT ![p] = n]
    BY <1>7 DEF TransferRemote
  <2>2. target'[p] \notin Excluded(p)
    BY <2>1, PickedIsFree
  <2> QED
    BY <1>7, <2>2 DEF TransferRemote, Excluded
<1>8. CASE \/ CheckNext(p) \/ CheckDone(p) \/ ProbeUp(p) \/ ProbeDown(p)
           \/ TransferLocal(p) \/ TransferDone(p) \/ CheckAll(p)
  <2>1. at[p] # "launch" /\ at'[p] # "launch"
    BY <1>8 DEF CheckNext, CheckDone, ProbeUp, ProbeDown, TransferLocal, TransferDone,
                CheckAll, MayBegin
  <2> QED
    BY <1>2, <2>1
<1>9. ASSUME NEW q \in Procs, CheckAll(q), q # p
      PROVE  Goal
  BY <1>1, <1>9 DEF CheckAll
<1>10. ASSUME NEW q \in Operators, NEW m \in Rows, CheckOne(q, m) \/ FailoverBegin(q, m)
       PROVE  Goal
  <2>1. CASE q = p
    <3>1. at[p] # "launch" /\ at'[p] # "launch"
      BY <1>10, <2>1 DEF CheckOne, FailoverBegin, MayBegin
    <3> QED
      BY <1>2, <3>1
  <2>2. CASE q # p
    <3>1. at'[p] = at[p] /\ target'[p] = target[p] /\ from'[p] = from[p]
      BY <1>10, <2>2 DEF CheckOne, FailoverBegin
    <3> QED
      BY <1>1, <3>1
  <2> QED
    BY <2>1, <2>2
<1>11. CASE \/ \E n \in Nodes : Register(n) \/ Unregister(n)
            \/ \E s \in Sessions : Release(s)
            \/ \E n \in Rows : CooldownEnds(n)
            \/ Sweep
            \/ UNCHANGED vars
  <2>1. at' = at /\ target' = target /\ from' = from
    BY <1>11 DEF Register, Unregister, Release, CooldownEnds, Sweep, vars, jobVars
  <2> QED
    BY <1>1, <2>1
<1>12. CASE Restart
  BY <1>12 DEF Restart, NoTask
<1> QED
  BY <1>3, <1>4, <1>5, <1>6, <1>7, <1>8, <1>9, <1>10, <1>11, <1>12
     DEF Next, TaskStep

(* Whatever fails, comes back or restarts meanwhile: a transfer away from a  *)
(* worker ends on another host.                                              *)
THEOREM FailoverIsAway == Spec => FailoverMovesAway
<1>1. Init => LaunchesElsewhere
  BY DEF Init, NoTask, LaunchesElsewhere
<1>2. TypeOK /\ LaunchesElsewhere /\ [Next]_vars => LaunchesElsewhere'
  BY TransferStep DEF LaunchesElsewhere
<1>3. TypeOK /\ LaunchesElsewhere /\ [Next]_vars
        => [\A p \in Procs \ Clients :
               from[p] \in Nodes /\ at[p] = "launch" /\ at'[p] = "transfer"
                   => place'[sid[p]] # from[p]]_vars
  BY TransferStep
<1> QED
  BY <1>1, <1>2, <1>3, TypeCorrect, PTL DEF Spec, FailoverMovesAway

=============================================================================

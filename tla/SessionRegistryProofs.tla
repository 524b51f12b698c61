------------------------ MODULE SessionRegistryProofs ------------------------
(***************************************************************************)
(* Theorems about SessionRegistry, for every number of sessions and tabs,  *)
(* every cap, budget and bound, and every set of faults.                   *)
(***************************************************************************)
EXTENDS SessionRegistry, FiniteSetTheorems, TLAPS

(* Every step of the registry keeps the types.                               *)
LEMMA TypeStep == TypeOK /\ [Next]_vars => TypeOK'
<1> SUFFICES ASSUME TypeOK, [Next]_vars
             PROVE  TypeOK'
  OBVIOUS
<1> USE RegistryAssumption DEF TypeOK, Phases, CreatePhases, DestroyPhases,
                                chromeVars, requestVars, reaperVars
<1>0. OldestAge \in Nat
  BY DEF OldestAge
<1>1. ASSUME NEW s \in Sids, CreateBegin(s)
      PROVE  TypeOK'
  BY <1>1 DEF CreateBegin, Unused
<1>2. ASSUME NEW s \in Sids, CreateScan(s)
      PROVE  TypeOK'
  BY <1>2 DEF CreateScan, ListOrphans, SweepLists, Orphans, Sweepers
<1>3. ASSUME NEW s \in Sids, CreateSweep(s)
      PROVE  TypeOK'
  BY <1>3 DEF CreateSweep, CloseOrphan, CloseTabs, Sweepers
<1>4. ASSUME NEW s \in Sids, CreateRefuse(s)
      PROVE  TypeOK'
  BY <1>4 DEF CreateRefuse
<1>5. ASSUME NEW s \in Sids, CreateEvict(s)
      PROVE  TypeOK'
  BY <1>0, <1>5 DEF CreateEvict, LeastRecentlyUsed, Idle, Live
<1>6. ASSUME NEW s \in Sids, CreateAdmit(s)
      PROVE  TypeOK'
  BY <1>6 DEF CreateAdmit
<1>7. ASSUME NEW s \in Sids, CreateEvicted(s)
      PROVE  TypeOK'
  BY <1>7 DEF CreateEvicted
<1>8. ASSUME NEW s \in Sids, CreateOpen(s)
      PROVE  TypeOK'
  BY <1>8 DEF CreateOpen, OpenNewTab
<1>9. ASSUME NEW s \in Sids, CreateOpenFails(s)
      PROVE  TypeOK'
  BY <1>9 DEF CreateOpenFails
<1>10. ASSUME NEW s \in Sids, CreateConnect(s)
      PROVE  TypeOK'
  BY <1>0, <1>10 DEF CreateConnect
<1>11. ASSUME NEW s \in Sids, CreateConnectFails(s)
      PROVE  TypeOK'
  BY <1>11 DEF CreateConnectFails
<1>12. ASSUME NEW s \in Sids, CreateUndo(s)
      PROVE  TypeOK'
  BY <1>12 DEF CreateUndo, CloseTabs
<1>13. ASSUME NEW s \in Sids, DestroyBegin(s)
      PROVE  TypeOK'
  BY <1>0, <1>13 DEF DestroyBegin
<1>14. ASSUME NEW s \in Sids, DestroyCount(s)
      PROVE  TypeOK'
  BY <1>14 DEF DestroyCount, Owned, Live, Sweepers
<1>15. ASSUME NEW s \in Sids, DestroyAnchor(s)
      PROVE  TypeOK'
  BY <1>15 DEF DestroyAnchor, AfterNoList, AdoptAnchor, Adoptable, Sweepers
<1>16. ASSUME NEW s \in Sids, DestroyMint(s)
      PROVE  TypeOK'
  BY <1>16 DEF DestroyMint, MintAnchor, OpenNewTab
<1>17. ASSUME NEW s \in Sids, DestroyClose(s)
      PROVE  TypeOK'
  BY <1>17 DEF DestroyClose, CloseTabs, ReleaseIf
<1>18. ASSUME NEW s \in Sids, RequestBegin(s)
      PROVE  TypeOK'
  BY <1>0, <1>18 DEF RequestBegin
<1>19. ASSUME NEW s \in Sids, RequestEnsure(s)
      PROVE  TypeOK'
  BY <1>19 DEF RequestEnsure
<1>20. ASSUME NEW s \in Sids, RequestReopen(s)
      PROVE  TypeOK'
  BY <1>20 DEF RequestReopen, OpenNewTab, ReleaseIf
<1>21. ASSUME NEW s \in Sids, RequestAdopt(s)
      PROVE  TypeOK'
  BY <1>21 DEF RequestAdopt
<1>35. ASSUME NEW s \in Sids, RequestAttach(s)
      PROVE  TypeOK'
  BY <1>35 DEF RequestAttach, ReleaseIf
<1>22. ASSUME NEW s \in Sids, RequestRun(s)
      PROVE  TypeOK'
  BY <1>22 DEF RequestRun, ReleaseIf
<1>23. CASE ReapBegin
  BY <1>0, <1>23 DEF ReapBegin, ReapOn, Expired, Owned, Live, Sweepers
<1>24. CASE ReapNext
  BY <1>0, <1>24 DEF ReapNext, ReapOn, Owned, Live, Sweepers
<1>25. CASE ReapAnchor
  BY <1>25 DEF ReapAnchor, AfterNoList, AdoptAnchor, Adoptable, Sweepers
<1>26. CASE ReapMint
  BY <1>26 DEF ReapMint, MintAnchor, OpenNewTab
<1>27. CASE ReapScan
  BY <1>27 DEF ReapScan, ListOrphans, SweepLists, Orphans, Sweepers
<1>28. CASE ReapSweep
  BY <1>28 DEF ReapSweep, CloseOrphan, CloseTabs, Sweepers
<1>29. CASE ReapEnd
  BY <1>29 DEF ReapEnd
<1>30. CASE Tick
  BY <1>0, <1>30 DEF Tick, Live
<1>31. CASE PersonClosesTab
  BY <1>31 DEF PersonClosesTab, CloseTabs
<1>32. CASE Relaunch
  BY <1>32 DEF Relaunch, OpenNewTab
<1>33. CASE UNCHANGED vars
  BY <1>33 DEF vars
<1>34. QED
  BY <1>1, <1>2, <1>3, <1>4, <1>5, <1>6, <1>7, <1>8, <1>9, <1>10, <1>11,
     <1>12, <1>13, <1>14, <1>15, <1>16, <1>17, <1>18, <1>19, <1>20, <1>21,
     <1>22, <1>23, <1>24, <1>25, <1>26, <1>27, <1>28, <1>29, <1>30, <1>31,
     <1>32, <1>33, <1>35
  DEF Next, Create, DestroyStep, RequestStep, ReapStep

(* The initial values have their types.                                      *)
LEMMA TypeInit == Init => TypeOK
  BY RegistryAssumption
  DEF Init, TypeOK, Tabs, NoTab, OldestAge, Sweepers, Phases

(* The registry's variables keep their types.                                *)
THEOREM TypeCorrect == Spec => []TypeOK
  BY TypeInit, TypeStep, PTL DEF Spec

-----------------------------------------------------------------------------
(* The lock.                                                                 *)

(* The steps that leave every session in its phase and the lock alone.       *)
PhaseKept ==
    \/ \E s \in Sids : CreateSweep(s) \/ RequestBegin(s) \/ RequestStep(s)
    \/ ReapAnchor \/ ReapMint \/ ReapScan \/ ReapSweep \/ ReapEnd
    \/ Tick \/ PersonClosesTab \/ Relaunch
    \/ UNCHANGED vars

(* They really do.                                                           *)
LEMMA PhaseKeptSteps == PhaseKept => UNCHANGED <<pc, lock>>
<1>1. ASSUME NEW s \in Sids, RequestStep(s)
      PROVE  UNCHANGED <<pc, lock>>
  BY <1>1 DEF RequestStep, RequestEnsure, RequestReopen, RequestAdopt, RequestAttach,
                  RequestRun
<1>2. ASSUME NEW s \in Sids, CreateSweep(s) \/ RequestBegin(s)
      PROVE  UNCHANGED <<pc, lock>>
  BY <1>2 DEF CreateSweep, RequestBegin
<1>3. CASE ReapAnchor \/ ReapMint \/ ReapScan \/ ReapSweep \/ ReapEnd
  BY <1>3 DEF ReapAnchor, ReapMint, ReapScan, ReapSweep, ReapEnd
<1>4. CASE Tick \/ PersonClosesTab \/ Relaunch \/ UNCHANGED vars
  BY <1>4 DEF Tick, PersonClosesTab, Relaunch, vars
<1>5. QED
  BY <1>1, <1>2, <1>3, <1>4 DEF PhaseKept

(* The pop of destroy(), whoever calls it: session v leaves _sessions.       *)
Popped(v) ==
    /\ v \in Live
    /\ pc' = [pc EXCEPT ![v] = "count"]
    /\ lock' = lock

(* A reaper step that goes on with its list pops one session of it or none.  *)
LEMMA ReapPops ==
    ASSUME ReapBegin \/ ReapNext
    PROVE  UNCHANGED <<pc, lock>> \/ \E v \in Sids : Popped(v)
<1>1. CASE ReapBegin
  BY <1>1 DEF ReapBegin, ReapOn, Popped, Live
<1>2. CASE ReapNext
  BY <1>2 DEF ReapNext, ReapOn, Popped, Live
<1>3. QED
  BY <1>1, <1>2

(* No step breaks the mutual exclusion of creations.                         *)
LEMMA LockStep == TypeOK /\ LockHeld /\ [Next]_vars => LockHeld'
<1> SUFFICES ASSUME TypeOK, LockHeld, [Next]_vars
             PROVE  LockHeld'
  OBVIOUS
<1> USE RegistryAssumption DEF LockHeld, CreatePhases
<1>0. pc \in [Sids -> Phases]
  BY DEF TypeOK
<1>1. CASE PhaseKept
  BY <1>1, PhaseKeptSteps
<1>2. ASSUME NEW v \in Sids, Popped(v)
      PROVE  LockHeld'
  BY <1>0, <1>2 DEF Popped
<1>3. ASSUME NEW s \in Sids, CreateBegin(s)
      PROVE  LockHeld'
  <2>1. \A x \in Sids : pc[x] \notin CreatePhases
    BY <1>3 DEF CreateBegin
  <2>2. QED
    BY <1>0, <1>3, <2>1 DEF CreateBegin
<1>4. ASSUME NEW s \in Sids,
             CreateScan(s) \/ CreateAdmit(s) \/ CreateEvicted(s)
               \/ CreateOpen(s) \/ CreateConnectFails(s)
      PROVE  LockHeld'
  BY <1>0, <1>4
  DEF CreateScan, CreateAdmit, CreateEvicted, CreateOpen, CreateConnectFails
<1>5. ASSUME NEW s \in Sids, CreateEvict(s)
      PROVE  LockHeld'
  BY <1>0, <1>5 DEF CreateEvict, LeastRecentlyUsed, Idle, Live
<1>6. ASSUME NEW s \in Sids,
             CreateRefuse(s) \/ CreateOpenFails(s) \/ CreateConnect(s)
               \/ CreateUndo(s)
      PROVE  LockHeld'
  <2>1. lock = s
    BY <1>6 DEF CreateRefuse, CreateOpenFails, CreateConnect, CreateUndo
  <2>2. \A x \in Sids \ {s} : pc[x] \notin CreatePhases
    BY <2>1
  <2>3. QED
    BY <1>0, <1>6, <2>2
    DEF CreateRefuse, CreateOpenFails, CreateConnect, CreateUndo
<1>7. ASSUME NEW s \in Sids, DestroyBegin(s)
      PROVE  LockHeld'
  BY <1>2, <1>7 DEF DestroyBegin, Popped, Live
<1>8. ASSUME NEW s \in Sids, DestroyStep(s)
      PROVE  LockHeld'
  BY <1>0, <1>8
  DEF DestroyStep, DestroyCount, DestroyAnchor, AfterNoList, DestroyMint, DestroyClose
<1>9. CASE ReapBegin \/ ReapNext
  <2>1. CASE UNCHANGED <<pc, lock>>
    BY <2>1
  <2>2. QED
    BY <1>2, <1>9, <2>1, ReapPops
<1>10. QED
  BY <1>1, <1>3, <1>4, <1>5, <1>6, <1>7, <1>8, <1>9
  DEF Next, Create, ReapStep, PhaseKept

(* Creations exclude one another.                                            *)
THEOREM CreationsExclude == Spec => []LockHeld
<1>1. Init => LockHeld
  BY DEF Init, LockHeld, CreatePhases
<1>2. QED
  BY <1>1, TypeCorrect, LockStep, PTL DEF Spec

-----------------------------------------------------------------------------
(* The number of sessions.                                                   *)

(* A set of sessions within the cap and the budget.                          *)
Bounded(S) ==
    /\ Cardinality(S) <= MaxSessions
    /\ TabBudget # 0 => Cardinality(S) <= TabBudget

(* Sets of sessions are finite, and a part of a bounded set is bounded.      *)
LEMMA BoundedPart ==
    ASSUME NEW S \in SUBSET Sids, NEW P \in SUBSET S
    PROVE  /\ IsFiniteSet(S)
           /\ Cardinality(S) \in Nat
           /\ Cardinality(P) \in Nat
           /\ Bounded(S) => Bounded(P)
<1>1. IsFiniteSet(S)
  BY RegistryAssumption, FS_Subset
<1>2. IsFiniteSet(P) /\ Cardinality(P) <= Cardinality(S)
  BY <1>1, FS_Subset
<1>3. Cardinality(S) \in Nat /\ Cardinality(P) \in Nat
  BY <1>1, <1>2, FS_CardinalityType
<1>4. QED
  BY <1>1, <1>2, <1>3, RegistryAssumption DEF Bounded

(* The sessions taken are the live ones and the one of the creation that     *)
(* holds the lock, once it has been admitted.                                *)
LEMMA TakenSplit ==
    ASSUME TypeOK, LockHeld
    PROVE  /\ Live \subseteq Taken
           /\ Taken \subseteq Live \cup {lock}
           /\ Taken \subseteq Sids
  BY DEF Taken, Live, LockHeld, CreatePhases

(* Only an admission adds to the sessions taken; an eviction trades one      *)
(* session for another.                                                      *)
LEMMA TakenGrows ==
    ASSUME TypeOK, LockHeld, [Next]_vars
    PROVE  \/ Taken' \subseteq Taken
           \/ \E s \in Sids : CreateAdmit(s) \/ CreateEvict(s)
<1> USE DEF Taken
<1>0. pc \in [Sids -> Phases]
  BY DEF TypeOK
<1>1. CASE PhaseKept
  BY <1>1, PhaseKeptSteps
<1>2. ASSUME NEW v \in Sids, Popped(v)
      PROVE  Taken' \subseteq Taken
  BY <1>0, <1>2 DEF Popped
<1>3. ASSUME NEW s \in Sids,
             CreateBegin(s) \/ CreateScan(s) \/ CreateRefuse(s)
               \/ CreateEvicted(s) \/ CreateOpen(s) \/ CreateOpenFails(s)
      PROVE  Taken' \subseteq Taken
  BY <1>0, <1>3
  DEF CreateBegin, CreateScan, CreateRefuse, CreateEvicted, CreateOpen,
      CreateOpenFails
<1>4. ASSUME NEW s \in Sids,
             CreateConnect(s) \/ CreateConnectFails(s) \/ CreateUndo(s)
      PROVE  Taken' \subseteq Taken
  BY <1>0, <1>4 DEF CreateConnect, CreateConnectFails, CreateUndo
<1>5. ASSUME NEW s \in Sids, DestroyBegin(s)
      PROVE  Taken' \subseteq Taken
  BY <1>2, <1>5 DEF DestroyBegin, Popped, Live
<1>6. ASSUME NEW s \in Sids, DestroyStep(s)
      PROVE  Taken' \subseteq Taken
  BY <1>0, <1>6
  DEF DestroyStep, DestroyCount, DestroyAnchor, AfterNoList, DestroyMint, DestroyClose
<1>7. CASE ReapBegin \/ ReapNext
  BY <1>2, <1>7, ReapPops
<1>8. QED
  BY <1>1, <1>3, <1>4, <1>5, <1>6, <1>7
  DEF Next, Create, ReapStep, PhaseKept

(* No step takes more sessions than the cap and the budget allow.            *)
LEMMA BoundStep == TypeOK /\ LockHeld /\ SessionBound /\ [Next]_vars => SessionBound'
<1> SUFFICES ASSUME TypeOK, LockHeld, SessionBound, [Next]_vars
             PROVE  SessionBound'
  OBVIOUS
<1>0. Bounded(Taken) /\ Taken \in SUBSET Sids /\ pc \in [Sids -> Phases]
  BY DEF SessionBound, Bounded, Taken, TypeOK
<1>1. SUFFICES Bounded(Taken')
  BY DEF SessionBound, Bounded
<1>2. CASE Taken' \subseteq Taken
  BY <1>0, <1>2, BoundedPart
<1>3. ASSUME NEW s \in Sids, CreateAdmit(s)
      PROVE  Bounded(Taken')
  (* The creation holds the lock, so only live sessions were taken before.   *)
  <2>1. lock = s /\ s \notin Live
    BY <1>3 DEF CreateAdmit, LockHeld, CreatePhases, Live
  <2>2. Taken' = Live \cup {s}
    <3>1. \A x \in Sids \ {s} : pc[x] \notin CreatePhases /\ pc'[x] = pc[x]
      BY <1>0, <1>3, <2>1 DEF CreateAdmit, LockHeld
    <3>2. pc'[s] = "open"
      BY <1>0, <1>3 DEF CreateAdmit
    <3>3. QED
      BY <3>1, <3>2 DEF Taken, Live, CreatePhases
  <2>3. Cardinality(Live) \in Nat /\ IsFiniteSet(Live)
    BY BoundedPart DEF Live
  <2>4. Cardinality(Taken') = Cardinality(Live) + 1
    BY <2>1, <2>2, <2>3, FS_AddElement
  <2>5. ~AtCapacity /\ ~BudgetSpent
    BY <1>3 DEF CreateAdmit
  <2>6. QED
    BY <2>3, <2>4, <2>5, RegistryAssumption DEF AtCapacity, BudgetSpent, Bounded
<1>4. ASSUME NEW s \in Sids, CreateEvict(s)
      PROVE  Bounded(Taken')
  (* The victim leaves before the newcomer is counted.                       *)
  <2>1. lock = s /\ s \notin Live
    BY <1>4 DEF CreateEvict, LockHeld, CreatePhases, Live
  <2>2. PICK v \in Live : pc' = [pc EXCEPT ![s] = "evict", ![v] = "count"]
    BY <1>4 DEF CreateEvict, LeastRecentlyUsed, Idle
  <2>3. Taken' = (Live \ {v}) \cup {s}
    <3>1. \A x \in Sids \ {s} : pc[x] \notin CreatePhases
      BY <2>1 DEF LockHeld
    <3>2. \A x \in Sids \ {s, v} : pc'[x] = pc[x]
      BY <1>0, <2>2
    <3>3. pc'[s] = "evict" /\ pc'[v] = "count" /\ v \in Sids
      BY <1>0, <2>1, <2>2 DEF Live
    <3>4. QED
      BY <2>1, <3>1, <3>2, <3>3 DEF Taken, Live, CreatePhases
  <2>4. IsFiniteSet(Live) /\ Bounded(Live) /\ Cardinality(Live) \in Nat
    BY <1>0, BoundedPart, TakenSplit
  <2>5. /\ IsFiniteSet(Live \ {v})
        /\ Cardinality(Live \ {v}) = Cardinality(Live) - 1
    BY <2>2, <2>4, FS_RemoveElement
  <2>6. Cardinality(Taken') = Cardinality(Live)
    <3>1. s \notin Live \ {v}
      BY <2>1
    <3>2. Cardinality((Live \ {v}) \cup {s}) = Cardinality(Live \ {v}) + 1
      BY <2>5, <3>1, FS_AddElement
    <3>3. QED
      BY <2>3, <2>4, <2>5, <3>2
  <2>7. QED
    BY <2>4, <2>6 DEF Bounded
<1>5. QED
  BY <1>2, <1>3, <1>4, TakenGrows

(* The inductive invariant: types, the lock, and the bound it protects.      *)
RegistryInv == TypeOK /\ LockHeld /\ SessionBound

(* It holds initially and every step keeps it.                               *)
THEOREM RegistryInvariant == Spec => []RegistryInv
<1>1. Init => RegistryInv
  <2>1. Init => LockHeld
    BY DEF Init, LockHeld, CreatePhases
  <2>2. Init => Taken = {}
    BY DEF Init, Taken
  <2>3. Init => SessionBound
    BY <2>2, FS_EmptySet, RegistryAssumption DEF SessionBound
  <2>4. QED
    BY <2>1, <2>3, TypeInit DEF RegistryInv
<1>2. RegistryInv /\ [Next]_vars => RegistryInv'
  BY TypeStep, LockStep, BoundStep DEF RegistryInv
<1>3. QED
  BY <1>1, <1>2, PTL DEF Spec

(* There are never more sessions, admitted ones included, than               *)
(* BH_MAX_SESSIONS and BH_MAX_TABS allow, whatever interleaves.              *)
THEOREM SessionsBounded == Spec => []SessionBound
<1>1. RegistryInv => SessionBound
  BY DEF RegistryInv
<1>2. QED
  BY <1>1, RegistryInvariant, PTL

-----------------------------------------------------------------------------
(* The registry implements a limited set of slots.                           *)

(* The limit is the smaller of the cap and the budget, where there is one.   *)
LEMMA BoundedByLimit ==
    ASSUME NEW S, Cardinality(S) \in Nat, Bounded(S)
    PROVE  Cardinality(S) <= Limit /\ Limit \in Nat
  BY RegistryAssumption DEF Bounded, Limit

(* Every step opens one session within the limit, closes one, or leaves the  *)
(* set of sessions as it is.                                                 *)
LEMMA SlotStep == RegistryInv /\ [Next]_vars => [Slots!Next]_Live
<1> SUFFICES ASSUME RegistryInv, [Next]_vars
             PROVE  [Slots!Next]_Live
  OBVIOUS
<1>0. TypeOK /\ LockHeld /\ SessionBound /\ pc \in [Sids -> Phases]
  BY DEF RegistryInv, TypeOK
<1>1. CASE PhaseKept
  BY <1>1, PhaseKeptSteps DEF Live
<1>2. ASSUME NEW v \in Sids, Popped(v)
      PROVE  Slots!Next
  <2>1. v \in Live /\ Live' = Live \ {v}
    BY <1>0, <1>2 DEF Popped, Live
  <2>2. QED
    BY <2>1 DEF Slots!Next, Slots!Close
<1>3. ASSUME NEW s \in Sids, CreateConnect(s)
      PROVE  Slots!Next
  (* The admitted session is among the taken ones, and not yet among the     *)
  (* live.                                                                   *)
  <2>1. s \notin Live /\ Live' = Live \cup {s}
    BY <1>0, <1>3 DEF CreateConnect, Live
  <2>2. Live \cup {s} \subseteq Taken /\ Taken \in SUBSET Sids
    BY <1>0, <1>3, TakenSplit DEF CreateConnect, Taken
  <2>3. Bounded(Taken)
    BY <1>0 DEF SessionBound, Bounded
  <2>4. Cardinality(Live \cup {s}) <= Limit /\ Limit \in Nat
    BY <2>2, <2>3, BoundedPart, BoundedByLimit
  <2>5. IsFiniteSet(Live) /\ Cardinality(Live) \in Nat
    BY BoundedPart DEF Live
  <2>6. Cardinality(Live) < Limit
    BY <2>1, <2>4, <2>5, FS_AddElement
  <2>7. QED
    BY <2>1, <2>6, Zenon
    DEF Slots!Next, Slots!Open, Slots!Cardinality, Slots!IsFiniteSet,
        Cardinality, IsFiniteSet
<1>4. ASSUME NEW s \in Sids, CreateEvict(s)
      PROVE  Slots!Next
  <2>1. PICK v \in Live : pc' = [pc EXCEPT ![s] = "evict", ![v] = "count"]
    BY <1>4 DEF CreateEvict, LeastRecentlyUsed, Idle
  <2>2. pc[s] = "sweep"
    BY <1>4 DEF CreateEvict
  <2>3. v \in Sids /\ Live' = Live \ {v}
    BY <1>0, <2>1, <2>2 DEF Live
  <2>4. QED
    BY <2>1, <2>3 DEF Slots!Next, Slots!Close
<1>5. ASSUME NEW s \in Sids,
             CreateBegin(s) \/ CreateScan(s) \/ CreateRefuse(s) \/ CreateAdmit(s)
               \/ CreateEvicted(s) \/ CreateOpen(s) \/ CreateOpenFails(s)
               \/ CreateConnectFails(s) \/ CreateUndo(s)
      PROVE  UNCHANGED Live
  BY <1>0, <1>5
  DEF CreateBegin, Unused, CreateScan, CreateRefuse, CreateAdmit, CreateEvicted,
      CreateOpen, CreateOpenFails, CreateConnectFails, CreateUndo, Live
<1>6. ASSUME NEW s \in Sids, DestroyBegin(s)
      PROVE  Slots!Next
  BY <1>2, <1>6 DEF DestroyBegin, Popped, Live
<1>7. ASSUME NEW s \in Sids, DestroyStep(s)
      PROVE  UNCHANGED Live
  BY <1>0, <1>7
  DEF DestroyStep, DestroyCount, DestroyAnchor, AfterNoList, DestroyMint, DestroyClose, Live
<1>8. CASE ReapBegin \/ ReapNext
  <2>1. CASE UNCHANGED <<pc, lock>>
    BY <2>1 DEF Live
  <2>2. QED
    BY <1>2, <1>8, <2>1, ReapPops
<1>9. QED
  BY <1>1, <1>3, <1>4, <1>5, <1>6, <1>7, <1>8
  DEF Next, Create, ReapStep, PhaseKept

(* The registry, with its coroutines, its lock, its reaper and a browser     *)
(* that fails, implements the limited set of slots its clients rely on.      *)
THEOREM RegistryImplementsSlots == Spec => ImplementsSlots
<1>1. Init => Slots!Init
  BY DEF Init, Slots!Init, Live
<1>2. QED
  BY <1>1, SlotStep, RegistryInvariant, PTL DEF Spec, ImplementsSlots, Slots!Spec

=============================================================================

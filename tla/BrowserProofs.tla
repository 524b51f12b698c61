---------------------------- MODULE BrowserProofs ----------------------------
(***************************************************************************)
(* Theorems about what stands between the service and its browsers: the    *)
(* connection to Chrome, its launch, the headless sessions, the WebSocket  *)
(* clients that are told, the snapshots that acts pin, the acts of agents  *)
(* and their errands, the requests that Chrome pauses; for any number of   *)
(* coroutines, sockets, processes, clients and agents.                     *)
(***************************************************************************)
EXTENDS CdpClient, ChromeLaunch, Interception, Headless, StateBroadcast,
        AgentRuntime, AgentActs, AgentFlows, ListProofs

-----------------------------------------------------------------------------
(* StateBroadcast.  A walk that nobody has disturbed finds the set as large  *)
(* as it was.                                                                *)
WalkFits ==
    \A o \in Ops : o \in Telling /\ o \notin churned => walk[o].size = Cardinality(wsClients)

TellingInv ==
    /\ op \in [Ops -> {"idle", "running", "tells success", "tells error"}]
    /\ DOMAIN walk = Ops /\ walk = [o \in Ops |-> walk[o]]
    /\ \A o \in Ops : DOMAIN walk[o] = {"left", "size", "stale"}
    /\ WalkFits

(* Headless.  What belongs to init runs and is nobody's session; a session   *)
(* that is closing is being closed; the guard does not launch.               *)
OrphansApart == orphans \subseteq alive /\ orphans \cap (Tabled \cup With("launch")) = {}
ClosingClosed == \A p \in Procs : status[p] = "closing" => p \in With("close")
GuardOnlyCloses == task[Guard].does # "launch"
HeadlessInv ==
    HeadlessTypeOK /\ OrphansApart /\ ClosingClosed /\ GuardOnlyCloses /\ HeadlessBounded

(* CdpClient.  Socket s holds what was sent on it since it was opened: a     *)
(* command with an id that is taken, and that its sender alone waits for.    *)
OfToday(r) == r[1] \in 1..messageId /\ pending[r[1]] \in {r[2], NoTask}
RepliesOfToday ==
    ws # NoSocket =>
      /\ \A r \in sent[ws] : OfToday(r)
      /\ \A k \in 1..Len(inbox[ws]) : inbox[ws][k] # Frame => OfToday(inbox[ws][k])

(* Whoever waits for an id of the table of today waits on the socket of today. *)
WaitersOfToday ==
    \A i \in MessageIds :
      pending[i] # NoTask /\ cmd[pending[i]].waits => cmd[pending[i]].socket = ws

(* A socket that was never opened has carried nothing, and a listener waits  *)
(* only while it acknowledges a frame.                                       *)
UnusedBlank ==
    \A s \in Sockets :
      /\ link[s] = "unused" => sent[s] = {} /\ inbox[s] = <<>> /\ listener[s] = "none"
      /\ cmd[s].waits => listener[s] = "acking"

ClientInv ==
    CdpTypeOK /\ RepliesOfToday /\ WaitersOfToday /\ UnusedBlank /\ ConnectedHasListener

(* ChromeLaunch.  A launch is blind after a scan that has seen no Chrome.    *)
Starting == {b \in Browsers : browser[b] = "starting"}
Blind(l) == at[l] \in {"listed", "relisted"} /\ found[l] = NoBrowser
AboutToSpawn == \E l \in Launchers : at[l] = "relisted" /\ found[l] = NoBrowser

(* A process that has not come up has a launch that waits for it and does    *)
(* not hold the lock.                                                        *)
StartingWatched ==
    \A b \in Starting : b # singleton /\ \E l \in Launchers : at[l] = "warming" /\ mine[l] = b

(* Two launches at most are past the flag and look for a Chrome.             *)
FewSearch == \A l, m, n \in Searching : l = m \/ l = n \/ m = n

(* While a Chrome lives at most one launch is blind, and none when a process *)
(* is about to come up beside another.                                       *)
OneBlind ==
    /\ Live # {} => \A l, m \in Launchers : Blind(l) /\ Blind(m) => l = m
    /\ (OnProfile # {} /\ Starting # {}) \/ (\E b, c \in Starting : b # c) =>
         \A l \in Launchers : ~Blind(l)

(* The lock lies there when a second process is about to come up.            *)
LockLies == OnProfile # {} /\ (Starting # {} \/ AboutToSpawn) => singleton # NoBrowser

OneServes == \A b, c \in OnProfile : b = c

(* So it is unless something has slipped by.                                 *)
InOrder == FewSearch /\ OneBlind /\ LockLies /\ OneServes
OneChromeInv == ChromeTypeOK /\ StartingWatched /\ (~slipped => InOrder)

-----------------------------------------------------------------------------
(* StateBroadcast.                                                           *)

LEMMA TellingInit == BroadcastInit => TellingInv
BY DEF BroadcastInit, TellingInv, WalkFits, Telling, NoWalk

LEMMA TellingStep == TellingInv /\ [BroadcastNext]_broadcastVars => TellingInv'
<1> SUFFICES ASSUME TellingInv, [BroadcastNext]_broadcastVars
             PROVE  TellingInv'
  OBVIOUS
<1> USE DEF TellingInv, WalkFits, Telling
<1>1. ASSUME NEW s, Becomes(s), UNCHANGED <<op, walk>>
      PROVE  TellingInv'
  BY <1>1 DEF Becomes
<1>2. CASE UNCHANGED <<wsClients, churned, op, walk>>
  BY <1>2
<1>3. ASSUME NEW c \in WsPeers,
             \/ WsConnects(c) \/ WsDrops(c) \/ HelloEnds(c)
             \/ WsActs(c) \/ WsActionEnds(c) \/ WsDisconnects(c)
      PROVE  TellingInv'
  BY <1>1, <1>2, <1>3
  DEF WsConnects, WsDrops, HelloEnds, WsActs, WsActionEnds, WsDisconnects, Leaves
<1>4. ASSUME NEW o \in Ops, OpBegins(o)
      PROVE  TellingInv'
  BY <1>4 DEF OpBegins
<1>5. ASSUME NEW o \in Ops, NEW says \in {"tells success", "tells error"}, Walks(o, says),
             wsClients' = wsClients, churned' \in {churned, churned \ {o}}
      PROVE  TellingInv'
  BY <1>5 DEF Walks
<1>6. ASSUME NEW o \in Ops, MethodEnds(o)
      PROVE  TellingInv'
  BY <1>5, <1>6 DEF MethodEnds
<1>7. ASSUME NEW o \in Ops, Tells(o)
      PROVE  TellingInv'
  <2>1. PICK c : walk' = [walk EXCEPT ![o].left = @ \ {c},
                                      ![o].stale = IF c \in up THEN @ ELSE @ \cup {c}]
    BY <1>7 DEF Tells
  <2>2. /\ DOMAIN walk' = Ops /\ walk' = [p \in Ops |-> walk'[p]]
        /\ \A p \in Ops : walk'[p].size = walk[p].size /\ DOMAIN walk'[p] = DOMAIN walk[p]
    BY <2>1
  <2>3. QED
    BY <1>7, <2>2 DEF Tells
<1>8. ASSUME NEW o \in Ops, TellsLast(o)
      PROVE  TellingInv'
  BY <1>8 DEF TellsLast, NoWalk
<1>9. ASSUME NEW o \in Ops, WalkBreaks(o)
      PROVE  TellingInv'
  <2>1. CASE op[o] = "tells success"
    BY <1>5, <1>9, <2>1 DEF WalkBreaks
  <2>2. CASE op[o] # "tells success"
    BY <1>9, <2>2 DEF WalkBreaks, NoWalk
  <2>3. QED
    BY <2>1, <2>2
<1>10. QED
  BY <1>2, <1>3, <1>4, <1>6, <1>7, <1>8, <1>9 DEF BroadcastNext, broadcastVars

(* An operation that has succeeded is told as a failure only if some client  *)
(* came or went while it was being told, for any number of operations and    *)
(* clients (broadcast_state, run_op).                                        *)
THEOREM TellsWhatHappened == BroadcastSpec => MisreportNeedsChurn
<1>1. ASSUME TellingInv, [BroadcastNext]_broadcastVars, NEW o \in Ops,
             op[o] = "tells success", op'[o] = "tells error"
      PROVE  o \in churned
  <2>1. WalkBreaks(o)
    BY <1>1 DEF TellingInv, BroadcastNext, broadcastVars, peerVars, WsConnects, WsDrops, HelloEnds,
       WsActs, WsActionEnds, WsDisconnects, OpBegins, MethodEnds, Walks, Tells, TellsLast, WalkBreaks
  <2>2. QED
    BY <1>1, <2>1 DEF TellingInv, WalkFits, WalkBreaks, SameSize
<1>2. TellingInv /\ [BroadcastNext]_broadcastVars =>
        [\A o \in Ops :
           op[o] = "tells success" /\ op'[o] = "tells error" => o \in churned]_broadcastVars
  BY <1>1
<1>3. QED
  BY <1>2, TellingInit, TellingStep, PTL DEF BroadcastSpec, MisreportNeedsChurn

-----------------------------------------------------------------------------
(* Headless.                                                                 *)

(* Sets of processes and of requests have a size.                            *)
LEMMA HeadlessSizes ==
    /\ IsFiniteSet(Procs) /\ IsFiniteSet(HeadlessUsers)
    /\ Cardinality(HeadlessUsers) \in Nat /\ MaxHeadless \in Nat /\ MaxHeadless >= 1
    /\ \A S \in SUBSET Procs : IsFiniteSet(S) /\ Cardinality(S) \in Nat
    /\ \A S \in SUBSET Procs : \A T \in SUBSET S : Cardinality(T) <= Cardinality(S)
BY HeadlessAssumption, FS_Subset, FS_CardinalityType

(* There are no more launches under way than requests.                       *)
LEMMA LaunchesBounded ==
    ASSUME NEW T \in [HeadlessTasks -> [does : {"idle", "launch", "close"},
                                        with : Procs \cup {NoProc}]],
           T[Guard].does # "launch",
           NEW W, W = {T[t].with : t \in {u \in HeadlessTasks : T[u].does = "launch"}}
    PROVE  IsFiniteSet(W) /\ Cardinality(W) <= Cardinality(HeadlessUsers)
<1> DEFINE U == {u \in HeadlessTasks : T[u].does = "launch"}
           f == [u \in U |-> T[u].with]
<1>1. U \subseteq HeadlessUsers
  BY DEF HeadlessTasks
<1>2. IsFiniteSet(U) /\ Cardinality(U) <= Cardinality(HeadlessUsers)
  BY <1>1, HeadlessAssumption, FS_Subset
<1>3. f \in Surjection(U, W)
  BY DEF Surjection
<1> HIDE DEF f, U
<1>4. IsFiniteSet(W) /\ Cardinality(W) <= Cardinality(U)
  BY <1>2, <1>3, FS_Surjection
<1>5. Cardinality(U) \in Nat /\ Cardinality(W) \in Nat /\ Cardinality(HeadlessUsers) \in Nat
  BY <1>2, <1>4, HeadlessAssumption, FS_CardinalityType
<1>6. QED
  BY <1>2, <1>4, <1>5

(* The processes that count against the limit.                               *)
Reckoned == (Active \ With("close")) \cup With("launch")

LEMMA BoundedBySubset ==
    ASSUME HeadlessInv, HeadlessTypeOK', GuardOnlyCloses', Reckoned' \subseteq Reckoned
    PROVE  HeadlessBounded'
<1>1. IsFiniteSet(Reckoned)
  <2>1. IsFiniteSet(Active \ With("close"))
    BY HeadlessSizes DEF Active
  <2>2. IsFiniteSet(With("launch"))
    BY LaunchesBounded DEF HeadlessInv, HeadlessTypeOK, GuardOnlyCloses, With
  <2>3. QED
    BY <2>1, <2>2, FS_Union DEF Reckoned
<1>2. IsFiniteSet(Reckoned') /\ Cardinality(Reckoned') <= Cardinality(Reckoned)
  BY <1>1, FS_Subset
<1>3. Cardinality(Reckoned) \in Nat /\ Cardinality(Reckoned') \in Nat
  BY <1>1, <1>2, FS_CardinalityType
<1>4. QED
  BY <1>2, <1>3, HeadlessSizes DEF HeadlessInv, HeadlessBounded, Reckoned

LEMMA HeadlessTypeStep ==
    ASSUME HeadlessTypeOK, GuardOnlyCloses, [HeadlessNext]_headlessVars
    PROVE  HeadlessTypeOK' /\ GuardOnlyCloses'
<1> USE DEF HeadlessTypeOK, GuardOnlyCloses, HeadlessTasks, Begin, End, AtRest
<1>1. ASSUME NEW u \in HeadlessUsers, HeadlessLaunch(u)
      PROVE  HeadlessTypeOK' /\ GuardOnlyCloses'
  <2>1. (CHOOSE p \in Spare : TRUE) \in Procs
    BY <1>1 DEF HeadlessLaunch, Spare
  <2>2. QED
    BY <1>1, <2>1, HeadlessAssumption DEF HeadlessLaunch
<1>2. ASSUME NEW u \in HeadlessUsers, LaunchReady(u) \/ LaunchGivesUp(u)
      PROVE  HeadlessTypeOK' /\ GuardOnlyCloses'
  <2>1. u \in HeadlessTasks /\ u # Guard
    BY HeadlessAssumption
  <2>2. CASE LaunchReady(u)
    <3>1. status' \in [Procs -> {"none", "active", "closing"}]
      BY <2>2 DEF LaunchReady
    <3>2. QED
      BY <2>1, <2>2, <3>1 DEF LaunchReady
  <2>3. CASE LaunchGivesUp(u)
    BY <2>1, <2>3 DEF LaunchGivesUp
  <2>4. QED
    BY <1>2, <2>2, <2>3
<1>3. ASSUME NEW t \in HeadlessTasks, SessionCloses(t)
      PROVE  HeadlessTypeOK' /\ GuardOnlyCloses'
  BY <1>3 DEF SessionCloses
<1>4. ASSUME NEW t \in HeadlessTasks, NEW p \in Procs, CloseSession(t, p), toReap' \subseteq Procs
      PROVE  HeadlessTypeOK' /\ GuardOnlyCloses'
  BY <1>4 DEF CloseSession
<1>5. ASSUME NEW p \in Procs,
             NavigateSession(p) \/ Outlives(p) \/ Exits(p) \/ GuardCloses(p) \/ SweepKills(p)
      PROVE  HeadlessTypeOK' /\ GuardOnlyCloses'
  BY <1>4, <1>5 DEF NavigateSession, Outlives, Exits, GuardCloses, SweepKills
<1>6. ASSUME NEW p \in Procs, NEW u \in HeadlessUsers, UserCloses(u, p)
      PROVE  HeadlessTypeOK' /\ GuardOnlyCloses'
  BY <1>4, <1>6 DEF UserCloses
<1>7. CASE GuardLists \/ ServiceRestarts \/ SweepListsAlive
  <2>1. CASE GuardLists
    BY <2>1 DEF GuardLists, Active
  <2>2. CASE ServiceRestarts
    <3>1. status' \in [Procs -> {"none", "active", "closing"}]
      BY <2>2 DEF ServiceRestarts
    <3>2. /\ task' \in [HeadlessTasks -> [does : {"idle", "launch", "close"}, with : Procs \cup {NoProc}]]
          /\ task'[Guard].does # "launch"
      BY <2>2 DEF ServiceRestarts
    <3>3. QED
      BY <2>2, <3>1, <3>2 DEF ServiceRestarts
  <2>3. CASE SweepListsAlive
    BY <2>3 DEF SweepListsAlive
  <2>4. QED
    BY <1>7, <2>1, <2>2, <2>3
<1>8. CASE UNCHANGED headlessVars
  BY <1>8 DEF headlessVars
<1>9. QED
  BY <1>1, <1>2, <1>3, <1>5, <1>6, <1>7, <1>8 DEF HeadlessNext

(* What the requests do with a process, said of one process.                 *)
LEMMA WithIs ==
    \A d, p : p \in With(d) <=> \E t \in HeadlessTasks : task[t].does = d /\ task[t].with = p
BY DEF With

LEMMA WithIsNext ==
    \A d, p : p \in With(d)' <=> \E t \in HeadlessTasks : task'[t].does = d /\ task'[t].with = p
BY DEF With

(* A request ends what it does.                                              *)
LEMMA WithEnds ==
    ASSUME HeadlessTypeOK, NEW t \in HeadlessTasks, task' = [task EXCEPT ![t] = AtRest]
    PROVE  /\ With("launch")' \subseteq With("launch") /\ With("close")' \subseteq With("close")
           /\ \A d, p : p \in With(d) => p \in With(d)' \/ (task[t].does = d /\ task[t].with = p)
<1>1. task'[t] = AtRest /\ \A u \in HeadlessTasks \ {t} : task'[u] = task[u]
  BY DEF HeadlessTypeOK
<1>2. AtRest.does = "idle"
  BY DEF AtRest
<1>3. QED
  BY <1>1, <1>2, WithIs, WithIsNext

(* A request at rest begins something.                                       *)
LEMMA WithBegins ==
    ASSUME HeadlessTypeOK, NEW t \in HeadlessTasks, task[t] = AtRest,
           NEW d \in {"launch", "close"}, NEW p, task' = [task EXCEPT ![t] = [does |-> d, with |-> p]]
    PROVE  /\ \A e \in {"launch", "close"} : With(e) \subseteq With(e)'
           /\ \A e : e # d => With(e)' \subseteq With(e)
           /\ p \in With(d)' /\ With(d)' \subseteq With(d) \cup {p}
<1>1. /\ task'[t].does = d /\ task'[t].with = p
      /\ \A u \in HeadlessTasks \ {t} : task'[u] = task[u]
  BY DEF HeadlessTypeOK
<1>2. task[t].does = "idle"
  BY DEF AtRest
<1>3. QED
  BY <1>1, <1>2, WithIs, WithIsNext

LEMMA HeadlessRest ==
    ASSUME HeadlessInv, [HeadlessNext]_headlessVars
    PROVE  /\ OrphansApart' /\ ClosingClosed'
           /\ Reckoned' \subseteq Reckoned \/ \E u \in HeadlessUsers : HeadlessLaunch(u)
<1> DEFINE Goal == OrphansApart' /\ ClosingClosed' /\ Reckoned' \subseteq Reckoned
<1>0. HeadlessTypeOK /\ OrphansApart /\ ClosingClosed /\ GuardOnlyCloses
  BY DEF HeadlessInv
<1> USE DEF OrphansApart, ClosingClosed, Reckoned, Tabled, Active
<1>1. ASSUME NEW u \in HeadlessUsers, HeadlessLaunch(u)
      PROVE  OrphansApart' /\ ClosingClosed'
  <2>1. PICK p \in Spare : alive' = alive \cup {p} /\ task' = [task EXCEPT ![u] = [does |-> "launch", with |-> p]]
    BY <1>1 DEF HeadlessLaunch, Begin
  <2>2. u \in HeadlessTasks /\ task[u] = AtRest /\ UNCHANGED <<status, orphans>>
    BY <1>1 DEF HeadlessTasks, HeadlessLaunch
  <2>3. With("launch")' \subseteq With("launch") \cup {p} /\ With("close") \subseteq With("close")'
    BY <1>0, <2>1, <2>2, WithBegins
  <2>4. p \notin alive
    BY <2>1 DEF Spare
  <2>5. QED
    BY <1>0, <2>1, <2>2, <2>3, <2>4
<1>2. ASSUME NEW u \in HeadlessUsers, LaunchReady(u)
      PROVE  Goal
  <2>1. PICK p : p = task[u].with
    OBVIOUS
  <2>2. /\ u \in HeadlessTasks /\ task[u].does = "launch" /\ task' = [task EXCEPT ![u] = AtRest]
        /\ status' = [status EXCEPT ![p] = "active"] /\ UNCHANGED <<alive, orphans>>
    BY <1>2, <2>1 DEF HeadlessTasks, LaunchReady, End
  <2>3. /\ With("launch")' \subseteq With("launch") /\ p \in With("launch")
        /\ With("close") = With("close")'
    <3>1. With("launch")' \subseteq With("launch") /\ With("close")' \subseteq With("close")
      BY <1>0, <2>2, WithEnds
    <3>2. With("close") \subseteq With("close")'
      BY <1>0, <2>2, WithEnds
    <3>3. QED
      BY <2>1, <2>2, <3>1, <3>2, WithIs
  <2>4. \A q \in Procs : q # p => status'[q] = status[q]
    BY <1>0, <2>2 DEF HeadlessTypeOK
  <2>5. \A q \in Procs : q = p => status'[q] = "active"
    BY <1>0, <2>2 DEF HeadlessTypeOK
  <2>6. QED
    BY <1>0, <2>2, <2>3, <2>4, <2>5
<1>3. ASSUME NEW u \in HeadlessUsers, LaunchGivesUp(u)
      PROVE  Goal
  <2>1. /\ u \in HeadlessTasks /\ task[u].does = "launch" /\ task' = [task EXCEPT ![u] = AtRest]
        /\ UNCHANGED <<status, alive, orphans>>
    BY <1>3 DEF HeadlessTasks, LaunchGivesUp, End
  <2>2. With("launch")' \subseteq With("launch") /\ With("close") = With("close")'
    <3>1. With("launch")' \subseteq With("launch") /\ With("close")' \subseteq With("close")
      BY <1>0, <2>1, WithEnds
    <3>2. With("close") \subseteq With("close")'
      BY <1>0, <2>1, WithEnds
    <3>3. QED
      BY <3>1, <3>2
  <2>3. QED
    BY <1>0, <2>1, <2>2
<1>4. ASSUME NEW t \in HeadlessTasks, SessionCloses(t)
      PROVE  Goal
  <2>1. PICK p : p = task[t].with
    OBVIOUS
  <2>2. /\ task[t].does = "close" /\ task' = [task EXCEPT ![t] = AtRest]
        /\ status' = [status EXCEPT ![p] = "none"] /\ UNCHANGED <<alive, orphans>>
    BY <1>4, <2>1 DEF SessionCloses, End
  <2>3. With("launch")' = With("launch") /\ \A q \in With("close") : q \in With("close")' \/ q = p
    <3>1. With("launch")' \subseteq With("launch")
      BY <1>0, <2>2, WithEnds
    <3>2. \A q \in With("launch") : q \in With("launch")'
      BY <1>0, <2>2, WithEnds
    <3>3. \A q \in With("close") : q \in With("close")' \/ q = p
      BY <1>0, <2>1, <2>2, WithEnds
    <3>4. QED
      BY <3>1, <3>2, <3>3
  <2>4. \A q \in Procs : status'[q] = IF q = p THEN "none" ELSE status[q]
    BY <1>0, <2>2 DEF HeadlessTypeOK
  <2>5. QED
    BY <1>0, <2>2, <2>3, <2>4
<1>5. ASSUME NEW t \in HeadlessTasks, NEW p \in Procs, CloseSession(t, p)
      PROVE  Goal
  <2>1. /\ task[t] = AtRest /\ task' = [task EXCEPT ![t] = [does |-> "close", with |-> p]]
        /\ p \in Tabled /\ status' = [status EXCEPT ![p] = "closing"] /\ UNCHANGED <<alive, orphans>>
    BY <1>5 DEF CloseSession, Begin
  <2>2. /\ With("launch")' = With("launch") /\ p \in With("close")'
        /\ With("close") \subseteq With("close")'
    <3>1. With("launch")' \subseteq With("launch") /\ p \in With("close")'
      BY <1>0, <2>1, WithBegins
    <3>2. With("launch") \subseteq With("launch")' /\ With("close") \subseteq With("close")'
      BY <1>0, <2>1, WithBegins
    <3>3. QED
      BY <3>1, <3>2
  <2>3. \A q \in Procs : status'[q] = IF q = p THEN "closing" ELSE status[q]
    BY <1>0, <2>1 DEF HeadlessTypeOK
  <2>4. QED
    BY <1>0, <2>1, <2>2, <2>3
<1>6. ASSUME NEW p \in Procs, NavigateSession(p)
      PROVE  Goal
  <2>1. status[p] = "closing" /\ \A q \in Procs : status'[q] = IF q = p THEN "active" ELSE status[q]
    BY <1>0, <1>6 DEF HeadlessTypeOK, NavigateSession
  <2>2. With("launch")' = With("launch") /\ With("close")' = With("close") /\ UNCHANGED <<alive, orphans>>
    BY <1>6 DEF NavigateSession, With
  <2>3. QED
    BY <1>0, <2>1, <2>2
<1>7. ASSUME UNCHANGED <<status, task>>, orphans' \subseteq alive', orphans' \subseteq orphans
      PROVE  Goal
  <2>1. With("launch")' = With("launch") /\ With("close")' = With("close")
    BY <1>7 DEF With
  <2>2. QED
    BY <1>0, <1>7, <2>1
<1>8. ASSUME NEW p \in Procs, Outlives(p) \/ Exits(p) \/ SweepKills(p)
      PROVE  Goal
  BY <1>0, <1>7, <1>8 DEF Outlives, Exits, SweepKills
<1>9. ASSUME NEW p \in Procs, GuardCloses(p)
      PROVE  Goal
  BY <1>0, <1>5, <1>7, <1>9 DEF GuardCloses, HeadlessTasks
<1>10. CASE GuardLists \/ SweepListsAlive \/ UNCHANGED headlessVars
  BY <1>0, <1>7, <1>10 DEF GuardLists, SweepListsAlive, headlessVars
<1>11. CASE ServiceRestarts
  <2>1. With("launch")' = {} /\ With("close")' = {}
    BY <1>11 DEF ServiceRestarts, With, AtRest
  <2>2. \A q \in Procs : status'[q] = "none"
    BY <1>11 DEF ServiceRestarts
  <2>3. orphans' = alive /\ alive' = alive
    BY <1>11 DEF ServiceRestarts
  <2>4. QED
    BY <2>1, <2>2, <2>3
<1>12. ASSUME NEW p \in Procs, NEW u \in HeadlessUsers, UserCloses(u, p)
      PROVE  Goal
  BY <1>5, <1>12 DEF UserCloses, HeadlessTasks
<1>13. QED
  BY <1>1, <1>2, <1>3, <1>4, <1>6, <1>8, <1>9, <1>10, <1>11, <1>12 DEF HeadlessNext

(* A launch begins while fewer sessions are active than are allowed.         *)
LEMMA LaunchBounded ==
    ASSUME HeadlessInv, NEW u \in HeadlessUsers, HeadlessLaunch(u), HeadlessTypeOK', GuardOnlyCloses'
    PROVE  HeadlessBounded'
<1> DEFINE A == Active' \ With("close")'
           W == With("launch")'
<1>1. A \subseteq Active /\ Active \in SUBSET Procs
  BY DEF Active, HeadlessLaunch
<1>2. IsFiniteSet(A) /\ Cardinality(A) <= Cardinality(Active) /\ Cardinality(Active) < MaxHeadless
      /\ Cardinality(Active) \in Nat
  BY <1>1, HeadlessSizes DEF HeadlessLaunch
<1>3. IsFiniteSet(W) /\ Cardinality(W) <= Cardinality(HeadlessUsers)
  BY LaunchesBounded DEF HeadlessTypeOK, GuardOnlyCloses, With
<1> HIDE DEF A, W
<1>4. IsFiniteSet(A \cup W) /\ Cardinality(A \cup W) <= Cardinality(A) + Cardinality(W)
  <2>1. Cardinality(A \cup W) = Cardinality(A) + Cardinality(W) - Cardinality(A \cap W)
    BY <1>2, <1>3, FS_Union
  <2>2. IsFiniteSet(A \cap W) /\ Cardinality(A \cap W) \in Nat
    BY <1>2, FS_Intersection, FS_CardinalityType
  <2>3. Cardinality(A) \in Nat /\ Cardinality(W) \in Nat /\ IsFiniteSet(A \cup W)
    BY <1>2, <1>3, FS_Union, FS_CardinalityType
  <2>4. QED
    BY <2>1, <2>2, <2>3
<1>5. Cardinality(A \cup W) \in Nat /\ Cardinality(A) \in Nat /\ Cardinality(W) \in Nat
  BY <1>2, <1>3, <1>4, FS_CardinalityType
<1>6. Cardinality(A \cup W) <= MaxHeadless - 1 + Cardinality(HeadlessUsers)
  BY <1>2, <1>3, <1>4, <1>5, HeadlessSizes
<1>7. QED
  BY <1>6 DEF HeadlessBounded, A, W

LEMMA HeadlessStep == HeadlessInv /\ [HeadlessNext]_headlessVars => HeadlessInv'
<1> SUFFICES ASSUME HeadlessInv, [HeadlessNext]_headlessVars
             PROVE  HeadlessInv'
  OBVIOUS
<1>1. HeadlessTypeOK' /\ GuardOnlyCloses'
  BY HeadlessTypeStep DEF HeadlessInv
<1>2. HeadlessBounded'
  BY <1>1, HeadlessRest, BoundedBySubset, LaunchBounded
<1>3. QED
  BY <1>1, <1>2, HeadlessRest DEF HeadlessInv

LEMMA HeadlessStart == HeadlessInit => HeadlessInv
<1> SUFFICES ASSUME HeadlessInit
             PROVE  HeadlessInv
  OBVIOUS
<1>1. Active = {} /\ Tabled = {} /\ With("launch") = {} /\ With("close") = {}
  BY DEF HeadlessInit, Active, Tabled, With, AtRest
<1>2. Cardinality((Active \ With("close")) \cup With("launch")) = 0
  BY <1>1, FS_EmptySet
<1>3. HeadlessTypeOK /\ GuardOnlyCloses /\ ClosingClosed /\ OrphansApart
  BY <1>1 DEF HeadlessInit, HeadlessTypeOK, GuardOnlyCloses, ClosingClosed, OrphansApart, AtRest, HeadlessTasks
<1>4. QED
  BY <1>2, <1>3, HeadlessSizes DEF HeadlessInv, HeadlessBounded

(* The pool of headless sessions never outgrows its limit by more than there *)
(* are requests, and the sweep kills no browser of a session, for any limit  *)
(* and any number of requests and processes (launch_session,                 *)
(* _reap_orphan_headless).                                                   *)
THEOREM HeadlessIsSafe == HeadlessSpec => HeadlessHolds
<1>1. ASSUME HeadlessInv, NEW p \in Procs, SweepKills(p), p \in alive \ alive'
      PROVE  p \notin Tabled \cup With("launch")
  BY <1>1 DEF HeadlessInv, OrphansApart, SweepKills
<1>2. HeadlessInv /\ [HeadlessNext]_headlessVars =>
        [\A p \in Procs :
           (SweepKills(p) /\ p \in alive \ alive') => p \notin Tabled \cup With("launch")]_headlessVars
  BY <1>1
<1>3. HeadlessInv => HeadlessBounded
  BY DEF HeadlessInv
<1>4. QED
  BY <1>2, <1>3, HeadlessStart, HeadlessStep, PTL DEF HeadlessSpec, HeadlessHolds, SweepSparesHeadless

-----------------------------------------------------------------------------
(* CdpClient.                                                                *)

(* What a queue holds after its head was taken or an element was added.      *)
LEMMA QueueTail ==
  ASSUME NEW S, NEW q \in Seq(S), q # <<>>
  PROVE  /\ Head(q) \in S /\ Head(q) = q[1] /\ 1 \in 1..Len(q)
         /\ Tail(q) \in Seq(S)
         /\ \A k \in 1..Len(Tail(q)) : k + 1 \in 1..Len(q) /\ Tail(q)[k] = q[k + 1]
OBVIOUS

LEMMA QueueAppend ==
  ASSUME NEW S, NEW q \in Seq(S), NEW e \in S
  PROVE  /\ Append(q, e) \in Seq(S)
         /\ \A k \in 1..Len(Append(q, e)) :
              Append(q, e)[k] = e \/ (k \in 1..Len(q) /\ Append(q, e)[k] = q[k])
OBVIOUS

LEMMA ClientInitial == CdpInit => ClientInv
<1> SUFFICES ASSUME CdpInit
             PROVE  ClientInv
  OBVIOUS
<1> USE DEF CdpInit
<1>1. CdpTypeOK
  <2>1. 0 \in 0..MaxMessages /\ Idle \in [waits : BOOLEAN, socket : Sockets \cup {NoSocket},
                                         id : 0..MaxMessages]
    BY CdpAssumption DEF Idle
  <2>2. /\ ws \in Sockets \cup {NoSocket} /\ connected \in BOOLEAN
        /\ pending \in [MessageIds -> Tasks \cup {NoTask}]
        /\ link \in [Sockets -> {"unused", "open", "closed", "lost"}]
        /\ sent \in [Sockets -> SUBSET Replies]
        /\ listener \in [Sockets -> {"none", "reading", "acking", "done"}]
        /\ closing \in BOOLEAN /\ switching \in BOOLEAN
    OBVIOUS
  <2>3. inbox \in [Sockets -> Seq(Replies \cup {Frame})]
    OBVIOUS
  <2>4. cmd \in [Tasks -> [waits : BOOLEAN, socket : Sockets \cup {NoSocket}, id : 0..MaxMessages]]
    BY <2>1
  <2>5. QED
    BY <2>1, <2>2, <2>3, <2>4 DEF CdpTypeOK
<1>2. RepliesOfToday /\ ConnectedHasListener
  BY DEF RepliesOfToday, ConnectedHasListener
<1>3. WaitersOfToday /\ UnusedBlank
  BY DEF WaitersOfToday, UnusedBlank, Idle, Tasks
<1>4. QED
  BY <1>1, <1>2, <1>3 DEF ClientInv

(* A task that does not wait sends a command: its id is new.                 *)
LEMMA SendSafe ==
  ASSUME ClientInv, NEW t \in Tasks, ~cmd[t].waits, SendCommand(t),
         ws' = ws
  PROVE  /\ messageId' \in 0..MaxMessages
         /\ pending' \in [MessageIds -> Tasks \cup {NoTask}]
         /\ cmd' \in [Tasks -> [waits : BOOLEAN, socket : Sockets \cup {NoSocket},
                                id : 0..MaxMessages]]
         /\ sent' \in [Sockets -> SUBSET Replies]
         /\ \A s \in Sockets : s # ws => sent'[s] = sent[s]
         /\ \A r \in Replies : OfToday(r) => OfToday(r)'
         /\ \A r \in sent'[ws] : OfToday(r)'
         /\ WaitersOfToday'
         /\ \A u \in Tasks : u # t => cmd'[u] = cmd[u]
         /\ link[ws] # "open" => cmd' = cmd
<1> USE DEF ClientInv, CdpTypeOK
<1>1. /\ messageId \in Nat /\ MaxMessages \in Nat /\ ws \in Sockets
      /\ messageId' = messageId + 1 /\ messageId' \in MessageIds
      /\ pending' = [pending EXCEPT ![messageId'] = t]
  BY CdpAssumption DEF SendCommand, NextId
<1>2. /\ messageId' \in 0..MaxMessages
      /\ pending' \in [MessageIds -> Tasks \cup {NoTask}]
  BY <1>1 DEF MessageIds
<1>3. \/ /\ link[ws] = "open"
         /\ sent' = [sent EXCEPT ![ws] = @ \cup {<<messageId', t>>}]
         /\ cmd' = [cmd EXCEPT ![t] = [waits |-> TRUE, socket |-> ws, id |-> messageId']]
      \/ link[ws] # "open" /\ sent' = sent /\ cmd' = cmd
  BY <1>1 DEF SendCommand, NextId
<1>4. /\ cmd' \in [Tasks -> [waits : BOOLEAN, socket : Sockets \cup {NoSocket},
                             id : 0..MaxMessages]]
      /\ \A u \in Tasks : u # t => cmd'[u] = cmd[u]
      /\ link[ws] # "open" => cmd' = cmd
      /\ cmd'[t].waits => cmd'[t].socket = ws
  <2>1. CASE link[ws] # "open"
    BY <1>3, <2>1
  <2>2. CASE link[ws] = "open"
    <3> DEFINE c == [waits |-> TRUE, socket |-> ws, id |-> messageId']
    <3>1. c \in [waits : BOOLEAN, socket : Sockets \cup {NoSocket}, id : 0..MaxMessages]
      BY <1>1, <1>2
    <3>2. cmd' = [cmd EXCEPT ![t] = c] /\ c.socket = ws
      BY <1>3, <2>2
    <3> HIDE DEF c
    <3>3. QED
      BY <2>2, <3>1, <3>2
  <2>3. QED
    BY <2>1, <2>2
<1>5. /\ sent' \in [Sockets -> SUBSET Replies]
      /\ \A s \in Sockets : s # ws => sent'[s] = sent[s]
      /\ \A r \in sent'[ws] : r \in sent[ws] \/ r = <<messageId', t>>
  <2>1. <<messageId', t>> \in Replies
    BY <1>1 DEF Replies
  <2>2. CASE link[ws] # "open"
    BY <1>1, <1>3, <2>2
  <2>3. CASE link[ws] = "open"
    <3>1. sent' = [sent EXCEPT ![ws] = @ \cup {<<messageId', t>>}]
      BY <1>3, <2>3
    <3>2. QED
      BY <1>1, <2>1, <3>1
  <2>4. QED
    BY <2>2, <2>3
<1>6. ASSUME NEW r \in Replies, OfToday(r)
      PROVE  OfToday(r)'
  <2>1. r[1] \in MessageIds /\ r[1] # messageId' /\ r[1] \in 1..messageId'
    BY <1>1, <1>6 DEF OfToday, Replies
  <2>2. pending'[r[1]] = pending[r[1]]
    BY <1>1, <2>1
  <2>3. QED
    BY <1>6, <2>1, <2>2 DEF OfToday
<1>7. ASSUME NEW r \in sent'[ws]
      PROVE  OfToday(r)'
  <2>1. CASE r \in sent[ws]
    <3>1. r \in Replies /\ OfToday(r)
      BY <1>1, <2>1, CdpAssumption DEF RepliesOfToday, Sockets, NoSocket
    <3>2. QED
      BY <1>6, <3>1
  <2>2. CASE r = <<messageId', t>>
    BY <1>1, <2>2 DEF OfToday
  <2>3. QED
    BY <1>5, <1>7, <2>1, <2>2
<1>8. WaitersOfToday'
  <2> SUFFICES ASSUME NEW i \in MessageIds, pending'[i] # NoTask, cmd'[pending'[i]].waits
               PROVE  cmd'[pending'[i]].socket = ws
    BY DEF WaitersOfToday
  <2>1. CASE pending'[i] = t
    BY <1>4, <2>1
  <2>2. CASE pending'[i] # t
    <3>1. pending'[i] = pending[i] /\ pending[i] \in Tasks
      BY <1>1, <2>2
    <3>2. QED
      BY <1>4, <2>2, <3>1 DEF WaitersOfToday
  <2>3. QED
    BY <2>1, <2>2
<1>9. QED
  BY <1>2, <1>4, <1>5, <1>6, <1>7, <1>8

(* What no send does: commands only end, and ids only leave the table.       *)
LEMMA QuietSafe ==
  ASSUME ClientInv, ws' = ws, messageId' = messageId,
         \A i \in MessageIds : pending'[i] \in {pending[i], NoTask},
         \A t \in Tasks : cmd'[t] \in {cmd[t], Idle}
  PROVE  /\ \A r \in Replies : OfToday(r) => OfToday(r)'
         /\ WaitersOfToday'
<1>1. ASSUME NEW r \in Replies, OfToday(r)
      PROVE  OfToday(r)'
  BY <1>1 DEF OfToday, Replies
<1>2. ASSUME NEW i \in MessageIds, pending'[i] # NoTask, cmd'[pending'[i]].waits
      PROVE  cmd'[pending'[i]].socket = ws
  <2>1. pending'[i] = pending[i] /\ pending[i] \in Tasks
    BY <1>2 DEF ClientInv, CdpTypeOK
  <2>2. cmd'[pending[i]] = cmd[pending[i]]
    BY <1>2, <2>1 DEF Idle
  <2>3. QED
    BY <1>2, <2>1, <2>2 DEF ClientInv, WaitersOfToday
<1>3. QED
  BY <1>1, <1>2 DEF WaitersOfToday

(* Nothing new is under way on the socket of today.                          *)
LEMMA RepliesKept ==
  ASSUME ClientInv, ws' = ws,
         \A r \in Replies : OfToday(r) => OfToday(r)',
         ws # NoSocket => /\ \A r \in sent'[ws] : r \in sent[ws] \/ OfToday(r)'
                          /\ \A k \in 1..Len(inbox'[ws]) :
                               \/ inbox'[ws][k] = Frame
                               \/ inbox'[ws][k] \in sent[ws]
                               \/ \E j \in 1..Len(inbox[ws]) : inbox'[ws][k] = inbox[ws][j]
  PROVE  RepliesOfToday'
<1> SUFFICES ASSUME ws # NoSocket
             PROVE  /\ \A r \in sent'[ws] : OfToday(r)'
                    /\ \A k \in 1..Len(inbox'[ws]) : inbox'[ws][k] # Frame => OfToday(inbox[ws][k])'
  BY DEF RepliesOfToday
<1>1. /\ ws \in Sockets /\ sent[ws] \subseteq Replies
      /\ \A r \in sent[ws] : OfToday(r)
      /\ \A j \in 1..Len(inbox[ws]) :
           inbox[ws][j] # Frame => inbox[ws][j] \in Replies /\ OfToday(inbox[ws][j])
  <2>1. inbox[ws] \in Seq(Replies \cup {Frame}) /\ ws \in Sockets /\ sent[ws] \subseteq Replies
    BY DEF ClientInv, CdpTypeOK
  <2>2. \A j \in 1..Len(inbox[ws]) : inbox[ws][j] \in Replies \cup {Frame}
    BY <2>1
  <2>3. QED
    BY <2>1, <2>2 DEF ClientInv, RepliesOfToday
<1>2. ASSUME NEW r \in sent'[ws]
      PROVE  OfToday(r)'
  BY <1>1, <1>2
<1>3. ASSUME NEW k \in 1..Len(inbox'[ws]), inbox'[ws][k] # Frame
      PROVE  OfToday(inbox[ws][k])'
  <2>1. PICK r : r = inbox'[ws][k]
    OBVIOUS
  <2>2. r \in Replies /\ OfToday(r)
    BY <1>1, <1>3, <2>1
  <2>3. OfToday(r)'
    BY <2>2
  <2>4. QED
    BY <2>1, <2>3 DEF OfToday
<1>4. QED
  BY <1>2, <1>3

(* The client has a new socket.                                              *)
LEMMA OpenSocketSafe ==
  ASSUME ClientInv, NEW s \in Sockets, OpenSocket(s), UNCHANGED <<cmd, sent, inbox, closing>>,
         switching' \in BOOLEAN
  PROVE  ClientInv'
<1> USE DEF ClientInv, OpenSocket
<1>1. CdpTypeOK'
  <2>1. /\ 0 \in 0..MaxMessages /\ s \in Sockets \cup {NoSocket}
        /\ pending' \in [MessageIds -> Tasks \cup {NoTask}]
    BY CdpAssumption
  <2>2. /\ link' \in [Sockets -> {"unused", "open", "closed", "lost"}]
        /\ listener' \in [Sockets -> {"none", "reading", "acking", "done"}]
    BY DEF CdpTypeOK
  <2>3. QED
    BY <2>1, <2>2 DEF CdpTypeOK
<1>2. sent'[s] = {} /\ inbox'[s] = <<>> /\ ws' = s /\ listener[s] = "none"
  BY DEF UnusedBlank
<1>3. RepliesOfToday' /\ WaitersOfToday'
  BY <1>2 DEF RepliesOfToday, WaitersOfToday
<1>4. UnusedBlank'
  BY <1>2 DEF UnusedBlank, CdpTypeOK
<1>5. ConnectedHasListener'
  BY DEF ConnectedHasListener, CdpTypeOK
<1>6. QED
  BY <1>1, <1>3, <1>4, <1>5

(* Nobody opens, sends or answers anything.                                  *)
LEMMA RestSafe ==
  ASSUME ClientInv, ws' = ws, messageId' = messageId, inbox' = inbox, listener' = listener,
         connected' \in {connected, FALSE},
         closing' \in BOOLEAN, switching' \in BOOLEAN,
         pending' \in [MessageIds -> Tasks \cup {NoTask}],
         \A i \in MessageIds : pending'[i] \in {pending[i], NoTask},
         DOMAIN cmd' = Tasks, cmd' = [t \in Tasks |-> cmd'[t]],
         \A t \in Tasks : cmd'[t] \in {cmd[t], Idle},
         link' \in [Sockets -> {"unused", "open", "closed", "lost"}],
         \A s \in Sockets : link'[s] = "unused" => link[s] = "unused",
         sent' \in [Sockets -> SUBSET Replies],
         \A s \in Sockets : sent'[s] \subseteq sent[s]
  PROVE  ClientInv'
<1>1. CdpTypeOK'
  <2>1. Idle \in [waits : BOOLEAN, socket : Sockets \cup {NoSocket}, id : 0..MaxMessages]
    BY CdpAssumption DEF Idle
  <2>2. cmd' \in [Tasks -> [waits : BOOLEAN, socket : Sockets \cup {NoSocket}, id : 0..MaxMessages]]
    BY <2>1 DEF ClientInv, CdpTypeOK
  <2>3. QED
    BY <2>2 DEF ClientInv, CdpTypeOK
<1>2. /\ \A r \in Replies : OfToday(r) => OfToday(r)'
      /\ WaitersOfToday'
  BY QuietSafe
<1>3. RepliesOfToday'
  BY <1>2, RepliesKept, CdpAssumption DEF ClientInv, CdpTypeOK
<1>4. UnusedBlank'
  <2>1. ASSUME NEW s \in Sockets, link'[s] = "unused"
        PROVE  sent'[s] = {} /\ inbox'[s] = <<>> /\ listener'[s] = "none"
    BY <2>1 DEF ClientInv, UnusedBlank
  <2>2. ASSUME NEW s \in Sockets, cmd'[s].waits
        PROVE  listener'[s] = "acking"
    BY <2>2 DEF ClientInv, UnusedBlank, Tasks, Idle
  <2>3. QED
    BY <2>1, <2>2 DEF UnusedBlank
<1>5. ConnectedHasListener'
  BY DEF ClientInv, ConnectedHasListener, CdpTypeOK
<1>6. QED
  BY <1>1, <1>2, <1>3, <1>4, <1>5 DEF ClientInv

(* A listener has taken the first message of its queue.                      *)
LEMMA TakesHead ==
  ASSUME CdpTypeOK, NEW s \in Sockets, inbox[s] # <<>>,
         inbox' = [inbox EXCEPT ![s] = Tail(@)]
  PROVE  /\ inbox' \in [Sockets -> Seq(Replies \cup {Frame})]
         /\ Head(inbox[s]) \in Replies \cup {Frame}
         /\ Head(inbox[s]) = inbox[s][1] /\ 1 \in 1..Len(inbox[s])
         /\ \A v \in Sockets : \A k \in 1..Len(inbox'[v]) :
              \E j \in 1..Len(inbox[v]) : inbox'[v][k] = inbox[v][j]
<1>1. inbox[s] \in Seq(Replies \cup {Frame})
  BY DEF CdpTypeOK
<1>2. /\ Head(inbox[s]) \in Replies \cup {Frame} /\ Head(inbox[s]) = inbox[s][1]
      /\ 1 \in 1..Len(inbox[s]) /\ Tail(inbox[s]) \in Seq(Replies \cup {Frame})
      /\ \A k \in 1..Len(Tail(inbox[s])) :
           k + 1 \in 1..Len(inbox[s]) /\ Tail(inbox[s])[k] = inbox[s][k + 1]
  BY <1>1, QueueTail
<1>3. inbox'[s] = Tail(inbox[s]) /\ \A v \in Sockets : v # s => inbox'[v] = inbox[v]
  BY DEF CdpTypeOK
<1>4. inbox' \in [Sockets -> Seq(Replies \cup {Frame})]
  BY <1>2 DEF CdpTypeOK
<1>5. ASSUME NEW v \in Sockets, NEW k \in 1..Len(inbox'[v])
      PROVE  \E j \in 1..Len(inbox[v]) : inbox'[v][k] = inbox[v][j]
  BY <1>2, <1>3, <1>5
<1>6. QED
  BY <1>2, <1>4, <1>5

(* What is left of the commands when some of them end.                       *)
LEMMA EndsOnly ==
  ASSUME ClientInv,
         \/ UNCHANGED <<pending, cmd>>
         \/ FailPending
         \/ \E t \in Tasks, i \in 0..MaxMessages :
              /\ pending' = [pending EXCEPT ![i] = NoTask]
              /\ cmd' \in {cmd, [cmd EXCEPT ![t] = Idle]}
  PROVE  /\ pending' \in [MessageIds -> Tasks \cup {NoTask}]
         /\ \A i \in MessageIds : pending'[i] \in {pending[i], NoTask}
         /\ DOMAIN cmd' = Tasks /\ cmd' = [t \in Tasks |-> cmd'[t]]
         /\ \A t \in Tasks : cmd'[t] \in {cmd[t], Idle}
<1> USE DEF ClientInv, CdpTypeOK
<1>1. CASE UNCHANGED <<pending, cmd>>
  BY <1>1
<1>2. CASE FailPending
  BY <1>2 DEF FailPending
<1>3. ASSUME NEW t \in Tasks, NEW i \in 0..MaxMessages,
             pending' = [pending EXCEPT ![i] = NoTask],
             cmd' \in {cmd, [cmd EXCEPT ![t] = Idle]}
      PROVE  /\ pending' \in [MessageIds -> Tasks \cup {NoTask}]
             /\ \A j \in MessageIds : pending'[j] \in {pending[j], NoTask}
             /\ DOMAIN cmd' = Tasks /\ cmd' = [u \in Tasks |-> cmd'[u]]
             /\ \A u \in Tasks : cmd'[u] \in {cmd[u], Idle}
  BY <1>3
<1>4. QED
  BY <1>1, <1>2, <1>3

LEMMA ClientStep == ClientInv /\ [CdpNext]_cdpVars => ClientInv'
<1> SUFFICES ASSUME ClientInv, [CdpNext]_cdpVars
             PROVE  ClientInv'
  OBVIOUS
<1>0. /\ CdpTypeOK /\ RepliesOfToday /\ WaitersOfToday /\ UnusedBlank /\ ConnectedHasListener
      /\ Callers \cup Sockets = Tasks
  BY DEF ClientInv, Tasks
<1>1. CASE UNCHANGED cdpVars
  BY <1>0, <1>1, EndsOnly, RestSafe DEF CdpTypeOK, cdpVars, clientVars, socketVars
<1>2. ASSUME NEW c \in Callers, Send(c)
      PROVE  ClientInv'
  <2>1. c \in Tasks /\ c \notin Sockets
    BY CdpAssumption DEF Tasks, Sockets
  <2>2. /\ ~cmd[c].waits /\ SendCommand(c) /\ ws # NoSocket /\ connected
        /\ UNCHANGED <<ws, connected, link, inbox, listener, closing, switching>>
    BY <1>2 DEF Send, SendCommand
  <2>3. /\ messageId' \in 0..MaxMessages
        /\ pending' \in [MessageIds -> Tasks \cup {NoTask}]
        /\ cmd' \in [Tasks -> [waits : BOOLEAN, socket : Sockets \cup {NoSocket},
                               id : 0..MaxMessages]]
        /\ sent' \in [Sockets -> SUBSET Replies]
        /\ \A s \in Sockets : s # ws => sent'[s] = sent[s]
        /\ \A r \in Replies : OfToday(r) => OfToday(r)'
        /\ \A r \in sent'[ws] : OfToday(r)'
        /\ WaitersOfToday'
        /\ \A u \in Tasks : u # c => cmd'[u] = cmd[u]
        /\ link[ws] # "open" => cmd' = cmd
    BY <2>1, <2>2, SendSafe
  <2>4. CdpTypeOK'
    BY <1>0, <2>2, <2>3 DEF CdpTypeOK
  <2>5. RepliesOfToday'
    BY <1>0, <2>2, <2>3, RepliesKept
  <2>6. UnusedBlank'
    <3>1. link[ws] # "open" => sent' = sent
      BY <2>2 DEF SendCommand
    <3>2. ASSUME NEW s \in Sockets, link[s] = "unused"
          PROVE  sent'[s] = {}
      BY <1>0, <2>3, <3>1, <3>2 DEF UnusedBlank
    <3>3. QED
      BY <1>0, <2>1, <2>2, <2>3, <3>2 DEF UnusedBlank, Tasks
  <2>7. ConnectedHasListener'
    BY <1>0, <2>2 DEF ConnectedHasListener
  <2>8. QED
    BY <2>3, <2>4, <2>5, <2>6, <2>7 DEF ClientInv
<1>3. ASSUME NEW t \in Tasks, TimeOut(t)
      PROVE  ClientInv'
  <2>1. cmd[t].id \in 0..MaxMessages
    BY <1>0 DEF CdpTypeOK
  <2>2. QED
    BY <1>0, <1>3, <2>1, EndsOnly, RestSafe DEF TimeOut, CdpTypeOK, socketVars
<1>4. CASE SwitchBegins \/ SwitchFails \/ CloseBegins
  <2>1. /\ UNCHANGED <<ws, messageId, pending, cmd, inbox, listener>>
        /\ connected' \in {connected, FALSE} /\ closing' \in BOOLEAN /\ switching' \in BOOLEAN
        /\ UNCHANGED <<link, sent>> \/ (ws # NoSocket /\ Ends(ws, "closed"))
    BY <1>0, <1>4
    DEF SwitchBegins, SwitchFails, CloseBegins, Shut, clientVars, socketVars, CdpTypeOK
  <2>2. /\ link' \in [Sockets -> {"unused", "open", "closed", "lost"}]
        /\ \A s \in Sockets : link'[s] = "unused" => link[s] = "unused"
        /\ sent' \in [Sockets -> SUBSET Replies]
        /\ \A s \in Sockets : sent'[s] \subseteq sent[s]
    BY <1>0, <2>1 DEF Ends, CdpTypeOK
  <2>3. QED
    BY <2>1, <2>2, EndsOnly, RestSafe
<1>5. CASE CloseEnds
  <2>1. /\ ws' = NoSocket /\ FailPending /\ closing' = FALSE
        /\ UNCHANGED <<connected, messageId, link, sent, inbox, listener, switching>>
    BY <1>5 DEF CloseEnds, socketVars
  <2>2. /\ pending' \in [MessageIds -> Tasks \cup {NoTask}]
        /\ DOMAIN cmd' = Tasks /\ cmd' = [t \in Tasks |-> cmd'[t]]
        /\ \A t \in Tasks : cmd'[t] \in {cmd[t], Idle}
    BY <2>1, EndsOnly
  <2>3. CdpTypeOK'
    <3>1. Idle \in [waits : BOOLEAN, socket : Sockets \cup {NoSocket}, id : 0..MaxMessages]
      BY CdpAssumption DEF Idle
    <3>2. cmd' \in [Tasks -> [waits : BOOLEAN, socket : Sockets \cup {NoSocket}, id : 0..MaxMessages]]
      BY <1>0, <2>2, <3>1 DEF CdpTypeOK
    <3>3. QED
      BY <1>0, <2>1, <2>2, <3>2 DEF CdpTypeOK
  <2>4. RepliesOfToday' /\ WaitersOfToday'
    BY <2>1 DEF RepliesOfToday, WaitersOfToday, FailPending
  <2>5. UnusedBlank'
    BY <1>0, <2>1, <2>2 DEF UnusedBlank, Tasks, Idle
  <2>6. QED
    BY <1>0, <2>1, <2>3, <2>4, <2>5 DEF ClientInv, ConnectedHasListener
<1>6. ASSUME NEW s \in Sockets, ReadReply(s)
      PROVE  ClientInv'
  <2>1. /\ inbox[s] # <<>> /\ listener[s] = "reading" /\ inbox' = [inbox EXCEPT ![s] = Tail(@)]
        /\ Head(inbox[s]) # Frame
        /\ UNCHANGED <<ws, connected, messageId, link, sent, listener, closing, switching>>
    BY <1>6 DEF ReadReply, Hears
  <2>2. /\ inbox' \in [Sockets -> Seq(Replies \cup {Frame})]
        /\ Head(inbox[s]) \in Replies \cup {Frame}
        /\ \A v \in Sockets : \A k \in 1..Len(inbox'[v]) :
             \E j \in 1..Len(inbox[v]) : inbox'[v][k] = inbox[v][j]
    BY <1>0, <2>1, TakesHead
  <2>3. PICK i \in MessageIds : i = Head(inbox[s])[1]
    BY <2>1, <2>2 DEF Replies
  <2>4. /\ pending' \in [MessageIds -> Tasks \cup {NoTask}]
        /\ \A j \in MessageIds : pending'[j] \in {pending[j], NoTask}
        /\ DOMAIN cmd' = Tasks /\ cmd' = [t \in Tasks |-> cmd'[t]]
        /\ \A t \in Tasks : cmd'[t] \in {cmd[t], Idle}
    <3>1. CASE pending[i] = NoTask
      <4>1. UNCHANGED <<pending, cmd>>
        BY <1>6, <2>3, <3>1 DEF ReadReply
      <4>2. QED
        BY <4>1, EndsOnly
    <3>2. CASE pending[i] # NoTask
      <4>1. pending[i] \in Tasks /\ i \in 0..MaxMessages
        BY <1>0, <3>2, CdpAssumption DEF CdpTypeOK, MessageIds
      <4>2. /\ pending' = [pending EXCEPT ![i] = NoTask]
            /\ cmd' \in {cmd, [cmd EXCEPT ![pending[i]] = Idle]}
        BY <1>6, <2>3, <3>2 DEF ReadReply
      <4>3. QED
        BY <4>1, <4>2, EndsOnly
    <3>3. QED
      BY <3>1, <3>2
  <2>5. /\ \A r \in Replies : OfToday(r) => OfToday(r)'
        /\ WaitersOfToday'
    BY <2>1, <2>4, QuietSafe
  <2>6. CdpTypeOK'
    <3>1. Idle \in [waits : BOOLEAN, socket : Sockets \cup {NoSocket}, id : 0..MaxMessages]
      BY CdpAssumption DEF Idle
    <3>2. cmd' \in [Tasks -> [waits : BOOLEAN, socket : Sockets \cup {NoSocket}, id : 0..MaxMessages]]
      BY <1>0, <2>4, <3>1 DEF CdpTypeOK
    <3>3. QED
      BY <1>0, <2>1, <2>2, <2>4, <3>2 DEF CdpTypeOK
  <2>7. RepliesOfToday'
    <3>1. ws # NoSocket => ws \in Sockets
      BY <1>0 DEF CdpTypeOK
    <3>2. QED
      BY <2>1, <2>2, <2>5, <3>1, RepliesKept
  <2>8. UnusedBlank'
    <3>1. \A v \in Sockets : v # s => inbox'[v] = inbox[v]
      BY <1>0, <2>1 DEF CdpTypeOK
    <3>2. link[s] # "unused"
      BY <1>0, <2>1 DEF UnusedBlank
    <3>3. \A v \in Sockets : cmd'[v].waits => cmd[v].waits
      BY <1>0, <2>4 DEF Idle, Tasks
    <3>4. QED
      BY <1>0, <2>1, <3>1, <3>2, <3>3 DEF UnusedBlank
  <2>9. QED
    BY <1>0, <2>1, <2>5, <2>6, <2>7, <2>8 DEF ClientInv, ConnectedHasListener
<1>7. ASSUME NEW s \in Sockets, ReadFrame(s)
      PROVE  ClientInv'
  <2>1. /\ inbox[s] # <<>> /\ listener[s] = "reading" /\ inbox' = [inbox EXCEPT ![s] = Tail(@)]
        /\ UNCHANGED <<ws, connected, link, closing, switching>>
        /\ ~cmd[s].waits /\ link[s] # "unused" /\ s \in Tasks
    BY <1>0, <1>7 DEF ReadFrame, Hears, UnusedBlank, Tasks
  <2>2. /\ inbox' \in [Sockets -> Seq(Replies \cup {Frame})]
        /\ \A v \in Sockets : \A k \in 1..Len(inbox'[v]) :
             \E j \in 1..Len(inbox[v]) : inbox'[v][k] = inbox[v][j]
    BY <1>0, <2>1, TakesHead
  <2>3. /\ messageId' \in 0..MaxMessages
        /\ pending' \in [MessageIds -> Tasks \cup {NoTask}]
        /\ cmd' \in [Tasks -> [waits : BOOLEAN, socket : Sockets \cup {NoSocket},
                               id : 0..MaxMessages]]
        /\ sent' \in [Sockets -> SUBSET Replies]
        /\ \A v \in Sockets : link[v] = "unused" => sent'[v] = sent[v]
        /\ \A r \in Replies : OfToday(r) => OfToday(r)'
        /\ ws # NoSocket => \A r \in sent'[ws] : r \in sent[ws] \/ OfToday(r)'
        /\ WaitersOfToday'
        /\ \A u \in Tasks : u # s => cmd'[u] = cmd[u]
        /\ cmd'[s].waits => listener'[s] = "acking"
        /\ listener' \in [Sockets -> {"none", "reading", "acking", "done"}]
        /\ \A v \in Sockets : v # s => listener'[v] = listener[v]
        /\ listener'[s] \in {"reading", "acking"}
    <3>1. CASE UNCHANGED <<messageId, pending, cmd, sent, listener>>
      <4>1. /\ \A r \in Replies : OfToday(r) => OfToday(r)'
            /\ WaitersOfToday'
        BY <2>1, <3>1, QuietSafe
      <4>2. QED
        BY <1>0, <2>1, <3>1, <4>1 DEF CdpTypeOK
    <3>2. CASE /\ SendCommand(s)
               /\ listener' = [listener EXCEPT ![s] = IF link[ws] = "open" THEN "acking" ELSE @]
      <4>1. /\ messageId' \in 0..MaxMessages
            /\ pending' \in [MessageIds -> Tasks \cup {NoTask}]
            /\ cmd' \in [Tasks -> [waits : BOOLEAN, socket : Sockets \cup {NoSocket},
                                   id : 0..MaxMessages]]
            /\ sent' \in [Sockets -> SUBSET Replies]
            /\ \A v \in Sockets : v # ws => sent'[v] = sent[v]
            /\ \A r \in Replies : OfToday(r) => OfToday(r)'
            /\ \A r \in sent'[ws] : OfToday(r)'
            /\ WaitersOfToday'
            /\ \A u \in Tasks : u # s => cmd'[u] = cmd[u]
            /\ link[ws] # "open" => cmd' = cmd
        BY <2>1, <3>2, SendSafe
      <4>2. link[ws] # "open" => sent' = sent
        BY <3>2 DEF SendCommand
      <4>3. \A v \in Sockets : link[v] = "unused" => sent'[v] = sent[v]
        BY <4>1, <4>2
      <4>4. /\ listener' \in [Sockets -> {"none", "reading", "acking", "done"}]
            /\ \A v \in Sockets : v # s => listener'[v] = listener[v]
            /\ listener'[s] \in {"reading", "acking"}
            /\ link[ws] = "open" => listener'[s] = "acking"
        BY <1>0, <2>1, <3>2 DEF CdpTypeOK
      <4>5. cmd'[s].waits => listener'[s] = "acking"
        BY <2>1, <4>1, <4>4
      <4>6. QED
        BY <4>1, <4>3, <4>4, <4>5
    <3>3. QED
      BY <1>7, <3>1, <3>2 DEF ReadFrame
  <2>4. CdpTypeOK'
    BY <1>0, <2>1, <2>2, <2>3 DEF CdpTypeOK
  <2>5. RepliesOfToday'
    <3>1. ws # NoSocket => ws \in Sockets
      BY <1>0 DEF CdpTypeOK
    <3>2. QED
      BY <2>1, <2>2, <2>3, <3>1, RepliesKept
  <2>6. UnusedBlank'
    <3>1. \A v \in Sockets : v # s => inbox'[v] = inbox[v]
      BY <1>0, <2>1 DEF CdpTypeOK
    <3>2. QED
      BY <1>0, <2>1, <2>3, <3>1 DEF UnusedBlank, Tasks
  <2>7. ConnectedHasListener'
    BY <1>0, <2>1, <2>3 DEF ConnectedHasListener
  <2>8. QED
    BY <2>3, <2>4, <2>5, <2>6, <2>7 DEF ClientInv
<1>8. ASSUME NEW s \in Sockets, AckEnds(s)
      PROVE  ClientInv'
  <2>1. /\ listener[s] = "acking" /\ ~cmd[s].waits
        /\ listener' = [listener EXCEPT ![s] = "reading"]
        /\ UNCHANGED <<ws, connected, messageId, pending, cmd, link, sent, inbox, closing, switching>>
    BY <1>8 DEF AckEnds, clientVars, socketVars
  <2>2. QED
    BY <1>0, <2>1
    DEF ClientInv, CdpTypeOK, RepliesOfToday, OfToday, WaitersOfToday, UnusedBlank,
        ConnectedHasListener
<1>9. ASSUME NEW s \in Sockets, ListenerEnds(s)
      PROVE  ClientInv'
  <2>1. /\ listener[s] = "reading" /\ listener' = [listener EXCEPT ![s] = "done"]
        /\ connected' = FALSE
        /\ FailPending \/ UNCHANGED <<pending, cmd>>
        /\ UNCHANGED <<ws, messageId, link, sent, inbox, closing, switching>>
    BY <1>9 DEF ListenerEnds, socketVars
  <2>2. /\ pending' \in [MessageIds -> Tasks \cup {NoTask}]
        /\ \A i \in MessageIds : pending'[i] \in {pending[i], NoTask}
        /\ DOMAIN cmd' = Tasks /\ cmd' = [t \in Tasks |-> cmd'[t]]
        /\ \A t \in Tasks : cmd'[t] \in {cmd[t], Idle}
    BY <2>1, EndsOnly
  <2>3. /\ \A r \in Replies : OfToday(r) => OfToday(r)'
        /\ WaitersOfToday'
    BY <2>1, <2>2, QuietSafe
  <2>4. CdpTypeOK'
    <3>1. Idle \in [waits : BOOLEAN, socket : Sockets \cup {NoSocket}, id : 0..MaxMessages]
      BY CdpAssumption DEF Idle
    <3>2. cmd' \in [Tasks -> [waits : BOOLEAN, socket : Sockets \cup {NoSocket}, id : 0..MaxMessages]]
      BY <1>0, <2>2, <3>1 DEF CdpTypeOK
    <3>3. QED
      BY <1>0, <2>1, <2>2, <3>2 DEF CdpTypeOK
  <2>5. RepliesOfToday'
    BY <2>1, <2>3, RepliesKept
  <2>6. UnusedBlank'
    <3>1. \A v \in Sockets : cmd'[v].waits => cmd[v].waits
      BY <1>0, <2>2 DEF Idle, Tasks
    <3>2. QED
      BY <1>0, <2>1, <3>1 DEF UnusedBlank, CdpTypeOK
  <2>7. QED
    BY <2>1, <2>3, <2>4, <2>5, <2>6 DEF ClientInv, ConnectedHasListener
<1>10. ASSUME NEW s \in Sockets, Connect(s) \/ SwitchOpens(s)
       PROVE  ClientInv'
  BY <1>0, <1>10, OpenSocketSafe DEF Connect, SwitchOpens, CdpTypeOK
<1>11. ASSUME NEW s \in Sockets, NEW e \in Replies \cup {Frame}, link[s] = "open",
              e \in sent[s] \cup {Frame},
              sent' \in [Sockets -> SUBSET Replies], \A v \in Sockets : sent'[v] \subseteq sent[v],
              inbox' = [inbox EXCEPT ![s] = Append(@, e)],
              UNCHANGED <<ws, connected, messageId, pending, cmd, link, listener, closing, switching>>
       PROVE  ClientInv'
  <2>1. /\ inbox[s] \in Seq(Replies \cup {Frame})
        /\ inbox'[s] = Append(inbox[s], e)
        /\ \A v \in Sockets : v # s => inbox'[v] = inbox[v]
    BY <1>0, <1>11 DEF CdpTypeOK
  <2>2. /\ inbox'[s] \in Seq(Replies \cup {Frame})
        /\ \A k \in 1..Len(inbox'[s]) :
             inbox'[s][k] = e \/ (k \in 1..Len(inbox[s]) /\ inbox'[s][k] = inbox[s][k])
    BY <2>1, QueueAppend
  <2>3. CdpTypeOK'
    <3>1. inbox' \in [Sockets -> Seq(Replies \cup {Frame})]
      BY <1>0, <1>11, <2>1, <2>2 DEF CdpTypeOK
    <3>2. QED
      BY <1>0, <1>11, <3>1 DEF CdpTypeOK
  <2>4. /\ \A r \in Replies : OfToday(r) => OfToday(r)'
        /\ WaitersOfToday'
    BY <1>11, QuietSafe
  <2>5. RepliesOfToday'
    <3>1. ws # NoSocket => ws \in Sockets
      BY <1>0 DEF CdpTypeOK
    <3>2. ASSUME ws # NoSocket, NEW k \in 1..Len(inbox'[ws])
          PROVE  \/ inbox'[ws][k] = Frame
                 \/ inbox'[ws][k] \in sent[ws]
                 \/ \E j \in 1..Len(inbox[ws]) : inbox'[ws][k] = inbox[ws][j]
      BY <1>11, <2>1, <2>2, <3>1, <3>2
    <3>3. QED
      BY <1>11, <2>4, <3>1, <3>2, RepliesKept
  <2>6. UnusedBlank'
    BY <1>0, <1>11, <2>1 DEF UnusedBlank
  <2>7. QED
    BY <1>0, <1>11, <2>3, <2>4, <2>5, <2>6 DEF ClientInv, ConnectedHasListener
<1>12. ASSUME NEW s \in Sockets, ChromeAnswers(s)
       PROVE  ClientInv'
  <2>1. PICK r \in sent[s] : /\ sent' = [sent EXCEPT ![s] = @ \ {r}]
                             /\ inbox' = [inbox EXCEPT ![s] = Append(@, r)]
    BY <1>12 DEF ChromeAnswers
  <2>2. /\ r \in Replies \cup {Frame} /\ sent' \in [Sockets -> SUBSET Replies]
        /\ \A v \in Sockets : sent'[v] \subseteq sent[v]
    BY <1>0, <2>1 DEF CdpTypeOK
  <2>3. QED
    BY <1>11, <1>12, <2>1, <2>2 DEF ChromeAnswers, clientVars
<1>13. ASSUME NEW s \in Sockets, ChromeSendsFrame(s)
       PROVE  ClientInv'
  BY <1>0, <1>11, <1>13 DEF ChromeSendsFrame, clientVars, CdpTypeOK
<1>14. ASSUME NEW s \in Sockets, Drops(s)
       PROVE  ClientInv'
  <2>1. PICK how \in {"closed", "lost"} : Ends(s, how)
    BY <1>14 DEF Drops
  <2>2. /\ link' \in [Sockets -> {"unused", "open", "closed", "lost"}]
        /\ \A v \in Sockets : link'[v] = "unused" => link[v] = "unused"
        /\ sent' \in [Sockets -> SUBSET Replies]
        /\ \A v \in Sockets : sent'[v] \subseteq sent[v]
    BY <1>0, <2>1 DEF Ends, CdpTypeOK
  <2>3. QED
    BY <1>0, <1>14, <2>2, EndsOnly, RestSafe DEF Drops, clientVars, CdpTypeOK
<1>15. QED
  BY <1>1, <1>2, <1>3, <1>4, <1>5, <1>6, <1>7, <1>8, <1>9, <1>10, <1>12, <1>13, <1>14 DEF CdpNext

(* What the listener of today hands over is the answer to the command it     *)
(* ends.                                                                     *)
LEMMA AnswerMatches ==
  ASSUME ClientInv, NEW s \in Sockets, NEW t \in Tasks, Delivers(s, t), s = ws
  PROVE  cmd[t].socket = s /\ Head(inbox[s])[2] = t
<1>1. /\ inbox[s] \in Seq(Replies \cup {Frame}) /\ inbox[s] # <<>>
      /\ Head(inbox[s]) # Frame /\ WaitsFor(t, Head(inbox[s])[1])
  BY DEF ClientInv, CdpTypeOK, Delivers, Hears
<1>2. Head(inbox[s]) = inbox[s][1] /\ 1 \in 1..Len(inbox[s]) /\ Head(inbox[s]) \in Replies
  BY <1>1, QueueTail
<1>3. OfToday(Head(inbox[s]))
  BY <1>1, <1>2, CdpAssumption DEF ClientInv, RepliesOfToday, Sockets, NoSocket
<1>4. Head(inbox[s])[1] \in MessageIds /\ t # NoTask
  BY <1>2, CdpAssumption DEF Replies
<1>5. QED
  BY <1>1, <1>3, <1>4 DEF ClientInv, OfToday, WaitersOfToday, WaitsFor

(* Whatever reconnects, timeouts and late replies there are, for any number  *)
(* of callers, sockets and commands: a connected client has a listener, and  *)
(* what it reads from its socket of today ends the very command that is      *)
(* answered (_send_command, _listener, connect).                             *)
THEOREM ClientAnswersMatch == CdpSpec => ClientHolds
<1>1. CdpInit => ClientInv
  BY ClientInitial
<1>2. ClientInv /\ [CdpNext]_cdpVars => ClientInv'
  BY ClientStep
<1>3. ClientInv /\ [CdpNext]_cdpVars =>
        [\A s \in Sockets, t \in Tasks :
           Delivers(s, t) /\ s = ws =>
              /\ cmd[t].socket = s
              /\ Head(inbox[s])[2] = t]_cdpVars
  BY AnswerMatches
<1>4. ClientInv => ConnectedHasListener
  BY DEF ClientInv
<1>5. QED
  BY <1>1, <1>2, <1>3, <1>4, PTL DEF CdpSpec, ClientHolds, AnswersMatch

-----------------------------------------------------------------------------
(* ChromeLaunch.                                                             *)

(* What a step of launcher l leaves to the others.                           *)
OthersRest(l) ==
    \A m \in Launchers :
      m # l => at'[m] = at[m] /\ found'[m] = found[m] /\ mine'[m] = mine[m]

LEMMA UnusedProcess ==
  ASSUME \E x \in Browsers : Unused(x)
  PROVE  /\ (CHOOSE x \in Browsers : Unused(x)) \in Browsers
         /\ Unused(CHOOSE x \in Browsers : Unused(x))
OBVIOUS

LEMMA ChromeInitial == ChromeInit => ChromeTypeOK
<1> SUFFICES ASSUME ChromeInit
             PROVE  ChromeTypeOK
  OBVIOUS
<1>1. 0 \in 0..FailTicks - 1
  BY ChromeAssumption
<1>2. QED
  BY <1>1 DEF ChromeInit, ChromeTypeOK, Stages

LEMMA ChromeTypeStep == ChromeTypeOK /\ [ChromeNext]_chromeVars => ChromeTypeOK'
<1> SUFFICES ASSUME ChromeTypeOK, [ChromeNext]_chromeVars
             PROVE  ChromeTypeOK'
  OBVIOUS
<1> USE ChromeAssumption DEF ChromeTypeOK
<1>1. CASE UNCHANGED chromeVars
  BY <1>1
  DEF chromeVars, managerVars, settingsVars, osVars, taskVars
<1>2. ASSUME NEW l \in Launchers, LaunchBegins(l), failedTicks' \in 0..FailTicks - 1
      PROVE  ChromeTypeOK'
  <2>1. /\ UNCHANGED <<found, mine, browser, singleton, foreign, process, supervised, savedPid>>
        /\ launching' \in BOOLEAN
        /\ \E stage \in Stages : at' = [at EXCEPT ![l] = stage]
        /\ pid' \in {pid, NoBrowser} /\ portKnown' \in BOOLEAN /\ savedPort' \in BOOLEAN
    BY <1>2 DEF LaunchBegins, TakeOrScan, Goto, osVars, Stages
  <2>2. slipped' \in BOOLEAN
    BY <1>2 DEF LaunchBegins, TakeOrScan, PastFlag
  <2>3. QED
    BY <1>2, <2>1, <2>2
<1>3. ASSUME NEW l \in Launchers, WaitEnds(l)
      PROVE  ChromeTypeOK'
  <2>1. /\ UNCHANGED <<found, mine, browser, singleton, foreign, process, supervised, savedPid,
                       failedTicks>>
        /\ launching' \in BOOLEAN
        /\ \E stage \in Stages : at' = [at EXCEPT ![l] = stage]
        /\ pid' \in {pid, NoBrowser} /\ portKnown' \in BOOLEAN /\ savedPort' \in BOOLEAN
    BY <1>3 DEF WaitEnds, TakeOrScan, Goto, osVars, Stages
  <2>2. slipped' \in BOOLEAN
    BY <1>3 DEF WaitEnds, TakeOrScan, PastFlag
  <2>3. QED
    BY <2>1, <2>2
<1>4. ASSUME NEW l \in Launchers, Lists(l)
      PROVE  ChromeTypeOK'
  <2>1. PICK b \in Browsers \cup {NoBrowser} : found' = [found EXCEPT ![l] = b]
    BY <1>4 DEF Lists, Live
  <2>2. QED
    BY <1>4, <2>1 DEF Lists, Goto, Stages, osVars, managerVars, settingsVars
<1>5. ASSUME NEW l \in Launchers,
             ListingTimesOut(l) \/ ClearsSingleton(l) \/ Reuses(l) \/ SpawnFails(l)
      PROVE  ChromeTypeOK'
  BY <1>5
  DEF ListingTimesOut, ClearsSingleton, Reuses, SpawnFails, Goto, Stages, osVars, managerVars,
      settingsVars
<1>6. ASSUME NEW l \in Launchers, Spawns(l)
      PROVE  ChromeTypeOK'
  <2>1. PICK b \in Browsers : /\ browser' = [browser EXCEPT ![b] = "starting"]
                              /\ mine' = [mine EXCEPT ![l] = b]
                              /\ process' = b /\ pid' = b
                              /\ supervised' = supervised \cup {b}
    BY <1>6, UnusedProcess DEF Spawns, Fork
  <2>2. QED
    BY <1>6, <2>1 DEF Spawns, Fork, Goto, Stages, settingsVars
<1>7. ASSUME NEW l \in Launchers, LaunchEnds(l)
      PROVE  ChromeTypeOK'
  BY <1>7 DEF LaunchEnds, Goto, Stages, osVars, managerVars
<1>8. ASSUME NEW b \in Browsers, Starts(b) \/ Dies(b) \/ ChromeEnds(b) \/ Supervises(b)
      PROVE  ChromeTypeOK'
  BY <1>8
  DEF Starts, Dies, ChromeEnds, Supervises, Serving, Live, taskVars, managerVars, settingsVars,
      osVars
<1>9. CASE Stop
  BY <1>9 DEF Stop, Killed, Live, taskVars
<1>10. CASE TickSeesHealth \/ TickDefers
  <2>1. failedTicks' \in 0..FailTicks - 1
    <3>1. \/ failedTicks' = 0
          \/ failedTicks' = failedTicks + 1 /\ failedTicks + 1 < FailTicks
      BY <1>10 DEF TickSeesHealth, TickDefers
    <3>2. failedTicks \in Nat /\ FailTicks \in Nat /\ FailTicks > 0
      OBVIOUS
    <3> HIDE DEF ChromeTypeOK
    <3>3. QED
      BY <3>1, <3>2
  <2>2. UNCHANGED <<launching, taskVars, osVars, managerVars, settingsVars, slipped>>
    BY <1>10 DEF TickSeesHealth, TickDefers
  <2>3. QED
    BY <2>1, <2>2 DEF taskVars, managerVars, settingsVars, osVars
<1>11. CASE TickRelaunches
  <2>1. 0 \in 0..FailTicks - 1
    OBVIOUS
  <2>2. QED
    BY <1>2, <1>11, <2>1 DEF TickRelaunches, Launchers
<1>12. ASSUME NEW l \in Requests, Launch(l)
       PROVE  ChromeTypeOK'
  BY <1>2, <1>12 DEF Launch, Launchers
<1>13. QED
  BY <1>1, <1>3, <1>4, <1>5, <1>6, <1>7, <1>8, <1>9, <1>10, <1>11, <1>12
  DEF ChromeNext, LaunchGoesOn

(* The handle of a running Chrome is let go of only together with its port,  *)
(* for any number of launchers and processes, and whatever ps and the probes *)
(* overlook (_supervise_chrome, stop).                                       *)
THEOREM HandleStays == ChromeSpec => HandleKept
<1>1. ChromeInit => ChromeTypeOK
  BY ChromeInitial
<1>2. ASSUME ChromeTypeOK, [ChromeNext]_chromeVars, process \in Live, process' = NoBrowser
      PROVE  portKnown' = FALSE
  <2>1. process \in Browsers /\ process # NoBrowser
    BY <1>2, ChromeAssumption DEF Live
  <2>2. ASSUME NEW l \in Launchers, Spawns(l)
        PROVE  FALSE
    <3>1. process' \in Browsers
      BY <2>2, UnusedProcess DEF Spawns, Fork
    <3>2. QED
      BY <1>2, <3>1, ChromeAssumption
  <2>3. ASSUME NEW b \in Browsers, Supervises(b)
        PROVE  FALSE
    BY <1>2, <2>1, <2>3 DEF Supervises
  <2>4. CASE Stop
    BY <2>4 DEF Stop
  <2>5. CASE process' = process
    BY <1>2, <2>1, <2>5
  <2>6. ASSUME NEW l \in Launchers, LaunchBegins(l)
        PROVE  process' = process
    BY <2>6 DEF LaunchBegins
  <2>7. ASSUME NEW l \in Launchers, LaunchGoesOn(l), ~Spawns(l)
        PROVE  process' = process
    BY <2>7
    DEF LaunchGoesOn, WaitEnds, Lists, ListingTimesOut, ClearsSingleton, Reuses, SpawnFails,
        LaunchEnds, managerVars
  <2>8. ASSUME NEW b \in Browsers, Starts(b) \/ Dies(b) \/ ChromeEnds(b)
        PROVE  process' = process
    BY <2>8 DEF Starts, Dies, ChromeEnds, managerVars
  <2>9. CASE TickSeesHealth \/ TickDefers \/ UNCHANGED chromeVars
    BY <2>5, <2>9 DEF TickSeesHealth, TickDefers, managerVars, chromeVars
  <2>10. QED
    BY <1>2, <2>2, <2>3, <2>4, <2>5, <2>6, <2>7, <2>8, <2>9
    DEF ChromeNext, Launch, TickRelaunches, Launchers
<1>3. QED
  BY <1>1, <1>2, ChromeTypeStep, PTL DEF ChromeSpec, HandleKept

(* A process that has not come up goes on being watched, and the lock goes   *)
(* to one that comes up.                                                     *)
LEMMA StartingWatchedStep ==
  ASSUME ChromeTypeOK, ChromeTypeOK', StartingWatched, [ChromeNext]_chromeVars
  PROVE  StartingWatched'
<1> USE DEF StartingWatched, Starting
<1>1. ASSUME browser' = browser, singleton' \in {singleton, NoBrowser},
             \A m \in Launchers : at[m] = "warming" => at'[m] = "warming" /\ mine'[m] = mine[m]
      PROVE  StartingWatched'
  BY <1>1, ChromeAssumption
<1>2. ASSUME NEW l \in Launchers, NEW stage, Goto(l, stage), at[l] # "warming",
             UNCHANGED <<mine, browser>>, singleton' \in {singleton, NoBrowser}
      PROVE  StartingWatched'
  <2>1. \A m \in Launchers : at[m] = "warming" => at'[m] = "warming" /\ mine'[m] = mine[m]
    BY <1>2 DEF Goto, ChromeTypeOK
  <2>2. QED
    BY <1>1, <1>2, <2>1
<1>3. ASSUME NEW l \in Launchers, LaunchBegins(l) \/ WaitEnds(l)
      PROVE  StartingWatched'
  <2>1. /\ at[l] \in {"idle", "waiting"} /\ \E stage \in Stages : Goto(l, stage)
        /\ UNCHANGED <<mine, browser, singleton>>
    BY <1>3 DEF LaunchBegins, WaitEnds, TakeOrScan, osVars, Stages
  <2>2. QED
    BY <1>2, <2>1
<1>4. ASSUME NEW l \in Launchers,
             Lists(l) \/ ListingTimesOut(l) \/ ClearsSingleton(l) \/ Reuses(l) \/ SpawnFails(l)
      PROVE  StartingWatched'
  <2>1. /\ at[l] # "warming" /\ \E stage \in Stages : Goto(l, stage)
        /\ UNCHANGED <<mine, browser>> /\ singleton' \in {singleton, NoBrowser}
    BY <1>4
    DEF Lists, ListingTimesOut, ClearsSingleton, Reuses, SpawnFails, osVars, Stages
  <2>2. QED
    BY <1>2, <2>1
<1>5. ASSUME NEW l \in Launchers, Spawns(l)
      PROVE  StartingWatched'
  <2>1. PICK b \in Browsers : /\ Unused(b)
                              /\ browser' = [browser EXCEPT ![b] = "starting"]
                              /\ mine' = [mine EXCEPT ![l] = b]
    BY <1>5, UnusedProcess DEF Spawns, Fork
  <2>2. /\ at[l] = "relisted" /\ at' = [at EXCEPT ![l] = "warming"]
        /\ singleton' = singleton /\ browser[b] = "gone" /\ b # singleton
    BY <1>5, <2>1 DEF Spawns, Fork, Goto, Unused
  <2>3. at'[l] = "warming" /\ mine'[l] = b
    BY <2>1, <2>2 DEF ChromeTypeOK
  <2>4. \A m \in Launchers : m # l => at'[m] = at[m] /\ mine'[m] = mine[m]
    BY <2>1, <2>2 DEF ChromeTypeOK
  <2>5. \A c \in Starting' : c = b \/ c \in Starting
    BY <2>1 DEF ChromeTypeOK
  <2>6. ASSUME NEW c \in Starting
        PROVE  c # singleton' /\ \E m \in Launchers : at'[m] = "warming" /\ mine'[m] = c
    BY <2>2, <2>4, <2>6
  <2>7. QED
    BY <2>2, <2>3, <2>5, <2>6
<1>6. ASSUME NEW l \in Launchers, LaunchEnds(l)
      PROVE  StartingWatched'
  <2>1. /\ at' = [at EXCEPT ![l] = "idle"] /\ mine' = [mine EXCEPT ![l] = NoBrowser]
        /\ UNCHANGED <<browser, singleton>> /\ browser[mine[l]] # "starting"
    BY <1>6 DEF LaunchEnds, Goto, osVars
  <2>2. \A m \in Launchers : m # l => at'[m] = at[m] /\ mine'[m] = mine[m]
    BY <2>1 DEF ChromeTypeOK
  <2>3. QED
    BY <2>1, <2>2
<1>7. ASSUME NEW b \in Browsers, NEW to \in {"gone", "serving", "ending"},
             browser' = [browser EXCEPT ![b] = to], singleton' \in {singleton, NoBrowser, b},
             UNCHANGED <<at, mine>>
      PROVE  StartingWatched'
  <2>1. \A c \in Starting' : c \in Starting /\ c # b
    BY <1>7 DEF ChromeTypeOK
  <2>2. QED
    BY <1>7, <2>1, ChromeAssumption
<1>8. ASSUME NEW b \in Browsers, Starts(b) \/ Dies(b) \/ ChromeEnds(b)
      PROVE  StartingWatched'
  <2>1. /\ \E to \in {"gone", "serving", "ending"} : browser' = [browser EXCEPT ![b] = to]
        /\ singleton' \in {singleton, NoBrowser, b} /\ UNCHANGED <<at, mine>>
    BY <1>8 DEF Starts, Dies, ChromeEnds, taskVars
  <2>2. QED
    BY <1>7, <2>1
<1>9. CASE Stop
  <2>1. CASE Killed \in Live
    <3>1. Killed \in Browsers /\ UNCHANGED <<at, mine, singleton>>
      BY <1>9, <2>1 DEF Live, Stop, taskVars
    <3>2. \E to \in {"gone", "ending"} : browser' = [browser EXCEPT ![Killed] = to]
      BY <1>9, <2>1 DEF Stop
    <3>3. QED
      BY <1>7, <3>1, <3>2
  <2>2. CASE Killed \notin Live
    BY <1>1, <1>9, <2>2 DEF Stop, taskVars
  <2>3. QED
    BY <2>1, <2>2
<1>10. ASSUME NEW b \in Browsers, Supervises(b)
       PROVE  StartingWatched'
  BY <1>1, <1>10 DEF Supervises, taskVars, osVars
<1>11. CASE TickSeesHealth \/ TickDefers \/ UNCHANGED chromeVars
  BY <1>1, <1>11 DEF TickSeesHealth, TickDefers, taskVars, osVars, chromeVars
<1>12. QED
  BY <1>3, <1>4, <1>5, <1>6, <1>8, <1>9, <1>10, <1>11
  DEF ChromeNext, LaunchGoesOn, Launch, TickRelaunches, Launchers

(* A step that leaves the processes and the lock alone, and after which its  *)
(* launch is not blind beside a living Chrome.                               *)
LEMMA LaunchMoves ==
  ASSUME ChromeTypeOK, ChromeTypeOK', InOrder, NEW l \in Launchers, OthersRest(l),
         browser' = browser, singleton' = singleton,
         Live # {} => ~Blind(l)', FewSearch'
  PROVE  InOrder'
<1> USE DEF InOrder
<1>1. Live' = Live /\ OnProfile' = OnProfile /\ Starting' = Starting
  BY DEF Live, OnProfile, Starting
<1>2. ASSUME NEW m \in Launchers, Blind(m)', Live # {}
      PROVE  m # l /\ Blind(m)
  BY <1>2 DEF Blind, OthersRest
<1>3. (OnProfile # {} \/ Starting # {}) => Live # {}
  BY DEF OnProfile, Live, Starting
<1>4. OneBlind'
  BY <1>1, <1>2, <1>3 DEF OneBlind
<1>5. LockLies'
  <2>1. (AboutToSpawn' /\ Live # {}) => AboutToSpawn
    BY DEF AboutToSpawn, Blind, OthersRest
  <2>2. QED
    BY <1>1, <1>3, <2>1 DEF LockLies
<1>6. OneServes'
  BY <1>1 DEF OneServes
<1>7. QED
  BY <1>4, <1>5, <1>6

(* A process ends, with its lock or without.                                 *)
LEMMA ProcessEnds ==
  ASSUME ChromeTypeOK, ChromeTypeOK', InOrder, NEW b \in Live, UNCHANGED <<at, found>>,
         browser' = [browser EXCEPT ![b] = "gone"],
         singleton' \in {singleton, NoBrowser},
         b \in Starting => singleton' = singleton
  PROVE  InOrder'
<1> USE DEF InOrder, ChromeTypeOK
<1>1. /\ Live' = Live \ {b} /\ OnProfile' = OnProfile \ {b} /\ Starting' = Starting \ {b}
      /\ b \in OnProfile \/ b \in Starting
  BY DEF Live, OnProfile, Starting
<1>2. (b \in OnProfile => OnProfile' = {}) /\ \A l \in Launchers : Blind(l)' = Blind(l)
  BY <1>1 DEF OneServes, Blind
<1>3. OneBlind'
  BY <1>1, <1>2 DEF OneBlind
<1>4. AboutToSpawn' = AboutToSpawn /\ Searching' = Searching
  BY DEF AboutToSpawn, Searching
<1>5. LockLies'
  BY <1>1, <1>2, <1>4 DEF LockLies
<1>6. OneServes' /\ FewSearch'
  BY <1>1, <1>4 DEF OneServes, FewSearch
<1>7. QED
  BY <1>3, <1>5, <1>6

(* Order lasts as long as nothing slips by, and returns when a launch begins *)
(* by itself with one Chrome at most.                                        *)
LEMMA InOrderStep ==
  ASSUME OneChromeInv, ChromeTypeOK', [ChromeNext]_chromeVars, ~slipped'
  PROVE  InOrder'
<1>0. ChromeTypeOK /\ StartingWatched /\ (~slipped => InOrder)
  BY DEF OneChromeInv
<1>1. ASSUME UNCHANGED <<at, found, browser, singleton, slipped>>
      PROVE  InOrder'
  BY <1>0, <1>1
  DEF InOrder, FewSearch, OneBlind, LockLies, OneServes, Blind, AboutToSpawn, Searching,
      Live, OnProfile, Starting
(* A launch that goes on to where it is not blind.                           *)
<1>2. ASSUME NEW l \in Launchers, NEW stage \in {"idle", "waiting", "relisting", "warming"},
             Goto(l, stage), stage = "relisting" => at[l] = "listed",
             found' \in {found, [found EXCEPT ![l] = NoBrowser]},
             mine' \in {mine, [mine EXCEPT ![l] = NoBrowser]},
             UNCHANGED <<browser, singleton, slipped>>
      PROVE  InOrder'
  <2>1. OthersRest(l) /\ ~Blind(l)' /\ at'[l] = stage
    BY <1>0, <1>2 DEF OthersRest, Blind, Goto, ChromeTypeOK
  <2>2. Searching' \subseteq Searching
    BY <1>2, <2>1 DEF Searching, OthersRest
  <2>3. InOrder
    BY <1>0, <1>2
  <2>4. FewSearch'
    BY <2>2, <2>3 DEF InOrder, FewSearch
  <2>5. QED
    BY <1>0, <1>2, <2>1, <2>3, <2>4, LaunchMoves
<1>3. ASSUME NEW l \in Launchers, LaunchBegins(l) \/ WaitEnds(l)
      PROVE  InOrder'
  <2>1. /\ at[l] \in {"idle", "waiting"}
        /\ UNCHANGED <<found, mine, browser, singleton>>
        /\ \/ \E stage \in {"idle", "waiting"} : Goto(l, stage) /\ UNCHANGED slipped
           \/ Goto(l, "listing") /\ PastFlag
    BY <1>3 DEF LaunchBegins, WaitEnds, TakeOrScan, osVars
  <2>2. CASE \E stage \in {"idle", "waiting"} : Goto(l, stage) /\ UNCHANGED slipped
    BY <1>2, <2>1, <2>2
  <2>3. CASE Goto(l, "listing") /\ PastFlag
    <3>1. OthersRest(l) /\ ~Blind(l)' /\ at'[l] = "listing"
      BY <1>0, <2>1, <2>3 DEF OthersRest, Blind, Goto, ChromeTypeOK
    <3>2. Searching' = Searching \cup {l}
      BY <3>1 DEF Searching, OthersRest
    <3>3. \A m, n \in Searching : m = n
      BY <2>3 DEF PastFlag
    <3>4. FewSearch'
      BY <3>2, <3>3 DEF FewSearch
    <3>5. CASE ~slipped
      BY <1>0, <2>1, <3>1, <3>4, <3>5, LaunchMoves
    <3>6. CASE slipped
      <4>1. Searching = {} /\ \A b, c \in Live : b = c
        BY <2>3, <3>3, <3>6 DEF PastFlag
      <4>2. Searching' = {l} /\ \A m \in Launchers : ~Blind(m)'
        BY <3>1, <3>2, <4>1 DEF Searching, Blind
      <4>3. ~AboutToSpawn'
        BY <4>2 DEF AboutToSpawn, Blind
      <4>4. OneBlind'
        BY <4>2 DEF OneBlind
      <4>5. /\ OnProfile' = OnProfile /\ Starting' = Starting
            /\ OnProfile \subseteq Live /\ Starting \subseteq Live /\ OnProfile \cap Starting = {}
        BY <2>1 DEF OnProfile, Starting, Live
      <4>6. LockLies' /\ OneServes'
        BY <4>1, <4>3, <4>5 DEF LockLies, OneServes
      <4>7. QED
        BY <3>4, <4>4, <4>6 DEF InOrder
    <3>7. QED
      BY <3>5, <3>6
  <2>4. QED
    BY <2>1, <2>2, <2>3
<1>4. ASSUME NEW l \in Launchers, ListingTimesOut(l) \/ Reuses(l) \/ SpawnFails(l)
      PROVE  InOrder'
  <2>1. /\ Goto(l, "idle") /\ found' \in {found, [found EXCEPT ![l] = NoBrowser]}
        /\ UNCHANGED <<mine, browser, singleton, slipped>>
    BY <1>4 DEF ListingTimesOut, Reuses, SpawnFails, osVars
  <2>2. QED
    BY <1>2, <2>1
<1>5. ASSUME NEW l \in Launchers, Lists(l)
      PROVE  InOrder'
  <2>1. PICK b \in Live \cup (IF Live = {} \/ Stalls THEN {NoBrowser} ELSE {}) :
               /\ found' = [found EXCEPT ![l] = b]
               /\ slipped' = (slipped \/ (b = NoBrowser /\ Live # {}))
    BY <1>5 DEF Lists
  <2>2. ~slipped /\ (Live # {} => b # NoBrowser)
    BY <2>1
  <2>3. /\ UNCHANGED <<mine, browser, singleton>> /\ at[l] \in {"listing", "relisting"}
        /\ at' = [at EXCEPT ![l] = IF at[l] = "listing" THEN "listed" ELSE "relisted"]
    BY <1>5 DEF Lists, Goto, osVars
  <2>4. found'[l] = b
    BY <1>0, <2>1 DEF ChromeTypeOK
  <2>5. \A m \in Launchers : m # l => at'[m] = at[m] /\ found'[m] = found[m] /\ mine'[m] = mine[m]
    BY <1>0, <2>1, <2>3 DEF ChromeTypeOK
  <2>6. OthersRest(l) /\ (Live # {} => ~Blind(l)')
    BY <2>2, <2>4, <2>5 DEF OthersRest, Blind
  <2>7. Searching' \subseteq Searching
    BY <2>3, <2>5 DEF Searching
  <2>8. FewSearch'
    BY <1>0, <2>2, <2>7 DEF InOrder, FewSearch
  <2>9. QED
    BY <1>0, <2>2, <2>3, <2>6, <2>8, LaunchMoves
<1>6. ASSUME NEW l \in Launchers, ClearsSingleton(l)
      PROVE  InOrder'
  <2>1. /\ at[l] = "listed" /\ Goto(l, "relisting") /\ found' = [found EXCEPT ![l] = NoBrowser]
        /\ UNCHANGED <<mine, browser, slipped>>
        /\ singleton' = IF found[l] = NoBrowser THEN NoBrowser ELSE singleton
    BY <1>6 DEF ClearsSingleton
  <2>2. CASE found[l] # NoBrowser
    BY <1>2, <2>1, <2>2
  <2>3. CASE found[l] = NoBrowser
    <3>1. /\ Live' = Live /\ OnProfile' = OnProfile /\ Starting' = Starting
          /\ Blind(l) /\ InOrder
          /\ (OnProfile # {} \/ Starting # {}) => Live # {}
      BY <1>0, <2>1, <2>3 DEF Live, OnProfile, Starting, Blind
    <3>2. /\ OthersRest(l) /\ at'[l] = "relisting"
          /\ \A m \in Launchers : Blind(m)' => m # l /\ Blind(m)
      BY <1>0, <2>1 DEF OthersRest, Blind, Goto, ChromeTypeOK
    <3>3. FewSearch'
      <4>1. Searching' \subseteq Searching
        BY <2>1, <3>2 DEF Searching, OthersRest
      <4>2. QED
        BY <3>1, <4>1 DEF InOrder, FewSearch
    <3>4. OneBlind'
      BY <3>1, <3>2 DEF OneBlind, InOrder
    <3>5. LockLies'
      <4>1. OnProfile # {} => Starting = {} /\ \A m \in Launchers : ~Blind(m)'
        BY <3>1, <3>2 DEF OneBlind, InOrder
      <4>2. AboutToSpawn' => \E m \in Launchers : Blind(m)'
        BY DEF AboutToSpawn, Blind
      <4>3. QED
        BY <3>1, <4>1, <4>2 DEF LockLies
    <3>6. OneServes'
      BY <3>1 DEF OneServes, InOrder
    <3>7. QED
      BY <3>3, <3>4, <3>5, <3>6 DEF InOrder
  <2>4. QED
    BY <2>2, <2>3
<1>7. ASSUME NEW l \in Launchers, Spawns(l)
      PROVE  InOrder'
  <2>1. PICK b \in Browsers : /\ Unused(b)
                              /\ browser' = [browser EXCEPT ![b] = "starting"]
                              /\ mine' = [mine EXCEPT ![l] = b]
    BY <1>7, UnusedProcess DEF Spawns, Fork
  <2>2. /\ at[l] = "relisted" /\ found[l] = NoBrowser /\ at' = [at EXCEPT ![l] = "warming"]
        /\ found' = found /\ singleton' = singleton /\ browser[b] = "gone" /\ InOrder
    BY <1>0, <1>7, <2>1 DEF Spawns, Fork, Goto, Unused
  <2>3. /\ OnProfile' = OnProfile /\ Starting' = Starting \cup {b}
        /\ (OnProfile # {} \/ Starting # {}) => Live # {}
    BY <1>0, <2>1, <2>2 DEF OnProfile, Starting, Live, ChromeTypeOK
  <2>4. /\ Blind(l) /\ AboutToSpawn /\ l \in Searching /\ l \notin Searching'
        /\ \A m \in Launchers : Blind(m)' => m # l /\ Blind(m)
        /\ Searching' \subseteq Searching
    BY <1>0, <2>1, <2>2 DEF Blind, AboutToSpawn, Searching, ChromeTypeOK
  <2>5. FewSearch'
    BY <2>2, <2>4 DEF InOrder, FewSearch
  <2>6. OneBlind'
    <3>1. \A m, n \in Launchers : Blind(m)' /\ Blind(n)' => m = n
      <4>1. \A m \in Launchers : Blind(m)' => m \in Searching'
        BY DEF Blind, Searching
      <4>2. QED
        BY <2>2, <2>4, <4>1 DEF InOrder, FewSearch
    <3>2. Live # {} => \A m \in Launchers : ~Blind(m)'
      BY <2>2, <2>4 DEF OneBlind, InOrder
    <3>3. (\E c, d \in Starting' : c # d) => Live # {}
      BY <2>3
    <3>4. QED
      BY <2>3, <3>1, <3>2, <3>3 DEF OneBlind
  <2>7. LockLies' /\ OneServes'
    BY <2>2, <2>3, <2>4 DEF LockLies, OneServes, InOrder
  <2>8. QED
    BY <2>5, <2>6, <2>7 DEF InOrder
<1>8. ASSUME NEW l \in Launchers, LaunchEnds(l)
      PROVE  InOrder'
  <2>1. /\ Goto(l, "idle") /\ mine' = [mine EXCEPT ![l] = NoBrowser]
        /\ UNCHANGED <<found, browser, singleton, slipped>>
    BY <1>8 DEF LaunchEnds, osVars
  <2>2. QED
    BY <1>2, <2>1
<1>9. ASSUME NEW b \in Browsers, Starts(b)
      PROVE  InOrder'
  <2>1. /\ b \in Starting /\ b \in Live /\ browser[b] = "starting"
        /\ UNCHANGED <<at, found, mine>> /\ InOrder
    BY <1>0, <1>9 DEF Starts, Starting, Live, taskVars
  <2>2. CASE singleton # NoBrowser
    <3>1. browser' = [browser EXCEPT ![b] = "gone"] /\ singleton' = singleton
      BY <1>9, <2>2 DEF Starts
    <3>2. QED
      BY <1>0, <2>1, <3>1, ProcessEnds
  <2>3. CASE singleton = NoBrowser
    <3>1. singleton' = b /\ browser' = [browser EXCEPT ![b] = "serving"]
      BY <1>9, <2>3 DEF Starts
    <3>2. OnProfile = {}
      BY <2>1, <2>3 DEF LockLies, InOrder
    <3>3. /\ OnProfile' = {b} /\ Starting' = Starting \ {b} /\ Live' = Live
          /\ \A m \in Launchers : Blind(m)' = Blind(m)
      BY <1>0, <2>1, <3>1, <3>2 DEF OnProfile, Starting, Live, Blind, ChromeTypeOK
    <3>4. FewSearch'
      BY <2>1 DEF FewSearch, Searching, InOrder
    <3>5. OneBlind'
      <4>1. Starting' # {} => \A m \in Launchers : ~Blind(m)
        BY <2>1, <3>3 DEF OneBlind, InOrder
      <4>2. QED
        BY <2>1, <3>3, <4>1 DEF OneBlind, InOrder
    <3>6. LockLies' /\ OneServes'
      BY <3>1, <3>3, ChromeAssumption DEF LockLies, OneServes
    <3>7. QED
      BY <3>4, <3>5, <3>6 DEF InOrder
  <2>4. QED
    BY <2>2, <2>3
<1>10. ASSUME NEW b \in Browsers, Dies(b) \/ ChromeEnds(b)
       PROVE  InOrder'
  <2>1. /\ b \in Live /\ b \notin Starting /\ browser' = [browser EXCEPT ![b] = "gone"]
        /\ singleton' \in {singleton, NoBrowser} /\ UNCHANGED <<at, found>> /\ InOrder
    BY <1>0, <1>10 DEF Dies, ChromeEnds, Live, Serving, Starting, taskVars
  <2>2. QED
    BY <1>0, <2>1, ProcessEnds
<1>11. CASE Stop
  <2>1. CASE Killed \notin Live
    BY <1>1, <1>11, <2>1 DEF Stop, taskVars
  <2>2. CASE Killed \in Live
    <3>1. PICK b \in Live : b = Killed
      BY <2>2
    <3>2. /\ browser' = [browser EXCEPT ![b] = IF b \in OnProfile THEN "ending" ELSE "gone"]
          /\ UNCHANGED <<at, found, singleton, slipped>>
      BY <1>11, <3>1 DEF Stop, taskVars
    <3>3. CASE b \notin OnProfile
      BY <1>0, <3>2, <3>3, ProcessEnds
    <3>4. CASE b \in OnProfile
      <4>1. Live' = Live /\ OnProfile' = OnProfile /\ Starting' = Starting
        BY <1>0, <3>2, <3>4 DEF Live, OnProfile, Starting, ChromeTypeOK
      <4>2. QED
        BY <1>0, <3>2, <4>1
        DEF InOrder, FewSearch, OneBlind, LockLies, OneServes, Blind, AboutToSpawn, Searching
    <3>5. QED
      BY <3>3, <3>4
  <2>3. QED
    BY <2>1, <2>2
<1>12. ASSUME NEW b \in Browsers, Supervises(b)
       PROVE  InOrder'
  BY <1>1, <1>12 DEF Supervises, taskVars, osVars
<1>13. CASE TickSeesHealth \/ TickDefers \/ UNCHANGED chromeVars
  BY <1>1, <1>13 DEF TickSeesHealth, TickDefers, taskVars, osVars, chromeVars
<1>14. QED
  BY <1>3, <1>4, <1>5, <1>6, <1>7, <1>8, <1>9, <1>10, <1>11, <1>12, <1>13
  DEF ChromeNext, LaunchGoesOn, Launch, TickRelaunches, Launchers

(* One Chrome serves the profile, and its manager forgets it only together   *)
(* with its port: for any number of launches and processes, whatever ps and  *)
(* the probes overlook.  A second one comes up only after a scan has missed  *)
(* a living Chrome, or three launches were past the flag together (launch).  *)
THEOREM OneChrome == ChromeSpec => ChromeHolds
<1>1. ChromeInit => OneChromeInv
  <2> SUFFICES ASSUME ChromeInit
               PROVE  OneChromeInv
    OBVIOUS
  <2>1. Live = {} /\ OnProfile = {} /\ Starting = {} /\ Searching = {}
    BY DEF ChromeInit, Live, OnProfile, Starting, Searching
  <2>2. QED
    BY <2>1, ChromeInitial
    DEF OneChromeInv, StartingWatched, InOrder, FewSearch, OneBlind, LockLies, OneServes
<1>2. OneChromeInv /\ [ChromeNext]_chromeVars => OneChromeInv'
  <2> SUFFICES ASSUME OneChromeInv, [ChromeNext]_chromeVars
               PROVE  OneChromeInv'
    OBVIOUS
  <2>1. ChromeTypeOK /\ StartingWatched
    BY DEF OneChromeInv
  <2>2. ChromeTypeOK'
    BY <2>1, ChromeTypeStep
  <2>3. StartingWatched'
    BY <2>1, <2>2, StartingWatchedStep
  <2>4. ~slipped' => InOrder'
    BY <2>2, InOrderStep
  <2>5. QED
    BY <2>2, <2>3, <2>4 DEF OneChromeInv
<1>3. OneChromeInv => OneBrowser
  BY DEF OneChromeInv, InOrder, OneServes, OneBrowser
<1>4. ChromeSpec => HandleKept
  BY HandleStays
<1>5. QED
  BY <1>1, <1>2, <1>3, <1>4, PTL DEF ChromeSpec, ChromeHolds

-----------------------------------------------------------------------------
(* AgentRuntime. *)
(* An agent has pinned this snapshot.                                        *)
Holders(acts, k, s) == {a \in Agents : acts[a].runs /\ acts[a].kind = k /\ acts[a].pinned = s}

(* Every snapshot has as many pins as acts that hold it.                     *)
PinsCounted(counts, acts) ==
    /\ counts = [k \in Kinds |-> [s \in SnapshotIds |-> Cardinality(Holders(acts, k, s))]]
    /\ acts = [a \in Agents |-> acts[a]]
    /\ \A a \in Agents : acts[a].runs => acts[a].kind \in Kinds /\ acts[a].pinned \in SnapshotIds

RuntimeInv ==
    /\ items \in [Kinds -> Seq(SnapshotIds)] /\ aged \subseteq SnapshotIds
    /\ PinsCounted(pins, act) /\ PinnedKept

-----------------------------------------------------------------------------
LEMMA PinnedCounted ==
  ASSUME NEW counts, NEW acts, PinsCounted(counts, acts), NEW k \in Kinds, NEW s \in SnapshotIds
  PROVE  /\ IsFiniteSet(Holders(acts, k, s)) /\ counts[k][s] = Cardinality(Holders(acts, k, s))
         /\ counts[k][s] \in Nat /\ (counts[k][s] = 0 <=> Holders(acts, k, s) = {})
<1>1. Holders(acts, k, s) \in SUBSET Agents
  BY DEF Holders
<1>2. IsFiniteSet(Holders(acts, k, s))
  BY <1>1, AgentAssumption, FS_Subset
<1>3. QED
  BY <1>2, FS_CardinalityType, FS_EmptySet DEF PinsCounted

(* What is pinned stays in its table when others are added and removed.      *)
LEMMA PrunedKeeps ==
  ASSUME NEW k \in Kinds, NEW list \in Seq(SnapshotIds)
  PROVE  /\ Pruned(k, list) \in Seq(SnapshotIds)
         /\ \A s \in Pinned(k) : s \in ElementsOf(list) => s \in ElementsOf(Pruned(k, list))
<1>1. PICK loose : loose = Those(list, SnapshotIds \ Pinned(k))
  OBVIOUS
<1>2. /\ loose \in Seq(SnapshotIds)
      /\ ElementsOf(loose) = ElementsOf(list) \cap (SnapshotIds \ Pinned(k))
  BY <1>1, ThoseMembers
<1>3. CASE Len(list) > MaxSnapshots /\ loose # <<>>
  <2>1. Head(loose) = loose[1] /\ 1 \in DOMAIN loose
    BY <1>2, <1>3
  <2>2. Head(loose) \notin Pinned(k)
    BY <1>2, <2>1 DEF ElementsOf
  <2>3. PICK rest : rest = Those(list, SnapshotIds \ {Head(loose)})
    OBVIOUS
  <2>4. rest \in Seq(SnapshotIds) /\ ElementsOf(rest) = ElementsOf(list) \cap (SnapshotIds \ {Head(loose)})
    BY <2>3, ThoseMembers
  <2>5. Pruned(k, list) = rest
    BY <1>1, <1>3, <2>3 DEF Pruned
  <2>6. QED
    BY <2>2, <2>4, <2>5 DEF Pinned
<1>4. CASE ~(Len(list) > MaxSnapshots /\ loose # <<>>)
  BY <1>1, <1>4 DEF Pruned
<1>5. QED
  BY <1>3, <1>4

LEMMA UnexpiredKeeps ==
  ASSUME NEW k \in Kinds, items \in [Kinds -> Seq(SnapshotIds)]
  PROVE  /\ Unexpired(k) \in Seq(SnapshotIds)
         /\ \A s \in Pinned(k) : s \in Kept(k) => s \in ElementsOf(Unexpired(k))
<1>1. PICK list \in Seq(SnapshotIds) : list = items[k]
  OBVIOUS
<1>2. Kept(k) = ElementsOf(list)
  BY <1>1 DEF Kept, ElementsOf
<1>3. PICK young : young = Those(list, Pinned(k) \cup (SnapshotIds \ aged))
  OBVIOUS
<1>4. /\ young \in Seq(SnapshotIds)
      /\ ElementsOf(young) = ElementsOf(list) \cap (Pinned(k) \cup (SnapshotIds \ aged))
  BY <1>3, ThoseMembers
<1>5. Unexpired(k) = IF k = "ax" THEN list ELSE young
  BY <1>1, <1>3 DEF Unexpired
<1>6. QED
  BY <1>2, <1>4, <1>5

LEMMA ObserveKeeps ==
  ASSUME RuntimeInv, NEW k \in Kinds, Observe(k)
  PROVE  RuntimeInv'
<1>1. PICK s \in NewSnapshots :
         /\ items' = [items EXCEPT ![k] = Pruned(k, Append(Unexpired(k), s))]
         /\ aged' = aged \ {s}
  <2>1. (CHOOSE x \in NewSnapshots : TRUE) \in NewSnapshots
    BY DEF Observe
  <2>2. QED
    BY <2>1 DEF Observe
<1>2. pins' = pins /\ act' = act
  BY DEF Observe
<1>3. /\ items \in [Kinds -> Seq(SnapshotIds)] /\ aged \subseteq SnapshotIds
      /\ PinsCounted(pins, act) /\ PinnedKept
  BY DEF RuntimeInv
<1>4. s \in SnapshotIds /\ \A j \in Kinds : s \notin Pinned(j)
  BY DEF NewSnapshots, Kinds
<1>5. PICK young : young = Unexpired(k)
  OBVIOUS
<1>6. young \in Seq(SnapshotIds) /\ \A x \in Pinned(k) : x \in Kept(k) => x \in ElementsOf(young)
  BY <1>3, <1>5, UnexpiredKeeps
<1>7. PICK long : long = Append(young, s)
  OBVIOUS
<1>8. long \in Seq(SnapshotIds) /\ ElementsOf(young) \subseteq ElementsOf(long)
  BY <1>4, <1>6, <1>7 DEF ElementsOf
<1>9. PICK new : new = Pruned(k, long)
  OBVIOUS
<1>10. new \in Seq(SnapshotIds) /\ \A x \in Pinned(k) : x \in Kept(k) => x \in ElementsOf(new)
  BY <1>6, <1>8, <1>9, PrunedKeeps
<1>11. items' = [items EXCEPT ![k] = new]
  BY <1>1, <1>5, <1>7, <1>9
<1>12. items' \in [Kinds -> Seq(SnapshotIds)] /\ aged' \subseteq SnapshotIds
  BY <1>1, <1>3, <1>10, <1>11
<1>13. ASSUME NEW a \in Agents, act[a].runs
       PROVE  \/ act[a].pinned \in Kept(act[a].kind)'
              \/ act[a].kind = "semantic" /\ act[a].pinned \in aged'
  <2>1. PICK j \in Kinds, x \in SnapshotIds : j = act[a].kind /\ x = act[a].pinned
    BY <1>3, <1>13 DEF PinsCounted
  <2>2. x \in Pinned(j)
    <3>1. a \in Holders(act, j, x)
      BY <1>13, <2>1 DEF Holders
    <3>2. pins[j][x] # 0 /\ pins[j][x] \in Nat
      BY <1>3, <3>1, PinnedCounted
    <3>3. QED
      BY <3>2 DEF Pinned
  <2>3. x # s
    BY <1>4, <2>2
  <2>4. x \in Kept(j) \/ (j = "semantic" /\ x \in aged)
    BY <1>3, <1>13, <2>1 DEF PinnedKept
  <2>5. x \in Kept(j) => x \in Kept(j)'
    <3>1. CASE j = k
      BY <1>3, <1>10, <1>11, <2>2, <3>1 DEF Kept, ElementsOf
    <3>2. CASE j # k
      BY <1>3, <1>11, <3>2 DEF Kept
    <3>3. QED
      BY <3>1, <3>2
  <2>6. Kept(act[a].kind)' = Kept(j)'
    BY <1>2, <2>1 DEF Kept
  <2>7. QED
    BY <1>1, <1>2, <2>1, <2>3, <2>4, <2>5, <2>6
<1>14. PinnedKept'
  BY <1>2, <1>13 DEF PinnedKept
<1>15. QED
  BY <1>2, <1>3, <1>12, <1>14 DEF RuntimeInv

LEMMA AskKeeps ==
  ASSUME RuntimeInv, NEW s \in SnapshotIds, AskForOld(s)
  PROVE  RuntimeInv'
<1>1. /\ items \in [Kinds -> Seq(SnapshotIds)] /\ aged \subseteq SnapshotIds
      /\ PinsCounted(pins, act) /\ PinnedKept
  BY DEF RuntimeInv
<1>2. /\ s \in aged /\ pins' = pins /\ aged' = aged /\ act' = act
      /\ items' = [items EXCEPT !["semantic"] = Those(items["semantic"], SnapshotIds \ {s})]
  BY DEF AskForOld
<1>3. PICK list \in Seq(SnapshotIds) : list = items["semantic"]
  BY <1>1 DEF Kinds
<1>4. PICK new : new = Those(list, SnapshotIds \ {s})
  OBVIOUS
<1>5. new \in Seq(SnapshotIds) /\ ElementsOf(new) = ElementsOf(list) \cap (SnapshotIds \ {s})
  BY <1>4, ThoseMembers
<1>6. items' = [items EXCEPT !["semantic"] = new] /\ "semantic" \in Kinds
  BY <1>2, <1>3, <1>4 DEF Kinds
<1>7. items' \in [Kinds -> Seq(SnapshotIds)]
  BY <1>1, <1>5, <1>6
<1>8. ASSUME NEW j \in Kinds, NEW x \in SnapshotIds, x \in Kept(j)
      PROVE  x \in Kept(j)' \/ (j = "semantic" /\ x = s)
  <2>1. CASE j = "semantic"
    <3>1. x \in ElementsOf(list)
      BY <1>3, <1>8, <2>1 DEF Kept, ElementsOf
    <3>2. x = s \/ x \in ElementsOf(new)
      BY <1>5, <3>1
    <3>3. items'[j] = new
      BY <1>1, <1>6, <2>1
    <3>4. QED
      BY <2>1, <3>2, <3>3 DEF Kept, ElementsOf
  <2>2. CASE j # "semantic"
    BY <1>1, <1>6, <1>8, <2>2 DEF Kept
  <2>3. QED
    BY <2>1, <2>2
<1>9. ASSUME NEW a \in Agents, act[a].runs
      PROVE  \/ act[a].pinned \in Kept(act[a].kind)'
             \/ act[a].kind = "semantic" /\ act[a].pinned \in aged
  <2>1. PICK j \in Kinds, x \in SnapshotIds : j = act[a].kind /\ x = act[a].pinned
    BY <1>1, <1>9 DEF PinsCounted
  <2>2. x \in Kept(j) \/ (j = "semantic" /\ x \in aged)
    BY <1>1, <1>9, <2>1 DEF PinnedKept
  <2>3. QED
    BY <1>2, <1>8, <2>1, <2>2
<1>10. PinnedKept'
  BY <1>2, <1>9 DEF PinnedKept
<1>11. QED
  BY <1>1, <1>2, <1>7, <1>10 DEF RuntimeInv

(* An act takes a pin and gives it back.                                     *)
LEMMA PinCounts ==
  ASSUME RuntimeInv, NEW a \in Agents, NEW k \in Kinds, NEW s \in SnapshotIds, ActPins(a, k, s)
  PROVE  RuntimeInv'
<1>1. /\ items \in [Kinds -> Seq(SnapshotIds)] /\ aged \subseteq SnapshotIds
      /\ PinsCounted(pins, act) /\ PinnedKept
  BY DEF RuntimeInv
<1>2. PICK w : w = [runs |-> TRUE, kind |-> k, pinned |-> s]
  OBVIOUS
<1>3. w.runs /\ w.kind = k /\ w.pinned = s
  BY <1>2
<1>4. /\ ~act[a].runs /\ s \in Kept(k) /\ items' = items /\ aged' = aged
      /\ pins' = [pins EXCEPT ![k][s] = pins[k][s] + 1] /\ act' = [act EXCEPT ![a] = w]
  BY <1>2 DEF ActPins, Free
<1>5. PICK acts, counts : acts = act' /\ counts = pins'
  OBVIOUS
<1>6. /\ \A b \in Agents : acts[b] = IF b = a THEN w ELSE act[b]
      /\ acts = [b \in Agents |-> acts[b]]
  BY <1>1, <1>4, <1>5 DEF PinsCounted
<1>7. ASSUME NEW j \in Kinds, NEW x \in SnapshotIds
      PROVE  counts[j][x] = Cardinality(Holders(acts, j, x))
  <2>1. /\ IsFiniteSet(Holders(act, j, x)) /\ pins[j][x] = Cardinality(Holders(act, j, x))
    BY <1>1, PinnedCounted
  <2>2. counts[j][x] = IF j = k /\ x = s THEN pins[j][x] + 1 ELSE pins[j][x]
    BY <1>1, <1>4, <1>5 DEF PinsCounted
  <2>3. CASE j = k /\ x = s
    <3>1. Holders(acts, j, x) = Holders(act, j, x) \cup {a} /\ a \notin Holders(act, j, x)
      BY <1>3, <1>4, <1>6, <2>3 DEF Holders
    <3>2. QED
      BY <2>1, <2>2, <2>3, <3>1, FS_AddElement
  <2>4. CASE ~(j = k /\ x = s)
    <3>1. Holders(acts, j, x) = Holders(act, j, x)
      BY <1>3, <1>4, <1>6, <2>4 DEF Holders
    <3>2. QED
      BY <2>1, <2>2, <2>4, <3>1
  <2>5. QED
    BY <2>3, <2>4
<1>8. counts = [j \in Kinds |-> [x \in SnapshotIds |-> counts[j][x]]]
  BY <1>1, <1>4, <1>5 DEF PinsCounted
<1>9. \A b \in Agents : acts[b].runs => acts[b].kind \in Kinds /\ acts[b].pinned \in SnapshotIds
  BY <1>1, <1>3, <1>6 DEF PinsCounted
<1>10. PinsCounted(counts, acts)
  <2>1. counts = [j \in Kinds |-> [x \in SnapshotIds |-> Cardinality(Holders(acts, j, x))]]
    BY <1>7, <1>8
  <2>2. QED
    BY <1>6, <1>9, <2>1 DEF PinsCounted
<1>11. ASSUME NEW b \in Agents, acts[b].runs
       PROVE  \/ acts[b].pinned \in Kept(acts[b].kind)
              \/ acts[b].kind = "semantic" /\ acts[b].pinned \in aged
  BY <1>1, <1>3, <1>4, <1>6, <1>11 DEF PinnedKept
<1>12. PinnedKept'
  BY <1>4, <1>5, <1>11 DEF PinnedKept, Kept
<1>13. QED
  BY <1>1, <1>4, <1>5, <1>10, <1>12 DEF RuntimeInv

LEMMA UnpinCounts ==
  ASSUME RuntimeInv, NEW a \in Agents, NEW ok \in BOOLEAN, ActEnds(a, ok)
  PROVE  RuntimeInv'
<1>1. /\ items \in [Kinds -> Seq(SnapshotIds)] /\ aged \subseteq SnapshotIds
      /\ PinsCounted(pins, act) /\ PinnedKept
  BY DEF RuntimeInv
<1>2. /\ act[a].runs /\ items' = items /\ aged' = aged
      /\ pins' = Unpin(act[a].kind, act[a].pinned) /\ act' = [act EXCEPT ![a] = NoAct]
  BY DEF ActEnds
<1>3. PICK k \in Kinds, s \in SnapshotIds : k = act[a].kind /\ s = act[a].pinned
  BY <1>1, <1>2 DEF PinsCounted
<1>4. PICK acts, counts : acts = act' /\ counts = pins'
  OBVIOUS
<1>5. /\ \A b \in Agents : acts[b] = IF b = a THEN NoAct ELSE act[b]
      /\ acts = [b \in Agents |-> acts[b]]
  BY <1>1, <1>2, <1>4 DEF PinsCounted
<1>6. PICK left : left = IF pins[k][s] > 0 THEN pins[k][s] - 1 ELSE 0
  OBVIOUS
<1>7. counts = [pins EXCEPT ![k][s] = left]
  BY <1>2, <1>3, <1>4, <1>6 DEF Unpin
<1>8. ~NoAct.runs
  BY DEF NoAct
<1>9. ASSUME NEW j \in Kinds, NEW x \in SnapshotIds
      PROVE  counts[j][x] = Cardinality(Holders(acts, j, x))
  <2>1. /\ IsFiniteSet(Holders(act, j, x)) /\ pins[j][x] = Cardinality(Holders(act, j, x))
        /\ pins[j][x] \in Nat /\ (pins[j][x] = 0 <=> Holders(act, j, x) = {})
    BY <1>1, PinnedCounted
  <2>2. counts[j][x] = IF j = k /\ x = s THEN left ELSE pins[j][x]
    BY <1>1, <1>7 DEF PinsCounted
  <2>3. CASE j = k /\ x = s
    <3>1. Holders(acts, j, x) = Holders(act, j, x) \ {a} /\ a \in Holders(act, j, x)
      BY <1>2, <1>3, <1>5, <1>8, <2>3 DEF Holders
    <3>2. Cardinality(Holders(acts, j, x)) = Cardinality(Holders(act, j, x)) - 1
      BY <2>1, <3>1, FS_RemoveElement
    <3>3. left = pins[j][x] - 1
      BY <1>6, <2>1, <2>3, <3>1
    <3>4. QED
      BY <2>1, <2>2, <2>3, <3>2, <3>3
  <2>4. CASE ~(j = k /\ x = s)
    <3>1. Holders(acts, j, x) = Holders(act, j, x)
      BY <1>3, <1>5, <1>8, <2>4 DEF Holders
    <3>2. QED
      BY <2>1, <2>2, <2>4, <3>1
  <2>5. QED
    BY <2>3, <2>4
<1>10. counts = [j \in Kinds |-> [x \in SnapshotIds |-> counts[j][x]]]
  BY <1>1, <1>7 DEF PinsCounted
<1>11. \A b \in Agents : acts[b].runs => acts[b].kind \in Kinds /\ acts[b].pinned \in SnapshotIds
  BY <1>1, <1>5, <1>8 DEF PinsCounted
<1>12. PinsCounted(counts, acts)
  <2>1. counts = [j \in Kinds |-> [x \in SnapshotIds |-> Cardinality(Holders(acts, j, x))]]
    BY <1>9, <1>10
  <2>2. QED
    BY <1>5, <1>11, <2>1 DEF PinsCounted
<1>13. ASSUME NEW b \in Agents, acts[b].runs
       PROVE  \/ acts[b].pinned \in Kept(acts[b].kind)
              \/ acts[b].kind = "semantic" /\ acts[b].pinned \in aged
  BY <1>1, <1>5, <1>8, <1>13 DEF PinnedKept
<1>14. PinnedKept'
  BY <1>2, <1>4, <1>13 DEF PinnedKept, Kept
<1>15. QED
  BY <1>1, <1>2, <1>4, <1>12, <1>14 DEF RuntimeInv

LEMMA RuntimeStep == RuntimeInv /\ [AgentNext]_agentVars => RuntimeInv'
<1> SUFFICES ASSUME RuntimeInv, [AgentNext]_agentVars
             PROVE  RuntimeInv'
  OBVIOUS
<1>1. ASSUME NEW s \in SnapshotIds, Ages(s)
      PROVE  RuntimeInv'
  <2>1. items' = items /\ pins' = pins /\ act' = act /\ aged' = aged \cup {s}
    BY <1>1 DEF Ages
  <2>2. PinnedKept'
    BY <2>1 DEF RuntimeInv, PinnedKept, Kept
  <2>3. QED
    BY <2>1, <2>2 DEF RuntimeInv
<1>2. ASSUME UNCHANGED <<snapshotVars, act>>
      PROVE  RuntimeInv'
  BY <1>2 DEF snapshotVars, RuntimeInv, PinnedKept, Kept
<1>3. ASSUME NEW a \in Agents,
             \/ ReplayActs(a) \/ ReplayFails(a) \/ ReplayEnds(a)
             \/ \E r \in Recordings : ReplayStarts(a, r)
      PROVE  RuntimeInv'
  BY <1>2, <1>3 DEF ReplayActs, ReplayFails, ReplayEnds, ReplayStarts
<1>4. CASE RecordStops \/ \E r \in Recordings : RecordStarts(r)
  BY <1>2, <1>4 DEF RecordStops, RecordStarts
<1>5. CASE UNCHANGED agentVars
  BY <1>2, <1>5 DEF agentVars
<1>6. QED
  BY <1>1, <1>3, <1>4, <1>5, ObserveKeeps, AskKeeps, PinCounts, UnpinCounts DEF AgentNext

LEMMA RuntimeStart == AgentInit => RuntimeInv
<1> SUFFICES ASSUME AgentInit
             PROVE  RuntimeInv
  OBVIOUS
<1>1. /\ items = [k \in Kinds |-> <<>>] /\ pins = [k \in Kinds |-> [s \in SnapshotIds |-> 0]]
      /\ aged = {} /\ act = [a \in Agents |-> NoAct] /\ ~NoAct.runs
  BY DEF AgentInit, NoAct
<1>2. \A k \in Kinds, s \in SnapshotIds : Holders(act, k, s) = {}
  BY <1>1 DEF Holders
<1>3. \A k \in Kinds, s \in SnapshotIds : Cardinality(Holders(act, k, s)) = 0
  BY <1>2, FS_EmptySet
<1>4. PinsCounted(pins, act)
  BY <1>1, <1>3 DEF PinsCounted
<1>5. QED
  BY <1>1, <1>4 DEF RuntimeInv, PinnedKept

(* The snapshot an act has pinned is in its table until the act ends, or has *)
(* grown too old, however many acts hold it and however full the table is    *)
(* (SnapshotStore of agent_runtime.py).                                      *)
THEOREM PinnedAreKept == AgentSpec => []PinnedKept
<1>1. RuntimeInv => PinnedKept
  BY DEF RuntimeInv
<1>2. QED
  BY <1>1, RuntimeStart, RuntimeStep, PTL DEF AgentSpec

-----------------------------------------------------------------------------
(* The acts.  What holds of each act and of the page it is for.              *)
Unclicked == {"idle", "recover", "before", "fresh", "click"}
DeedSteps == Unclicked \cup {"after", "retry", "again", "done"}
DeedSound(d, p) ==
    /\ DOMAIN d = DOMAIN NoDeed /\ d.step \in DeedSteps /\ d.clicks \in Nat
    /\ d.step \in Unclicked => d.touched = {} /\ d.clicks = 0
    /\ d.step # "done" => d.report = "none" /\ ~d.met
    /\ d.step = "fresh" => d.way = "fresh"
    /\ d.step = "recover" => d.way = "none"
    /\ d.way = "snapshot" => /\ d.node = NodeAt(d.named, d.ref)
                             /\ \A t \in d.touched : t[2] = d.node
    /\ d.report \in {"stale_snapshot", "element_not_found"} =>
         d.touched = {} \/ (d.way = "selector" /\ d.lost)
    /\ d.retry => d.expect
    /\ d.clicks > 1 => d.retry
    /\ d.step = "after" => d.clicks = 1
    /\ d.step = "retry" => d.retry
    /\ d.met => d.appeared /\ ~d.before.says
    /\ d.expect /\ d.step \in {"fresh", "click", "after", "retry", "again"}
         /\ p.says /\ ~d.before.says => d.appeared

ActsInv ==
    /\ DOMAIN deed = Actors /\ DOMAIN tabPage = Actors
    /\ \A h \in Actors : DeedSound(deed[h], tabPage[h])

LEMMA ActsAreTold == ActsInv => ActsHold
BY DEF ActsInv, DeedSound, ActsHold

LEMMA ActsStart == ActsInit => ActsInv
BY DEF ActsInit, ActsInv, DeedSound, NoDeed, DeedSteps, Unclicked

LEMMA DeedMoves ==
  ASSUME ActsInv, NEW h \in Actors, NEW d, NEW p, DeedSound(d, p),
         deed' = [deed EXCEPT ![h] = d], tabPage' = [tabPage EXCEPT ![h] = p]
  PROVE  ActsInv'
BY DEF ActsInv

LEMMA DeedGoes ==
  ASSUME ActsInv, NEW h \in Actors, NEW d, DeedSound(d, tabPage[h]),
         deed' = [deed EXCEPT ![h] = d], UNCHANGED tabPage
  PROVE  ActsInv'
BY DEF ActsInv

(* The fields of an act that changes.                                        *)
LEMMA EndsFields ==
  ASSUME NEW d, DOMAIN d = DOMAIN NoDeed, NEW r, NEW e, e = DeedEnds(d, r)
  PROVE  /\ DOMAIN e = DOMAIN NoDeed /\ e.step = "done" /\ e.report = r
         /\ e.clicks = d.clicks /\ e.touched = d.touched /\ e.way = d.way
         /\ e.node = d.node /\ e.named = d.named /\ e.ref = d.ref /\ e.lost = d.lost
         /\ e.retry = d.retry /\ e.expect = d.expect /\ e.met = d.met
         /\ e.appeared = d.appeared /\ e.before = d.before
BY DEF DeedEnds, NoDeed

LEMMA EndsSound ==
  ASSUME NEW d, NEW p, DeedSound(d, p), NEW r,
         r \in {"stale_snapshot", "element_not_found"} => d.touched = {},
         d.step # "done"
  PROVE  DeedSound(DeedEnds(d, r), p)
<1>1. PICK e : e = DeedEnds(d, r)
  OBVIOUS
<1>2. DOMAIN d = DOMAIN NoDeed
  BY DEF DeedSound
<1>3. /\ DOMAIN e = DOMAIN NoDeed /\ e.step = "done" /\ e.report = r
      /\ e.clicks = d.clicks /\ e.touched = d.touched /\ e.way = d.way
      /\ e.node = d.node /\ e.named = d.named /\ e.ref = d.ref
      /\ e.retry = d.retry /\ e.expect = d.expect /\ e.met = d.met
  BY <1>1, <1>2, EndsFields
<1>4. DeedSound(e, p)
  BY <1>3 DEF DeedSound, DeedSteps, Unclicked
<1>5. QED
  BY <1>1, <1>4

LEMMA NoDeedSound == \A p : DeedSound(NoDeed, p)
BY DEF DeedSound, NoDeed, DeedSteps, Unclicked

LEMMA ActAnsweredKeeps ==
  ASSUME ActsInv, NEW h \in Actors, ActAnswered(h)
  PROVE  ActsInv'
BY NoDeedSound, DeedGoes DEF ActAnswered

(* An act that has just begun: nothing is clicked yet.                       *)
Begun(d) ==
    /\ DOMAIN d = DOMAIN NoDeed /\ d.step = "idle" /\ d.clicks = 0 /\ d.touched = {}
    /\ d.report = "none" /\ ~d.met /\ d.way = "none" /\ (d.retry => d.expect)

(* The act with its way, its node and its step.                              *)
LEMMA BegunGoes ==
  ASSUME NEW d, NEW e, NEW p, Begun(d), DOMAIN e = DOMAIN NoDeed,
         e.clicks = 0, e.touched = {}, e.report = "none", ~e.met,
         e.retry = d.retry, e.expect = d.expect,
         e.way = "snapshot" => e.node = NodeAt(e.named, e.ref),
         \/ e.step = After(d)
         \/ e.step = "recover" /\ e.way = "none"
         \/ e.step = (IF d.expect THEN "before" ELSE "fresh") /\ e.way = "fresh"
  PROVE  DeedSound(e, p)
<1>1. CASE d.expect
  BY <1>1 DEF Begun, DeedSound, After, DeedSteps, Unclicked
<1>2. CASE ~d.expect
  BY <1>2 DEF Begun, DeedSound, After, DeedSteps, Unclicked
<1>3. QED
  BY <1>1, <1>2

LEMMA BegunEnds ==
  ASSUME NEW d, NEW p, Begun(d), NEW r
  PROVE  DeedSound(DeedEnds(d, r), p)
<1>1. PICK e : e = DeedEnds(d, r)
  OBVIOUS
<1>2. /\ DOMAIN e = DOMAIN NoDeed /\ e.step = "done" /\ e.report = r
      /\ e.clicks = d.clicks /\ e.touched = d.touched /\ e.way = d.way
      /\ e.retry = d.retry /\ e.expect = d.expect /\ e.met = d.met
  BY <1>1, EndsFields DEF Begun
<1>3. DeedSound(e, p)
  BY <1>2 DEF Begun, DeedSound, DeedSteps
<1>4. QED
  BY <1>1, <1>3

LEMMA ResolvedSound ==
  ASSUME NEW d, NEW p, Begun(d)
  PROVE  DeedSound(Resolved(d), p)
<1>1. CASE Contains(listed, d.named)
  <2>1. PICK e : e = [d EXCEPT !.way = "snapshot", !.node = NodeAt(d.named, d.ref), !.step = After(d)]
    OBVIOUS
  <2>2. Resolved(d) = e
    BY <1>1, <2>1 DEF Resolved
  <2>3. /\ DOMAIN e = DOMAIN NoDeed /\ e.clicks = 0 /\ e.touched = {} /\ e.report = "none" /\ ~e.met
        /\ e.retry = d.retry /\ e.expect = d.expect /\ e.step = After(d)
        /\ e.node = NodeAt(e.named, e.ref)
    BY <2>1 DEF Begun, NoDeed
  <2>4. QED
    BY <2>2, <2>3, BegunGoes
<1>2. CASE /\ ~Contains(listed, d.named)
           /\ \/ d.pin # Blank /\ ~d.recover
              \/ WithRef(d.ref) = {} /\ ~d.recover
  <2>1. Resolved(d) = DeedEnds(d, "stale_snapshot")
    BY <1>2 DEF Resolved
  <2>2. QED
    BY <2>1, BegunEnds
<1>3. CASE ~Contains(listed, d.named) /\ ~(d.pin # Blank /\ ~d.recover) /\ WithRef(d.ref) # {}
  <2>1. PICK e : e = [d EXCEPT !.way = "newest", !.node = NodeAt(Newest(d.ref), d.ref),
                               !.pin = Blank, !.step = After(d)]
    OBVIOUS
  <2>2. Resolved(d) = e
    BY <1>3, <2>1 DEF Resolved
  <2>3. /\ DOMAIN e = DOMAIN NoDeed /\ e.clicks = 0 /\ e.touched = {} /\ e.report = "none" /\ ~e.met
        /\ e.retry = d.retry /\ e.expect = d.expect /\ e.step = After(d) /\ e.way = "newest"
    BY <2>1 DEF Begun, NoDeed
  <2>4. QED
    BY <2>2, <2>3, BegunGoes
<1>4. CASE ~Contains(listed, d.named) /\ WithRef(d.ref) = {} /\ d.recover
  <2>1. PICK e : e = [d EXCEPT !.pin = Blank, !.step = "recover"]
    OBVIOUS
  <2>2. Resolved(d) = e
    BY <1>4, <2>1 DEF Resolved
  <2>3. /\ DOMAIN e = DOMAIN NoDeed /\ e.clicks = 0 /\ e.touched = {} /\ e.report = "none" /\ ~e.met
        /\ e.retry = d.retry /\ e.expect = d.expect /\ e.step = "recover" /\ e.way = "none"
    BY <2>1 DEF Begun, NoDeed
  <2>4. QED
    BY <2>2, <2>3, BegunGoes
<1>5. QED
  BY <1>1, <1>2, <1>3, <1>4

LEMMA LooseSound ==
  ASSUME NEW d, NEW p, Begun(d)
  PROVE  DeedSound(ResolvedLoose(d), p)
<1>1. CASE WithRef(d.ref) # {}
  <2>1. PICK e : e = [d EXCEPT !.way = "newest", !.node = NodeAt(Newest(d.ref), d.ref), !.step = After(d)]
    OBVIOUS
  <2>2. ResolvedLoose(d) = e
    BY <1>1, <2>1 DEF ResolvedLoose
  <2>3. /\ DOMAIN e = DOMAIN NoDeed /\ e.clicks = 0 /\ e.touched = {} /\ e.report = "none" /\ ~e.met
        /\ e.retry = d.retry /\ e.expect = d.expect /\ e.step = After(d) /\ e.way = "newest"
    BY <2>1 DEF Begun, NoDeed
  <2>4. QED
    BY <2>2, <2>3, BegunGoes
<1>2. CASE WithRef(d.ref) = {}
  <2>1. PICK e : e = [d EXCEPT !.way = "fresh", !.step = IF d.expect THEN "before" ELSE "fresh"]
    OBVIOUS
  <2>2. ResolvedLoose(d) = e
    BY <1>2, <2>1 DEF ResolvedLoose
  <2>3. /\ DOMAIN e = DOMAIN NoDeed /\ e.clicks = 0 /\ e.touched = {} /\ e.report = "none" /\ ~e.met
        /\ e.retry = d.retry /\ e.expect = d.expect /\ e.way = "fresh"
        /\ e.step = IF d.expect THEN "before" ELSE "fresh"
    BY <2>1 DEF Begun, NoDeed
  <2>4. QED
    BY <2>2, <2>3, BegunGoes
<1>3. QED
  BY <1>1, <1>2

LEMMA ActBeginsKeeps ==
  ASSUME ActsInv, NEW h \in Actors, ActBegins(h)
  PROVE  ActsInv'
<1>1. PICK r \in Refs(sight[h]), e \in BOOLEAN, y \in BOOLEAN, c \in BOOLEAN :
        LET d == [NoDeed EXCEPT !.ref = r, !.expect = e, !.retry = y, !.recover = c] IN
        /\ y => e
        /\ \/ \E p \in {Blank, sight[h]} :
                deed' = [deed EXCEPT ![h] = Resolved([d EXCEPT !.named = sight[h], !.pin = p])]
           \/ ~c /\ deed' = [deed EXCEPT ![h] = ResolvedLoose(d)]
  BY DEF ActBegins
<1>2. PICK d : d = [NoDeed EXCEPT !.ref = r, !.expect = e, !.retry = y, !.recover = c]
  OBVIOUS
<1>3. y => e
  BY <1>1
<1>4. Begun(d)
  BY <1>2, <1>3 DEF Begun, NoDeed
<1>5. UNCHANGED tabPage
  BY DEF ActBegins
<1>6. CASE deed' = [deed EXCEPT ![h] = ResolvedLoose(d)]
  BY <1>4, <1>5, <1>6, LooseSound, DeedGoes
<1>7. CASE \E p \in {Blank, sight[h]} :
             deed' = [deed EXCEPT ![h] = Resolved([d EXCEPT !.named = sight[h], !.pin = p])]
  <2>1. PICK p \in {Blank, sight[h]} :
          deed' = [deed EXCEPT ![h] = Resolved([d EXCEPT !.named = sight[h], !.pin = p])]
    BY <1>7
  <2>2. PICK f : f = [d EXCEPT !.named = sight[h], !.pin = p]
    OBVIOUS
  <2>3. Begun(f)
    BY <1>4, <2>2 DEF Begun, NoDeed
  <2>4. QED
    BY <1>5, <2>1, <2>2, <2>3, ResolvedSound, DeedGoes
<1>8. QED
  BY <1>1, <1>2, <1>6, <1>7

LEMMA BySelectorKeeps ==
  ASSUME ActsInv, NEW h \in Actors, ActBySelector(h)
  PROVE  ActsInv'
<1>1. PICK n \in NodeIds, c \in BOOLEAN :
        deed' = [deed EXCEPT ![h] =
                   [NoDeed EXCEPT !.way = "selector", !.node = n, !.recover = c, !.step = "click"]]
  BY DEF ActBySelector
<1>2. PICK d : d = [NoDeed EXCEPT !.way = "selector", !.node = n, !.recover = c, !.step = "click"]
  OBVIOUS
<1>3. /\ DOMAIN d = DOMAIN NoDeed /\ d.clicks = 0 /\ d.touched = {} /\ d.report = "none" /\ ~d.met
      /\ ~d.retry /\ ~d.expect /\ d.step = "click" /\ d.way = "selector"
  BY <1>2 DEF NoDeed
<1>4. DeedSound(d, tabPage[h])
  BY <1>3 DEF DeedSound, DeedSteps, Unclicked
<1>5. QED
  BY <1>1, <1>2, <1>4, DeedGoes DEF ActBySelector

LEMMA RecoversKeeps ==
  ASSUME ActsInv, NEW h \in Actors, Recovers(h)
  PROVE  ActsInv'
<1>1. DeedSound(deed[h], tabPage[h]) /\ deed[h].step = "recover" /\ UNCHANGED tabPage
  BY DEF ActsInv, Recovers
<1>2. CASE deed' = [deed EXCEPT ![h] = DeedEnds(deed[h], "stale_snapshot")]
  <2>1. DeedSound(DeedEnds(deed[h], "stale_snapshot"), tabPage[h])
    <3>1. deed[h].touched = {}
      BY <1>1 DEF DeedSound, Unclicked
    <3>2. QED
      BY <1>1, <3>1, EndsSound
  <2>2. QED
    BY <1>1, <1>2, <2>1, DeedGoes
<1>3. CASE \E n \in tabPage[h].nodes :
             deed' = [deed EXCEPT ![h] = [deed[h] EXCEPT !.way = "name", !.node = n,
                                                         !.step = After(deed[h])]]
  <2>1. PICK n \in tabPage[h].nodes :
          deed' = [deed EXCEPT ![h] = [deed[h] EXCEPT !.way = "name", !.node = n,
                                                      !.step = After(deed[h])]]
    BY <1>3
  <2>2. PICK e : e = [deed[h] EXCEPT !.way = "name", !.node = n, !.step = After(deed[h])]
    OBVIOUS
  <2>3. PICK d : d = deed[h]
    OBVIOUS
  <2>4. DeedSound(d, tabPage[h]) /\ d.step = "recover"
    BY <1>1, <2>3
  <2>5. /\ DOMAIN e = DOMAIN NoDeed /\ e.clicks = 0 /\ e.touched = {} /\ e.report = "none" /\ ~e.met
        /\ e.retry = d.retry /\ e.expect = d.expect /\ e.way = "name" /\ e.step = After(d)
    BY <2>2, <2>3, <2>4 DEF DeedSound, NoDeed, Unclicked
  <2>6. DeedSound(e, tabPage[h])
    <3>1. CASE d.expect
      BY <2>4, <2>5, <3>1 DEF DeedSound, After, DeedSteps, Unclicked
    <3>2. CASE ~d.expect
      BY <2>4, <2>5, <3>2 DEF DeedSound, After, DeedSteps, Unclicked
    <3>3. QED
      BY <3>1, <3>2
  <2>7. QED
    BY <1>1, <2>1, <2>2, <2>6, DeedGoes
<1>4. QED
  BY <1>2, <1>3 DEF Recovers

LEMMA BeforeKeeps ==
  ASSUME ActsInv, NEW h \in Actors, CapturesBefore(h)
  PROVE  ActsInv'
<1>1. PICK d : d = deed[h]
  OBVIOUS
<1>2. DeedSound(d, tabPage[h]) /\ d.step = "before" /\ UNCHANGED tabPage
  BY <1>1 DEF ActsInv, CapturesBefore
<1>3. PICK e : e = [d EXCEPT !.before = Shown(tabPage[h]), !.appeared = FALSE,
                             !.step = IF d.way = "fresh" THEN "fresh" ELSE "click"]
  OBVIOUS
<1>4. deed' = [deed EXCEPT ![h] = e]
  BY <1>1, <1>3 DEF CapturesBefore
<1>5. /\ DOMAIN e = DOMAIN NoDeed /\ e.clicks = 0 /\ e.touched = {} /\ e.report = "none" /\ ~e.met
      /\ e.retry = d.retry /\ e.expect = d.expect /\ e.way = d.way /\ e.node = d.node
      /\ e.named = d.named /\ e.ref = d.ref /\ e.before = Shown(tabPage[h])
      /\ e.step = IF d.way = "fresh" THEN "fresh" ELSE "click"
  BY <1>2, <1>3 DEF DeedSound, NoDeed, Unclicked
<1>6. e.before.says = tabPage[h].says
  BY <1>5 DEF Shown
<1>7. DeedSound(e, tabPage[h])
  BY <1>2, <1>5, <1>6 DEF DeedSound, DeedSteps, Unclicked
<1>8. QED
  BY <1>2, <1>4, <1>7, DeedGoes

LEMMA FreshKeeps ==
  ASSUME ActsInv, NEW h \in Actors, ResolvesFresh(h)
  PROVE  ActsInv'
<1>1. PICK d : d = deed[h]
  OBVIOUS
<1>2. DeedSound(d, tabPage[h]) /\ d.step = "fresh" /\ UNCHANGED tabPage
  BY <1>1 DEF ActsInv, ResolvesFresh
<1>3. CASE d.ref \in Refs(Shown(tabPage[h]))
  <2>1. PICK e : e = [d EXCEPT !.node = NodeAt(Shown(tabPage[h]), d.ref), !.step = "click"]
    OBVIOUS
  <2>2. deed' = [deed EXCEPT ![h] = e]
    BY <1>1, <1>3, <2>1 DEF ResolvesFresh
  <2>3. /\ DOMAIN e = DOMAIN NoDeed /\ e.clicks = 0 /\ e.touched = {} /\ e.report = "none" /\ ~e.met
        /\ e.retry = d.retry /\ e.expect = d.expect /\ e.way = "fresh" /\ e.before = d.before
        /\ e.appeared = d.appeared /\ e.step = "click"
    BY <1>2, <2>1 DEF DeedSound, NoDeed, Unclicked
  <2>4. DeedSound(e, tabPage[h])
    BY <1>2, <2>3 DEF DeedSound, DeedSteps, Unclicked
  <2>5. QED
    BY <1>2, <2>2, <2>4, DeedGoes
<1>4. CASE d.ref \notin Refs(Shown(tabPage[h]))
  <2>1. deed' = [deed EXCEPT ![h] = DeedEnds(d, "element_not_found")]
    BY <1>1, <1>4 DEF ResolvesFresh
  <2>2. d.touched = {}
    BY <1>2 DEF DeedSound, Unclicked
  <2>3. DeedSound(DeedEnds(d, "element_not_found"), tabPage[h])
    BY <1>2, <2>2, EndsSound
  <2>4. QED
    BY <1>2, <2>1, <2>3, DeedGoes
<1>5. QED
  BY <1>3, <1>4

(* The fields of an act whose page goes from p to q.                         *)
LEMMA AppearsFields ==
  ASSUME NEW d, DOMAIN d = DOMAIN NoDeed, NEW p, NEW q, NEW e, e = Appears(d, p, q)
  PROVE  /\ DOMAIN e = DOMAIN NoDeed /\ e.step = d.step /\ e.report = d.report
         /\ e.clicks = d.clicks /\ e.touched = d.touched /\ e.way = d.way
         /\ e.node = d.node /\ e.named = d.named /\ e.ref = d.ref /\ e.lost = d.lost
         /\ e.retry = d.retry /\ e.expect = d.expect /\ e.met = d.met /\ e.before = d.before
         /\ (d.appeared => e.appeared) /\ (q.says => p.says \/ e.appeared)
<1>1. PICK o \in BOOLEAN : o = (d.appeared \/ (q.says /\ (~p.says \/ q.doc # p.doc)))
  OBVIOUS
<1>2. e = [d EXCEPT !.appeared = o]
  BY <1>1 DEF Appears
<1>3. /\ DOMAIN e = DOMAIN NoDeed /\ e.step = d.step /\ e.report = d.report
      /\ e.clicks = d.clicks /\ e.touched = d.touched /\ e.way = d.way
      /\ e.node = d.node /\ e.named = d.named /\ e.ref = d.ref /\ e.lost = d.lost
      /\ e.retry = d.retry /\ e.expect = d.expect /\ e.met = d.met /\ e.before = d.before
      /\ e.appeared = o
  BY <1>2 DEF NoDeed
<1>4. QED
  BY <1>1, <1>3

LEMMA AppearsSound ==
  ASSUME NEW d, NEW p, NEW q, DeedSound(d, p), d.step # "done"
  PROVE  DeedSound(Appears(d, p, q), q)
<1>1. PICK e : e = Appears(d, p, q)
  OBVIOUS
<1>2. DOMAIN d = DOMAIN NoDeed
  BY DEF DeedSound
<1>3. /\ DOMAIN e = DOMAIN NoDeed /\ e.step = d.step /\ e.report = d.report
      /\ e.clicks = d.clicks /\ e.touched = d.touched /\ e.way = d.way
      /\ e.node = d.node /\ e.named = d.named /\ e.ref = d.ref
      /\ e.retry = d.retry /\ e.expect = d.expect /\ e.met = d.met /\ e.before = d.before
      /\ (d.appeared => e.appeared) /\ (q.says => p.says \/ e.appeared)
  BY <1>1, <1>2, AppearsFields
<1>4. DeedSound(e, q)
  BY <1>3 DEF DeedSound
<1>5. QED
  BY <1>1, <1>4

LEMMA PageTurnsKeeps ==
  ASSUME ActsInv, NEW h \in Actors, PageTurns(h)
  PROVE  ActsInv'
<1>1. PICK q : /\ tabPage' = [tabPage EXCEPT ![h] = q]
               /\ deed' = [deed EXCEPT ![h] = Appears(deed[h], tabPage[h], q)]
  BY DEF PageTurns
<1>2. DeedSound(deed[h], tabPage[h]) /\ deed[h].step # "done"
  BY DEF ActsInv, PageTurns
<1>3. DeedSound(Appears(deed[h], tabPage[h], q), q)
  BY <1>2, AppearsSound
<1>4. QED
  BY <1>1, <1>3, DeedMoves

(* A click, after which the act goes on or has failed.                       *)
LEMMA ActClicksKeeps ==
  ASSUME ActsInv, NEW h \in Actors, NEW after, NEW failing, Clicks(h, after, failing),
         \/ deed[h].step = "click" /\ after = "after"
         \/ deed[h].step = "retry" /\ after = "again",
         \/ failing = "action_failed"
         \/ failing = "element_not_found" /\ deed[h].way = "selector"
  PROVE  ActsInv'
<1>1. PICK d : d = deed[h]
  OBVIOUS
<1>2. PICK p : p = tabPage[h]
  OBVIOUS
<1>3. DeedSound(d, p) /\ d.step \in {"click", "retry"}
  BY <1>1, <1>2 DEF ActsInv
<1>4. PICK q \in Turns(tabPage[h]), fails \in BOOLEAN :
        /\ tabPage' = [tabPage EXCEPT ![h] = q]
        /\ deed' = [deed EXCEPT ![h] =
             IF fails THEN [DeedEnds(Appears(Touches(d, p), p, q), failing) EXCEPT !.lost = TRUE]
                      ELSE [Appears(Touches(d, p), p, q) EXCEPT !.step = after]]
  <2>1. PICK q \in Turns(tabPage[h]), fails \in BOOLEAN :
          LET b == Appears(Touches(deed[h], tabPage[h]), tabPage[h], q) IN
          /\ tabPage' = [tabPage EXCEPT ![h] = q]
          /\ deed' = [deed EXCEPT ![h] = IF fails THEN [DeedEnds(b, failing) EXCEPT !.lost = TRUE]
                                                 ELSE [b EXCEPT !.step = after]]
    BY DEF Clicks
  <2>2. QED
    BY <1>1, <1>2, <2>1
<1>5. PICK e : e = Touches(d, p)
  OBVIOUS
<1>6. DOMAIN d = DOMAIN NoDeed /\ d.clicks \in Nat
  BY <1>3 DEF DeedSound
<1>7. /\ DOMAIN e = DOMAIN NoDeed /\ e.step = d.step /\ e.report = d.report
      /\ e.clicks = d.clicks + 1 /\ e.touched = d.touched \cup {<<p.doc, d.node>>} /\ e.way = d.way
      /\ e.node = d.node /\ e.named = d.named /\ e.ref = d.ref
      /\ e.retry = d.retry /\ e.expect = d.expect /\ e.met = d.met /\ e.before = d.before
      /\ e.appeared = d.appeared
  BY <1>5, <1>6 DEF Touches, NoDeed
<1>8. PICK f : f = Appears(e, p, q)
  OBVIOUS
<1>9. /\ DOMAIN f = DOMAIN NoDeed /\ f.step = d.step /\ f.report = d.report
      /\ f.clicks = d.clicks + 1 /\ f.touched = d.touched \cup {<<p.doc, d.node>>} /\ f.way = d.way
      /\ f.node = d.node /\ f.named = d.named /\ f.ref = d.ref
      /\ f.retry = d.retry /\ f.expect = d.expect /\ f.met = d.met /\ f.before = d.before
      /\ (d.appeared => f.appeared) /\ (q.says => p.says \/ f.appeared)
  BY <1>7, <1>8, AppearsFields
<1>10. \A t \in f.touched : t \in d.touched \/ t[2] = d.node
  BY <1>9
<1>11. d.way = "snapshot" => f.node = NodeAt(f.named, f.ref) /\ \A t \in f.touched : t[2] = f.node
  BY <1>3, <1>9, <1>10 DEF DeedSound
<1>12. /\ d.step = "click" => f.clicks = 1
       /\ d.step = "retry" => f.retry /\ f.expect
       /\ f.retry => f.expect
       /\ f.clicks \in Nat /\ (f.clicks > 1 => f.retry) /\ f.report = "none" /\ ~f.met
  BY <1>3, <1>6, <1>9 DEF DeedSound, Unclicked
<1>13. CASE fails
  <2>1. PICK g : g = DeedEnds(f, failing)
    OBVIOUS
  <2>2. /\ DOMAIN g = DOMAIN NoDeed /\ g.step = "done" /\ g.report = failing
        /\ g.clicks = f.clicks /\ g.touched = f.touched /\ g.way = f.way
        /\ g.node = f.node /\ g.named = f.named /\ g.ref = f.ref
        /\ g.retry = f.retry /\ g.expect = f.expect /\ g.met = f.met
    BY <1>9, <2>1, EndsFields
  <2>3. PICK l : l = [g EXCEPT !.lost = TRUE]
    OBVIOUS
  <2>4. /\ DOMAIN l = DOMAIN NoDeed /\ l.step = "done" /\ l.report = failing /\ l.lost
        /\ l.clicks = f.clicks /\ l.touched = f.touched /\ l.way = f.way
        /\ l.node = f.node /\ l.named = f.named /\ l.ref = f.ref
        /\ l.retry = f.retry /\ l.expect = f.expect /\ l.met = f.met
    BY <2>2, <2>3 DEF NoDeed
  <2>5. DeedSound(l, q)
    BY <1>1, <1>9, <1>11, <1>12, <2>4 DEF DeedSound, DeedSteps, Unclicked
  <2>6. deed' = [deed EXCEPT ![h] = l]
    BY <1>4, <1>5, <1>8, <1>13, <2>1, <2>3
  <2>7. QED
    BY <1>4, <2>5, <2>6, DeedMoves
<1>14. CASE ~fails
  <2>1. PICK g : g = [f EXCEPT !.step = after]
    OBVIOUS
  <2>2. /\ DOMAIN g = DOMAIN NoDeed /\ g.step = after /\ g.report = "none"
        /\ g.clicks = f.clicks /\ g.touched = f.touched /\ g.way = f.way
        /\ g.node = f.node /\ g.named = f.named /\ g.ref = f.ref
        /\ g.retry = f.retry /\ g.expect = f.expect /\ g.met = f.met
        /\ g.appeared = f.appeared /\ g.before = f.before
    BY <1>9, <1>12, <2>1 DEF NoDeed
  <2>3. /\ g.step \in {"after", "again"}
        /\ g.step = "after" => g.clicks = 1
    BY <1>1, <1>12, <2>2
  <2>4. g.expect /\ q.says /\ ~g.before.says => g.appeared
    BY <1>3, <1>9, <2>2 DEF DeedSound
  <2>5. DeedSound(g, q)
    BY <1>9, <1>11, <1>12, <2>2, <2>3, <2>4 DEF DeedSound, DeedSteps, Unclicked
  <2>6. deed' = [deed EXCEPT ![h] = g]
    BY <1>4, <1>5, <1>8, <1>14, <2>1
  <2>7. QED
    BY <1>4, <2>5, <2>6, DeedMoves
<1>15. QED
  BY <1>13, <1>14

LEMMA ClickNodeKeeps ==
  ASSUME ActsInv, NEW h \in Actors, ClickNode(h)
  PROVE  ActsInv'
<1>1. DeedSound(deed[h], tabPage[h]) /\ deed[h].step = "click"
  BY DEF ActsInv, ClickNode
<1>2. CASE Hit(h)
  <2>1. Clicks(h, "after", "action_failed")
    BY <1>2 DEF ClickNode
  <2>2. QED
    BY <1>1, <2>1, ActClicksKeeps
<1>3. CASE ~Hit(h)
  <2>1. deed' = [deed EXCEPT ![h] = DeedEnds(deed[h], "element_not_found")] /\ UNCHANGED tabPage
    BY <1>3 DEF ClickNode
  <2>2. deed[h].touched = {}
    BY <1>1 DEF DeedSound, Unclicked
  <2>3. DeedSound(DeedEnds(deed[h], "element_not_found"), tabPage[h])
    BY <1>1, <2>2, EndsSound
  <2>4. QED
    BY <2>1, <2>3, DeedGoes
<1>4. QED
  BY <1>2, <1>3

LEMMA ClickSelectorKeeps ==
  ASSUME ActsInv, NEW h \in Actors, ClickSelector(h)
  PROVE  ActsInv'
<1>1. DeedSound(deed[h], tabPage[h]) /\ deed[h].step = "click" /\ deed[h].way = "selector"
  BY DEF ActsInv, ClickSelector
<1>2. CASE Hit(h)
  <2>1. Clicks(h, "after", "element_not_found")
    BY <1>2 DEF ClickSelector
  <2>2. QED
    BY <1>1, <2>1, ActClicksKeeps
<1>3. CASE ~Hit(h)
  <2>1. /\ deed' = [deed EXCEPT ![h] = IF deed[h].recover THEN [deed[h] EXCEPT !.recover = FALSE]
                                      ELSE DeedEnds(deed[h], "element_not_found")]
        /\ UNCHANGED tabPage
    BY <1>3 DEF ClickSelector
  <2>2. deed[h].touched = {}
    BY <1>1 DEF DeedSound, Unclicked
  <2>3. DeedSound(DeedEnds(deed[h], "element_not_found"), tabPage[h])
    BY <1>1, <2>2, EndsSound
  <2>4. PICK e : e = [deed[h] EXCEPT !.recover = FALSE]
    OBVIOUS
  <2>5. PICK d : d = deed[h]
    OBVIOUS
  <2>6. /\ DOMAIN e = DOMAIN NoDeed /\ e.step = d.step /\ e.report = d.report
        /\ e.clicks = d.clicks /\ e.touched = d.touched /\ e.way = d.way
        /\ e.retry = d.retry /\ e.expect = d.expect /\ e.met = d.met /\ e.before = d.before
        /\ e.appeared = d.appeared
    BY <1>1, <2>4, <2>5 DEF NoDeed, DeedSound
  <2>7. DeedSound(e, tabPage[h])
    BY <1>1, <2>5, <2>6 DEF DeedSound
  <2>8. QED
    BY <2>1, <2>3, <2>4, <2>7, DeedGoes
<1>4. QED
  BY <1>2, <1>3

LEMMA ClickAgainKeeps ==
  ASSUME ActsInv, NEW h \in Actors, ClickAgain(h)
  PROVE  ActsInv'
<1>1. PICK d : d = deed[h]
  OBVIOUS
<1>2. DeedSound(d, tabPage[h]) /\ d.step = "retry"
  BY <1>1 DEF ActsInv, ClickAgain
<1>3. CASE Hit(h)
  <2>1. Clicks(h, "again", "action_failed")
    BY <1>3 DEF ClickAgain
  <2>2. QED
    BY <1>1, <1>2, <2>1, ActClicksKeeps
<1>4. CASE ~Hit(h)
  <2>1. deed' = [deed EXCEPT ![h] = [d EXCEPT !.step = "again"]] /\ UNCHANGED tabPage
    BY <1>1, <1>4 DEF ClickAgain
  <2>2. PICK e : e = [d EXCEPT !.step = "again"]
    OBVIOUS
  <2>3. /\ DOMAIN e = DOMAIN NoDeed /\ e.step = "again" /\ e.report = d.report
        /\ e.clicks = d.clicks /\ e.touched = d.touched /\ e.way = d.way
        /\ e.node = d.node /\ e.named = d.named /\ e.ref = d.ref
        /\ e.retry = d.retry /\ e.expect = d.expect /\ e.met = d.met /\ e.before = d.before
        /\ e.appeared = d.appeared
    BY <1>2, <2>2 DEF NoDeed, DeedSound
  <2>4. DeedSound(e, tabPage[h])
    BY <1>2, <2>3 DEF DeedSound, DeedSteps, Unclicked
  <2>5. QED
    BY <2>1, <2>2, <2>4, DeedGoes
<1>5. QED
  BY <1>3, <1>4

LEMMA VerifiesKeeps ==
  ASSUME ActsInv, NEW h \in Actors, Verifies(h)
  PROVE  ActsInv'
<1>1. PICK d : d = deed[h]
  OBVIOUS
<1>2. PICK p : p = tabPage[h]
  OBVIOUS
<1>3. DeedSound(d, p) /\ d.step \in {"after", "again"} /\ UNCHANGED tabPage
  BY <1>1, <1>2 DEF ActsInv, Verifies
<1>4. PICK met \in BOOLEAN : met = Satisfied(d.before, Shown(p))
  BY DEF Satisfied
<1>5. met => p.says /\ ~d.before.says
  BY <1>4 DEF Satisfied, Shown
<1>6. deed' = [deed EXCEPT ![h] =
         IF ~d.expect THEN DeedEnds(d, "ok")
         ELSE IF ~met /\ d.retry /\ d.step = "after" /\ d.way \notin {"selector", "fresh"}
         THEN [d EXCEPT !.step = "retry"]
         ELSE [DeedEnds(d, IF met THEN "ok" ELSE "needs_attention") EXCEPT !.met = met]]
  BY <1>1, <1>2, <1>4 DEF Verifies
<1>7. DOMAIN d = DOMAIN NoDeed
  BY <1>3 DEF DeedSound
<1>8. CASE ~d.expect
  <2>1. DeedSound(DeedEnds(d, "ok"), p)
    BY <1>3, EndsSound
  <2>2. deed' = [deed EXCEPT ![h] = DeedEnds(d, "ok")]
    BY <1>6, <1>8
  <2>3. QED
    BY <1>2, <1>3, <2>1, <2>2, DeedGoes
<1>9. CASE d.expect /\ ~met /\ d.retry /\ d.step = "after" /\ d.way \notin {"selector", "fresh"}
  <2>1. PICK e : e = [d EXCEPT !.step = "retry"]
    OBVIOUS
  <2>2. /\ DOMAIN e = DOMAIN NoDeed /\ e.step = "retry" /\ e.report = d.report
        /\ e.clicks = d.clicks /\ e.touched = d.touched /\ e.way = d.way
        /\ e.node = d.node /\ e.named = d.named /\ e.ref = d.ref
        /\ e.retry = d.retry /\ e.expect = d.expect /\ e.met = d.met /\ e.before = d.before
        /\ e.appeared = d.appeared
    BY <1>7, <2>1 DEF NoDeed
  <2>3. DeedSound(e, p)
    BY <1>3, <1>9, <2>2 DEF DeedSound, DeedSteps, Unclicked
  <2>4. deed' = [deed EXCEPT ![h] = e]
    BY <1>6, <1>9, <2>1
  <2>5. QED
    BY <1>2, <1>3, <2>3, <2>4, DeedGoes
<1>10. CASE d.expect /\ ~(~met /\ d.retry /\ d.step = "after" /\ d.way \notin {"selector", "fresh"})
  <2>1. PICK r \in {"ok", "needs_attention"} : r = IF met THEN "ok" ELSE "needs_attention"
    OBVIOUS
  <2>2. PICK f : f = DeedEnds(d, r)
    OBVIOUS
  <2>3. /\ DOMAIN f = DOMAIN NoDeed /\ f.step = "done" /\ f.report = r
        /\ f.clicks = d.clicks /\ f.touched = d.touched /\ f.way = d.way
        /\ f.node = d.node /\ f.named = d.named /\ f.ref = d.ref
        /\ f.retry = d.retry /\ f.expect = d.expect /\ f.before = d.before
        /\ f.appeared = d.appeared
    BY <1>7, <2>2, EndsFields
  <2>4. PICK e : e = [f EXCEPT !.met = met]
    OBVIOUS
  <2>5. /\ DOMAIN e = DOMAIN NoDeed /\ e.step = "done" /\ e.report = r
        /\ e.clicks = d.clicks /\ e.touched = d.touched /\ e.way = d.way
        /\ e.node = d.node /\ e.named = d.named /\ e.ref = d.ref
        /\ e.retry = d.retry /\ e.expect = d.expect /\ e.before = d.before
        /\ e.appeared = d.appeared /\ e.met = met
    BY <2>3, <2>4 DEF NoDeed
  <2>6. met => d.appeared /\ ~d.before.says
    <3>1. d.step \in {"after", "again"} /\ d.expect /\ p.says /\ ~d.before.says => d.appeared
      BY <1>3 DEF DeedSound
    <3>2. QED
      BY <1>3, <1>5, <1>10, <3>1
  <2>7. DeedSound(e, p)
    BY <1>3, <2>5, <2>6 DEF DeedSound, DeedSteps, Unclicked
  <2>8. deed' = [deed EXCEPT ![h] = e]
    BY <1>6, <1>10, <2>1, <2>2, <2>4
  <2>9. QED
    BY <1>2, <1>3, <2>7, <2>8, DeedGoes
<1>11. QED
  BY <1>4, <1>8, <1>9, <1>10

LEMMA ActsStep == ActsInv /\ [ActsNext]_actVars => ActsInv'
<1>1. SUFFICES ASSUME ActsInv, [ActsNext]_actVars
               PROVE  ActsInv'
  OBVIOUS
<1>2. CASE UNCHANGED actVars \/ OtherObserves \/ \E h \in Actors : AgentObserve(h)
  BY <1>1, <1>2 DEF ActsInv, actVars, OtherObserves, AgentObserve
<1>3. CASE \E h \in Actors :
             \/ ActBegins(h) \/ ActBySelector(h) \/ Recovers(h) \/ CapturesBefore(h)
             \/ ResolvesFresh(h) \/ ActAnswered(h)
  BY <1>1, <1>3, ActBeginsKeeps, BySelectorKeeps, RecoversKeeps, BeforeKeeps, FreshKeeps, ActAnsweredKeeps
<1>4. CASE \E h \in Actors :
             \/ ClickNode(h) \/ ClickSelector(h) \/ Verifies(h) \/ ClickAgain(h) \/ PageTurns(h)
  BY <1>1, <1>4, ClickNodeKeeps, ClickSelectorKeeps, VerifiesKeeps, ClickAgainKeeps, PageTurnsKeeps
<1>5. QED
  BY <1>1, <1>2, <1>3, <1>4 DEF ActsNext

(* An act that names a snapshot touches the control it shows and no other, a *)
(* refusal has touched nothing, nothing is clicked twice unasked, and an     *)
(* expectation that is met was not met before (agent_act).                   *)
THEOREM ActsAreSound == ActsInit /\ [][ActsNext]_actVars => []ActsHold
BY ActsStart, ActsStep, ActsAreTold, PTL

(* The types of the acts.  Nobody lists more than the table may hold and the *)
(* acts may pin.                                                             *)
ShownRecords == [nodes : SUBSET NodeIds, says : BOOLEAN]
TabRecords  == [doc : 1..MaxPages, nodes : SUBSET NodeIds, says : BOOLEAN]
ListFits(l) == l \in Seq(ShownRecords) /\ NoneTwice(l) /\ Len(l) <= MaxListed + Cardinality(Actors)
DeedFits(d) ==
    /\ d.clicks \in 0..2 /\ d.node \in NodeIds \cup {0}
    /\ d.step = "retry" => d.clicks = 1

ActLimits ==
    /\ tabPage \in [Actors -> TabRecords] /\ sight \in [Actors -> ShownRecords]
    /\ ListFits(listed)
    /\ \A h \in Actors : DeedFits(deed[h])

(* There is a number of every rank.                                          *)
LEMMA RankIsTaken ==
  ASSUME NEW N, N \in SUBSET Nat, IsFiniteSet(N), NEW r \in 1..Cardinality(N)
  PROVE  \E n \in N : Cardinality({m \in N : m < n}) = r - 1
<1> DEFINE Before(n) == {m \in N : m < n}
           rank == [n \in N |-> Cardinality(Before(n))]
           Ranks == 0..(Cardinality(N) - 1)
<1>1. Cardinality(N) \in Nat /\ Cardinality(N) >= 1
  BY FS_CardinalityType
<1>2. ASSUME NEW n \in N
      PROVE  /\ IsFiniteSet(Before(n)) /\ Cardinality(Before(n)) \in Nat
             /\ Cardinality(Before(n)) < Cardinality(N)
  <2>1. Before(n) \in SUBSET N /\ n \notin Before(n)
    BY <1>2
  <2>2. IsFiniteSet(Before(n)) /\ Cardinality(Before(n)) <= Cardinality(N)
        /\ (Cardinality(N) = Cardinality(Before(n)) => N = Before(n))
    BY <2>1, FS_Subset
  <2>3. Cardinality(Before(n)) \in Nat
    BY <2>2, FS_CardinalityType
  <2>4. Cardinality(Before(n)) # Cardinality(N)
    BY <2>1, <2>2, <1>2
  <2>5. QED
    BY ONLY <1>1, <2>2, <2>3, <2>4
<1>3. ASSUME NEW n \in N, NEW k \in N, n < k
      PROVE  Cardinality(Before(n)) # Cardinality(Before(k))
  <2>1. Before(n) \in SUBSET Before(k) /\ n \in Before(k) /\ n \notin Before(n)
    <3>1. {n, k} \subseteq Nat /\ N \subseteq Nat
      BY <1>3
    <3>2. \A m \in Nat : m < n => m < k
      BY ONLY <1>3, <3>1
    <3>3. \A m \in N : m < n => m < k
      BY <3>1, <3>2
    <3>4. ~(n < n)
      BY ONLY <3>1
    <3>5. QED
      BY <1>3, <3>3, <3>4
  <2>2. IsFiniteSet(Before(k))
    BY <1>2
  <2>3. Cardinality(Before(k)) = Cardinality(Before(n)) => Before(k) = Before(n)
    BY <2>1, <2>2, FS_Subset
  <2>4. QED
    BY <2>1, <2>3
<1>4. rank \in [N -> Ranks]
  BY <1>1, <1>2
<1>5. \A n, k \in N : rank[n] = rank[k] => n = k
  <2>1. \A n, k \in N : n < k => rank[n] # rank[k]
    BY <1>3
  <2>2. \A n, k \in N : n < k \/ k < n \/ n = k
    OBVIOUS
  <2>3. QED
    BY <2>1, <2>2
<1>6. rank \in Injection(N, Ranks)
  BY <1>4, <1>5 DEF Injection, IsInjective
<1>7. IsFiniteSet(Ranks) /\ Cardinality(Ranks) = Cardinality(N)
  <2>1. PICK b \in Int : b = Cardinality(N) - 1
    BY <1>1
  <2>2. IsFiniteSet(0..b) /\ Cardinality(0..b) = IF 0 > b THEN 0 ELSE b - 0 + 1
    BY FS_Interval
  <2>3. Cardinality(0..b) = Cardinality(N)
    BY ONLY <1>1, <2>1, <2>2
  <2>4. QED
    BY <2>1, <2>2, <2>3
<1>8. rank \in Surjection(N, Ranks)
  BY <1>6, <1>7, FS_Injection
<1>9. r - 1 \in Ranks
  BY <1>1
<1>10. PICK n \in N : rank[n] = r - 1
  BY <1>8, <1>9 DEF Surjection
<1>11. QED
  BY <1>10

LEMMA NodeIsThere ==
  ASSUME NEW s \in ShownRecords, NEW r \in Refs(s)
  PROVE  NodeAt(s, r) \in NodeIds
<1>1. s.nodes \in SUBSET NodeIds /\ s.nodes \in SUBSET Nat
  BY AgentActsAssumption DEF ShownRecords
<1>2. IsFiniteSet(s.nodes)
  BY <1>1, FS_Subset, AgentActsAssumption
<1>3. \E n \in s.nodes : Cardinality({m \in s.nodes : m < n}) = r - 1
  BY <1>1, <1>2, RankIsTaken DEF Refs
<1>4. NodeAt(s, r) \in s.nodes
  BY <1>3 DEF NodeAt
<1>5. QED
  BY <1>1, <1>4

(* A table without repetition that is too long loses as many as it has too   *)
(* many, or all that no act has pinned.                                      *)
LEMMA TrimmedFits ==
  ASSUME NEW l \in Seq(ShownRecords), NoneTwice(l)
  PROVE  ListFits(Trimmed(l))
<1> DEFINE loose == {s \in ToSet(l) : ~IsPinned(s)}
           free == Those(l, loose)
           over == IF Len(l) > MaxListed THEN Len(l) - MaxListed ELSE 0
           gone == {free[i] : i \in {j \in DOMAIN free : j <= over}}
           kept == Those(l, ToSet(l) \ gone)
           pinned == {deed[h].pin : h \in Actors}
           holds == [h \in Actors |-> deed[h].pin]
<1>1. Trimmed(l) = kept
  BY DEF Trimmed
<1>2. ToSet(l) = ElementsOf(l)
  BY DEF ToSet, ElementsOf
<1>3. /\ free \in Seq(ShownRecords) /\ NoneTwice(free) /\ ElementsOf(free) = ElementsOf(l) \cap loose
  BY ThoseFound, ThoseMembers
<1>4. /\ kept \in Seq(ShownRecords) /\ NoneTwice(kept)
      /\ ElementsOf(kept) = ElementsOf(l) \cap (ToSet(l) \ gone)
  BY ThoseFound, ThoseMembers
<1>5. ElementsOf(kept) = ElementsOf(l) \ gone
  BY <1>2, <1>4
<1>6. IsFiniteSet(ElementsOf(l)) /\ Cardinality(ElementsOf(l)) = Len(l)
  BY CountedOnce
<1>7. Cardinality(ElementsOf(kept)) = Len(kept) /\ Len(kept) \in Nat
  BY <1>4, CountedOnce
<1>8. Len(l) \in Nat /\ MaxListed \in Nat /\ over \in Nat /\ Len(free) \in Nat
  BY <1>3, AgentActsAssumption
<1>9. Cardinality(Actors) \in Nat /\ IsFiniteSet(pinned) /\ Cardinality(pinned) <= Cardinality(Actors)
  <2>1. holds \in Surjection(Actors, pinned)
    BY DEF Surjection
  <2>2. QED
    BY <2>1, AgentActsAssumption, FS_CardinalityType, FS_Surjection
<1>10. DOMAIN free = 1..Len(free)
  BY <1>3
<1> HIDE DEF loose, free, over, kept
<1>11. CASE over <= Len(free)
  <2>1. PICK cut : cut = SubSeq(free, 1, over)
    OBVIOUS
  <2>2. /\ cut \in Seq(ShownRecords) /\ Len(cut) = over
        /\ \A i \in 1..over : cut[i] = free[i]
    BY <1>3, <1>8, <1>11, <2>1
  <2>3. DOMAIN cut = 1..over /\ {j \in DOMAIN free : j <= over} = 1..over
    BY <1>8, <1>10, <1>11, <2>2
  <2>4. gone = ElementsOf(cut)
    BY <2>2, <2>3 DEF ElementsOf
  <2>5. NoneTwice(cut)
    BY <1>3, <1>10, <2>2, <2>3 DEF NoneTwice
  <2>6. IsFiniteSet(gone) /\ Cardinality(gone) = over
    BY <2>2, <2>4, <2>5, CountedOnce
  <2>7. gone \subseteq ElementsOf(l)
    BY <1>3, <2>3 DEF ElementsOf
  <2>8. Cardinality(ElementsOf(l) \ gone) = Len(l) - over
    <3>1. ElementsOf(l) \cap gone = gone
      BY <2>7
    <3>2. Cardinality(ElementsOf(l) \ gone) = Cardinality(ElementsOf(l)) - Cardinality(ElementsOf(l) \cap gone)
      BY <1>6, FS_Difference
    <3>3. QED
      BY <1>6, <2>6, <3>1, <3>2
  <2>9. Len(kept) <= MaxListed
    <3>1. Len(kept) = Len(l) - over
      BY <1>5, <1>7, <2>8
    <3>2. QED
      BY <1>8, <3>1 DEF over
  <2>10. Len(kept) <= MaxListed + Cardinality(Actors)
    BY ONLY <1>7, <1>8, <1>9, <2>9
  <2>11. QED
    BY <1>1, <1>4, <2>10 DEF ListFits
<1>12. CASE Len(free) < over
  <2>1. gone = ElementsOf(free)
    <3>1. {j \in DOMAIN free : j <= over} = DOMAIN free
      BY <1>8, <1>10, <1>12
    <3>2. QED
      BY <3>1 DEF ElementsOf
  <2>2. ElementsOf(kept) \subseteq pinned
    <3>1. \A s \in ElementsOf(kept) : s \in ElementsOf(l) /\ s \notin loose
      BY <1>3, <1>5, <2>1
    <3>2. \A s \in ElementsOf(kept) : IsPinned(s)
      BY <1>2, <3>1 DEF loose
    <3>3. QED
      BY <3>2 DEF IsPinned
  <2>3. Cardinality(ElementsOf(kept)) <= Cardinality(pinned)
    BY <1>9, <2>2, FS_Subset
  <2>4. Cardinality(pinned) \in Nat
    BY <1>9, FS_CardinalityType
  <2>5. Len(kept) <= MaxListed + Cardinality(Actors)
    BY ONLY <1>7, <1>8, <1>9, <2>3, <2>4
  <2>6. QED
    BY <1>1, <1>4, <2>5 DEF ListFits
<1>13. QED
  BY <1>8, <1>11, <1>12

LEMMA AddsFits ==
  ASSUME ListFits(listed), NEW s \in ShownRecords, Adds(s)
  PROVE  ListFits(listed')
<1>1. CASE Contains(listed, s)
  BY <1>1 DEF Adds
<1>2. CASE ~Contains(listed, s)
  <2>1. PICK l : l = Append(listed, s)
    OBVIOUS
  <2>2. listed \in Seq(ShownRecords) /\ NoneTwice(listed) /\ Len(listed) \in Nat
    BY DEF ListFits
  <2>3. /\ l \in Seq(ShownRecords) /\ DOMAIN l = 1..(Len(listed) + 1) /\ DOMAIN listed = 1..Len(listed)
        /\ l[Len(listed) + 1] = s /\ \A i \in 1..Len(listed) : l[i] = listed[i]
    BY <2>1, <2>2
  <2>4. \A i \in 1..Len(listed) : listed[i] # s
    BY <1>2 DEF Contains
  <2>5. NoneTwice(l)
    <3>1. SUFFICES ASSUME NEW i \in 1..(Len(listed) + 1), NEW j \in 1..(Len(listed) + 1), l[i] = l[j]
                   PROVE  i = j
      BY <2>3 DEF NoneTwice
    <3>2. CASE i \in 1..Len(listed) /\ j \in 1..Len(listed)
      BY <2>2, <2>3, <3>1, <3>2 DEF NoneTwice
    <3>3. CASE i = Len(listed) + 1 \/ j = Len(listed) + 1
      <4>1. \A k \in 1..(Len(listed) + 1) : k \in 1..Len(listed) \/ k = Len(listed) + 1
        BY ONLY <2>2
      <4>2. QED
        BY <2>3, <2>4, <3>1, <3>3, <4>1
    <3>4. QED
      BY <2>2, <3>2, <3>3
  <2>6. ListFits(Trimmed(l))
    BY <2>3, <2>5, TrimmedFits
  <2>7. QED
    BY <1>2, <2>1, <2>6 DEF Adds
<1>3. QED
  BY <1>1, <1>2

LEMMA CapturesFits ==
  ASSUME ActLimits, NEW h \in Actors
  PROVE  /\ Shown(tabPage[h]) \in ShownRecords
         /\ Captures(h) => ListFits(listed')
<1>1. tabPage[h] \in TabRecords
  BY DEF ActLimits
<1>2. Shown(tabPage[h]) \in ShownRecords
  BY <1>1 DEF Shown, TabRecords, ShownRecords
<1>3. QED
  BY <1>2, AddsFits DEF Captures, ActLimits

(* A tab's page changes, and with it or without it an act.                   *)
LEMMA FitsOn ==
  ASSUME ActLimits, DOMAIN deed = Actors, NEW h \in Actors, NEW d, DeedFits(d),
         deed' = [deed EXCEPT ![h] = d], ListFits(listed'), UNCHANGED sight,
         \/ UNCHANGED tabPage
         \/ \E q \in TabRecords : tabPage' = [tabPage EXCEPT ![h] = q]
  PROVE  ActLimits'
<1>1. \A k \in Actors : DeedFits(deed'[k])
  BY DEF ActLimits
<1>2. tabPage' \in [Actors -> TabRecords]
  BY DEF ActLimits
<1>3. QED
  BY <1>1, <1>2 DEF ActLimits

LEMMA EndsFit ==
  ASSUME NEW d, DOMAIN d = DOMAIN NoDeed, DeedFits(d), NEW r
  PROVE  DeedFits(DeedEnds(d, r))
<1>1. PICK e : e = DeedEnds(d, r)
  OBVIOUS
<1>2. e.step = "done" /\ e.clicks = d.clicks /\ e.node = d.node
  BY <1>1, EndsFields
<1>3. DeedFits(e)
  BY <1>2 DEF DeedFits
<1>4. QED
  BY <1>1, <1>3

LEMMA NewestFits ==
  ASSUME ListFits(listed), NEW r, WithRef(r) # {}
  PROVE  NodeAt(Newest(r), r) \in NodeIds
<1>1. listed \in Seq(ShownRecords) /\ DOMAIN listed = 1..Len(listed) /\ Len(listed) \in Nat
  BY DEF ListFits
<1>2. WithRef(r) \subseteq 1..Len(listed)
  BY <1>1 DEF WithRef
<1>3. \E i \in WithRef(r) : \A j \in WithRef(r) : j <= i
  <2> DEFINE Gaps == {Len(listed) - i : i \in WithRef(r)}
  <2>1. Gaps \in SUBSET Nat /\ Gaps # {}
    BY <1>1, <1>2
  <2>2. PICK g \in Gaps : \A k \in Gaps : g <= k
    BY <2>1, LeastNumber
  <2>3. PICK i \in WithRef(r) : g = Len(listed) - i
    OBVIOUS
  <2>4. \A j \in WithRef(r) : Len(listed) - i <= Len(listed) - j
    BY <2>2, <2>3
  <2>5. \A j \in WithRef(r) : j <= i
    BY ONLY <1>1, <1>2, <2>3, <2>4
  <2>6. QED
    BY <2>5
<1>4. PICK i \in WithRef(r) : Newest(r) = listed[i]
  BY <1>3 DEF Newest
<1>5. Newest(r) \in ShownRecords /\ r \in Refs(Newest(r))
  BY <1>1, <1>4 DEF WithRef
<1>6. QED
  BY <1>5, NodeIsThere

(* Where an act that begins is sent.                                         *)
LEMMA BegunFits ==
  ASSUME NEW d, Begun(d), d.node = 0, ListFits(listed), d.ref \in Nat \ {0},
         d.named = Blank \/ (d.named \in ShownRecords /\ d.ref \in Refs(d.named))
  PROVE  /\ DeedFits(ResolvedLoose(d))
         /\ d.named # Blank => DeedFits(Resolved(d))
<1>1. DOMAIN d = DOMAIN NoDeed /\ d.clicks = 0 /\ After(d) # "retry"
  BY DEF Begun, After
<1>2. ASSUME NEW w, NEW n \in NodeIds, NEW q, NEW e,
             e = [d EXCEPT !.way = w, !.node = n, !.step = After(d)]
             \/ e = [d EXCEPT !.way = w, !.node = n, !.pin = q, !.step = After(d)]
      PROVE  DeedFits(e)
  <2>1. e.clicks = 0 /\ e.node = n /\ e.step = After(d)
    BY <1>1, <1>2 DEF NoDeed
  <2>2. QED
    BY <1>1, <2>1 DEF DeedFits
<1>3. ASSUME NEW w, NEW s, s # "retry", NEW q, NEW e,
             e = [d EXCEPT !.way = w, !.step = s] \/ e = [d EXCEPT !.pin = q, !.step = s]
      PROVE  DeedFits(e)
  <2>1. e.clicks = 0 /\ e.node = 0 /\ e.step = s
    BY <1>1, <1>3 DEF NoDeed
  <2>2. QED
    BY <1>3, <2>1 DEF DeedFits
<1>4. WithRef(d.ref) # {} => NodeAt(Newest(d.ref), d.ref) \in NodeIds
  BY NewestFits
<1>5. DeedFits(ResolvedLoose(d))
  BY <1>2, <1>3, <1>4 DEF ResolvedLoose
<1>6. ASSUME d.named # Blank
      PROVE  DeedFits(Resolved(d))
  <2>1. NodeAt(d.named, d.ref) \in NodeIds
    BY <1>6, NodeIsThere
  <2>2. DeedFits(d)
    BY <1>1 DEF DeedFits, Begun
  <2>3. DeedFits(DeedEnds(d, "stale_snapshot"))
    BY <1>1, <2>2, EndsFit
  <2>4. CASE Contains(listed, d.named)
    BY <1>2, <2>1, <2>4 DEF Resolved
  <2>5. CASE ~Contains(listed, d.named) /\ d.pin # Blank /\ ~d.recover
    BY <2>3, <2>5 DEF Resolved
  <2>6. CASE ~Contains(listed, d.named) /\ ~(d.pin # Blank /\ ~d.recover) /\ WithRef(d.ref) # {}
    BY <1>2, <1>4, <2>6 DEF Resolved
  <2>7. CASE ~Contains(listed, d.named) /\ ~(d.pin # Blank /\ ~d.recover) /\ WithRef(d.ref) = {}
    BY <1>3, <2>3, <2>7 DEF Resolved
  <2>8. QED
    BY <2>4, <2>5, <2>6, <2>7
<1>7. QED
  BY <1>5, <1>6

LEMMA ActBeginsFits ==
  ASSUME ActsInv, ActLimits, NEW h \in Actors, ActBegins(h)
  PROVE  ActLimits'
<1>1. PICK r \in Refs(sight[h]), e \in BOOLEAN, y \in BOOLEAN, c \in BOOLEAN :
        LET d == [NoDeed EXCEPT !.ref = r, !.expect = e, !.retry = y, !.recover = c] IN
        /\ y => e
        /\ \/ \E p \in {Blank, sight[h]} :
                deed' = [deed EXCEPT ![h] = Resolved([d EXCEPT !.named = sight[h], !.pin = p])]
           \/ ~c /\ deed' = [deed EXCEPT ![h] = ResolvedLoose(d)]
  BY DEF ActBegins
<1>2. PICK d : d = [NoDeed EXCEPT !.ref = r, !.expect = e, !.retry = y, !.recover = c]
  OBVIOUS
<1>3. y => e
  BY <1>1
<1>4. Begun(d) /\ d.node = 0 /\ d.ref = r /\ d.named = Blank
  BY <1>2, <1>3 DEF Begun, NoDeed
<1>5. /\ UNCHANGED <<tabPage, listed, sight>> /\ sight[h] # Blank
      /\ sight[h] \in ShownRecords /\ ListFits(listed) /\ DOMAIN deed = Actors
  BY DEF ActBegins, ActLimits, ActsInv
<1>6. r \in Nat \ {0}
  BY DEF Refs
<1>7. CASE deed' = [deed EXCEPT ![h] = ResolvedLoose(d)]
  <2>1. DeedFits(ResolvedLoose(d))
    BY <1>4, <1>5, <1>6, BegunFits
  <2>2. QED
    BY <1>5, <1>7, <2>1, FitsOn
<1>8. CASE \E p \in {Blank, sight[h]} :
             deed' = [deed EXCEPT ![h] = Resolved([d EXCEPT !.named = sight[h], !.pin = p])]
  <2>1. PICK p \in {Blank, sight[h]} :
          deed' = [deed EXCEPT ![h] = Resolved([d EXCEPT !.named = sight[h], !.pin = p])]
    BY <1>8
  <2>2. PICK f : f = [d EXCEPT !.named = sight[h], !.pin = p]
    OBVIOUS
  <2>3. Begun(f) /\ f.node = 0 /\ f.ref = r /\ f.named = sight[h]
    BY <1>4, <2>2 DEF Begun, NoDeed
  <2>4. DeedFits(Resolved(f))
    BY <1>5, <1>6, <2>3, BegunFits
  <2>5. QED
    BY <1>5, <2>1, <2>2, <2>4, FitsOn
<1>9. QED
  BY <1>1, <1>2, <1>7, <1>8

LEMMA TurnsFit ==
  ASSUME NEW p \in TabRecords, NEW q \in Turns(p)
  PROVE  q \in TabRecords
<1>1. CASE q = p
  BY <1>1
<1>2. CASE q = [p EXCEPT !.says = ~p.says]
  BY <1>2 DEF TabRecords
<1>3. CASE \E n \in SUBSET NodeIds, s \in BOOLEAN :
             p.doc < MaxPages /\ q = [doc |-> p.doc + 1, nodes |-> n, says |-> s]
  <2>1. p.doc + 1 \in 1..MaxPages
    BY <1>3, AgentActsAssumption DEF TabRecords
  <2>2. QED
    BY <1>3, <2>1 DEF TabRecords
<1>4. QED
  BY <1>1, <1>2, <1>3 DEF Turns

LEMMA ActClicksFit ==
  ASSUME ActsInv, ActLimits, NEW h \in Actors, NEW after, after # "retry", NEW failing,
         Clicks(h, after, failing), deed[h].step \in {"click", "retry"}
  PROVE  ActLimits'
<1>1. PICK d : d = deed[h]
  OBVIOUS
<1>2. PICK p : p = tabPage[h]
  OBVIOUS
<1>3. DeedSound(d, p) /\ DeedFits(d) /\ p \in TabRecords /\ d.step \in {"click", "retry"}
  BY <1>1, <1>2 DEF ActsInv, ActLimits
<1>4. DOMAIN d = DOMAIN NoDeed /\ d.clicks \in {0, 1} /\ d.node \in NodeIds \cup {0}
  BY <1>3 DEF DeedSound, DeedFits, Unclicked
<1>5. PICK q \in Turns(p), fails \in BOOLEAN :
        /\ tabPage' = [tabPage EXCEPT ![h] = q]
        /\ deed' = [deed EXCEPT ![h] =
             IF fails THEN [DeedEnds(Appears(Touches(d, p), p, q), failing) EXCEPT !.lost = TRUE]
                      ELSE [Appears(Touches(d, p), p, q) EXCEPT !.step = after]]
  <2>1. PICK q \in Turns(tabPage[h]), fails \in BOOLEAN :
          LET b == Appears(Touches(deed[h], tabPage[h]), tabPage[h], q) IN
          /\ tabPage' = [tabPage EXCEPT ![h] = q]
          /\ deed' = [deed EXCEPT ![h] = IF fails THEN [DeedEnds(b, failing) EXCEPT !.lost = TRUE]
                                                 ELSE [b EXCEPT !.step = after]]
    BY DEF Clicks
  <2>2. QED
    BY <1>1, <1>2, <2>1
<1>6. PICK e : e = Touches(d, p)
  OBVIOUS
<1>7. DOMAIN e = DOMAIN NoDeed /\ e.clicks = d.clicks + 1 /\ e.node = d.node
  BY <1>4, <1>6 DEF Touches, NoDeed
<1>8. PICK f : f = Appears(e, p, q)
  OBVIOUS
<1>9. DOMAIN f = DOMAIN NoDeed /\ f.clicks = d.clicks + 1 /\ f.node = d.node
  BY <1>7, <1>8, AppearsFields
<1>10. PICK g : g = IF fails THEN [DeedEnds(f, failing) EXCEPT !.lost = TRUE]
                             ELSE [f EXCEPT !.step = after]
  OBVIOUS
<1>11. g.clicks = d.clicks + 1 /\ g.node = d.node /\ g.step # "retry"
  <2>1. CASE fails
    <3>1. PICK l : l = DeedEnds(f, failing)
      OBVIOUS
    <3>2. DOMAIN l = DOMAIN NoDeed /\ l.step = "done" /\ l.clicks = f.clicks /\ l.node = f.node
      BY <1>9, <3>1, EndsFields
    <3>3. g = [l EXCEPT !.lost = TRUE]
      BY <1>10, <2>1, <3>1
    <3>4. g.step = "done" /\ g.clicks = l.clicks /\ g.node = l.node
      BY <3>2, <3>3 DEF NoDeed
    <3>5. QED
      BY <1>9, <3>2, <3>4
  <2>2. CASE ~fails
    <3>1. g = [f EXCEPT !.step = after]
      BY <1>10, <2>2
    <3>2. g.step = after /\ g.clicks = f.clicks /\ g.node = f.node
      BY <1>9, <3>1 DEF NoDeed
    <3>3. QED
      BY <1>9, <3>2
  <2>3. QED
    BY <2>1, <2>2
<1>12. DeedFits(g)
  BY <1>4, <1>11 DEF DeedFits
<1>13. deed' = [deed EXCEPT ![h] = g]
  BY <1>5, <1>6, <1>8, <1>10
<1>14. q \in TabRecords
  BY <1>3, TurnsFit
<1>15. ListFits(listed') /\ UNCHANGED sight /\ DOMAIN deed = Actors
  BY DEF Clicks, ActLimits, ActsInv
<1>16. QED
  BY <1>5, <1>12, <1>13, <1>14, <1>15, FitsOn

(* The steps that only change the act itself.                                *)
LEMMA OneDeedFits ==
  ASSUME ActsInv, ActLimits, NEW h \in Actors, NEW d, deed' = [deed EXCEPT ![h] = d],
         UNCHANGED listed \/ Captures(h), UNCHANGED <<tabPage, sight>>,
         DeedFits(d)
  PROVE  ActLimits'
<1>1. ListFits(listed')
  BY CapturesFits DEF ActLimits
<1>2. QED
  BY <1>1, FitsOn DEF ActsInv

LEMMA ActStaysFit ==
  ASSUME ActsInv, ActLimits, NEW h \in Actors,
         \/ ActBySelector(h) \/ Recovers(h) \/ CapturesBefore(h) \/ ResolvesFresh(h)
         \/ Verifies(h) \/ ActAnswered(h)
  PROVE  ActLimits'
<1>1. PICK d : d = deed[h]
  OBVIOUS
<1>2. /\ DOMAIN d = DOMAIN NoDeed /\ DeedFits(d)
      /\ tabPage[h] \in TabRecords /\ Shown(tabPage[h]) \in ShownRecords
      /\ d.step = "after" => d.clicks = 1
  BY <1>1, CapturesFits DEF ActsInv, ActLimits, DeedSound
<1>3. \A r : DeedFits(DeedEnds(d, r))
  BY <1>2, EndsFit
<1>4. CASE ActBySelector(h)
  <2>1. PICK n \in NodeIds, c \in BOOLEAN :
          deed' = [deed EXCEPT ![h] =
                     [NoDeed EXCEPT !.way = "selector", !.node = n, !.recover = c, !.step = "click"]]
    BY <1>4 DEF ActBySelector
  <2>2. DeedFits([NoDeed EXCEPT !.way = "selector", !.node = n, !.recover = c, !.step = "click"])
    BY DEF DeedFits, NoDeed
  <2>3. UNCHANGED <<tabPage, listed, sight>>
    BY <1>4 DEF ActBySelector
  <2>4. QED
    BY <2>1, <2>2, <2>3, OneDeedFits
<1>5. CASE Recovers(h)
  <2>1. Captures(h) /\ UNCHANGED <<tabPage, sight>>
    BY <1>5 DEF Recovers
  <2>2. CASE deed' = [deed EXCEPT ![h] = DeedEnds(d, "stale_snapshot")]
    BY <1>3, <2>1, <2>2, OneDeedFits
  <2>3. ASSUME NEW n \in tabPage[h].nodes,
               deed' = [deed EXCEPT ![h] = [d EXCEPT !.way = "name", !.node = n, !.step = After(d)]]
        PROVE  ActLimits'
    <3>1. PICK e : e = [d EXCEPT !.way = "name", !.node = n, !.step = After(d)]
      OBVIOUS
    <3>2. e.clicks = d.clicks /\ e.node = n /\ e.step = After(d) /\ n \in NodeIds
      BY <1>2, <2>3, <3>1 DEF NoDeed, TabRecords
    <3>3. DeedFits(e)
      BY <1>2, <3>2 DEF DeedFits, After
    <3>4. QED
      BY <2>1, <2>3, <3>1, <3>3, OneDeedFits
  <2>4. QED
    BY <1>1, <1>5, <2>2, <2>3 DEF Recovers
<1>6. CASE CapturesBefore(h)
  <2>1. PICK e : e = [d EXCEPT !.before = Shown(tabPage[h]), !.appeared = FALSE,
                               !.step = IF d.way = "fresh" THEN "fresh" ELSE "click"]
    OBVIOUS
  <2>2. e.clicks = d.clicks /\ e.node = d.node /\ e.step # "retry"
    BY <1>2, <2>1 DEF NoDeed
  <2>3. DeedFits(e)
    BY <1>2, <2>2 DEF DeedFits
  <2>4. deed' = [deed EXCEPT ![h] = e] /\ Captures(h) /\ UNCHANGED <<tabPage, sight>>
    BY <1>1, <1>6, <2>1 DEF CapturesBefore
  <2>5. QED
    BY <2>3, <2>4, OneDeedFits
<1>7. CASE ResolvesFresh(h)
  <2>1. Captures(h) /\ UNCHANGED <<tabPage, sight>>
    BY <1>7 DEF ResolvesFresh
  <2>2. CASE d.ref \in Refs(Shown(tabPage[h]))
    <3>1. PICK e : e = [d EXCEPT !.node = NodeAt(Shown(tabPage[h]), d.ref), !.step = "click"]
      OBVIOUS
    <3>2. NodeAt(Shown(tabPage[h]), d.ref) \in NodeIds
      BY <1>2, <2>2, NodeIsThere
    <3>3. e.clicks = d.clicks /\ e.node \in NodeIds /\ e.step = "click"
      BY <1>2, <3>1, <3>2 DEF NoDeed
    <3>4. DeedFits(e)
      BY <1>2, <3>3 DEF DeedFits
    <3>5. deed' = [deed EXCEPT ![h] = e]
      BY <1>1, <1>7, <2>2, <3>1 DEF ResolvesFresh
    <3>6. QED
      BY <2>1, <3>4, <3>5, OneDeedFits
  <2>3. CASE d.ref \notin Refs(Shown(tabPage[h]))
    <3>1. deed' = [deed EXCEPT ![h] = DeedEnds(d, "element_not_found")]
      BY <1>1, <1>7, <2>3 DEF ResolvesFresh
    <3>2. QED
      BY <1>3, <2>1, <3>1, OneDeedFits
  <2>4. QED
    BY <2>2, <2>3
<1>8. CASE Verifies(h)
  <2>1. (UNCHANGED listed \/ Captures(h)) /\ UNCHANGED <<tabPage, sight>>
    BY <1>8 DEF Verifies
  <2>2. PICK met \in BOOLEAN : met = Satisfied(d.before, Shown(tabPage[h]))
    BY DEF Satisfied
  <2>3. \/ deed' = [deed EXCEPT ![h] = DeedEnds(d, "ok")]
        \/ d.step = "after" /\ deed' = [deed EXCEPT ![h] = [d EXCEPT !.step = "retry"]]
        \/ deed' = [deed EXCEPT ![h] =
                      [DeedEnds(d, IF met THEN "ok" ELSE "needs_attention") EXCEPT !.met = met]]
    BY <1>1, <1>8, <2>2 DEF Verifies
  <2>4. CASE deed' = [deed EXCEPT ![h] = DeedEnds(d, "ok")]
    BY <1>3, <2>1, <2>4, OneDeedFits
  <2>5. CASE d.step = "after" /\ deed' = [deed EXCEPT ![h] = [d EXCEPT !.step = "retry"]]
    <3>1. PICK e : e = [d EXCEPT !.step = "retry"]
      OBVIOUS
    <3>2. e.clicks = 1 /\ e.node = d.node /\ e.step = "retry"
      BY <1>2, <2>5, <3>1 DEF NoDeed
    <3>3. DeedFits(e)
      BY <1>2, <3>2 DEF DeedFits
    <3>4. QED
      BY <2>1, <2>5, <3>1, <3>3, OneDeedFits
  <2>6. CASE deed' = [deed EXCEPT ![h] =
                        [DeedEnds(d, IF met THEN "ok" ELSE "needs_attention") EXCEPT !.met = met]]
    <3>1. PICK f : f = DeedEnds(d, IF met THEN "ok" ELSE "needs_attention")
      OBVIOUS
    <3>2. DOMAIN f = DOMAIN NoDeed /\ f.step = "done" /\ f.clicks = d.clicks /\ f.node = d.node
      BY <1>2, <3>1, EndsFields
    <3>3. PICK e : e = [f EXCEPT !.met = met]
      OBVIOUS
    <3>4. e.step = "done" /\ e.clicks = d.clicks /\ e.node = d.node
      BY <3>2, <3>3 DEF NoDeed
    <3>5. DeedFits(e)
      BY <1>2, <3>4 DEF DeedFits
    <3>6. QED
      BY <2>1, <2>6, <3>1, <3>3, <3>5, OneDeedFits
  <2>7. QED
    BY <2>3, <2>4, <2>5, <2>6
<1>9. CASE ActAnswered(h)
  <2>1. DeedFits(NoDeed)
    BY DEF DeedFits, NoDeed
  <2>2. QED
    BY <1>9, <2>1, OneDeedFits DEF ActAnswered
<1>10. QED
  BY <1>4, <1>5, <1>6, <1>7, <1>8, <1>9

LEMMA ActTouchesFit ==
  ASSUME ActsInv, ActLimits, NEW h \in Actors,
         ClickNode(h) \/ ClickSelector(h) \/ ClickAgain(h) \/ PageTurns(h)
  PROVE  ActLimits'
<1>1. PICK d : d = deed[h]
  OBVIOUS
<1>2. /\ DOMAIN d = DOMAIN NoDeed /\ DeedFits(d) /\ tabPage[h] \in TabRecords
      /\ DOMAIN deed = Actors /\ ListFits(listed)
  BY <1>1 DEF ActsInv, ActLimits, DeedSound
<1>3. \A r : DeedFits(DeedEnds(d, r))
  BY <1>2, EndsFit
<1>4. ASSUME Hit(h), ClickNode(h) \/ ClickSelector(h) \/ ClickAgain(h)
      PROVE  ActLimits'
  <2>1. \/ d.step = "click" /\ \E r : Clicks(h, "after", r)
        \/ d.step = "retry" /\ \E r : Clicks(h, "again", r)
    BY <1>1, <1>4 DEF ClickNode, ClickSelector, ClickAgain
  <2>2. QED
    BY <1>1, <2>1, ActClicksFit
<1>5. ASSUME ~Hit(h), ClickNode(h) \/ ClickSelector(h) \/ ClickAgain(h)
      PROVE  ActLimits'
  <2>1. UNCHANGED <<tabPage, listed, sight>>
    BY <1>5 DEF ClickNode, ClickSelector, ClickAgain
  <2>2. \/ deed' = [deed EXCEPT ![h] = DeedEnds(d, "element_not_found")]
        \/ deed' = [deed EXCEPT ![h] = [d EXCEPT !.recover = FALSE]]
        \/ deed' = [deed EXCEPT ![h] = [d EXCEPT !.step = "again"]]
    BY <1>1, <1>5 DEF ClickNode, ClickSelector, ClickAgain
  <2>3. DeedFits([d EXCEPT !.recover = FALSE])
    <3>1. PICK e : e = [d EXCEPT !.recover = FALSE]
      OBVIOUS
    <3>2. e.clicks = d.clicks /\ e.node = d.node /\ e.step = d.step
      BY <1>2, <3>1 DEF NoDeed
    <3>3. DeedFits(e)
      BY <1>2, <3>2 DEF DeedFits
    <3>4. QED
      BY <3>1, <3>3
  <2>4. DeedFits([d EXCEPT !.step = "again"])
    <3>1. PICK e : e = [d EXCEPT !.step = "again"]
      OBVIOUS
    <3>2. e.clicks = d.clicks /\ e.node = d.node /\ e.step = "again"
      BY <1>2, <3>1 DEF NoDeed
    <3>3. DeedFits(e)
      BY <1>2, <3>2 DEF DeedFits
    <3>4. QED
      BY <3>1, <3>3
  <2>5. QED
    BY <1>3, <2>1, <2>2, <2>3, <2>4, OneDeedFits
<1>6. CASE PageTurns(h)
  <2>1. PICK q \in Turns(tabPage[h]) : /\ tabPage' = [tabPage EXCEPT ![h] = q]
                                       /\ deed' = [deed EXCEPT ![h] = Appears(d, tabPage[h], q)]
    BY <1>1, <1>6 DEF PageTurns
  <2>2. PICK e : e = Appears(d, tabPage[h], q)
    OBVIOUS
  <2>3. e.clicks = d.clicks /\ e.node = d.node /\ e.step = d.step
    BY <1>2, <2>2, AppearsFields
  <2>4. DeedFits(e)
    BY <1>2, <2>3 DEF DeedFits
  <2>5. q \in TabRecords
    BY <1>2, TurnsFit
  <2>6. UNCHANGED <<listed, sight>>
    BY <1>6 DEF PageTurns
  <2>7. QED
    BY <1>2, <2>1, <2>2, <2>4, <2>5, <2>6, FitsOn
<1>7. QED
  BY <1>4, <1>5, <1>6

LEMMA ActLimitsStart == ActsInit => ActLimits
<1> SUFFICES ASSUME ActsInit
             PROVE  ActLimits
  OBVIOUS
<1>1. tabPage \in [Actors -> TabRecords] /\ sight \in [Actors -> ShownRecords]
  BY AgentActsAssumption DEF ActsInit, TabRecords, ShownRecords, Blank
<1>2. ListFits(listed)
  <2>1. listed = <<>> /\ Cardinality(Actors) \in Nat
    BY AgentActsAssumption, FS_CardinalityType DEF ActsInit
  <2>2. QED
    BY <2>1, AgentActsAssumption DEF ListFits, NoneTwice
<1>3. \A h \in Actors : DeedFits(deed[h])
  BY DEF ActsInit, DeedFits, NoDeed
<1>4. QED
  BY <1>1, <1>2, <1>3 DEF ActLimits

LEMMA ActLimitsStep == ActsInv /\ ActLimits /\ [ActsNext]_actVars => ActLimits'
<1>1. SUFFICES ASSUME ActsInv, ActLimits, [ActsNext]_actVars
               PROVE  ActLimits'
  OBVIOUS
<1>2. CASE UNCHANGED actVars
  BY <1>1, <1>2 DEF actVars, ActLimits
<1>3. CASE OtherObserves
  <2>1. PICK n \in SUBSET NodeIds : Adds([nodes |-> n, says |-> FALSE])
    BY <1>3 DEF OtherObserves
  <2>2. [nodes |-> n, says |-> FALSE] \in ShownRecords
    BY DEF ShownRecords
  <2>3. ListFits(listed')
    BY <1>1, <2>1, <2>2, AddsFits DEF ActLimits
  <2>4. QED
    BY <1>1, <1>3, <2>3 DEF OtherObserves, ActLimits
<1>4. ASSUME NEW h \in Actors, AgentObserve(h)
      PROVE  ActLimits'
  <2>1. Shown(tabPage[h]) \in ShownRecords /\ ListFits(listed')
    BY <1>1, <1>4, CapturesFits DEF AgentObserve
  <2>2. QED
    BY <1>1, <1>4, <2>1 DEF AgentObserve, ActLimits
<1>5. QED
  BY <1>1, <1>2, <1>3, <1>4, ActBeginsFits, ActStaysFit, ActTouchesFit DEF ActsNext

LEMMA ActsTyped == ActsInv /\ ActLimits => ActsTypeOK
<1> SUFFICES ASSUME ActsInv, ActLimits
             PROVE  ActsTypeOK
  OBVIOUS
<1>1. Cardinality(ToSet(listed)) = Len(listed)
  <2>1. ToSet(listed) = ElementsOf(listed)
    BY DEF ToSet, ElementsOf
  <2>2. QED
    BY <2>1, CountedOnce DEF ActLimits, ListFits
<1>2. \A h \in Actors : tabPage[h] \in TabRecords /\ sight[h] \in ShownRecords /\ DeedFits(deed[h])
  BY DEF ActLimits
<1>3. QED
  BY <1>1, <1>2 DEF ActLimits, ListFits, ActsTypeOK, TabRecords, ShownRecords, DeedFits

LEMMA ActsTypes == ActsInit /\ [][ActsNext]_actVars => []ActsTypeOK
BY ActsStart, ActsStep, ActLimitsStart, ActLimitsStep, ActsTyped, PTL

-----------------------------------------------------------------------------
(* Errands.  The shape of the state.                                         *)
ErrandSteps == {"idle", "op", "expect", "poll", "go", "first", "shoot", "keep", "goA", "shootA",
                "goB", "shootB", "fill", "look", "press", "form", "done"}
ErrandReports == {"none", "ok", "failed", "stale_snapshot", "matched", "expect_timeout", "ready",
                  "not_ready", "recorded", "no_baseline", "pass", "fail", "stopped",
                  "needs_attention", "invalid_form"}
Shots == [shows : Shows \cup {"none"}, unsure : BOOLEAN]
Screens == [shows : Shows, says : BOOLEAN, control : Controls]
ErrandRecords ==
    [kind : {"none", "flow", "expect", "search", "record", "compare", "diff", "task", "form"},
     step : ErrandSteps, url : Shows, n : 0..(MaxFlow + 1), stop : BOOLEAN,
     failedAt : 0..MaxFlow, cond : BOOLEAN, by : {"selector", "ref", "snapshot"}, saw : BOOLEAN,
     read : {"none", "nothing", "searching", "answer"}, lost : BOOLEAN, stirred : BOOLEAN,
     shot : Shots, other : Shots, control : Controls, pressed : Controls, halt : BOOLEAN,
     report : ErrandReports]

(* A picture is of the page that was asked for, or known to be unsure.       *)
ShotFits(e) == e.shot.shows = e.url \/ e.shot.unsure
Arrived(e, view) == e.lost \/ e.stirred \/ view.shows = e.url
Stands(e, view) == e.stirred \/ view.control = e.control

FlowSound(e) ==
    /\ e.step \in {"op", "expect", "done"} /\ e.n \in 1..MaxFlow /\ e.failedAt \in 0..e.n
    /\ e.stop /\ e.failedAt > 0 => e.step = "done" /\ e.n = e.failedAt
    /\ e.step = "done" => (e.report = "ok") = (e.failedAt = 0)
ExpectSound(e, view) ==
    /\ e.step \in {"poll", "done"}
    /\ e.step = "poll" => e.by # "ref"
    /\ e.step = "poll" /\ e.by # "snapshot" /\ view.says = e.cond => e.saw
    /\ e.report = "matched" => e.saw \/ e.by = "snapshot"
SearchSound(e, view) ==
    /\ e.step \in {"go", "poll", "done"} /\ e.url \in Pages
    /\ e.step = "poll" => Arrived(e, view)
    /\ e.step # "done" => e.read # "answer"
    /\ e.report = "ready" /\ e.read = "answer" => ShotFits(e)
VisualSound(e, view) ==
    /\ e.step \in {"first", "go", "shoot", "keep", "done"} /\ e.url \in Pages
    /\ e.step = "shoot" => Arrived(e, view)
    /\ e.step = "keep" => ShotFits(e)
    /\ e.report = "pass" => e.other.unsure \/ ShotFits(e)
TaskSound(e, view) ==
    /\ e.step \in {"fill", "look", "press", "done"} /\ e.n \in 0..2
    /\ e.step = "press" => Stands(e, view)
    /\ e.step # "done" => e.pressed = "none"
    /\ e.pressed = "blocked" => e.stirred
FormSound(e, view) ==
    /\ e.step \in {"form", "done"}
    /\ e.step = "form" => Stands(e, view)
    /\ e.step # "done" => e.pressed = "none"
    /\ e.pressed # "none" => e.pressed = e.control \/ e.stirred
ErrandSound(e, view) ==
    /\ e.step # "done" => e.report = "none"
    /\ e.kind = "none" => e.step = "idle"
    /\ e.kind = "flow" => FlowSound(e)
    /\ e.kind = "expect" => ExpectSound(e, view)
    /\ e.kind = "search" => SearchSound(e, view)
    /\ e.kind \in {"record", "compare"} => VisualSound(e, view)
    /\ e.kind = "diff" => /\ e.url \in Pages
                          /\ e.step \in {"goA", "shootA", "goB", "shootB", "done"}
                          /\ e.step \in {"goA", "shootA", "goB"} => e.other.shows \in Shows
    /\ e.kind = "task" => TaskSound(e, view)
    /\ e.kind = "form" => FormSound(e, view)
    /\ e.report = "matched" => e.kind = "expect"
    /\ e.report = "ready" => e.kind = "search"
FlowsInv ==
    /\ screen \in Screens /\ baseline \in [Pages -> Shots] /\ errand \in ErrandRecords
    /\ \A u \in Pages : baseline[u].shows = u \/ baseline[u].unsure
    /\ ErrandSound(errand, screen)


(* What each errand does is one change of its record and of the page.        *)
LEMMA ErrandMoves ==
  ASSUME FlowsInv, NEW e \in ErrandRecords, NEW p \in Screens, ErrandSound(e, p),
         errand' = e, screen' = p, UNCHANGED baseline
  PROVE  FlowsInv'
BY DEF FlowsInv

LEMMA ErrandGoes ==
  ASSUME FlowsInv, NEW e \in ErrandRecords, ErrandSound(e, screen), Goes(e)
  PROVE  FlowsInv'
BY ErrandMoves DEF FlowsInv, Goes

LEMMA NoErrandSound ==
  NoErrand \in ErrandRecords /\ \A p : ErrandSound(NoErrand, p)
<1>1. NoErrand \in ErrandRecords
  BY AgentFlowsAssumption
     DEF NoErrand, ErrandRecords, ErrandSteps, ErrandReports, Shots, NoShot, Shows, Controls
<1>2. QED
  BY <1>1 DEF ErrandSound, NoErrand

LEMMA FlowBeginsKeeps ==
  ASSUME FlowsInv, FlowBegins \/ TemplateBegins
  PROVE  FlowsInv'
<1>1. PICK stop \in BOOLEAN :
        Goes([NoErrand EXCEPT !.kind = "flow", !.step = "op", !.n = 1, !.stop = stop])
  BY DEF FlowBegins, TemplateBegins
<1>2. PICK e : e = [NoErrand EXCEPT !.kind = "flow", !.step = "op", !.n = 1, !.stop = stop]
  OBVIOUS
<1>3. /\ e \in ErrandRecords /\ e.kind = "flow" /\ e.step = "op" /\ e.n = 1
      /\ e.failedAt = 0 /\ e.report = "none"
  <2>1. 1 \in 0..(MaxFlow + 1)
    BY AgentFlowsAssumption
  <2>2. QED
    BY <1>2, <2>1, NoErrandSound DEF NoErrand, ErrandRecords, ErrandSteps
<1>4. ErrandSound(e, screen)
  BY <1>3, AgentFlowsAssumption DEF ErrandSound, FlowSound
<1>5. QED
  BY <1>1, <1>2, <1>3, <1>4, ErrandGoes

(* The next step of a flow, after one that went well or failed.              *)
LEMMA NextStepSound ==
  ASSUME NEW e \in ErrandRecords, e.kind = "flow", e.n \in 1..MaxFlow, e.failedAt \in 0..e.n,
         e.step # "done", e.report = "none", e.stop => e.failedAt = 0, NEW view
  PROVE  NextStep(e) \in ErrandRecords /\ ErrandSound(NextStep(e), view)
<1>1. PICK d : d = NextStep(e)
  OBVIOUS
<1>2. CASE e.n < MaxFlow
  <2>1. d = [e EXCEPT !.step = "op", !.n = @ + 1]
    BY <1>1, <1>2 DEF NextStep
  <2>2. e.n + 1 \in 1..MaxFlow /\ e.failedAt \in 0..(e.n + 1) /\ e.n + 1 \in 0..(MaxFlow + 1)
    BY <1>2, AgentFlowsAssumption
  <2>3. /\ d \in ErrandRecords /\ d.kind = "flow" /\ d.step = "op" /\ d.n = e.n + 1
        /\ d.failedAt = e.failedAt /\ d.report = "none" /\ d.stop = e.stop
    BY <2>1, <2>2 DEF ErrandRecords, ErrandSteps
  <2>4. ErrandSound(d, view)
    BY <2>2, <2>3 DEF ErrandSound, FlowSound
  <2>5. QED
    BY <1>1, <2>3, <2>4
<1>3. CASE ~(e.n < MaxFlow)
  <2>1. d = [e EXCEPT !.step = "done", !.report = IF e.failedAt = 0 THEN "ok" ELSE "failed"]
    BY <1>1, <1>3 DEF NextStep
  <2>2. /\ d \in ErrandRecords /\ d.kind = "flow" /\ d.step = "done" /\ d.n = e.n /\ d.stop = e.stop
        /\ d.failedAt = e.failedAt /\ d.report = IF e.failedAt = 0 THEN "ok" ELSE "failed"
    BY <2>1 DEF ErrandRecords, ErrandSteps, ErrandReports
  <2>3. ErrandSound(d, view)
    BY <2>2 DEF ErrandSound, FlowSound
  <2>4. QED
    BY <1>1, <2>2, <2>3
<1>4. QED
  BY <1>2, <1>3

LEMMA StepFailedSound ==
  ASSUME NEW e \in ErrandRecords, e.kind = "flow", FlowSound(e), e.step # "done", e.report = "none",
         NEW view
  PROVE  StepFailed(e) \in ErrandRecords /\ ErrandSound(StepFailed(e), view)
<1>1. PICK f : f = [e EXCEPT !.failedAt = IF @ = 0 THEN e.n ELSE @]
  OBVIOUS
<1>2. e.n \in 1..MaxFlow /\ e.failedAt \in 0..e.n /\ (e.stop => e.failedAt = 0)
  BY AgentFlowsAssumption DEF FlowSound
<1>3. PICK i \in 1..MaxFlow : i = IF e.failedAt = 0 THEN e.n ELSE e.failedAt
  BY <1>2, AgentFlowsAssumption
<1>4. /\ f \in ErrandRecords /\ f.kind = "flow" /\ f.n = e.n /\ f.failedAt = i /\ f.stop = e.stop
      /\ f.step = e.step /\ f.report = "none"
  BY <1>1, <1>3, AgentFlowsAssumption DEF ErrandRecords
<1>5. i \in 0..e.n
  BY <1>2, <1>3, AgentFlowsAssumption
<1>6. CASE e.stop
  <2>1. StepFailed(e) = [f EXCEPT !.step = "done", !.report = "failed"]
    BY <1>1, <1>4, <1>6 DEF StepFailed
  <2>2. PICK d : d = [f EXCEPT !.step = "done", !.report = "failed"]
    OBVIOUS
  <2>3. /\ d \in ErrandRecords /\ d.kind = "flow" /\ d.n = e.n /\ d.failedAt = i
        /\ d.step = "done" /\ d.report = "failed"
    BY <1>4, <2>2 DEF ErrandRecords, ErrandSteps, ErrandReports
  <2>4. i # 0 /\ i = e.n
    BY <1>2, <1>3, <1>6
  <2>5. ErrandSound(d, view)
    BY <1>2, <1>5, <2>3, <2>4 DEF ErrandSound, FlowSound
  <2>6. QED
    BY <2>1, <2>2, <2>3, <2>5
<1>7. CASE ~e.stop
  <2>1. StepFailed(e) = NextStep(f)
    BY <1>1, <1>4, <1>7 DEF StepFailed
  <2>2. QED
    BY <1>2, <1>4, <1>5, <1>7, <2>1, NextStepSound
<1>8. QED
  BY <1>6, <1>7 DEF ErrandRecords

(* The pages that a step may leave.                                          *)
LEMMA TurnedScreens ==
  ASSUME screen \in Screens
  PROVE  Turned \subseteq Screens
BY DEF Turned, Screens, Shows

LEMMA FlowGoesOn ==
  ASSUME FlowsInv, On("flow"), At("op") \/ At("expect")
  PROVE  /\ errand \in ErrandRecords /\ errand.kind = "flow" /\ FlowSound(errand)
         /\ errand.step # "done" /\ errand.report = "none"
         /\ errand.n \in 1..MaxFlow /\ errand.failedAt \in 0..errand.n
         /\ (errand.stop => errand.failedAt = 0)
<1>1. /\ errand \in ErrandRecords /\ errand.kind = "flow" /\ FlowSound(errand)
      /\ errand.step # "done" /\ errand.report = "none"
  BY DEF FlowsInv, On, At, ErrandSound
<1>2. QED
  BY <1>1, AgentFlowsAssumption DEF FlowSound

LEMMA FlowStepKeeps ==
  ASSUME FlowsInv, NEW a \in FlowActions, FlowStep(a)
  PROVE  FlowsInv'
<1>1. /\ errand \in ErrandRecords /\ errand.kind = "flow" /\ FlowSound(errand)
      /\ errand.step # "done" /\ errand.report = "none"
  BY FlowGoesOn DEF FlowStep
<1>2. PICK e : e = [errand EXCEPT !.step = "expect"]
  OBVIOUS
<1>3. /\ e \in ErrandRecords /\ e.kind = "flow" /\ e.n = errand.n /\ e.failedAt = errand.failedAt
      /\ e.step = "expect" /\ e.report = "none" /\ e.stop = errand.stop
  BY <1>1, <1>2 DEF ErrandRecords, ErrandSteps
<1>4. ASSUME NEW view
      PROVE  ErrandSound(e, view)
  BY <1>1, <1>3 DEF ErrandSound, FlowSound
<1>5. CASE /\ \/ a \in Visiting /\ \E u \in Pages, s \in BOOLEAN :
                                     screen' = [shows |-> u, says |-> s, control |-> "none"]
              \/ a \in Changes /\ screen' \in Turned \cup {screen}
              \/ a \notin Visiting \cup Changes /\ UNCHANGED screen
           /\ errand' = [errand EXCEPT !.step = "expect"] /\ UNCHANGED baseline
  <2>1. screen' \in Screens
    <3>1. screen \in Screens
      BY DEF FlowsInv
    <3>2. CASE \E u \in Pages, s \in BOOLEAN : screen' = [shows |-> u, says |-> s, control |-> "none"]
      BY <3>2 DEF Screens, Shows, Controls
    <3>3. QED
      BY <1>5, <3>1, <3>2, TurnedScreens
  <2>2. QED
    BY <1>2, <1>3, <1>4, <1>5, <2>1, ErrandMoves
<1>6. CASE Goes(IF a = "wait" THEN [errand EXCEPT !.step = "expect"] ELSE StepFailed(errand))
  BY <1>1, <1>2, <1>3, <1>4, <1>6, StepFailedSound, ErrandGoes
<1>7. QED
  BY <1>5, <1>6 DEF FlowStep

LEMMA FlowExpectsKeeps ==
  ASSUME FlowsInv, FlowExpects
  PROVE  FlowsInv'
BY FlowGoesOn, NextStepSound, StepFailedSound, ErrandGoes DEF FlowExpects

-----------------------------------------------------------------------------
(* Errands of the other kinds end, told something that claims nothing.       *)
LEMMA ErrandEndsSound ==
  ASSUME FlowsInv, NEW r \in ErrandReports \ {"none", "ok", "matched", "ready", "pass"}
  PROVE  /\ ErrandEnds(r) \in ErrandRecords
         /\ ~On("flow") /\ ~On("none") => ErrandSound(ErrandEnds(r), screen)
<1>1. PICK e : e = ErrandEnds(r)
  OBVIOUS
<1>2. errand \in ErrandRecords /\ ErrandSound(errand, screen)
  BY DEF FlowsInv
<1>3. e = [errand EXCEPT !.step = "done", !.report = r]
  BY <1>1 DEF ErrandEnds
<1>4. /\ e \in ErrandRecords /\ e.kind = errand.kind /\ e.step = "done" /\ e.report = r
      /\ e.url = errand.url /\ e.n = errand.n /\ e.saw = errand.saw /\ e.by = errand.by
      /\ e.pressed = errand.pressed /\ e.stirred = errand.stirred /\ e.control = errand.control
  BY <1>2, <1>3 DEF ErrandRecords, ErrandSteps
<1>5. ASSUME ~On("flow"), ~On("none")
      PROVE  ErrandSound(e, screen)
  <2>1. CASE errand.kind = "expect"
    BY <1>2, <1>4, <2>1 DEF ErrandSound, ExpectSound
  <2>2. CASE errand.kind = "search"
    BY <1>2, <1>4, <2>2 DEF ErrandSound, SearchSound
  <2>3. CASE errand.kind \in {"record", "compare"}
    BY <1>2, <1>4, <2>3 DEF ErrandSound, VisualSound
  <2>4. CASE errand.kind = "diff"
    BY <1>2, <1>4, <2>4 DEF ErrandSound
  <2>5. CASE errand.kind = "task"
    BY <1>2, <1>4, <2>5 DEF ErrandSound, TaskSound
  <2>6. CASE errand.kind = "form"
    BY <1>2, <1>4, <2>6 DEF ErrandSound, FormSound
  <2>7. QED
    BY <1>2, <1>5, <2>1, <2>2, <2>3, <2>4, <2>5, <2>6 DEF ErrandRecords, On
<1>6. QED
  BY <1>1, <1>4, <1>5

LEMMA ErrandFailsKeeps ==
  ASSUME FlowsInv, ErrandFails
  PROVE  FlowsInv'
<1>1. ~On("flow") /\ ~On("none")
  BY DEF ErrandFails, FlowsInv, ErrandSound, FlowSound, On
<1>2. QED
  BY <1>1, ErrandEndsSound, ErrandGoes DEF ErrandFails, ErrandReports

LEMMA ExpectKeeps ==
  ASSUME FlowsInv, ExpectBegins \/ ExpectMatches \/ ExpectExpires
  PROVE  FlowsInv'
<1>1. errand \in ErrandRecords /\ ErrandSound(errand, screen) /\ screen \in Screens
  BY DEF FlowsInv
<1>2. CASE ExpectBegins
  <2>1. PICK by \in {"selector", "ref", "snapshot"}, c \in BOOLEAN :
         LET e == [NoErrand EXCEPT !.kind = "expect", !.by = by, !.cond = c, !.step = "poll"] IN
         IF by = "ref" THEN Goes([e EXCEPT !.step = "done", !.report = "stale_snapshot"])
         ELSE Goes([e EXCEPT !.saw = screen.says = c])
    BY <1>2 DEF ExpectBegins
  <2>2. PICK e : e = [NoErrand EXCEPT !.kind = "expect", !.by = by, !.cond = c, !.step = "poll"]
    OBVIOUS
  <2>3. /\ e \in ErrandRecords /\ e.kind = "expect" /\ e.by = by /\ e.cond = c /\ e.step = "poll"
        /\ e.report = "none"
    BY <2>2, NoErrandSound DEF NoErrand, ErrandRecords, ErrandSteps
  <2>4. CASE by = "ref"
    <3>1. PICK d : d = [e EXCEPT !.step = "done", !.report = "stale_snapshot"]
      OBVIOUS
    <3>2. /\ d \in ErrandRecords /\ d.kind = "expect" /\ d.step = "done"
          /\ d.report = "stale_snapshot"
      BY <2>3, <3>1 DEF ErrandRecords, ErrandSteps, ErrandReports
    <3>3. ErrandSound(d, screen)
      BY <3>2 DEF ErrandSound, ExpectSound
    <3>4. QED
      BY <2>1, <2>2, <2>4, <3>1, <3>2, <3>3, ErrandGoes
  <2>5. CASE by # "ref"
    <3>1. PICK o \in BOOLEAN : o = (screen.says = c)
      OBVIOUS
    <3>2. PICK d : d = [e EXCEPT !.saw = o]
      OBVIOUS
    <3>3. /\ d \in ErrandRecords /\ d.kind = "expect" /\ d.step = "poll" /\ d.report = "none"
          /\ d.saw = o /\ d.cond = c /\ d.by = by
      BY <2>3, <3>2 DEF ErrandRecords
    <3>4. ErrandSound(d, screen)
      BY <2>5, <3>1, <3>3 DEF ErrandSound, ExpectSound
    <3>5. Goes(d)
      BY <2>1, <2>2, <2>5, <3>1, <3>2
    <3>6. QED
      BY <3>3, <3>4, <3>5, ErrandGoes
  <2>6. QED
    BY <2>4, <2>5
<1>3. CASE ExpectMatches
  <2>1. PICK e : e = ErrandEnds("matched")
    OBVIOUS
  <2>2. /\ e \in ErrandRecords /\ e.kind = errand.kind /\ e.step = "done" /\ e.report = "matched"
        /\ e.saw = errand.saw /\ e.by = errand.by
    <3>0. "matched" \in ErrandReports /\ "done" \in ErrandSteps
      BY DEF ErrandReports, ErrandSteps
    <3>1. e = [errand EXCEPT !.step = "done", !.report = "matched"]
      BY <2>1 DEF ErrandEnds
    <3>2. QED
      BY <1>1, <3>0, <3>1 DEF ErrandRecords
  <2>3. errand.kind = "expect" /\ errand.step = "poll" /\ Met
    BY <1>3 DEF ExpectMatches, On, At
  <2>4. errand.saw \/ errand.by = "snapshot"
    <3>1. ExpectSound(errand, screen)
      BY <1>1, <2>3 DEF ErrandSound
    <3>2. CASE errand.by = "selector"
      BY <2>3, <3>1, <3>2 DEF ExpectSound, Met
    <3>3. CASE errand.by # "selector"
      BY <1>1, <2>3, <3>1, <3>3 DEF ExpectSound, Met, ErrandRecords
    <3>4. QED
      BY <3>2, <3>3
  <2>5. ErrandSound(e, screen)
    BY <2>2, <2>3, <2>4 DEF ErrandSound, ExpectSound
  <2>6. QED
    BY <1>3, <2>1, <2>2, <2>5, ErrandGoes DEF ExpectMatches
<1>4. CASE ExpectExpires
  BY <1>4, ErrandEndsSound, ErrandGoes DEF ExpectExpires, On, ErrandReports
<1>5. QED
  BY <1>2, <1>3, <1>4

-----------------------------------------------------------------------------
(* A visit: the page is loaded, or the failure is not seen.                  *)
LEMMA VisitSound ==
  ASSUME FlowsInv, NEW u \in Shows, u = errand.url, NEW after \in ErrandSteps,
         errand.kind \in {"search", "record", "compare", "diff"},
         \A e \in ErrandRecords, p \in Screens :
            (/\ e.kind = errand.kind /\ e.url = errand.url /\ e.report = errand.report
             /\ e.read = errand.read /\ e.step = after /\ (e.lost \/ p.shows = u))
               => ErrandSound(e, p),
         Visits(u, after)
  PROVE  FlowsInv'
<1>1. errand \in ErrandRecords /\ screen \in Screens
  BY DEF FlowsInv
<1>2. CASE /\ \E s \in BOOLEAN, c \in Controls :
                screen' = [shows |-> u, says |-> s, control |-> c]
           /\ errand' = [errand EXCEPT !.step = after, !.stirred = FALSE, !.lost = FALSE]
           /\ UNCHANGED baseline
  <2>1. screen' \in Screens /\ screen'.shows = u
    BY <1>2 DEF Screens
  <2>2. PICK e : e = [errand EXCEPT !.step = after, !.stirred = FALSE, !.lost = FALSE]
    OBVIOUS
  <2>3. /\ e \in ErrandRecords /\ e.kind = errand.kind /\ e.url = errand.url /\ e.step = after
        /\ e.report = errand.report /\ e.read = errand.read
    BY <1>1, <2>2 DEF ErrandRecords
  <2>4. ErrandSound(e, screen')
    BY <2>1, <2>3
  <2>5. QED
    BY <1>2, <2>1, <2>2, <2>3, <2>4, ErrandMoves
<1>3. CASE Goes([errand EXCEPT !.step = after, !.lost = TRUE])
  <2>1. PICK e : e = [errand EXCEPT !.step = after, !.lost = TRUE]
    OBVIOUS
  <2>2. /\ e \in ErrandRecords /\ e.kind = errand.kind /\ e.url = errand.url /\ e.step = after
        /\ e.report = errand.report /\ e.read = errand.read /\ e.lost
    BY <1>1, <2>1 DEF ErrandRecords
  <2>3. ErrandSound(e, screen)
    BY <1>1, <2>2
  <2>4. QED
    BY <1>3, <2>1, <2>2, <2>3, ErrandGoes
<1>4. QED
  BY <1>2, <1>3 DEF Visits

LEMMA SearchKeeps ==
  ASSUME FlowsInv, SearchBegins \/ SearchGoes \/ SearchReads \/ SearchExpires
  PROVE  FlowsInv'
<1>1. errand \in ErrandRecords /\ ErrandSound(errand, screen) /\ screen \in Screens
  BY DEF FlowsInv
<1>2. CASE SearchBegins
  <2>1. PICK u \in Pages : Goes([NoErrand EXCEPT !.kind = "search", !.url = u, !.step = "go"])
    BY <1>2 DEF SearchBegins
  <2>2. PICK e : e = [NoErrand EXCEPT !.kind = "search", !.url = u, !.step = "go"]
    OBVIOUS
  <2>3. /\ e \in ErrandRecords /\ e.kind = "search" /\ e.url = u /\ e.step = "go"
        /\ e.report = "none" /\ e.read = "none"
    BY <2>2, NoErrandSound DEF NoErrand, ErrandRecords, ErrandSteps, Shows
  <2>4. ErrandSound(e, screen)
    BY <2>3 DEF ErrandSound, SearchSound
  <2>5. QED
    BY <2>1, <2>2, <2>3, <2>4, ErrandGoes
<1>3. CASE SearchGoes
  <2>1. errand.kind = "search" /\ errand.step = "go" /\ Visits(errand.url, "poll")
    BY <1>3 DEF SearchGoes, On, At
  <2>2. errand.url \in Pages /\ errand.report = "none" /\ errand.read # "answer"
    BY <1>1, <2>1 DEF ErrandSound, SearchSound
  <2>3. ASSUME NEW e \in ErrandRecords, NEW p \in Screens,
               e.kind = errand.kind, e.url = errand.url, e.report = errand.report,
               e.read = errand.read, e.step = "poll", e.lost \/ p.shows = errand.url
        PROVE  ErrandSound(e, p)
    BY <2>1, <2>2, <2>3 DEF ErrandSound, SearchSound, Arrived
  <2>4. errand.url \in Shows /\ "poll" \in ErrandSteps
    BY <2>2 DEF Shows, ErrandSteps
  <2>5. QED
    BY <2>1, <2>3, <2>4, VisitSound
<1>4. CASE SearchReads
  <2>1. /\ errand.kind = "search" /\ errand.step = "poll"
        /\ errand.report = "none" /\ SearchSound(errand, screen)
    BY <1>1, <1>4 DEF SearchReads, On, At, ErrandSound
  <2>2. PICK t \in {"nothing", "searching", "answer"} :
         /\ t = "answer" => screen.says
         /\ LET e == [errand EXCEPT !.read = t, !.shot = [shows |-> screen.shows, unsure |-> errand.lost \/ errand.stirred]] IN
            \/ t = "answer" /\ Goes([e EXCEPT !.step = "done", !.report = "ready"])
            \/ t # "answer" /\ errand.read # t /\ Goes(e)
    BY <1>4 DEF SearchReads
  <2>3. PICK o \in BOOLEAN : o = (errand.lost \/ errand.stirred)
    BY <1>1 DEF ErrandRecords
  <2>4. PICK shot \in Shots : shot = [shows |-> screen.shows, unsure |-> o]
    BY <1>1 DEF Shots, Screens
  <2>5. shot.shows = screen.shows /\ shot.unsure = o
    BY <2>4
  <2>6. PICK e : e = [errand EXCEPT !.read = t, !.shot = shot]
    OBVIOUS
  <2>7. /\ e \in ErrandRecords /\ e.kind = "search" /\ e.step = "poll" /\ e.report = "none"
        /\ e.read = t /\ e.shot = shot /\ e.url = errand.url
        /\ e.lost = errand.lost /\ e.stirred = errand.stirred
    BY <1>1, <2>1, <2>6 DEF ErrandRecords
  <2>8. ShotFits(e) /\ Arrived(e, screen) /\ e.url \in Pages
    BY <2>1, <2>3, <2>5, <2>7 DEF SearchSound, ShotFits, Arrived
  <2>9. CASE t = "answer" /\ Goes([e EXCEPT !.step = "done", !.report = "ready"])
    <3>1. PICK d : d = [e EXCEPT !.step = "done", !.report = "ready"]
      OBVIOUS
    <3>2. /\ d \in ErrandRecords /\ d.kind = "search" /\ d.step = "done" /\ d.report = "ready"
          /\ d.shot = e.shot /\ d.url = e.url
      BY <2>7, <3>1 DEF ErrandRecords, ErrandSteps, ErrandReports
    <3>3. ErrandSound(d, screen)
      BY <2>8, <3>2 DEF ErrandSound, SearchSound, ShotFits
    <3>4. QED
      BY <2>9, <3>1, <3>2, <3>3, ErrandGoes
  <2>10. CASE t # "answer" /\ Goes(e)
    <3>1. ErrandSound(e, screen)
      BY <2>7, <2>8, <2>10 DEF ErrandSound, SearchSound
    <3>2. QED
      BY <2>7, <2>10, <3>1, ErrandGoes
  <2>11. QED
    BY <2>2, <2>3, <2>4, <2>6, <2>9, <2>10
<1>5. CASE SearchExpires
  <2>1. /\ errand.kind = "search" /\ errand.step = "poll"
        /\ errand.report = "none" /\ SearchSound(errand, screen)
    BY <1>1, <1>5 DEF SearchExpires, On, At, ErrandSound
  <2>2. PICK r \in {"not_ready", "ready"} : r = IF errand.read = "nothing" THEN "not_ready" ELSE "ready"
    OBVIOUS
  <2>3. PICK e : e = [errand EXCEPT !.step = "done", !.report = r]
    OBVIOUS
  <2>4. /\ e \in ErrandRecords /\ e.kind = "search" /\ e.step = "done" /\ e.report = r
        /\ e.read = errand.read /\ e.url = errand.url
    BY <1>1, <2>1, <2>3 DEF ErrandRecords, ErrandSteps, ErrandReports
  <2>5. ErrandSound(e, screen)
    BY <2>1, <2>4 DEF ErrandSound, SearchSound
  <2>6. Goes(e)
    BY <1>5, <2>2, <2>3 DEF SearchExpires, ErrandEnds
  <2>7. QED
    BY <2>4, <2>5, <2>6, ErrandGoes
<1>6. QED
  BY <1>2, <1>3, <1>4, <1>5

-----------------------------------------------------------------------------
(* Pictures.                                                                 *)
LEMMA PictureFits ==
  ASSUME FlowsInv
  PROVE  /\ Picture \in Shots
         /\ Arrived(errand, screen) => Picture.shows = errand.url \/ Picture.unsure
<1>1. errand \in ErrandRecords /\ screen \in Screens
  BY DEF FlowsInv
<1>2. PICK o \in BOOLEAN : o = (errand.lost \/ errand.stirred)
  BY <1>1 DEF ErrandRecords
<1>3. Picture = [shows |-> screen.shows, unsure |-> o]
  BY <1>2 DEF Picture
<1>4. screen.shows \in Shows
  BY <1>1 DEF Screens
<1>5. QED
  BY <1>2, <1>3, <1>4 DEF Shots, Arrived

LEMMA VisualGoesKeeps ==
  ASSUME FlowsInv, VisualBegins \/ VisualFirst \/ VisualGoes
  PROVE  FlowsInv'
<1>1. errand \in ErrandRecords /\ ErrandSound(errand, screen) /\ screen \in Screens
  BY DEF FlowsInv
<1>2. CASE VisualBegins
  <2>1. PICK u \in Pages, k \in {"record", "compare"} :
          Goes([NoErrand EXCEPT !.kind = k, !.url = u, !.step = "first"])
    BY <1>2 DEF VisualBegins
  <2>2. PICK e : e = [NoErrand EXCEPT !.kind = k, !.url = u, !.step = "first"]
    OBVIOUS
  <2>3. /\ e \in ErrandRecords /\ e.kind = k /\ e.url = u /\ e.step = "first" /\ e.report = "none"
    BY <2>2, NoErrandSound DEF NoErrand, ErrandRecords, ErrandSteps, Shows
  <2>4. ErrandSound(e, screen)
    BY <2>3 DEF ErrandSound, VisualSound
  <2>5. QED
    BY <2>1, <2>2, <2>3, <2>4, ErrandGoes
<1>3. ASSUME NEW after \in {"go", "shoot"}, Visual, errand.step \in {"first", "go"},
             Visits(errand.url, after)
      PROVE  FlowsInv'
  <2>1. errand.kind \in {"record", "compare"}
    BY <1>3 DEF Visual
  <2>2. errand.url \in Pages /\ errand.report = "none"
    BY <1>1, <1>3, <2>1 DEF ErrandSound, VisualSound
  <2>3. ASSUME NEW e \in ErrandRecords, NEW p \in Screens,
               e.kind = errand.kind, e.url = errand.url, e.report = errand.report,
               e.read = errand.read, e.step = after, e.lost \/ p.shows = errand.url
        PROVE  ErrandSound(e, p)
    <3>1. VisualSound(e, p)
      BY <2>2, <2>3 DEF VisualSound, Arrived
    <3>2. QED
      BY <2>1, <2>2, <2>3, <3>1 DEF ErrandSound
  <2>4. errand.url \in Shows /\ after \in ErrandSteps
    BY <2>2 DEF Shows, ErrandSteps
  <2>5. QED
    BY <1>3, <2>1, <2>3, <2>4, VisitSound
<1>4. QED
  BY <1>2, <1>3 DEF VisualFirst, VisualGoes, At

LEMMA VisualShootsKeeps ==
  ASSUME FlowsInv, VisualShoots
  PROVE  FlowsInv'
<1>1. errand \in ErrandRecords /\ ErrandSound(errand, screen) /\ screen \in Screens
  BY DEF FlowsInv
<1>2. errand.kind \in {"record", "compare"} /\ errand.step = "shoot"
  BY DEF VisualShoots, Visual, At
<1>3. CASE Goes(ErrandEnds("failed"))
  BY <1>2, <1>3, ErrandEndsSound, ErrandGoes DEF On, ErrandReports
<1>4. CASE Goes([errand EXCEPT !.shot = Picture, !.step = "keep"])
  <2>1. VisualSound(errand, screen) /\ errand.report = "none"
    BY <1>1, <1>2 DEF ErrandSound
  <2>2. PICK e : e = [errand EXCEPT !.shot = Picture, !.step = "keep"]
    OBVIOUS
  <2>3. Picture \in Shots /\ (Picture.shows = errand.url \/ Picture.unsure)
    BY <1>2, <2>1, PictureFits DEF VisualSound
  <2>4. /\ e \in ErrandRecords /\ e.kind = errand.kind /\ e.url = errand.url /\ e.step = "keep"
        /\ e.report = "none" /\ e.shot = Picture
    BY <1>1, <2>1, <2>2, <2>3 DEF ErrandRecords, ErrandSteps
  <2>5. VisualSound(e, screen)
    BY <2>1, <2>3, <2>4 DEF VisualSound, ShotFits
  <2>6. ErrandSound(e, screen)
    BY <1>2, <2>4, <2>5 DEF ErrandSound
  <2>7. QED
    BY <1>4, <2>2, <2>4, <2>6, ErrandGoes
<1>5. QED
  BY <1>3, <1>4 DEF VisualShoots

LEMMA SaveBaselineKeeps ==
  ASSUME FlowsInv, SaveBaseline
  PROVE  FlowsInv'
<1>1. errand \in ErrandRecords /\ ErrandSound(errand, screen) /\ screen \in Screens
  BY DEF FlowsInv
<1>2. errand.kind = "record" /\ errand.step = "keep"
  BY DEF SaveBaseline, On, At
<1>3. ShotFits(errand) /\ errand.url \in Pages /\ errand.shot \in Shots
  BY <1>1, <1>2 DEF ErrandSound, VisualSound, ErrandRecords
<1>4. /\ baseline' \in [Pages -> Shots] /\ \A u \in Pages : baseline'[u].shows = u \/ baseline'[u].unsure
  BY <1>3 DEF SaveBaseline, FlowsInv, ShotFits
<1>5. errand' \in ErrandRecords /\ ErrandSound(errand', screen)
  BY <1>2, ErrandEndsSound DEF SaveBaseline, On, ErrandReports
<1>6. screen' = screen
  BY DEF SaveBaseline
<1>7. QED
  BY <1>1, <1>4, <1>5, <1>6 DEF FlowsInv

LEMMA CompareKeeps ==
  ASSUME FlowsInv, Compare
  PROVE  FlowsInv'
<1>1. errand \in ErrandRecords /\ ErrandSound(errand, screen) /\ screen \in Screens
  BY DEF FlowsInv
<1>2. errand.kind = "compare" /\ errand.step = "keep"
  BY DEF Compare, On, At
<1>3. ShotFits(errand) /\ errand.url \in Pages
  BY <1>1, <1>2 DEF ErrandSound, VisualSound
<1>4. PICK b \in Shots : b = baseline[errand.url]
  BY <1>3 DEF FlowsInv
<1>5. PICK r \in {"no_baseline", "pass", "fail"} :
        r = CASE b = NoShot -> "no_baseline"
              [] b # NoShot /\ b.shows = errand.shot.shows -> "pass"
              [] OTHER -> "fail"
  OBVIOUS
<1>6. PICK e : e = [errand EXCEPT !.step = "done", !.report = r, !.other = b]
  OBVIOUS
<1>7. Goes(e)
  <2>1. ErrandEnds(r) = [errand EXCEPT !.step = "done", !.report = r]
    BY DEF ErrandEnds
  <2>2. Goes([ErrandEnds(r) EXCEPT !.other = b])
    BY <1>4, <1>5 DEF Compare
  <2>3. [ErrandEnds(r) EXCEPT !.other = b] = e
    BY <1>1, <1>6, <2>1 DEF ErrandRecords
  <2>4. QED
    BY <2>2, <2>3
<1>8. /\ e \in ErrandRecords /\ e.kind = errand.kind /\ e.step = "done" /\ e.report = r
      /\ e.shot = errand.shot /\ e.url = errand.url
  <2>1. "done" \in ErrandSteps /\ r \in ErrandReports
    BY DEF ErrandSteps, ErrandReports
  <2>2. QED
    BY <1>1, <1>6, <2>1 DEF ErrandRecords
<1>9. VisualSound(e, screen)
  BY <1>3, <1>8 DEF VisualSound, ShotFits
<1>10. ErrandSound(e, screen)
  BY <1>2, <1>8, <1>9 DEF ErrandSound
<1>11. QED
  BY <1>7, <1>8, <1>10, ErrandGoes

LEMMA DeleteBaselineKeeps ==
  ASSUME FlowsInv, DeleteBaseline
  PROVE  FlowsInv'
<1>1. PICK u \in Pages : baseline' = [baseline EXCEPT ![u] = NoShot]
  BY DEF DeleteBaseline
<1>2. NoShot \in Shots /\ NoShot.unsure
  BY DEF NoShot, Shots
<1>3. screen' = screen /\ errand' = errand
  BY DEF DeleteBaseline
<1>4. QED
  BY <1>1, <1>2, <1>3 DEF FlowsInv

LEMMA DiffKeeps ==
  ASSUME FlowsInv, DiffBegins \/ DiffGoesA \/ DiffShootsA \/ DiffGoesB \/ DiffShootsB
  PROVE  FlowsInv'
<1>1. errand \in ErrandRecords /\ ErrandSound(errand, screen) /\ screen \in Screens
  BY DEF FlowsInv
<1>2. CASE DiffBegins
  <2>1. PICK u \in Pages, w \in Shows :
         Goes([NoErrand EXCEPT !.kind = "diff", !.url = u, !.step = "goA",
                               !.other = [shows |-> w, unsure |-> TRUE]])
    BY <1>2 DEF DiffBegins
  <2>2. PICK o \in Shots : o = [shows |-> w, unsure |-> TRUE]
    BY DEF Shots
  <2>3. PICK e : e = [NoErrand EXCEPT !.kind = "diff", !.url = u, !.step = "goA", !.other = o]
    OBVIOUS
  <2>4. e \in ErrandRecords /\ e.kind = "diff" /\ e.url = u /\ e.step = "goA" /\ e.report = "none"
        /\ e.other.shows = w
    BY <2>2, <2>3, NoErrandSound DEF NoErrand, ErrandRecords, ErrandSteps, Shows
  <2>5. ErrandSound(e, screen)
    BY <2>4 DEF ErrandSound
  <2>6. QED
    BY <2>1, <2>2, <2>3, <2>4, <2>5, ErrandGoes
<1>3. ASSUME ~DiffBegins
      PROVE  errand.kind = "diff" /\ errand.step # "done"
  BY <1>3 DEF DiffGoesA, DiffShootsA, DiffGoesB, DiffShootsB, On, At
<1>4. errand.kind = "diff" /\ errand.step # "done" => errand.url \in Pages /\ errand.report = "none"
  BY <1>1 DEF ErrandSound
<1>5. ASSUME NEW e \in ErrandRecords, ~DiffBegins, e.kind = "diff", e.url = errand.url,
             e.step \in {"shootA", "goB", "shootB"}, e.report = "none", NEW p,
             e.step = "shootB" \/ (errand.step \in {"goA", "shootA"} /\ e.other = errand.other)
      PROVE  ErrandSound(e, p)
  BY <1>1, <1>3, <1>4, <1>5 DEF ErrandSound
<1>6. ASSUME NEW u \in Shows, NEW after \in {"shootA", "shootB"}, Visits(u, after), ~DiffBegins,
             after = "shootB" \/ errand.step = "goA"
      PROVE  FlowsInv'
  <2>1. CASE /\ \E s \in BOOLEAN, c \in Controls :
                  screen' = [shows |-> u, says |-> s, control |-> c]
             /\ errand' = [errand EXCEPT !.step = after, !.stirred = FALSE, !.lost = FALSE]
             /\ UNCHANGED baseline
    <3>1. screen' \in Screens
      BY <2>1 DEF Screens
    <3>2. PICK e : e = [errand EXCEPT !.step = after, !.stirred = FALSE, !.lost = FALSE]
      OBVIOUS
    <3>3. e \in ErrandRecords /\ e.kind = "diff" /\ e.url = errand.url /\ e.step = after /\ e.report = "none"
          /\ e.other = errand.other
      BY <1>1, <1>3, <1>4, <1>6, <3>2 DEF ErrandRecords, ErrandSteps
    <3>4. ErrandSound(e, screen')
      BY <1>5, <1>6, <3>3
    <3>5. QED
      BY <2>1, <3>1, <3>2, <3>3, <3>4, ErrandMoves
  <2>2. CASE Goes([errand EXCEPT !.step = after, !.lost = TRUE])
    <3>1. PICK e : e = [errand EXCEPT !.step = after, !.lost = TRUE]
      OBVIOUS
    <3>2. e \in ErrandRecords /\ e.kind = "diff" /\ e.url = errand.url /\ e.step = after /\ e.report = "none"
          /\ e.other = errand.other
      BY <1>1, <1>3, <1>4, <1>6, <3>1 DEF ErrandRecords, ErrandSteps
    <3>3. ErrandSound(e, screen)
      BY <1>5, <1>6, <3>2
    <3>4. QED
      BY <2>2, <3>1, <3>2, <3>3, ErrandGoes
  <2>3. QED
    BY <1>6, <2>1, <2>2 DEF Visits
<1>7. CASE DiffGoesA /\ ~DiffBegins
  BY <1>3, <1>4, <1>6, <1>7 DEF DiffGoesA, Shows, At
<1>8. CASE DiffGoesB /\ ~DiffBegins
  <2>1. errand.other.shows \in Shows
    BY <1>1, <1>8 DEF DiffGoesB, ErrandSound, On, At
  <2>2. QED
    BY <1>6, <1>8, <2>1 DEF DiffGoesB
<1>9. CASE DiffShootsA /\ ~DiffBegins
  <2>1. PICK after \in {"shootB", "goB"} :
          Goes([errand EXCEPT !.shot = Picture, !.step = after])
    BY <1>9 DEF DiffShootsA
  <2>2. PICK e : e = [errand EXCEPT !.shot = Picture, !.step = after]
    OBVIOUS
  <2>3. e \in ErrandRecords /\ e.kind = "diff" /\ e.url = errand.url /\ e.step = after /\ e.report = "none"
        /\ e.other = errand.other
    BY <1>1, <1>3, <1>4, <1>9, <2>2, PictureFits DEF ErrandRecords, ErrandSteps
  <2>4. ErrandSound(e, screen)
    BY <1>5, <1>9, <2>3 DEF DiffShootsA, At
  <2>5. QED
    BY <2>1, <2>2, <2>3, <2>4, ErrandGoes
<1>10. CASE DiffShootsB /\ ~DiffBegins
  <2>1. CASE Goes(ErrandEnds("failed"))
    BY <1>3, <1>10, <2>1, ErrandEndsSound, ErrandGoes DEF On, ErrandReports
  <2>2. CASE Goes([ErrandEnds(IF errand.shot.shows = screen.shows THEN "pass" ELSE "fail")
                    EXCEPT !.other = Picture])
    <3>1. PICK r \in {"pass", "fail"} : r = IF errand.shot.shows = screen.shows THEN "pass" ELSE "fail"
      OBVIOUS
    <3>2. PICK e : e = [ErrandEnds(r) EXCEPT !.other = Picture]
      OBVIOUS
    <3>3. PICK d : d = ErrandEnds(r)
      OBVIOUS
    <3>4. /\ d \in ErrandRecords /\ d.kind = "diff" /\ d.url = errand.url /\ d.step = "done" /\ d.report = r
      <4>1. d = [errand EXCEPT !.step = "done", !.report = r]
        BY ONLY <3>3 DEF ErrandEnds
      <4>2. r \in ErrandReports /\ "done" \in ErrandSteps
        BY ONLY <3>1 DEF ErrandReports, ErrandSteps
      <4>3. errand.kind = "diff"
        BY <1>3, <1>10
      <4>4. QED
        BY ONLY <1>1, <4>1, <4>2, <4>3 DEF ErrandRecords
    <3>5. /\ e \in ErrandRecords /\ e.kind = "diff" /\ e.url = errand.url /\ e.step = "done" /\ e.report = r
      BY <3>2, <3>3, <3>4, PictureFits DEF ErrandRecords
    <3>6. ErrandSound(e, screen)
      BY <1>3, <1>4, <1>10, <3>5 DEF ErrandSound
    <3>7. QED
      BY <2>2, <3>1, <3>2, <3>5, <3>6, ErrandGoes
  <2>3. QED
    BY <1>10, <2>1, <2>2 DEF DiffShootsB
<1>11. QED
  BY <1>2, <1>7, <1>8, <1>9, <1>10

-----------------------------------------------------------------------------
(* The micro-task and the form.                                              *)
LEMMA TaskBeginsKeeps ==
  ASSUME FlowsInv, TaskBegins
  PROVE  FlowsInv'
<1>1. PICK halt \in BOOLEAN, step \in {"fill", "press"} :
         Goes([NoErrand EXCEPT !.kind = "task", !.halt = halt, !.control = screen.control,
                               !.step = step])
  BY DEF TaskBegins
<1>2. PICK c \in Controls : c = screen.control
  BY DEF FlowsInv, Screens
<1>3. PICK e : e = [NoErrand EXCEPT !.kind = "task", !.halt = halt, !.control = c, !.step = step]
  OBVIOUS
<1>4. /\ e \in ErrandRecords /\ e.kind = "task" /\ e.step = step /\ e.control = c
      /\ e.report = "none" /\ e.pressed = "none" /\ e.n = 0
  BY <1>3, NoErrandSound DEF NoErrand, ErrandRecords, ErrandSteps
<1>5. ErrandSound(e, screen)
  BY <1>2, <1>4 DEF ErrandSound, TaskSound, Stands
<1>6. QED
  BY <1>1, <1>2, <1>3, <1>4, <1>5, ErrandGoes

LEMMA TaskFillsKeeps ==
  ASSUME FlowsInv, TaskFills
  PROVE  FlowsInv'
<1>1. errand \in ErrandRecords /\ ErrandSound(errand, screen) /\ screen \in Screens
  BY DEF FlowsInv
<1>2. errand.kind = "task" /\ errand.step = "fill" /\ errand.report = "none"
      /\ TaskSound(errand, screen)
  BY <1>1 DEF TaskFills, On, At, ErrandSound
<1>3. screen' \in Screens
  BY <1>1, TurnedScreens DEF TaskFills
<1>4. PICK k \in {1, 2} : errand' = [errand EXCEPT !.step = "look", !.n = k]
  BY DEF TaskFills
<1>5. PICK e : e = [errand EXCEPT !.step = "look", !.n = k]
  OBVIOUS
<1>6. k \in 0..(MaxFlow + 1)
  BY AgentFlowsAssumption
<1>7. /\ e \in ErrandRecords /\ e.kind = "task" /\ e.step = "look" /\ e.n = k
      /\ e.report = "none" /\ e.pressed = errand.pressed
  BY <1>1, <1>2, <1>5, <1>6 DEF ErrandRecords, ErrandSteps
<1>8. ErrandSound(e, screen')
  BY <1>2, <1>7 DEF ErrandSound, TaskSound
<1>9. QED
  BY <1>3, <1>4, <1>5, <1>7, <1>8, ErrandMoves DEF TaskFills

LEMMA TaskLooksKeeps ==
  ASSUME FlowsInv, TaskLooks
  PROVE  FlowsInv'
<1>1. errand \in ErrandRecords /\ ErrandSound(errand, screen) /\ screen \in Screens
  BY DEF FlowsInv
<1>2. errand.kind = "task" /\ errand.step = "look" /\ errand.report = "none"
      /\ TaskSound(errand, screen)
  BY <1>1 DEF TaskLooks, On, At, ErrandSound
<1>3. PICK e : e = [errand EXCEPT !.control = screen.control, !.step = "press", !.stirred = FALSE]
  OBVIOUS
<1>4. screen.control \in Controls
  BY <1>1 DEF Screens
<1>5. /\ e \in ErrandRecords /\ e.kind = "task" /\ e.step = "press" /\ e.control = screen.control
      /\ e.report = "none" /\ e.pressed = errand.pressed /\ e.n = errand.n
  BY <1>1, <1>2, <1>3, <1>4 DEF ErrandRecords, ErrandSteps
<1>6. ErrandSound(e, screen)
  BY <1>2, <1>5 DEF ErrandSound, TaskSound, Stands
<1>7. QED
  BY <1>3, <1>5, <1>6, ErrandGoes DEF TaskLooks

LEMMA TaskPressesKeeps ==
  ASSUME FlowsInv, TaskPresses
  PROVE  FlowsInv'
<1>1. errand \in ErrandRecords /\ ErrandSound(errand, screen) /\ screen \in Screens
  BY DEF FlowsInv
<1>2. errand.kind = "task" /\ errand.step = "press" /\ errand.report = "none"
      /\ TaskSound(errand, screen)
  BY <1>1 DEF TaskPresses, On, At, ErrandSound
<1>3. \A e : TaskTells(e) \in {"stopped", "ok", "needs_attention"}
  BY DEF TaskTells
<1>4. ASSUME NEW r \in {"stopped", "ok", "needs_attention"}, NEW c \in Controls,
             c = "blocked" => errand.stirred,
             NEW p \in Screens, screen' = p, UNCHANGED baseline,
             errand' = [errand EXCEPT !.pressed = c, !.step = "done", !.report = r]
      PROVE  FlowsInv'
  <2>1. PICK e : e = [errand EXCEPT !.pressed = c, !.step = "done", !.report = r]
    OBVIOUS
  <2>2. /\ e \in ErrandRecords /\ e.kind = "task" /\ e.step = "done" /\ e.pressed = c
        /\ e.report = r /\ e.n = errand.n /\ e.stirred = errand.stirred
    BY <1>1, <1>2, <2>1 DEF ErrandRecords, ErrandSteps, ErrandReports
  <2>3. ErrandSound(e, p)
    BY <1>2, <1>4, <2>2 DEF ErrandSound, TaskSound
  <2>4. QED
    BY <1>4, <2>1, <2>2, <2>3, ErrandMoves
<1>5. CASE Judged(errand)
  <2>1. PICK n \in {1, 2} :
          errand' = [errand EXCEPT !.pressed = screen.control, !.step = "done",
                       !.report = TaskTells([errand EXCEPT !.n = IF @ = 0 \/ n = 2 THEN n ELSE @])]
    BY <1>5 DEF TaskPresses
  <2>2. PICK r \in {"stopped", "ok", "needs_attention"} :
          r = TaskTells([errand EXCEPT !.n = IF @ = 0 \/ n = 2 THEN n ELSE @])
    BY <1>3
  <2>3. screen' \in Screens /\ UNCHANGED baseline
    BY <1>1, <1>5, TurnedScreens DEF TaskPresses
  <2>4. screen.control \in Controls /\ (screen.control = "blocked" => errand.stirred)
    BY <1>1, <1>2, <1>5 DEF Judged, Screens, TaskSound, Stands
  <2>5. QED
    BY <1>4, <2>1, <2>2, <2>3, <2>4
<1>6. CASE ~Judged(errand)
  <2>1. PICK r \in {"stopped", "ok", "needs_attention"} : r = TaskTells(errand)
    BY <1>3
  <2>2. PICK e : e = [errand EXCEPT !.step = "done", !.report = r]
    OBVIOUS
  <2>3. Goes(e)
    BY <1>6, <2>1, <2>2 DEF TaskPresses, ErrandEnds
  <2>4. /\ e \in ErrandRecords /\ e.kind = "task" /\ e.step = "done" /\ e.pressed = errand.pressed
        /\ e.report = r /\ e.n = errand.n /\ e.stirred = errand.stirred
    BY <1>1, <1>2, <2>2 DEF ErrandRecords, ErrandSteps, ErrandReports
  <2>5. ErrandSound(e, screen)
    BY <1>2, <2>4 DEF ErrandSound, TaskSound
  <2>6. QED
    BY <2>3, <2>4, <2>5, ErrandGoes
<1>7. QED
  BY <1>5, <1>6

LEMMA FormsKeep ==
  ASSUME FlowsInv, FormsDiscover \/ FormsFill
  PROVE  FlowsInv'
<1>1. errand \in ErrandRecords /\ ErrandSound(errand, screen) /\ screen \in Screens
  BY DEF FlowsInv
<1>2. screen.control \in Controls
  BY <1>1 DEF Screens
<1>3. CASE FormsDiscover
  <2>1. PICK e : e = [NoErrand EXCEPT !.kind = "form", !.control = screen.control, !.step = "form"]
    OBVIOUS
  <2>2. /\ e \in ErrandRecords /\ e.kind = "form" /\ e.step = "form" /\ e.control = screen.control
        /\ e.report = "none" /\ e.pressed = "none"
    BY <1>2, <2>1, NoErrandSound DEF NoErrand, ErrandRecords, ErrandSteps
  <2>3. ErrandSound(e, screen)
    BY <2>2 DEF ErrandSound, FormSound, Stands
  <2>4. QED
    BY <1>3, <2>1, <2>2, <2>3, ErrandGoes DEF FormsDiscover
<1>4. CASE FormsFill
  <2>1. errand.kind = "form" /\ errand.step = "form" /\ FormSound(errand, screen)
    BY <1>1, <1>4 DEF FormsFill, On, At, ErrandSound
  <2>2. CASE screen.control = "none"
    BY <1>4, <2>1, <2>2, ErrandEndsSound, ErrandGoes DEF FormsFill, On, ErrandReports
  <2>3. CASE screen.control # "none"
    <3>1. PICK r \in {"ok", "needs_attention"} :
            errand' = [ErrandEnds(r) EXCEPT !.pressed = screen.control]
      BY <1>4, <2>3 DEF FormsFill
    <3>2. PICK d : d = ErrandEnds(r)
      OBVIOUS
    <3>3. PICK e : e = [d EXCEPT !.pressed = screen.control]
      OBVIOUS
    <3>4. /\ d \in ErrandRecords /\ d.kind = "form" /\ d.step = "done" /\ d.report = r
          /\ d.control = errand.control /\ d.stirred = errand.stirred
      BY <1>1, <2>1, <3>2 DEF ErrandEnds, ErrandRecords, ErrandSteps, ErrandReports
    <3>5. /\ e \in ErrandRecords /\ e.kind = "form" /\ e.step = "done" /\ e.report = r
          /\ e.control = errand.control /\ e.stirred = errand.stirred /\ e.pressed = screen.control
      BY <1>2, <3>3, <3>4 DEF ErrandRecords
    <3>6. screen' \in Screens /\ UNCHANGED baseline
      BY <1>1, <1>4, <2>3, TurnedScreens DEF FormsFill
    <3>7. ErrandSound(e, screen')
      BY <2>1, <3>5 DEF ErrandSound, FormSound, Stands
    <3>8. QED
      BY <3>1, <3>2, <3>3, <3>5, <3>6, <3>7, ErrandMoves
  <2>4. QED
    BY <2>2, <2>3
<1>5. QED
  BY <1>3, <1>4

-----------------------------------------------------------------------------
LEMMA PageGoesOnKeeps ==
  ASSUME FlowsInv, PageGoesOn
  PROVE  FlowsInv'
<1>1. errand \in ErrandRecords /\ ErrandSound(errand, screen) /\ screen \in Screens
      /\ errand.step # "done" /\ errand.step # "idle"
  BY DEF FlowsInv, PageGoesOn
<1>2. PICK p \in Turned : screen' = p /\ errand' = [Seen(errand, p) EXCEPT !.stirred = TRUE]
  BY DEF PageGoesOn
<1>3. p \in Screens
  BY <1>1, <1>2, TurnedScreens
<1>4. PICK o \in BOOLEAN : o = (errand.saw \/ p.says = errand.cond)
  BY <1>1 DEF ErrandRecords
<1>5. PICK d : d = Seen(errand, p)
  OBVIOUS
<1>6. d = [errand EXCEPT !.saw = o]
  BY <1>4, <1>5 DEF Seen
<1>7. PICK e : e = [d EXCEPT !.stirred = TRUE]
  OBVIOUS
<1>8. d \in ErrandRecords
  BY <1>1, <1>6 DEF ErrandRecords
<1>9. /\ d.kind = errand.kind /\ d.step = errand.step /\ d.report = errand.report
      /\ d.url = errand.url /\ d.n = errand.n /\ d.failedAt = errand.failedAt /\ d.stop = errand.stop
      /\ d.by = errand.by /\ d.cond = errand.cond /\ d.saw = o /\ d.read = errand.read
      /\ d.shot = errand.shot /\ d.other = errand.other /\ d.pressed = errand.pressed
      /\ d.control = errand.control
  BY <1>1, <1>6 DEF ErrandRecords
<1>10. e \in ErrandRecords /\ e.stirred
  BY <1>7, <1>8 DEF ErrandRecords
<1>11. /\ e.kind = errand.kind /\ e.step = errand.step /\ e.report = errand.report
       /\ e.url = errand.url /\ e.n = errand.n /\ e.failedAt = errand.failedAt /\ e.stop = errand.stop
       /\ e.by = errand.by /\ e.cond = errand.cond /\ e.saw = o /\ e.read = errand.read
       /\ e.shot = errand.shot /\ e.other = errand.other /\ e.pressed = errand.pressed
       /\ e.control = errand.control
  BY <1>7, <1>8, <1>9 DEF ErrandRecords
<1>12. errand.report = "none"
  BY <1>1 DEF ErrandSound
<1>13. e.kind = "flow" => FlowSound(e)
  BY <1>1, <1>11 DEF ErrandSound, FlowSound
<1>14. e.kind = "expect" => ExpectSound(e, p)
  BY <1>1, <1>4, <1>11, <1>12 DEF ErrandSound, ExpectSound
<1>15. e.kind = "search" => SearchSound(e, p)
  BY <1>1, <1>10, <1>11, <1>12 DEF ErrandSound, SearchSound, Arrived
<1>16. e.kind \in {"record", "compare"} => VisualSound(e, p)
  BY <1>1, <1>10, <1>11, <1>12 DEF ErrandSound, VisualSound, Arrived, ShotFits
<1>17. e.kind = "task" => TaskSound(e, p)
  BY <1>1, <1>10, <1>11 DEF ErrandSound, TaskSound, Stands
<1>18. e.kind = "form" => FormSound(e, p)
  BY <1>1, <1>10, <1>11 DEF ErrandSound, FormSound, Stands
<1>19. ErrandSound(e, p)
  BY <1>1, <1>11, <1>12, <1>13, <1>14, <1>15, <1>16, <1>17, <1>18 DEF ErrandSound
<1>20. UNCHANGED baseline
  BY DEF PageGoesOn
<1>21. QED
  BY <1>2, <1>3, <1>5, <1>7, <1>10, <1>19, <1>20, ErrandMoves

LEMMA FlowsStep ==
  ASSUME FlowsInv, [FlowsNext]_flowVars
  PROVE  FlowsInv'
<1>1. CASE FlowBegins \/ TemplateBegins \/ (\E a \in FlowActions : FlowStep(a)) \/ FlowExpects
  BY <1>1, FlowBeginsKeeps, FlowStepKeeps, FlowExpectsKeeps
<1>2. CASE \/ ExpectBegins \/ ExpectMatches \/ ExpectExpires
           \/ SearchBegins \/ SearchGoes \/ SearchReads \/ SearchExpires
  BY <1>2, ExpectKeeps, SearchKeeps
<1>3. CASE \/ VisualBegins \/ VisualFirst \/ VisualGoes \/ VisualShoots \/ SaveBaseline \/ Compare
           \/ DeleteBaseline
  BY <1>3, VisualGoesKeeps, VisualShootsKeeps, SaveBaselineKeeps, CompareKeeps, DeleteBaselineKeeps
<1>4. CASE DiffBegins \/ DiffGoesA \/ DiffShootsA \/ DiffGoesB \/ DiffShootsB
  BY <1>4, DiffKeeps
<1>5. CASE TaskBegins \/ TaskFills \/ TaskLooks \/ TaskPresses \/ FormsDiscover \/ FormsFill
  BY <1>5, TaskBeginsKeeps, TaskFillsKeeps, TaskLooksKeeps, TaskPressesKeeps, FormsKeep
<1>6. CASE ErrandFails \/ PageGoesOn
  BY <1>6, ErrandFailsKeeps, PageGoesOnKeeps
<1>7. CASE ErrandAnswered
  BY <1>7, NoErrandSound, ErrandGoes DEF ErrandAnswered
<1>8. CASE UNCHANGED flowVars
  BY <1>8 DEF flowVars, FlowsInv
<1>9. QED
  BY <1>1, <1>2, <1>3, <1>4, <1>5, <1>6, <1>7, <1>8 DEF FlowsNext

LEMMA FlowsStart ==
  ASSUME FlowsInit
  PROVE  FlowsInv
<1>1. NoShot \in Shots /\ NoShot.unsure
  BY DEF NoShot, Shots
<1>2. screen \in Screens
  BY DEF FlowsInit, Screens, Shows, Controls
<1>3. QED
  BY <1>1, <1>2, NoErrandSound DEF FlowsInit, FlowsInv

LEMMA ErrandsTell ==
  ASSUME FlowsInv
  PROVE  ErrandsHold
<1>1. errand \in ErrandRecords /\ ErrandSound(errand, screen)
  BY DEF FlowsInv
<1>2. On("flow") /\ At("done") => (errand.report = "ok") = (errand.failedAt = 0)
  BY <1>1 DEF ErrandSound, FlowSound, On, At
<1>3. On("flow") /\ errand.stop /\ errand.failedAt > 0 => At("done") /\ errand.n = errand.failedAt
  BY <1>1 DEF ErrandSound, FlowSound, On, At
<1>4. errand.report = "matched" => errand.saw \/ errand.by = "snapshot"
  BY <1>1 DEF ErrandSound, ExpectSound
<1>5. errand.report = "ready" /\ errand.read = "answer" =>
         errand.shot.shows = errand.url \/ errand.shot.unsure
  BY <1>1 DEF ErrandSound, SearchSound, ShotFits
<1>6. \A u \in Pages : baseline[u].shows = u \/ baseline[u].unsure
  BY DEF FlowsInv
<1>7. On("compare") /\ errand.report = "pass" =>
         errand.other.unsure \/ errand.shot.unsure \/ errand.shot.shows = errand.url
  BY <1>1 DEF ErrandSound, VisualSound, ShotFits, On
<1>8. On("task") /\ errand.pressed = "blocked" => errand.stirred
  BY <1>1 DEF ErrandSound, TaskSound, On
<1>9. On("form") /\ errand.pressed # "none" => errand.pressed = errand.control \/ errand.stirred
  BY <1>1 DEF ErrandSound, FormSound, On
<1>10. QED
  BY <1>2, <1>3, <1>4, <1>5, <1>6, <1>7, <1>8, <1>9 DEF ErrandsHold

(* Whatever the page does between the steps, an errand reports what came of  *)
(* them, with the exceptions ErrandsHold names (agent_run_flow, agent_expect,*)
(* agent_search, agent_visual_regression, agent_execute_task).               *)
THEOREM ErrandsAreTold == FlowsInit /\ [][FlowsNext]_flowVars => []ErrandsHold
BY FlowsStart, FlowsStep, ErrandsTell, PTL

LEMMA FlowsTypes == FlowsInit /\ [][FlowsNext]_flowVars => []FlowsTypeOK
<1>1. ASSUME FlowsInv
      PROVE  FlowsTypeOK
  <2>1. \A u \in Pages : baseline[u] \in Shots
    BY <1>1 DEF FlowsInv
  <2>2. screen \in Screens /\ errand \in ErrandRecords
    BY <1>1 DEF FlowsInv
  <2>3. QED
    BY <2>1, <2>2 DEF Shots, Screens, ErrandRecords, FlowsTypeOK
<1>2. QED
  BY FlowsStart, FlowsStep, <1>1, PTL

-----------------------------------------------------------------------------
(* The types, which the invariants above leave out: of the clients that are  *)
(* told first.                                                               *)
LEMMA WalkTyped ==
  ASSUME NEW w, w \subseteq WsPeers
  PROVE  [left |-> w, size |-> Cardinality(w), stale |-> {}]
           \in [left : SUBSET WsPeers, size : 0..Cardinality(WsPeers), stale : SUBSET WsPeers]
<1>1. Cardinality(w) \in Nat /\ Cardinality(WsPeers) \in Nat /\ Cardinality(w) <= Cardinality(WsPeers)
  BY BroadcastAssumption, FS_Subset, FS_CardinalityType
<1>2. QED
  BY <1>1

LEMMA BroadcastStart == BroadcastInit => BroadcastTypeOK
<1>1. NoWalk = [left |-> {}, size |-> 0, stale |-> {}] /\ Cardinality(WsPeers) \in Nat
  BY BroadcastAssumption, FS_CardinalityType DEF NoWalk
<1>2. QED
  BY <1>1 DEF BroadcastInit, BroadcastTypeOK

LEMMA BroadcastStep == BroadcastTypeOK /\ [BroadcastNext]_broadcastVars => BroadcastTypeOK'
<1> SUFFICES ASSUME BroadcastTypeOK, [BroadcastNext]_broadcastVars
             PROVE  BroadcastTypeOK'
  OBVIOUS
<1>1. /\ NoWalk \in [left : SUBSET WsPeers, size : 0..Cardinality(WsPeers), stale : SUBSET WsPeers]
      /\ [left |-> wsClients, size |-> Cardinality(wsClients), stale |-> {}]
           \in [left : SUBSET WsPeers, size : 0..Cardinality(WsPeers), stale : SUBSET WsPeers]
  <2>1. Cardinality(WsPeers) \in Nat
    BY BroadcastAssumption, FS_CardinalityType
  <2>2. NoWalk \in [left : SUBSET WsPeers, size : 0..Cardinality(WsPeers), stale : SUBSET WsPeers]
    BY <2>1 DEF NoWalk
  <2>3. wsClients \subseteq WsPeers
    BY DEF BroadcastTypeOK
  <2>4. QED
    BY <2>2, <2>3, WalkTyped
<1>2. ASSUME NEW c \in WsPeers,
             \/ WsConnects(c) \/ WsDrops(c) \/ HelloEnds(c)
             \/ WsActs(c) \/ WsActionEnds(c) \/ WsDisconnects(c)
      PROVE  BroadcastTypeOK'
  <2>1. op' = op /\ walk' = walk /\ wsClients' \subseteq WsPeers /\ up' \subseteq WsPeers
    BY <1>2 DEF BroadcastTypeOK, Becomes, Leaves,
       WsConnects, WsDrops, HelloEnds, WsActs, WsActionEnds, WsDisconnects
  <2>2. churned' \subseteq Ops
    BY <1>2 DEF BroadcastTypeOK, Becomes, Leaves, Telling,
       WsConnects, WsDrops, HelloEnds, WsActs, WsActionEnds, WsDisconnects
  <2>3. handler' \in [WsPeers -> {"none", "hello", "loop", "acting"}]
    BY <1>2 DEF BroadcastTypeOK, Leaves,
       WsConnects, WsDrops, HelloEnds, WsActs, WsActionEnds, WsDisconnects
  <2>4. QED
    BY <2>1, <2>2, <2>3 DEF BroadcastTypeOK
<1>3. ASSUME NEW o \in Ops, OpBegins(o) \/ MethodEnds(o) \/ TellsLast(o) \/ WalkBreaks(o)
      PROVE  BroadcastTypeOK'
  <2>1. /\ wsClients' \subseteq WsPeers /\ churned' \subseteq Ops
        /\ up' = up /\ handler' = handler
    BY <1>3 DEF BroadcastTypeOK, Telling, OpBegins, MethodEnds, TellsLast, WalkBreaks, peerVars
  <2>2. op' \in [Ops -> {"idle", "running", "tells success", "tells error"}]
    BY <1>3 DEF BroadcastTypeOK, OpBegins, MethodEnds, TellsLast, WalkBreaks, Walks
  <2>3. walk' \in [Ops -> [left : SUBSET WsPeers, size : 0..Cardinality(WsPeers), stale : SUBSET WsPeers]]
    BY <1>1, <1>3 DEF BroadcastTypeOK, OpBegins, MethodEnds, TellsLast, WalkBreaks, Walks
  <2>4. QED
    BY <2>1, <2>2, <2>3 DEF BroadcastTypeOK
<1>4. ASSUME NEW o \in Ops, Tells(o)
      PROVE  BroadcastTypeOK'
  <2>1. PICK c \in wsClients : walk' = [walk EXCEPT ![o].left = @ \ {c},
                                                    ![o].stale = IF c \in up THEN @ ELSE @ \cup {c}]
    BY <1>4 DEF Tells
  <2>2. PICK w \in [left : SUBSET WsPeers, size : 0..Cardinality(WsPeers), stale : SUBSET WsPeers] :
            w = walk[o]
    BY DEF BroadcastTypeOK
  <2>3. PICK n \in 0..Cardinality(WsPeers) : n = w.size
    BY <2>2
  <2>4. PICK left \in SUBSET WsPeers, stale \in SUBSET WsPeers :
            left = w.left \ {c} /\ stale = IF c \in up THEN w.stale ELSE w.stale \cup {c}
    <3>1. w.left \in SUBSET WsPeers /\ w.stale \in SUBSET WsPeers /\ c \in WsPeers
      BY <2>1, <2>2 DEF BroadcastTypeOK
    <3>2. QED
      BY <3>1
  <2>5. PICK v : v = [left |-> left, size |-> n, stale |-> stale]
    OBVIOUS
  <2>6. walk' = [walk EXCEPT ![o] = v]
    <3>1. DOMAIN walk = Ops /\ walk = [p \in Ops |-> walk[p]]
      BY DEF BroadcastTypeOK
    <3>2. w = [left |-> w.left, size |-> w.size, stale |-> w.stale]
      BY <2>2
    <3>3. walk' = [walk EXCEPT ![o] = [[w EXCEPT !.left = left] EXCEPT !.stale = stale]]
      BY <2>1, <2>2, <2>4, <3>1, <3>2
    <3>4. [[w EXCEPT !.left = left] EXCEPT !.stale = stale] = v
      <4>1. PICK u : u = [w EXCEPT !.left = left]
        OBVIOUS
      <4>2. u = [left |-> left, size |-> w.size, stale |-> w.stale]
        BY ONLY <3>2, <4>1
      <4>3. [u EXCEPT !.stale = stale] = [left |-> left, size |-> w.size, stale |-> stale]
        BY ONLY <4>2
      <4>4. QED
        BY ONLY <2>3, <2>5, <4>1, <4>3
    <3>5. QED
      BY <3>3, <3>4
  <2>7. walk' \in [Ops -> [left : SUBSET WsPeers, size : 0..Cardinality(WsPeers), stale : SUBSET WsPeers]]
    <3>1. v \in [left : SUBSET WsPeers, size : 0..Cardinality(WsPeers), stale : SUBSET WsPeers]
      BY <2>5
    <3>2. QED
      BY <2>6, <3>1 DEF BroadcastTypeOK
  <2>8. QED
    BY <1>4, <2>7 DEF BroadcastTypeOK, Tells, peerVars
<1>5. CASE UNCHANGED broadcastVars
  BY <1>5 DEF broadcastVars, peerVars, BroadcastTypeOK
<1>6. QED
  BY <1>2, <1>3, <1>4, <1>5 DEF BroadcastNext

LEMMA BroadcastTypes == BroadcastInit /\ [][BroadcastNext]_broadcastVars => []BroadcastTypeOK
BY BroadcastStart, BroadcastStep, PTL

(* Requests that Chrome has paused.                                          *)
LEMMA FetchStart == FetchInit => FetchTypeOK
BY DEF FetchInit, FetchTypeOK

LEMMA FetchStep == FetchTypeOK /\ [FetchNext]_fetchVars => FetchTypeOK'
<1> SUFFICES ASSUME FetchTypeOK, [FetchNext]_fetchVars
             PROVE  FetchTypeOK'
  OBVIOUS
<1>1. Released \in [Loads -> {"none", "paused"} \cup Outcomes]
  BY DEF Released, Paused, FetchTypeOK, Outcomes
<1>2. ASSUME NEW c \in Setters, NEW matched \in SUBSET Loads, SetMocks(c, matched) \/ SetBlocks(c, matched)
      PROVE  FetchTypeOK'
  <2>1. /\ requestMocks' \subseteq Loads /\ blockPatterns' \subseteq Loads
        /\ fetchEnabled' = fetchEnabled /\ fetchDomain' \in BOOLEAN
        /\ events' = events /\ handlers' = handlers /\ unanswered' \subseteq Loads
        /\ refused' \subseteq Loads
    BY <1>2 DEF FetchTypeOK, SetMocks, SetBlocks, Enable, Disable, pageVars
  <2>2. phase' \in [Loads -> {"none", "paused"} \cup Outcomes]
    BY <1>1, <1>2 DEF FetchTypeOK, SetMocks, SetBlocks, Enable, Disable, pageVars
  <2>3. setter' \in [Setters -> {"idle", "enabling", "disabling"}]
    BY <1>2 DEF FetchTypeOK, SetMocks, SetBlocks, Enable, Disable
  <2>4. QED
    BY <2>1, <2>2, <2>3 DEF FetchTypeOK
<1>3. ASSUME NEW c \in Setters, SetterReturns(c)
      PROVE  FetchTypeOK'
  BY <1>3 DEF FetchTypeOK, SetterReturns, patternVars, pageVars
<1>4. CASE Reconnects
  BY <1>1, <1>4 DEF FetchTypeOK, Reconnects, patternVars
<1>5. ASSUME NEW r \in Loads, PageRequests(r) \/ ListenerHears(r)
      PROVE  FetchTypeOK'
  <2>1. phase' \in [Loads -> {"none", "paused"} \cup Outcomes]
    BY <1>5 DEF FetchTypeOK, PageRequests, ListenerHears, Outcomes
  <2>2. QED
    BY <1>5, <2>1 DEF FetchTypeOK, PageRequests, ListenerHears, patternVars
<1>6. ASSUME NEW r \in Loads, Handles(r) \/ HandlingFails(r)
      PROVE  FetchTypeOK'
  <2>1. Verdict(r) \in {"none", "paused"} \cup Outcomes
    BY DEF Verdict, Outcomes
  <2>2. phase' \in [Loads -> {"none", "paused"} \cup Outcomes]
    BY <1>6, <2>1 DEF FetchTypeOK, Handles, HandlingFails
  <2>3. QED
    BY <1>6, <2>2 DEF FetchTypeOK, Handles, HandlingFails, patternVars
<1>7. CASE UNCHANGED fetchVars
  BY <1>7 DEF fetchVars, patternVars, pageVars, FetchTypeOK
<1>8. QED
  BY <1>2, <1>3, <1>4, <1>5, <1>6, <1>7 DEF FetchNext

LEMMA FetchTypes == FetchInit /\ [][FetchNext]_fetchVars => []FetchTypeOK
BY FetchStart, FetchStep, PTL

(* The agents: what they record stays within the bound on steps.             *)
AgentLimits ==
    /\ act \in [Agents -> [runs : BOOLEAN, kind : Kinds, pinned : SnapshotIds \cup {None}]]
    /\ active \in Recordings \cup {None}
    /\ steps \in [Recordings -> 0..MaxSteps]
    /\ replay \in [Agents -> [of : Recordings \cup {None}, left : 0..MaxSteps]]

LEMMA AgentLimitsStart == AgentInit => AgentLimits
BY AgentAssumption DEF AgentInit, AgentLimits, NoAct, NoReplay, Kinds

LEMMA RecordStepFits ==
  ASSUME AgentLimits, NEW replayed, RecordStep(replayed),
         \A a \in Agents : a \in replayed => replay[a].left > 0
  PROVE  /\ steps' \in [Recordings -> 0..MaxSteps]
         /\ replay' \in [Agents -> [of : Recordings \cup {None}, left : 0..MaxSteps]]
<1>1. \A n \in 0..MaxSteps : Longer(n) \in 0..MaxSteps
  BY AgentAssumption DEF Longer
<1>2. steps' \in [Recordings -> 0..MaxSteps]
  BY <1>1 DEF AgentLimits, RecordStep
<1>3. ASSUME NEW a \in Agents
      PROVE  replay'[a] \in [of : Recordings \cup {None}, left : 0..MaxSteps]
  <2>1. PICK r \in [of : Recordings \cup {None}, left : 0..MaxSteps] : r = replay[a]
    BY DEF AgentLimits
  <2>2. PICK n : n = IF a \in replayed THEN IF Listens(a) THEN r.left ELSE r.left - 1
                     ELSE IF Listens(a) THEN Longer(r.left) ELSE r.left
    OBVIOUS
  <2>3. n \in 0..MaxSteps
    <3>1. r.left \in 0..MaxSteps /\ (a \in replayed => r.left > 0)
      BY <2>1
    <3>2. Longer(r.left) \in 0..MaxSteps
      BY <1>1, <3>1
    <3>3. QED
      BY ONLY <2>2, <3>1, <3>2, AgentAssumption
  <2>4. replay'[a] = [r EXCEPT !.left = n]
    BY <2>1, <2>2 DEF RecordStep
  <2>5. QED
    BY <2>1, <2>3, <2>4
<1>4. DOMAIN replay' = Agents /\ replay' = [a \in Agents |-> replay'[a]]
  BY DEF RecordStep
<1>5. QED
  BY <1>2, <1>3, <1>4

LEMMA AgentLimitsStep == AgentLimits /\ [AgentNext]_agentVars => AgentLimits'
<1> SUFFICES ASSUME AgentLimits, [AgentNext]_agentVars
             PROVE  AgentLimits'
  OBVIOUS
<1>1. CASE UNCHANGED <<act, recordVars>>
  BY <1>1 DEF recordVars, AgentLimits
<1>2. ASSUME NEW a \in Agents, NEW k \in Kinds, NEW s \in SnapshotIds, ActPins(a, k, s)
      PROVE  AgentLimits'
  BY <1>2 DEF ActPins, recordVars, AgentLimits
<1>3. ASSUME NEW a \in Agents, NEW ok \in BOOLEAN, ActEnds(a, ok)
      PROVE  AgentLimits'
  <2>1. act' \in [Agents -> [runs : BOOLEAN, kind : Kinds, pinned : SnapshotIds \cup {None}]]
    BY <1>3 DEF ActEnds, AgentLimits, NoAct, Kinds
  <2>2. /\ steps' \in [Recordings -> 0..MaxSteps]
        /\ replay' \in [Agents -> [of : Recordings \cup {None}, left : 0..MaxSteps]]
    BY <1>3, RecordStepFits DEF ActEnds, AgentLimits
  <2>3. QED
    BY <1>3, <2>1, <2>2 DEF ActEnds, AgentLimits
<1>4. ASSUME NEW a \in Agents, ReplayActs(a)
      PROVE  AgentLimits'
  <2>1. /\ steps' \in [Recordings -> 0..MaxSteps]
        /\ replay' \in [Agents -> [of : Recordings \cup {None}, left : 0..MaxSteps]]
    BY <1>4, RecordStepFits DEF ReplayActs
  <2>2. QED
    BY <1>4, <2>1 DEF ReplayActs, AgentLimits
<1>5. ASSUME NEW a \in Agents, ReplayFails(a)
      PROVE  AgentLimits'
  <2>1. PICK r \in [of : Recordings \cup {None}, left : 0..MaxSteps] : r = replay[a]
    BY DEF AgentLimits
  <2>2. PICK left \in {0, r.left - 1} : replay' = [replay EXCEPT ![a].left = left]
    BY <1>5, <2>1 DEF ReplayFails
  <2>3. left \in 0..MaxSteps
    BY <1>5, <2>1, <2>2, AgentAssumption DEF ReplayFails
  <2>4. replay' = [replay EXCEPT ![a] = [r EXCEPT !.left = left]]
    BY <2>1, <2>2 DEF AgentLimits
  <2>5. [r EXCEPT !.left = left] \in [of : Recordings \cup {None}, left : 0..MaxSteps]
    BY <2>1, <2>3
  <2>6. replay' \in [Agents -> [of : Recordings \cup {None}, left : 0..MaxSteps]]
    BY <2>4, <2>5 DEF AgentLimits
  <2>7. QED
    BY <1>5, <2>6 DEF ReplayFails, AgentLimits
<1>6. ASSUME NEW a \in Agents, NEW r \in Recordings, ReplayStarts(a, r)
      PROVE  AgentLimits'
  <2>1. [of |-> r, left |-> steps[r]] \in [of : Recordings \cup {None}, left : 0..MaxSteps]
    BY DEF AgentLimits
  <2>2. QED
    BY <1>6, <2>1 DEF ReplayStarts, AgentLimits
<1>7. ASSUME NEW a \in Agents, ReplayEnds(a)
      PROVE  AgentLimits'
  <2>1. NoReplay \in [of : Recordings \cup {None}, left : 0..MaxSteps]
    BY AgentAssumption DEF NoReplay
  <2>2. QED
    BY <1>7, <2>1 DEF ReplayEnds, AgentLimits
<1>8. CASE RecordStops \/ \E r \in Recordings : RecordStarts(r)
  BY <1>8 DEF RecordStops, RecordStarts, AgentLimits
<1>9. ASSUME \/ \E k \in Kinds : Observe(k)
             \/ \E s \in SnapshotIds : Ages(s) \/ AskForOld(s)
      PROVE  AgentLimits'
  BY <1>1, <1>9 DEF Observe, Ages, AskForOld
<1>10. CASE UNCHANGED agentVars
  BY <1>1, <1>10 DEF agentVars
<1>11. QED
  BY <1>2, <1>3, <1>4, <1>5, <1>6, <1>7, <1>8, <1>9, <1>10 DEF AgentNext

LEMMA AgentTyped == RuntimeInv /\ AgentLimits => AgentTypeOK
<1> SUFFICES ASSUME RuntimeInv, AgentLimits
             PROVE  AgentTypeOK
  OBVIOUS
<1>1. ASSUME NEW k \in Kinds, NEW s \in SnapshotIds
      PROVE  Cardinality(Holders(act, k, s)) \in 0..Cardinality(Agents)
  <2>1. Holders(act, k, s) \in SUBSET Agents
    BY DEF Holders
  <2>2. QED
    BY <2>1, AgentAssumption, FS_Subset, FS_CardinalityType
<1>2. pins \in [Kinds -> [SnapshotIds -> 0..Cardinality(Agents)]]
  BY <1>1 DEF RuntimeInv, PinsCounted
<1>3. QED
  BY <1>2 DEF RuntimeInv, AgentLimits, AgentTypeOK

LEMMA AgentTypes == AgentInit /\ [][AgentNext]_agentVars => []AgentTypeOK
BY RuntimeStart, RuntimeStep, AgentLimitsStart, AgentLimitsStep, AgentTyped, PTL

=============================================================================

----------------------------- MODULE MCProgress -----------------------------
(***************************************************************************)
(* The components in which somebody waits for somebody else, in one finite *)
(* instance for TLC: what they never do, and what has to come to its end.  *)
(* They share no state with each other, so they are not interleaved: a     *)
(* behaviour is one of the component `part` names, while the others stay   *)
(* as they were at the start.  The state space is the sum of theirs.       *)
(***************************************************************************)
EXTENDS CdpClient, ChromeLaunch, Interception, Headless, AgentRuntime,
        StateBroadcast, PageWaits, MCOnePart

progressVars ==
    <<part, cdpVars, chromeVars, fetchVars, headlessVars, agentVars,
      broadcastVars, waitVars>>

ProgressInit ==
    /\ part \in {"cdp", "chrome", "fetch", "headless", "agent", "broadcast", "waits"}
    /\ CdpInit /\ ChromeInit /\ FetchInit /\ HeadlessInit /\ AgentInit
    /\ BroadcastInit /\ WaitInit
    /\ part # "chrome" => ~foreign

ProgressNext ==
    /\ UNCHANGED part
    /\ Stays("cdp", cdpVars) /\ Stays("chrome", chromeVars)
    /\ Stays("fetch", fetchVars) /\ Stays("headless", headlessVars)
    /\ Stays("agent", agentVars) /\ Stays("broadcast", broadcastVars)
    /\ Stays("waits", waitVars)
    /\ CASE part = "cdp"       -> CdpNext
         [] part = "chrome"    -> ChromeNext
         [] part = "fetch"     -> FetchNext
         [] part = "headless"  -> HeadlessNext
         [] part = "agent"     -> AgentNext
         [] part = "broadcast" -> BroadcastNext
         [] part = "waits"     -> WaitNext

(* The fairness of every component, where it is the one that runs: what it   *)
(* waits for answers or runs into its deadline, and timers go on.            *)
ProgressSpec ==
    /\ ProgressInit /\ [][ProgressNext]_progressVars
    /\ \A t \in Tasks : WF_cdpVars(part = "cdp" /\ TimeOut(t))
    /\ \A c \in Setters : WF_fetchVars(part = "fetch" /\ SetterReturns(c))
    /\ \A l \in Loads : WF_fetchVars(part = "fetch" /\ (ListenerHears(l) \/ Handles(l) \/ HandlingFails(l)))
    /\ WF_headlessVars(part = "headless" /\ GuardDue)
    /\ \A t \in HeadlessTasks : WF_headlessVars(part = "headless" /\ SessionCloses(t))
    /\ \A a \in Agents :
         WF_agentVars(part = "agent" /\ (ReplayActs(a) \/ ReplayFails(a) \/ ReplayEnds(a)))
    /\ \A c \in WsPeers :
         WF_broadcastVars(/\ part = "broadcast"
                          /\ HelloEnds(c) \/ WsActionEnds(c) \/ WsDisconnects(c))
    /\ \A l \in Launchers : WF_chromeVars(part = "chrome" /\ LaunchGoesOn(l))
    /\ \A b \in Browsers : WF_chromeVars(part = "chrome" /\ (Starts(b) \/ ChromeEnds(b) \/ Supervises(b)))
    /\ WF_chromeVars(part = "chrome" /\ Tick)
    /\ \A w \in Waiters :
         /\ WF_waitVars(part = "waits" /\ PollDue(w))
         /\ WF_waitVars(part = "waits" /\ NavigateDue(w))
         /\ WF_waitVars(part = "waits" /\ WatchDue(w))

-----------------------------------------------------------------------------
(* Every component keeps its variables in their types.                       *)
ProgressTypeOK ==
    CASE part = "cdp"       -> CdpTypeOK
      [] part = "chrome"    -> ChromeTypeOK
      [] part = "fetch"     -> FetchTypeOK
      [] part = "headless"  -> HeadlessTypeOK
      [] part = "agent"     -> AgentTypeOK
      [] part = "broadcast" -> BroadcastTypeOK
      [] part = "waits"     -> WaitTypeOK

(* Relaunched, where Chrome and its manager run (_chrome_health_watchdog).   *)
ChromeRelaunched == part = "chrome" => Relaunched

(* Whatever somebody waits for ends: every command, every wait and every     *)
(* replay, and a paused request unless its event found no mocks or its       *)
(* answer failed.                                                            *)
EndsCome == EveryCommandEnds /\ HandledRequestEnds /\ WaitsEnd /\ ReplayTerminates

(* What is left over goes: a headless session past its time is closed        *)
(* (_timeout_guard), a client that is away leaves the set (ws_clients).      *)
LeftoversGo == OutlivedCloses /\ GoneForgotten

=============================================================================

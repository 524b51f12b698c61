---------------------------- MODULE MCComponents ----------------------------
(***************************************************************************)
(* The other components of the service, in one finite instance for TLC, as *)
(* in MCProgress: a behaviour is one of the component `part` names.        *)
(***************************************************************************)
EXTENDS PageWaits, Throttle, CloudPool, ProxyPool, McpSession, ProfileStore,
        PageInput, AgentActs, AgentFlows, ClientEvents, MemoryStore,
        Catalogs, Timeline, SavedSessions, Routing, HandOff, CrossFrames,
        Downloads, TabReads, Workspace, HumanInput, Sightings, MCOnePart

componentsVars ==
    <<part, waitVars, throttleVars, cloudVars, proxyVars, mcpVars,
      profileVars, inputVars, actVars, flowVars, eventVars, memoryVars,
      catalogVars, timelineVars, savedVars, routeVars, handVars, frameVars,
      loadVars, readVars, workspaceVars, humanVars, sightVars>>

ComponentsInit ==
    /\ part \in {"waits", "throttle", "cloud", "proxy", "mcp", "profiles", "input",
                "acts", "flows", "events", "memory", "catalogs", "timeline",
                "saved", "routing", "handoff", "frames", "downloads", "reads",
                "workspace", "human", "sightings"}
    /\ WaitInit /\ ThrottleInit /\ CloudInit /\ ProxyInit /\ McpInit
    /\ ProfileInit /\ InputInit /\ ActsInit /\ FlowsInit /\ EventInit
    /\ MemoryInit /\ CatalogInit /\ TimelineInit /\ SavedInit /\ RouteInit
    /\ HandInit /\ FramesInit /\ LoadsInit /\ ReadsInit /\ WorkspaceInit
    /\ HumanInit /\ SightInit
    /\ part # "input" => disabled = {} /\ \A e \in Elements : Here(e)
    /\ part # "events" => tabOf = CHOOSE t \in ViewTabs : TRUE
    /\ part # "catalogs" => store = "recipes"
    /\ part # "timeline" => side = "runs"
    /\ part # "routing" => shared = Browser
    /\ part # "workspace" => desk = "leases"
    /\ part # "human" => onPage = Fields /\ inView = CHOOSE f \in Fields : TRUE

ComponentsNext ==
    /\ UNCHANGED part
    /\ Stays("waits", waitVars) /\ Stays("throttle", throttleVars)
    /\ Stays("cloud", cloudVars) /\ Stays("proxy", proxyVars)
    /\ Stays("mcp", mcpVars) /\ Stays("profiles", profileVars)
    /\ Stays("input", inputVars) /\ Stays("acts", actVars)
    /\ Stays("flows", flowVars) /\ Stays("events", eventVars)
    /\ Stays("memory", memoryVars) /\ Stays("catalogs", catalogVars)
    /\ Stays("timeline", timelineVars) /\ Stays("saved", savedVars)
    /\ Stays("routing", routeVars) /\ Stays("handoff", handVars)
    /\ Stays("frames", frameVars) /\ Stays("downloads", loadVars)
    /\ Stays("reads", readVars) /\ Stays("workspace", workspaceVars)
    /\ Stays("human", humanVars) /\ Stays("sightings", sightVars)
    /\ CASE part = "waits"     -> WaitNext
         [] part = "throttle"  -> ThrottleNext
         [] part = "cloud"     -> CloudNext
         [] part = "proxy"     -> ProxyNext
         [] part = "mcp"       -> McpNext
         [] part = "profiles"  -> ProfileNext
         [] part = "input"     -> InputNext
         [] part = "acts"      -> ActsNext
         [] part = "flows"     -> FlowsNext
         [] part = "events"    -> EventNext
         [] part = "memory"    -> MemoryNext
         [] part = "catalogs"  -> CatalogNext
         [] part = "timeline"  -> TimelineNext
         [] part = "saved"     -> SavedNext
         [] part = "routing"   -> RouteNext
         [] part = "handoff"   -> HandNext
         [] part = "frames"    -> FramesNext
         [] part = "downloads" -> LoadsNext
         [] part = "reads"     -> ReadsNext
         [] part = "workspace" -> WorkspaceNext
         [] part = "human"     -> HumanNext
         [] part = "sightings" -> SightNext

ComponentsSafety == ComponentsInit /\ [][ComponentsNext]_componentsVars

-----------------------------------------------------------------------------
(* Every component keeps its variables in their types.                       *)
ComponentsTypeOK ==
    CASE part = "waits"     -> WaitTypeOK
      [] part = "throttle"  -> ThrottleTypeOK
      [] part = "cloud"     -> CloudTypeOK
      [] part = "proxy"     -> ProxyTypeOK
      [] part = "mcp"       -> McpTypeOK
      [] part = "profiles"  -> ProfileTypeOK
      [] part = "input"     -> InputTypeOK
      [] part = "acts"      -> ActsTypeOK
      [] part = "flows"     -> FlowsTypeOK
      [] part = "events"    -> EventTypeOK
      [] part = "memory"    -> MemoryTypeOK
      [] part = "catalogs"  -> CatalogTypeOK
      [] part = "timeline"  -> TimelineTypeOK
      [] part = "saved"     -> SavedTypeOK
      [] part = "routing"   -> RouteTypeOK
      [] part = "handoff"   -> HandTypeOK
      [] part = "frames"    -> FramesTypeOK
      [] part = "downloads" -> LoadsTypeOK
      [] part = "reads"     -> ReadsTypeOK
      [] part = "workspace" -> WorkspaceTypeOK
      [] part = "human"     -> HumanTypeOK
      [] part = "sightings" -> SightTypeOK

(* The pools: a cloud session leaves the pool closed or expired              *)
(* (CloudSessionPool); a proxy that was sidelined is not offered, and the    *)
(* others take turns (ProxyPool).                                            *)
PoolsHold ==
    CASE part = "cloud" -> LostOnlyByExpiry
      [] part = "proxy" -> SidelinedStaysOut /\ RoundRobinEven
      [] OTHER          -> TRUE

(* An act is told what came of it on the control it named (agent_act), and   *)
(* an errand what came of its steps (agent_flow, agent_execute_task).        *)
AgentHolds ==
    CASE part = "acts"  -> ActsHold
      [] part = "flows" -> ErrandsHold
      [] OTHER          -> TRUE

(* What the stores answered is what they keep: profiles, memory, recipes and *)
(* workflows, run records, saved sessions.                                   *)
StoresHold ==
    CASE part = "profiles" -> ListedSurvives
      [] part = "memory"   -> MemoryHolds
      [] part = "catalogs" -> CatalogsHold
      [] part = "timeline" -> TimelineHolds
      [] part = "saved"    -> LoginsWhole
      [] OTHER             -> TRUE

(* A wait is told of what it saw (wait_for and its siblings), and the tool   *)
(* in front of it passes that on.                                            *)
WaitsHold == part = "waits" => AnswersSeen /\ ToolTellsTruth

(* What callers are told of cross-origin frames, of downloads and of the     *)
(* pages of other tabs is so (CDPClient, download_file, deep_scan).          *)
PagesHold ==
    CASE part = "frames"    -> FramesHold
      [] part = "downloads" -> DownloadsWhole
      [] part = "reads"     -> ReadsTrue
      [] OTHER              -> TRUE

=============================================================================

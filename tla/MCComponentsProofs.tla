-------------------------- MODULE MCComponentsProofs --------------------------
(***************************************************************************)
(* The theorems of the components, carried over to the module that checks  *)
(* them one at a time: each behaviour of MCComponents is, for every        *)
(* component, a behaviour of that component, and the same for MCProgress.  *)
(***************************************************************************)
EXTENDS MCProgress, MCComponents,
        ComponentsProofs, PoolProofs, PageProofs, BrowserProofs

LEMMA OneRuns ==
  ASSUME [ComponentsNext]_componentsVars
  PROVE  /\ [CloudNext]_cloudVars /\ [ProxyNext]_proxyVars /\ [WaitNext]_waitVars
         /\ [FramesNext]_frameVars /\ [LoadsNext]_loadVars /\ [ReadsNext]_readVars
         /\ [ActsNext]_actVars /\ [FlowsNext]_flowVars /\ [ProfileNext]_profileVars
         /\ [MemoryNext]_memoryVars /\ [CatalogNext]_catalogVars /\ [TimelineNext]_timelineVars
         /\ [SavedNext]_savedVars /\ [ThrottleNext]_throttleVars /\ [McpNext]_mcpVars
         /\ [InputNext]_inputVars /\ [EventNext]_eventVars /\ [RouteNext]_routeVars
         /\ [HandNext]_handVars /\ [WorkspaceNext]_workspaceVars /\ [HumanNext]_humanVars
         /\ [SightNext]_sightVars
<1>1. CASE UNCHANGED componentsVars
  BY <1>1 DEF componentsVars
<1>2. CASE ComponentsNext
  <2>1. [CloudNext]_cloudVars
    BY <1>2 DEF ComponentsNext, Stays
  <2>2. [ProxyNext]_proxyVars
    BY <1>2 DEF ComponentsNext, Stays
  <2>3. [WaitNext]_waitVars
    BY <1>2 DEF ComponentsNext, Stays
  <2>4. [FramesNext]_frameVars
    BY <1>2 DEF ComponentsNext, Stays
  <2>5. [LoadsNext]_loadVars
    BY <1>2 DEF ComponentsNext, Stays
  <2>6. [ReadsNext]_readVars
    BY <1>2 DEF ComponentsNext, Stays
  <2>7. [ActsNext]_actVars
    BY <1>2 DEF ComponentsNext, Stays
  <2>8. [FlowsNext]_flowVars
    BY <1>2 DEF ComponentsNext, Stays
  <2>9. [ProfileNext]_profileVars
    BY <1>2 DEF ComponentsNext, Stays
  <2>10. [MemoryNext]_memoryVars
    BY <1>2 DEF ComponentsNext, Stays
  <2>11. [CatalogNext]_catalogVars
    BY <1>2 DEF ComponentsNext, Stays
  <2>12. [TimelineNext]_timelineVars
    BY <1>2 DEF ComponentsNext, Stays
  <2>13. [SavedNext]_savedVars
    BY <1>2 DEF ComponentsNext, Stays
  <2>14. [ThrottleNext]_throttleVars
    BY <1>2 DEF ComponentsNext, Stays
  <2>15. [McpNext]_mcpVars
    BY <1>2 DEF ComponentsNext, Stays
  <2>16. [InputNext]_inputVars
    BY <1>2 DEF ComponentsNext, Stays
  <2>17. [EventNext]_eventVars
    BY <1>2 DEF ComponentsNext, Stays
  <2>18. [RouteNext]_routeVars
    BY <1>2 DEF ComponentsNext, Stays
  <2>19. [HandNext]_handVars
    BY <1>2 DEF ComponentsNext, Stays
  <2>20. [WorkspaceNext]_workspaceVars
    BY <1>2 DEF ComponentsNext, Stays
  <2>21. [HumanNext]_humanVars
    BY <1>2 DEF ComponentsNext, Stays
  <2>22. [SightNext]_sightVars
    BY <1>2 DEF ComponentsNext, Stays
  <2>23. QED
    BY <2>1, <2>2, <2>3, <2>4, <2>5, <2>6, <2>7, <2>8, <2>9, <2>10, <2>11,
       <2>12, <2>13, <2>14, <2>15, <2>16, <2>17, <2>18, <2>19, <2>20, <2>21, <2>22
<1>3. QED
  BY <1>1, <1>2

LEMMA AllStart ==
  ASSUME ComponentsInit
  PROVE  /\ CloudInit /\ ProxyInit /\ WaitInit /\ FramesInit /\ LoadsInit
         /\ ReadsInit /\ ActsInit /\ FlowsInit /\ ProfileInit /\ MemoryInit
         /\ CatalogInit /\ TimelineInit /\ SavedInit /\ ThrottleInit /\ McpInit
         /\ InputInit /\ EventInit /\ RouteInit /\ HandInit /\ WorkspaceInit
         /\ HumanInit /\ SightInit
BY DEF ComponentsInit

(* A cloud session leaves the pool closed or expired, a proxy that was       *)
(* sidelined is not offered, and the others take turns.                      *)
THEOREM PoolsAreSound == ComponentsSafety => []PoolsHold
<1>1. LostOnlyByExpiry /\ SidelinedStaysOut /\ RoundRobinEven => PoolsHold
  BY DEF PoolsHold
<1>2. ComponentsSafety => CloudSpec /\ ProxySpec
  BY AllStart, OneRuns, PTL DEF ComponentsSafety, CloudSpec, ProxySpec
<1>3. QED
  BY <1>1, <1>2, NothingIsLost, ProxiesTakeTurns, PTL

(* A wait is told of what it saw, and its tool passes that on.               *)
THEOREM WaitsAreSound == ComponentsSafety => []WaitsHold
<1>1. AnswersSeen /\ ToolTellsTruth => WaitsHold
  BY DEF WaitsHold
<1>2. ComponentsSafety => WaitInit /\ [][WaitNext]_waitVars
  BY AllStart, OneRuns, PTL DEF ComponentsSafety
<1>3. QED
  BY <1>1, <1>2, WaitsAreTold, PTL

(* What callers are told of frames, downloads and other tabs is so.          *)
THEOREM PagesAreSound == ComponentsSafety => []PagesHold
<1>1. FramesHold /\ DownloadsWhole /\ ReadsTrue => PagesHold
  BY DEF PagesHold
<1>2. ComponentsSafety => FramesInit /\ [][FramesNext]_frameVars
  BY AllStart, OneRuns, PTL DEF ComponentsSafety
<1>3. ComponentsSafety => LoadsInit /\ [][LoadsNext]_loadVars
  BY AllStart, OneRuns, PTL DEF ComponentsSafety
<1>4. ComponentsSafety => ReadsInit /\ [][ReadsNext]_readVars
  BY AllStart, OneRuns, PTL DEF ComponentsSafety
<1>5. QED
  BY <1>1, <1>2, <1>3, <1>4, FramesAreTold, DownloadsAreWhole, ReadsAreTrue, PTL

(* An act is told what came of it on the control it named, and an errand     *)
(* what came of its steps.                                                   *)
THEOREM AgentIsSound == ComponentsSafety => []AgentHolds
<1>1. ActsHold /\ ErrandsHold => AgentHolds
  BY DEF AgentHolds
<1>2. ComponentsSafety => ActsInit /\ [][ActsNext]_actVars
  BY AllStart, OneRuns, PTL DEF ComponentsSafety
<1>3. ComponentsSafety => FlowsInit /\ [][FlowsNext]_flowVars
  BY AllStart, OneRuns, PTL DEF ComponentsSafety
<1>4. QED
  BY <1>1, <1>2, <1>3, ActsAreSound, ErrandsAreTold, PTL

(* What the stores answered is what they keep: profiles, memory, recipes and *)
(* workflows, run records, saved logins.                                     *)
THEOREM StoresAreSound == ComponentsSafety => []StoresHold
<1>1. ListedSurvives /\ MemoryHolds /\ CatalogsHold /\ TimelineHolds /\ LoginsWhole => StoresHold
  BY DEF StoresHold
<1>2. ComponentsSafety => ProfileSpec
  BY AllStart, OneRuns, PTL DEF ComponentsSafety, ProfileSpec
<1>3. ComponentsSafety => MemoryInit /\ [][MemoryNext]_memoryVars
  BY AllStart, OneRuns, PTL DEF ComponentsSafety
<1>4. ComponentsSafety => CatalogInit /\ [][CatalogNext]_catalogVars
  BY AllStart, OneRuns, PTL DEF ComponentsSafety
<1>5. ComponentsSafety => TimelineInit /\ [][TimelineNext]_timelineVars
  BY AllStart, OneRuns, PTL DEF ComponentsSafety
<1>6. ComponentsSafety => SavedInit /\ [][SavedNext]_savedVars
  BY AllStart, OneRuns, PTL DEF ComponentsSafety
<1>7. QED
  BY <1>1, <1>2, <1>3, <1>4, <1>5, <1>6, ProfilesSurvive, MemoryIsTrue, CatalogsAreSound,
     TimelineIsTrue, LoginsStayWhole, PTL

OneComponent ==
    part \in {"waits", "throttle", "cloud", "proxy", "mcp", "profiles", "input",
             "acts", "flows", "events", "memory", "catalogs", "timeline",
             "saved", "routing", "handoff", "frames", "downloads", "reads",
             "workspace", "human", "sightings"}

(* Every component keeps its variables in their types, for all values of its *)
(* constants.                                                                *)
THEOREM ComponentsTyped == ComponentsSafety => []ComponentsTypeOK
<1>1. ComponentsSafety => []WaitTypeOK
  BY AllStart, OneRuns, WaitTypes, PTL DEF ComponentsSafety
<1>2. ComponentsSafety => []ThrottleTypeOK
  <2>1. ThrottleInv => ThrottleTypeOK
    BY DEF ThrottleInv
  <2>2. QED
    BY AllStart, OneRuns, <2>1, ThrottleInvariant, PTL DEF ComponentsSafety, ThrottleSpec
<1>3. ComponentsSafety => []CloudTypeOK
  BY AllStart, OneRuns, CloudTypes, PTL DEF ComponentsSafety, CloudSpec
<1>4. ComponentsSafety => []ProxyTypeOK
  BY AllStart, OneRuns, ProxyTypes, PTL DEF ComponentsSafety, ProxySpec
<1>5. ComponentsSafety => []McpTypeOK
  <2>1. McpInv => McpTypeOK
    BY DEF McpInv
  <2>2. QED
    BY AllStart, OneRuns, <2>1, McpInvariant, PTL DEF ComponentsSafety, McpSpec
<1>6. ComponentsSafety => []ProfileTypeOK
  BY AllStart, OneRuns, ProfileTypes, PTL DEF ComponentsSafety, ProfileSpec
<1>7. ComponentsSafety => []InputTypeOK
  BY AllStart, OneRuns, InputTypes, PTL DEF ComponentsSafety
<1>8. ComponentsSafety => []ActsTypeOK
  BY AllStart, OneRuns, ActsTypes, PTL DEF ComponentsSafety
<1>9. ComponentsSafety => []FlowsTypeOK
  BY AllStart, OneRuns, FlowsTypes, PTL DEF ComponentsSafety
<1>10. ComponentsSafety => []EventTypeOK
  BY AllStart, OneRuns, EventTypes, PTL DEF ComponentsSafety
<1>11. ComponentsSafety => []MemoryTypeOK
  BY AllStart, OneRuns, MemoryTypes, PTL DEF ComponentsSafety
<1>12. ComponentsSafety => []CatalogTypeOK
  BY AllStart, OneRuns, CatalogTypes, PTL DEF ComponentsSafety
<1>13. ComponentsSafety => []TimelineTypeOK
  BY AllStart, OneRuns, TimelineTypes, PTL DEF ComponentsSafety
<1>14. ComponentsSafety => []SavedTypeOK
  BY AllStart, OneRuns, SavedTypes, PTL DEF ComponentsSafety
<1>15. ComponentsSafety => []RouteTypeOK
  BY AllStart, OneRuns, RouteTypes, PTL DEF ComponentsSafety
<1>16. ComponentsSafety => []HandTypeOK
  BY AllStart, OneRuns, HandTypes, PTL DEF ComponentsSafety
<1>17. ComponentsSafety => []FramesTypeOK
  BY AllStart, OneRuns, FramesTypes, PTL DEF ComponentsSafety
<1>18. ComponentsSafety => []LoadsTypeOK
  BY AllStart, OneRuns, LoadsTypes, PTL DEF ComponentsSafety
<1>19. ComponentsSafety => []ReadsTypeOK
  BY AllStart, OneRuns, ReadsTypes, PTL DEF ComponentsSafety
<1>20. ComponentsSafety => []WorkspaceTypeOK
  BY AllStart, OneRuns, WorkTypes, PTL DEF ComponentsSafety
<1>21. ComponentsSafety => []HumanTypeOK
  BY AllStart, OneRuns, HumanTypes, PTL DEF ComponentsSafety
<1>22. ComponentsSafety => []SightTypeOK
  BY AllStart, OneRuns, SightTypes, PTL DEF ComponentsSafety
<1>23. ComponentsSafety => []OneComponent
  <2>1. ComponentsInit => OneComponent
    BY DEF ComponentsInit, OneComponent
  <2>2. OneComponent /\ [ComponentsNext]_componentsVars => OneComponent'
    BY DEF ComponentsNext, componentsVars, OneComponent
  <2>3. QED
    BY <2>1, <2>2, PTL DEF ComponentsSafety
<1>24. /\ OneComponent
       /\ WaitTypeOK /\ ThrottleTypeOK /\ CloudTypeOK /\ ProxyTypeOK
       /\ McpTypeOK /\ ProfileTypeOK /\ InputTypeOK /\ ActsTypeOK
       /\ FlowsTypeOK /\ EventTypeOK /\ MemoryTypeOK /\ CatalogTypeOK
       /\ TimelineTypeOK /\ SavedTypeOK /\ RouteTypeOK /\ HandTypeOK
       /\ FramesTypeOK /\ LoadsTypeOK /\ ReadsTypeOK /\ WorkspaceTypeOK
       /\ HumanTypeOK /\ SightTypeOK
       => ComponentsTypeOK
  BY DEF ComponentsTypeOK, OneComponent
<1>25. QED
  BY <1>1, <1>2, <1>3, <1>4, <1>5, <1>6, <1>7, <1>8, <1>9, <1>10, <1>11,
     <1>12, <1>13, <1>14, <1>15, <1>16, <1>17, <1>18, <1>19, <1>20, <1>21, <1>22,
     <1>23, <1>24, PTL

-----------------------------------------------------------------------------
(* MCProgress.                                                               *)
(* A step of the whole is a step of each component, or leaves it alone.      *)
LEMMA OneProgresses ==
  ASSUME [ProgressNext]_progressVars
  PROVE  /\ [CdpNext]_cdpVars /\ [ChromeNext]_chromeVars /\ [FetchNext]_fetchVars
         /\ [HeadlessNext]_headlessVars /\ [AgentNext]_agentVars
         /\ [BroadcastNext]_broadcastVars /\ [WaitNext]_waitVars
<1>1. CASE UNCHANGED progressVars
  BY <1>1 DEF progressVars
<1>2. CASE ProgressNext
  <2>1. [CdpNext]_cdpVars
    BY <1>2 DEF ProgressNext, Stays
  <2>2. [ChromeNext]_chromeVars
    BY <1>2 DEF ProgressNext, Stays
  <2>3. [FetchNext]_fetchVars
    BY <1>2 DEF ProgressNext, Stays
  <2>4. [HeadlessNext]_headlessVars
    BY <1>2 DEF ProgressNext, Stays
  <2>5. [AgentNext]_agentVars
    BY <1>2 DEF ProgressNext, Stays
  <2>6. [BroadcastNext]_broadcastVars
    BY <1>2 DEF ProgressNext, Stays
  <2>7. [WaitNext]_waitVars
    BY <1>2 DEF ProgressNext, Stays
  <2>8. QED
    BY <2>1, <2>2, <2>3, <2>4, <2>5, <2>6, <2>7
<1>3. QED
  BY <1>1, <1>2

OneWaits == part \in {"cdp", "chrome", "fetch", "headless", "agent", "broadcast", "waits"}

(* Every component in which somebody waits keeps its variables in their      *)
(* types, for all values of its constants.                                   *)
THEOREM ProgressTyped == ProgressSpec => []ProgressTypeOK
<1>1. /\ ProgressSpec => ProgressInit /\ [][ProgressNext]_progressVars
      /\ ProgressInit => /\ OneWaits /\ CdpInit /\ ChromeInit /\ FetchInit /\ HeadlessInit
                         /\ AgentInit /\ BroadcastInit /\ WaitInit
  <2>1. ProgressSpec => ProgressInit /\ [][ProgressNext]_progressVars
    BY PTL DEF ProgressSpec
  <2>2. ProgressInit => /\ OneWaits /\ CdpInit /\ ChromeInit /\ FetchInit /\ HeadlessInit
                        /\ AgentInit /\ BroadcastInit /\ WaitInit
    BY DEF ProgressInit, OneWaits
  <2>3. QED
    BY <2>1, <2>2
<1>2. ProgressSpec => []CdpTypeOK
  <2>1. ClientInv => CdpTypeOK
    BY DEF ClientInv
  <2>2. QED
    BY <1>1, <2>1, OneProgresses, ClientInitial, ClientStep, PTL
<1>3. ProgressSpec => []ChromeTypeOK
  BY <1>1, OneProgresses, ChromeInitial, ChromeTypeStep, PTL
<1>4. ProgressSpec => []FetchTypeOK
  BY <1>1, OneProgresses, FetchTypes, PTL
<1>5. ProgressSpec => []HeadlessTypeOK
  <2>1. HeadlessInv => HeadlessTypeOK
    BY DEF HeadlessInv
  <2>2. QED
    BY <1>1, <2>1, OneProgresses, HeadlessStart, HeadlessStep, PTL
<1>6. ProgressSpec => []AgentTypeOK
  BY <1>1, OneProgresses, AgentTypes, PTL
<1>7. ProgressSpec => []BroadcastTypeOK
  BY <1>1, OneProgresses, BroadcastTypes, PTL
<1>8. ProgressSpec => []WaitTypeOK
  BY <1>1, OneProgresses, WaitTypes, PTL
<1>9. ProgressSpec => []OneWaits
  <2>1. OneWaits /\ [ProgressNext]_progressVars => OneWaits'
    BY DEF ProgressNext, progressVars, OneWaits
  <2>2. QED
    BY <1>1, <2>1, PTL
<1>10. /\ OneWaits
       /\ CdpTypeOK /\ ChromeTypeOK /\ FetchTypeOK /\ HeadlessTypeOK
       /\ AgentTypeOK /\ BroadcastTypeOK /\ WaitTypeOK
       => ProgressTypeOK
  BY DEF ProgressTypeOK, OneWaits
<1>11. QED
  BY <1>2, <1>3, <1>4, <1>5, <1>6, <1>7, <1>8, <1>9, <1>10, PTL

=============================================================================

SPECIFICATION ComponentsSafety
CONSTANTS
    Navigators = {a, b, c}
    Sites = {d, e}
    Local = local
    Nobody = nobody
    Interval = 2
    PoolUsers = {u, v}
    CloudSessions = {s1, s2, s3}
    MaxWarm = 2
    Proxies = {p1, p2, p3}
    NoProxy = noproxy
    PinnedTo = {s}
    Tagged = {p1}
    FailureThreshold = 2
    MaxSize = 2
    ToolCalls = {a, b}
    McpSessions = {s1, s2}
    NoSession = nosession
    ProfileNames = {n1, n2, n3}
    Hands = {a, b}
    Elements = {f, g}
    Twins = {f, g}
    Spots = {1, 2}
    Off = off
    Nothing = nothing
    Asked = {"click", "text", "type", "key", "coordinates", "upload", "checkbox", "label", "fill", "inFrame", "setInFrame", "clickNode", "fillNode", "dropdown", "scroll", "hover", "selectOption"}
    Rivals = {"type"}
    MaxMoves = 1
    Waiters = {a}
    Fetches = {r}
    MaxDocs = 2
    MaxUrl = 2
    WaitKinds = {"element", "gone", "text", "condition", "js", "url", "navigate", "idle", "ready", "assert", "state"}
    Actors = {a}
    NodeIds = {1, 2}
    MaxListed = 1
    MaxPages = 2
    Pages = {u}
    Elsewhere = elsewhere
    MaxFlow = 2
    ViewTabs = {s, t}
    Watchers = {a}
    MaxDialogs = 1
    MaxKept = 1
    Minders = {a, b}
    Topics = {1, 2}
    MaxWrites = 2
    Recipes = {r, q}
    Titles = {n, m}
    NoTitle = none
    NoRecipe = norecipe
    MaxVersions = 2
    MaxRuns = 3
    LaunchpadRuns = 2
    Artifacts = {a, b}
    MaxRecorded = 4
    Keepers = {a, b}
    Saves = {n}
    MaxLogins = 1
    Clients = {a}
    PerClient = 2
    Warmer = w
    Overlapping = {"op"}
    MaxSeats = 1
    SharedTabs = {1}
    Hosting = {2}
    RouteIds = {s1, s2}
    NoId = none
    MaxTabs = 3
    HandCallers = {a, b}
    NoOne = none
    Emulated = {"viewport"}
    MaxHandTabs = 2
    FrameUsers = {a, b}
    FrameActors = {a}
    FrameSrcs = {s, t}
    NoSrc = nosrc
    MaxFrames = 2
    RestLoaders = {a}
    McpLoaders = {m}
    NoLoader = none
    MaxLoads = 3
    ReadTabs = {s, t}
    NoTab = notab
    FirstTab = s
    Readers = {a, b}
    Scanners = {a}
    MaxConcurrent = 1
    MaxText = 2
    SubTabs = 2
    LateSubTabs = {2}
    Operators = {a, b}
    NoOperator = nooperator
    WorkNodes = {n, m}
    MaxQuota = 2
    MaxLeases = 3
    Threshold = 50
    Typists = {a, b}
    Brief = {b}
    Fields = {f, g}
    NoField = nofield
    MaxKeys = 2
    Watching = {a}
    SightTabs = {s, t}
    OwnTab = s
    MaxShots = 3
    MaxShotsKept = 2
    MaxEdits = 1
INVARIANTS
    ComponentsTypeOK
    PoolsHold
    AgentHolds
    StoresHold
    WaitsHold
    ReportsHold
    BeliefsHold
    RunsAtHome
    StatusTrue
    PagesHold
    WorkspaceHolds
    KeysLand
    SightsTrue
PROPERTIES
    ThrottleHolds
    McpHolds
CHECK_DEADLOCK FALSE

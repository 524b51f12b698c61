SPECIFICATION ProgressSpec
CONSTANTS
    Callers = {a, b}
    NoTask = none
    Recorded = {1}
    MaxSockets = 2
    MaxMessages = 1
    Watchdog = w
    Requests = {r}
    Browsers = {b1, b2}
    NoBrowser = nobrowser
    FailTicks = 2
    Stalls = FALSE
    Loads = {d, x}
    Documents = {d}
    Setters = {u}
    HeadlessUsers = {u, v}
    Guard = guard
    Procs = {p1, p2}
    NoProc = noproc
    Aging = {p1}
    MaxHeadless = 1
    Agents = {a, b}
    SnapshotIds = {s1, s2}
    Recordings = {r, q}
    None = none
    MaxSnapshots = 1
    MaxSteps = 2
    Ops = {o}
    WsPeers = {c, d}
    Waiters = {a}
    Fetches = {r}
    MaxDocs = 2
    MaxUrl = 2
    WaitKinds = {"element", "url", "navigate", "idle", "ready"}
INVARIANTS
    ProgressTypeOK
    PinnedKept
PROPERTIES
    ClientHolds
    HeadlessHolds
    MisreportNeedsChurn
    EndsCome
    ChromeRelaunched
    LeftoversGo
CHECK_DEADLOCK FALSE

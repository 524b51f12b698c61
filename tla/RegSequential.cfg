SPECIFICATION Spec
CONSTANTS
    Sids = {s1, s2, s3}
    Reaper = reaper
    NoSid = nosid
    MaxSessions = 2
    TabBudget = 0
    ActiveWindow = 1
    Ttl = 1
    MaxTabs = 5
    Overlap = 1
    Callers = {s1, s2, s3}
    Faults = {"person", "connect"}
INVARIANTS
    TypeOK
    BrowserKept
    NoStrayTab
PROPERTIES
    AnchorKept
    SweepSparesSessions
SYMMETRY SidSymmetry

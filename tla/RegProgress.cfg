SPECIFICATION FairSpec
CONSTANTS
    Sids = {s1, s2}
    Reaper = reaper
    NoSid = nosid
    MaxSessions = 1
    TabBudget = 0
    ActiveWindow = 1
    Ttl = 1
    MaxTabs = 5
    Overlap = 2
    Callers = {}
    Faults = {"connect"}
INVARIANT SessionBound
PROPERTIES
    ImplementsSlots
    CreateCompletes
    ExpiredReaped
    OrphanSwept

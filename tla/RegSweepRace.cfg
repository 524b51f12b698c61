SPECIFICATION Spec
CONSTANTS
    Sids = {s1, s2}
    Reaper = reaper
    NoSid = nosid
    MaxSessions = 2
    TabBudget = 0
    ActiveWindow = 1
    Ttl = 1
    MaxTabs = 6
    Overlap = 2
    Callers = {}
    Faults = {}
PROPERTY SweepSparesSessions

SPECIFICATION FairSpec
CONSTANTS
    Nodes = {n1, n2}
    Sessions = {s1}
    Clients = {c1}
    Operators = {}
    Rechecked = {}
    Poller = poller
    Capacity = 1
    MaxQueue = 1
    Overlap = 2
    Local = local
    NoNode = nonode
    NoSession = nosession
INVARIANT TypeOK
PROPERTY EveryTaskEnds

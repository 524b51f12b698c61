SPECIFICATION FairSpec
CONSTANTS
    Nodes = {n1}
    Sessions = {s1, s2}
    Clients = {c1}
    Operators = {}
    Rechecked = {}
    Poller = poller
    Capacity = 1
    MaxQueue = 1
    Overlap = 2
    Local = local
    NoNode = nonode
    NoSession = nosession
PROPERTY QueueServed

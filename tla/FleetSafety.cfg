SPECIFICATION Spec
CONSTANTS
    Nodes = {n1, n2}
    Sessions = {s1, s2}
    Clients = {c1}
    Operators = {o1}
    Rechecked = {n1, n2}
    Poller = poller
    Capacity = 1
    MaxQueue = 0
    Overlap = 2
    Local = local
    NoNode = nonode
    NoSession = nosession
INVARIANTS
    OvercommitBounded
    NoLostCapacity
PROPERTY FailoverMovesAway
SYMMETRY FleetSymmetry

\* Two Nodes, a concurrent reader, two resets and one fault: what the ledger may hold.
SPECIFICATION Spec
CONSTANTS
    Nodes = {n1, n2}
    NoNode = NoNode
    Readers = {r1}
    Ids = {i1, i2}
    NoId = NoId
    MaxBytes = 2
    MaxFaults = 1
SYMMETRY Symmetry
INVARIANTS
    ChargedOnce
    UsedIsSum
PROPERTIES
    ResetReachesEveryNode

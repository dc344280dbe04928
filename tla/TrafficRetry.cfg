\* A reset fails half-way and is retried; nobody else reads the Nodes.
SPECIFICATION Spec
CONSTANTS
    Nodes = {n1, n2}
    NoNode = NoNode
    Readers = {}
    Ids = {i1, i2}
    NoId = NoId
    MaxBytes = 1
    MaxFaults = 1
INVARIANTS
    NeverOvercharged

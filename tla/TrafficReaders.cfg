\* The monitor and an operator read one Node at the same time; no reset, no fault.
SPECIFICATION Spec
CONSTANTS
    Nodes = {n1}
    NoNode = NoNode
    Readers = {r1, r2}
    Ids = {}
    NoId = NoId
    MaxBytes = 2
    MaxFaults = 0
INVARIANTS
    NeverOvercharged

\* The maintenance loop against a Stop: is Xray down once the Stop is committed?
SPECIFICATION Spec
CONSTANTS
    Ids = {i1, i2}
    NoId = NoId
    MaxRevision = 2
    MaxFaults = 0
    Restores = FALSE
INVARIANTS
    CommittedStopIsStopped

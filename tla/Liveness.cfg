\* No restore, finitely many faults: intents and resets settle.
SPECIFICATION LiveSpec
CONSTANTS
    Ids = {i1, i2}
    NoId = NoId
    MaxRevision = 2
    MaxFaults = 1
    Restores = FALSE
    Nodes = {n1, n2}
    NoNode = NoNode
PROPERTIES
    IntentSettles
    CoreFollowsIntent
    ResetSettles
    ConfigurationSettles

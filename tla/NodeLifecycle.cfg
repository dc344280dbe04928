\* Commands: two intents, two disturbances, no Hub restore.  The rest: two threads, two edits.
SPECIFICATION LifecycleSpec
CONSTANTS
    Ids = {i1, i2}
    NoId = NoId
    MaxRevision = 2
    MaxFaults = 2
    Restores = FALSE
    NodeCommits = {1, 2, 3}
    NodeInstalled = 2
    MaxNodeJobs = 2
    MaxMetered = 1
    NodeUpdateFaults = 2
    MaxHubMoves = 1
    HubWorkers = {w1, w2}
    Attempts = {1, 2}
    Pairings = {1}
    StageEdits = 1
    StageCommands = 4
    OwnTokens = {1, 2}
    NodeInbounds = {"a", "b"}
    ConfigEdits = 2
    ConfigFaults = 1
    StoreInbounds = {1, 2}
    DataPorts = {1, 2, 3}
    PanelPort = 3
    Customers = {"c"}
    OwnerEdits = 3
    Handlers = {"h1", "h2"}
    Endpoints = {1}
    HubRequests = 3
    HubFaults = 1
SYMMETRY Symmetry
INVARIANTS
    LifecycleTypeOK
    ControlFollowsIntent
    AcknowledgementsHold
    TakeoverIsSafe
    ActivationHolds
    NodeUpdatesAreSafe
    DesiredStateHolds
    HubConfigurationHolds
PROPERTIES
    FenceAdvances
    ImplementsRunIntent
    TakeoverIsReviewed

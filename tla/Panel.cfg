SPECIFICATION PanelSpec
CONSTANTS
    Emails = {"c1"}
    MaxBytes = 2
    MaxRequests = 3
    ManagerFaults = 2
    Admins = {"o", "p"}
    OwnerRole = {"o"}
    Requests = {w1}
    MaxAttempts = 2
    MaxPassword = 1
    MaxSecret = 1
    MaxStep = 1
    MaxSessions = 2
    MaxRename = 1
    Reports <- MCReports
    MaxLocal = 1
    MaxRemote = 1
    Addresses = {i1, i2}
    LogReaders = {r1}
    LimitIp = 1
    Commits = {1, 2, 3}
    Installed = 2
    MaxJobs = 2
    MaxUsage = 1
    UpdateFaults = 2
INVARIANTS
    PanelTypeOK
    CountersArePaidOnce
    LoginsAreSound
    UsageIsTraffic
    
    UpdatesHold
    
    BotDeliveryHolds
    
PROPERTIES
    ClientsAreKept

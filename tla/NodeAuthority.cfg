\* Scaled constants: 60, 30, 10, 1, 30 seconds become 8, 3, 3, 1, 5 and one restart
\* ("lease"); "order" and "restored" have their own bounds in the module.
SPECIFICATION AuthoritySpec
CONSTANTS
    LeaseSeconds = 8
    ChallengeSeconds = 3
    EarlyFence = 3
    Margin = 1
    WatchdogSeconds = 5
    MaxPending = 2
    MaxTime = 9
    MaxChallenges = 2
    MaxEpoch = 1
    MaxBoots = 1
    Ids = {i1, i2, i3}
    NoId = NoId
SYMMETRY Symmetry
INVARIANTS
    
    FencedStaysDown
    AuthorityIsFresh
    RestoredAcksHold
PROPERTIES
    FeedIsServiceable
    GrantsInOrder

\* Is the systemd deadline always shorter than the grant of a running core?
SPECIFICATION Spec
CONSTANTS
    LeaseSeconds = 8
    ChallengeSeconds = 3
    EarlyFence = 3
    Margin = 1
    WatchdogSeconds = 5
    MaxPending = 2
    MaxTime = 9
    MaxChallenges = 2
    MaxEpoch = 1
    MaxBoots = 0
INVARIANTS
    FrozenWithinGrant

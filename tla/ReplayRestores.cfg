\* One address may connect; two others are banned, one of them about to be released.
SPECIFICATION GuardSpec
CONSTANTS
    Addresses = {i1, i2, i3}
    LogReaders = {r1}
    LimitIp = 1
PROPERTY ReplayRestores
CHECK_DEADLOCK FALSE

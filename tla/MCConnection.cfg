SPECIFICATION FairSpec
CONSTANTS
    s1 = s1
    s2 = s2
    s3 = s3
    Socket = {s1, s2, s3}
    NoSocket = NoSocket
    MaxAttempts = 1
    MaxStuck = 2
    MaxRefreshes = 1
    MaxTries = 1
    MaxInFlight = 2
    MaxFaults = 2
INVARIANTS TypeOK NoOrphanSocket SignOutWasTold NoEmptyWait
PROPERTIES MachineSettles SignOutConverges
CHECK_DEADLOCK FALSE

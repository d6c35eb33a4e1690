\* Faults on both planes, a shutdown at any moment
SPECIFICATION FairSpec
CONSTANTS
    Udp <- MCUdp
    Tcp <- MCTcp
    MaxRestarts = 1
    MaxFaults = 3
INVARIANTS TypeOK ReadyMeansBound ReadyIsEarned ExitCodeExplained DrainedUnlessLateBind
 
CHECK_DEADLOCK FALSE

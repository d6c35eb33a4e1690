\* API requests under way at shutdown
SPECIFICATION Spec
CONSTANTS
    Udp <- NoClient
    Tcp <- NoClient
    MaxRestarts = 1
    MaxFaults = 0
INVARIANTS ApiStopsGracefully
CHECK_DEADLOCK FALSE

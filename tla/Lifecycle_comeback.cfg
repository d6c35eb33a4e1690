\* One failed bind of the TCP socket
SPECIFICATION FairSpec
CONSTANTS
    Udp <- NoClient
    Tcp <- NoClient
    MaxRestarts = 1
    MaxFaults = 1
PROPERTIES DnsPlaneComesBack
CHECK_DEADLOCK FALSE

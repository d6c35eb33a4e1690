SPECIFICATION FairSpec
CONSTANTS
    a = a
    A = A
    k1 = k1
    Acme = acme
    empty = empty
    short = short
    long = long
    odd = odd
    NoZone = NoZone
    NoRoute = NoRoute
    NoOp = NoOp
    Label = {a, A, acme}
    Lower <- MCLower
    Key = {k1}
    Token = {empty, short, long, odd}
    Ascii = {empty, short, long}
    Length <- MCLength
    MaxTxtLen = 2
    Spelling = {1, 2}
    Tables <- MCTables
    Packets <- MCPackets
INVARIANTS TypeOK RoutesToLongest SurfaceIsExact SignedToKeyHolders
PROPERTIES EveryPacketSettles
CHECK_DEADLOCK FALSE

SPECIFICATION FairSpec
CONSTANTS
    k1 = k1
    b1 = b1
    b2 = b2
    z1 = z1
    bad = bad
    Boot = Boot
    NoRow = NoRow
    NoCommand = NoCommand
    NoSnapshot = NoSnapshot
    Writer = {w1}
    KeyName = {k1}
    Backend = {b1, b2}
    Zone = {z1}
    Unparsable = {}
    Command <- KeyCommand
    InitialDb <- MCInitialDb
    PoolSize = 4
    MaxBlips = 1
    MaxRestarts = 0
PROPERTIES Reconverges
CHECK_DEADLOCK FALSE

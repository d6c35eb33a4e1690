SPECIFICATION FairSpec
CONSTANTS
    k1 = k1
    b1 = b1
    b2 = b2
    z1 = z1
    bad = bad
    Boot = Boot
    NoRow = NoRow
    NoCommand = NoCommand
    NoSnapshot = NoSnapshot
    Writer = {w1, w2, w3}
    KeyName = {k1}
    Backend = {b1}
    Zone = {bad}
    Unparsable = {bad}
    Command <- PoolCommand
    InitialDb <- MCInitialDb
    PoolSize = 2
    MaxBlips = 1
    MaxRestarts = 0
PROPERTIES EveryWriteIsAnswered SnapshotNeverRegresses
CHECK_DEADLOCK FALSE

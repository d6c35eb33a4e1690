SPECIFICATION Spec
CONSTANTS
    k1 = k1
    b1 = b1
    b2 = b2
    z1 = z1
    bad = bad
    Boot = Boot
    NoRow = NoRow
    NoCommand = NoCommand
    NoSnapshot = NoSnapshot
    Writer = {w1, w2, w3}
    KeyName = {k1}
    Backend = {b1, b2}
    Zone = {z1}
    Unparsable = {}
    Command <- KeyCommand
    InitialDb <- MCInitialDb
    PoolSize = 4
    MaxBlips = 0
    MaxRestarts = 0
INVARIANTS IdsMatchKeyring
CHECK_DEADLOCK FALSE

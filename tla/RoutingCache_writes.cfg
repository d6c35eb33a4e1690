SPECIFICATION Spec
CONSTANTS
    k1 = k1
    b1 = b1
    b2 = b2
    z1 = z1
    bad = bad
    Boot = Boot
    NoRow = NoRow
    NoCommand = NoCommand
    NoSnapshot = NoSnapshot
    Writer = {w1, w2, w3}
    KeyName = {k1}
    Backend = {b1, b2}
    Zone = {z1, bad}
    Unparsable = {bad}
    Command <- AnyCommand
    InitialDb <- MCInitialDb
    PoolSize = 5
    MaxBlips = 1
    MaxRestarts = 1
SYMMETRY SymWriter
INVARIANTS TypeOK Converged WithdrawnIsNotServed
CHECK_DEADLOCK FALSE

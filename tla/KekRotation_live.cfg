\* Two rotations against two writers
SPECIFICATION FairSpec
CONSTANTS
    b1 = b1
    b2 = b2
    d1 = d1
    d2 = d2
    k1 = k1
    BackendRow = {b1, b2}
    DomainRow = {d1, d2}
    TsigRow = {k1}
    Writer = {w1, w2}
    MaxKey = 3
    MaxPasses = 2
    Stocked <- MCStocked
    First = First
    Unborn = Unborn
    Gone = Gone
    NoSecret = NoSecret
    NoJob = NoJob
INVARIANTS TypeOK NoSecretStranded MigrationIsComplete OnlyRacedUpdatesAreLost
PROPERTIES WritersAreNotStarved
CHECK_DEADLOCK FALSE

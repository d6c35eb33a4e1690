\* Guesses, logins, a password change, tokens and a restart, interleaved
SPECIFICATION Spec
CONSTANTS
    c1 = c1
    c2 = c2
    c3 = c3
    c4 = c4
    s1 = s1
    s2 = s2
    old = old
    new = new
    bad = bad
    t1 = t1
    t2 = t2
    NoRow = NoRow
    NoKey = NoKey
    NoMessage = NoMessage
    Call = {c1, c2, c3, c4}
    Source = {s1, s2}
    Password = {old, new, bad}
    Token = {t1, t2}
    Message <- MCMessage
    Offer <- MCOffer
    Seed <- MCSeed
    InitialRow <- MCInitialRow
    InitialTokens = {t1}
    MaxAttempts = 2
    Window = 3
    BaseLockout = 2
    MaxLockout = 3
    GlobalMax = 3
    MaxRestarts = 1
INVARIANTS TypeOK PasswordStands VerdictsAreCurrent RevocationIsFinal BackoffServed
CHECK_DEADLOCK FALSE

\* Late changes and retries, for a domain that moves and goes
SPECIFICATION FairLateSpec
CONSTANTS
    r53 = r53
    he = he
    v1 = v1
    v2 = v2
    Placeholder = cleared
    Multi <- MCMulti
    NoRoute = NoRoute
    NoOp = NoOp
    Free = Free
    Request = {q1, q2}
    Zone = {zone1}
    Record = {n1}
    Backend = {r53, he}
    Value = {v1, v2}
    InitialTxt <- MCStaleTxt
    Message <- MCLateMessage
    Snapshot <- MCDeleteSnapshot
    MaxTries = 2
INVARIANTS LateTypeOK LaterRequestsStand BooksBalance
PROPERTIES EveryRequestEnds

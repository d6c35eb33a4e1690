\* The domain moves between HE and Route 53 under three requests
SPECIFICATION Spec
CONSTANTS
    r53 = r53
    he = he
    v1 = v1
    v2 = v2
    Placeholder = cleared
    Multi <- MCMulti
    NoRoute = NoRoute
    NoOp = NoOp
    Free = Free
    Request = {q1, q2, q3}
    Zone = {zone1}
    Record = {n1}
    Backend = {r53, he}
    Value = {v1, v2}
    InitialTxt <- MCStaleTxt
    Message <- MCMoveMessage
    Snapshot <- MCMoveSnapshot
SYMMETRY SymRequest
INVARIANTS TypeOK LockDiscipline TxtExplained DeleteIsExact FifoPerRecord SingleHoldsLast
PROPERTIES ImplementsStore AnswerIsTruthful

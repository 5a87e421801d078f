SPECIFICATION QuerySpec
CONSTANTS
    None = None
    Failure = Failure
    c1 = c1
    c2 = c2
    c3 = c3
    q1 = q1
    q2 = q2
    Caller = {c1, c2, c3}
    Question = {q1}
    Limit = {0, 2, 5}
    DefaultRows = 2
    MaxRows = 3
    Slots = 1
    MaxData = 1
SYMMETRY Symmetric
INVARIANTS
    QueryTypeOK
    SlotsConserved
    CallsShared
    AnswersFit
PROPERTY
    CacheForward

SPECIFICATION FairDispatchSpec
CONSTANTS
    None = None
    a1 = a1
    a2 = a2
    p1 = p1
    p2 = p2
    s1 = s1
    t1 = t1
    b1 = b1
    Asset = {a1, a2}
    Kind = {"chart", "dashboard"}
    Slug = {s1}
    Title = {t1}
    Body = {b1}
    MaxEventId = 2
    Process = {p1, p2}
    BatchLimit = 2
INVARIANTS
    DispatchTypeOK
    MarkedWasSent
    SentInOrder
PROPERTIES
    ImplementsRelay
    EventuallyPublished

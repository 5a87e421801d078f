SPECIFICATION FairProcessSpec
CONSTANTS
    None = None
    Failure = Failure
    Caller = {c1, c2}
    Question = {q1}
    Limit = {0, 5}
    DefaultRows = 2
    MaxRows = 3
    Slots = 1
    MaxData = 0
    Stream = {s1}
    Writer = {w1}
INVARIANT
    NoQueryLeft
PROPERTIES
    CallersAnswered
    ProcessEnds
CHECK_DEADLOCK FALSE

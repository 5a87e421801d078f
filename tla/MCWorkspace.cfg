SPECIFICATION WorkspaceSpec
CONSTANTS
    None = None
    a1 = a1
    h1 = h1
    p1 = p1
    v1 = v1
    s1 = s1
    t1 = t1
    d1 = d1
    Asset = {a1}
    Handler = {h1}
    Kind = {"chart"}
    Slug = {s1}
    Title = {t1}
    Body = {d1}
    MaxEventId = 2
    Process = {p1}
    BatchLimit = 2
    Browser = {v1}
    Retries = 0
    MaxResends = 1
    Faults = {"stream"}
INVARIANT
    PagesShowCommitted
PROPERTY
    ImplementsFanout

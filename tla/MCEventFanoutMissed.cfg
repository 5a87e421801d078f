SPECIFICATION FairFanoutSpec
CONSTANTS
    None = None
    a1 = a1
    a2 = a2
    v1 = v1
    s1 = s1
    s2 = s2
    t1 = t1
    d1 = d1
    Asset = {a1}
    Kind = {"chart"}
    Slug = {s1}
    Title = {t1}
    Body = {d1}
    MaxEventId = 2
    Browser = {v1}
    Retries = 0
    MaxResends = 0
    Faults = {}
PROPERTY
    BrowsersRefreshed

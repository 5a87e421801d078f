SPECIFICATION StoreSpec
CONSTANTS
    None = None
    a1 = a1
    a2 = a2
    h1 = h1
    h2 = h2
    h3 = h3
    t1 = t1
    t2 = t2
    b1 = b1
    b2 = b2
    s1 = s1
    s2 = s2
    Asset = {a1}
    Handler = {h1, h2}
    Kind = {"chart"}
    Slug = {s1}
    Title = {t1, t2}
    Body = {b1, b2}
    MaxEventId = 3
SYMMETRY Symmetric
INVARIANTS
    TypeOK
    RevisionsDense
    NoLostUpdate
    RestoreFaithful
PROPERTIES
    ArchiveSticky
    ImplementsLog

SPECIFICATION CompileSpec
CHECK_DEADLOCK FALSE
CONSTANTS
    None = None
    d1 = d1
    d2 = d2
    m1 = m1
    m2 = m2
    x1 = x1
    n1 = n1
    v1 = v1
    t1 = t1
    f1 = f1
    Field = {d1, d2, m1, m2, x1}
    Name = {n1}
    Connectors = {"postgres"}
    Day = {1, 2}
    Value = {v1, t1, f1}
    True = t1
    False = f1
    Manifest <- Manifests
    Spec <- Specs
INVARIANTS
    CompileTypeOK
    StatementReadsBack
    ParametersUsed
    NormalizedStable
    ReadyCompiles

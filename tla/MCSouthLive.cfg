\* Termination and service under fairness.
CONSTANTS
    c1 = c1  c2 = c2  g1 = g1  g2 = g2  p1 = p1
    rt1 = rt1  rt2 = rt2  rt3 = rt3  rt4 = rt4
    None = None
    Lifecycle = Lifecycle
    Conns = {c1}
    Groups = {g1, g2}
    Callers = {}
    Rts = {rt1, rt2}
    MaxConcurrency = 1
    GroupRows <- FixedRows
    ConnStates = {TRUE}
SPECIFICATION FairSpec
PROPERTIES
    OperationsReturn
    CollectionsServed

\* Two groups and a caller share one connection and one slot while it is
\* replaced.
CONSTANTS
    c1 = c1  c2 = c2  g1 = g1  g2 = g2  p1 = p1
    rt1 = rt1  rt2 = rt2  rt3 = rt3  rt4 = rt4
    None = None
    Lifecycle = Lifecycle
    Conns = {c1}
    Groups = {g1, g2}
    Callers = {p1}
    Rts = {rt1, rt2, rt3}
    MaxConcurrency = 1
    GroupRows <- FixedRows
    ConnStates = {TRUE}
SYMMETRY RtSymmetry
SPECIFICATION Spec
INVARIANTS
    ExclusiveDriver
    SlotsFairlyShared
    GroupsUseInstalledConn
    IInv
PROPERTIES
    NeverTwoWorkers

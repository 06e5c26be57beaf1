\* Two requests, a change of the plugins and a restart.
CONSTANTS
    c1 = c1  g1 = g1  t1 = t1  a1 = a1  r1 = r1  r2 = r2  r3 = r3
    Conns = {c1}
    Groups = {g1}
    Tags = {t1}
    Apps = {a1}
    Requests = {r1, r2}
    Scanners = {"watch"}
    DriverTypes = {"builtin", "plugin"}
    NorthTypes = {"north"}
    Plugins = {"plugin", "north"}
    MaxVersion = 2
    Sent <- MCSent
    FirstRow <- MCFirstRow
    MaxChanges = 1
    MaxRestarts = 1
    None = None
SYMMETRY Symmetry
CHECK_DEADLOCK FALSE
SPECIFICATION Spec
INVARIANTS
    FollowsRows
    NothingForgotten
PROPERTIES
    FailedLeavesRow

\* Two users of an adapter whose processes die, hang and are replaced.
CONSTANTS
    p1 = p1  p2 = p2  p3 = p3  r1 = r1  r2 = r2
    Owner = Owner  None = None  Ended = Ended
    Procs = {p1, p2, p3}
    Readers = {r1, r2}
SPECIFICATION FairSpec
CHECK_DEADLOCK FALSE
INVARIANTS
    ProcessesOwned
    PendingExact
PROPERTIES
    PluginsSettle

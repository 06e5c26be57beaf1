\* Two of three commands: two for a queue of one, one for a slot.
CONSTANTS
    q = q  s = s  c1 = c1  c2 = c2  c3 = c3  t1 = t1  v1 = v1  v2 = v2
    None = None  Bad = Bad  Collector = Collector
    Commands = {c1, c2, c3}
    Apps = {q, s}
    Tags = {t1}
    Vals = {v1, v2}
    Queued = {q}
    AppOf <- AppOfThree
    Op <- OpOfThree
    Todo <- TodoOfThree
    Rows <- SomeRows
    Arrivals = 2
    PendCap = 1
    Limit = 1
SPECIFICATION FairSpec
CHECK_DEADLOCK FALSE
INVARIANTS
    ClosedIsQuiet
    ChangesComplete
PROPERTIES
    CommandsSettle

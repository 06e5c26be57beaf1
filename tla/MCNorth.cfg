\* Two groups share one application that is replaced, removed and stopped.
CONSTANTS
    g1 = g1  g2 = g2  a1 = a1  i1 = i1  i2 = i2  d1 = d1  d2 = d2
    Groups = {g1, g2}
    Apps = {a1}
    Insts = {i1, i2}
    Devices = {d1, d2}
    EventCap = 1
    None = None
SPECIFICATION FairSpec
INVARIANTS
    NorthOpenDuringCall
    RegistrationsFollow
    NothingLeaks
    NorthsInstalled
PROPERTIES
    OperationsReturn
    EventsServed

\* Two groups of one device register, restart and leave.
CONSTANTS
    g1 = g1  g2 = g2  d1 = d1  c1 = c1  c2 = c2
    None = None
    Groups = {g1, g2}
    Devices = {d1}
    Identity <- SharedDevice
    Clients = {c1, c2}
    OpsFail = FALSE
SPECIFICATION Spec
CHECK_DEADLOCK FALSE
INVARIANT
    UsersCounted

\* One group and its device; requests fail, links break, the client is renewed.
CONSTANTS
    g1 = g1  g2 = g2  d1 = d1  c1 = c1  c2 = c2
    None = None
    Groups = {g1}
    Devices = {d1}
    Identity <- OneGroup
    Clients = {c1, c2}
    OpsFail = TRUE
SPECIFICATION FairSpec
CHECK_DEADLOCK FALSE
INVARIANTS
    IInv
    ClosedDisconnects
PROPERTIES
    SubscribedInUse
    SubscribesEventually
    UnsubscribesEventually
    Reconnects
    CloseReturns

\* Two groups report three messages through a queue of two.
CONSTANTS
    m1 = m1  m2 = m2  m3 = m3  s1 = s1  s2 = s2
    Messages = {m1, m2, m3}
    Senders = {s1, s2}
    Capacity = 2
    Attempts = 2
SPECIFICATION FairSpec
INVARIANTS
    TargetUsedWhileOpen
    Conserved
PROPERTIES
    IsOutbox
    EveryMessageSettles
    CloseReturns
CHECK_DEADLOCK FALSE

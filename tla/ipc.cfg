\* Displaced logins, two connections, a Carbon process replaced by another, one fault.
SPECIFICATION Spec
CONSTANTS
    t1 = t1  t2 = t2  c1 = c1  c2 = c2  None = None
    Token = {t1, t2}
    Conn = {c1, c2}
    MaxInstances = 2
    MaxQueue = 1
    MaxFaults = 1
    MaxAge = 0
SYMMETRY Symmetry
INVARIANT TypeOK
PROPERTIES TokensLeaveOnlyWhenDropped 
CHECK_DEADLOCK FALSE

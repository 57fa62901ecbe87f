\* Two reader threads: the older envelope is applied last.
SPECIFICATION Spec
CONSTANTS
    t1 = t1  t2 = t2  c1 = c1  c2 = c2  None = None
    Token = {t1, t2}
    Conn = {c1, c2}
    MaxInstances = 1
    MaxQueue = 2
    MaxFaults = 1
    MaxAge = 0
PROPERTY StaleIsRejected

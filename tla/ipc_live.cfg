\* Repair after a fault, and after the Carbon process is gone.
SPECIFICATION FairSpec
CONSTANTS
    t1 = t1  t2 = t2  c1 = c1  c2 = c2  None = None
    Token = {t1}
    Conn = {c1, c2}
    MaxInstances = 2
    MaxQueue = 1
    MaxFaults = 1
    MaxAge = 0
PROPERTIES Converges GoesDark

\* BarredAreOffline does not hold of the code.
SPECIFICATION Spec
CONSTANTS
    a1 = a1  a2 = a2  f1 = f1  f2 = f2  t1 = t1  None = None
    Account = {a1}
    Fesl = {f1}
    Theater = {t1}
    Action = {"ban"}
    Grace = 1
    MaxEvents = 1
    MaxTokens = 3
SYMMETRY FeslSymmetry
INVARIANTS BarredAreOffline
CHECK_DEADLOCK FALSE

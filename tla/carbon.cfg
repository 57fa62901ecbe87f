\* Logins, takeovers and Theater joins of two accounts against a ban or a kick.
SPECIFICATION Spec
CONSTANTS
    a1 = a1  a2 = a2  f1 = f1  f2 = f2  t1 = t1  None = None
    Account = {a1, a2}
    Fesl = {f1, f2}
    Theater = {t1}
    Action = {"ban", "kick"}
    Grace = 1
    MaxEvents = 1
    MaxTokens = 2
SYMMETRY FeslSymmetry
INVARIANTS TypeOK DeliveredReachesKnown DeliveredClearsRooms TokensHaveOwners DisplacedStaysDisplaced
CHECK_DEADLOCK FALSE

\* Two players, two rooms of any kind, two addresses; the race of one room meets one
\* absent player, Theater request, announced exit or reconnect.
SPECIFICATION Spec
CONSTANTS
    u1 = u1  u2 = u2  g1 = g1  g2 = g2  a1 = a1  a2 = a2  Unset = Unset
    Users = {u1, u2}
    Gids = {g1, g2}
    Addrs = {a1, a2}
    Kinds = {"client", "dedicated", "challenge"}
    MinCapacity = 1
    MaxCapacity = 2
    BeforeReady = TRUE
    AfterReady = FALSE
    MaxAtOnce = 1
SYMMETRY Symmetry
CONSTRAINT FewAtOnce
INVARIANTS TypeOK SeatsMirrorMembers CapacityHolds IndexMatchesBindings RaceFollowsEndpoints OneEnteredRoom LockedRoomsAreUnlisted ForcedStayOut
CHECK_DEADLOCK FALSE

\* A player who redials before the next poll.
SPECIFICATION FairSpec
CONSTANTS
    u1 = u1  u2 = u2  g1 = g1  g2 = g2  a1 = a1  a2 = a2  Unset = Unset
    Users = {u1, u2}
    Gids = {g1}
    Addrs = {a1, a2}
    Kinds = {"client"}
    MinCapacity = 2
    MaxCapacity = 2
    BeforeReady = TRUE
    AfterReady = FALSE
    MaxAtOnce = 1
PROPERTIES JoinTimeoutSparesReconnects
CHECK_DEADLOCK FALSE

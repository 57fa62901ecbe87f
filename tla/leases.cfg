\* Three connections of two games contend for two accounts and three personas that
\* come and go, with restrictions and crashes, under fair time; no symmetry, because
\* a liveness property is checked.
SPECIFICATION FairSpec
CONSTANTS
    a1 = a1  a2 = a2  p1 = p1  p2 = p2  p3 = p3
    k1 = k1  k2 = k2  m1 = m1
    carbon = carbon  mw = mw  None = None
    Account = {a1, a2}
    Persona = {p1, p2, p3}
    Connection = {k1, k2, m1}
    Game = {carbon, mw}
    Server <- MCServer
    Process <- MCProcess
    ServerOf <- MCServerOf
    ProcessOf <- MCProcessOf
    GameOf <- MCGameOf
    OwnerOf <- TwoAccountsOwner
    TakeoverGames <- MCTakeoverGames
    LeaseTicks = 1
CONSTRAINT FewRestrictions
INVARIANTS TypeOK KeysUnique LeaseNamesOwnPersona RestrictedHoldsNoLease
PROPERTIES GrantsRespectPolicy TakeoverStaysInGame ImplementsSingleLogin CrashedLeasesLapse
CHECK_DEADLOCK FALSE

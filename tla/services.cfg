SPECIFICATION AllSpec
CONSTANTS
    None = None  host = host  ann = ann  bob = bob  cat = cat  dan = dan  t1 = t1
    k1 = k1  k2 = k2  k3 = k3
    hostToken = hostToken  guestToken = guestToken  nextToken = nextToken
    Host = host
    Helpers = {cat, dan}
    RaceEvents = {1, 2}
    Racers = {host, cat}
    Invitees = {cat}
    Cars = {1, 2}
    ClientReports <- SomeReports
    Moderators = {host}
    Carriers = {cat}
    Half = 8
    FirstSequence = 13
    Policy <- OneRetry
    BootPolicy <- OneRetry
    MaxRecent = 2
    Owners = {host}
    Joiners = {ann, bob}
    LobbyCapacity = 3
    MinPlayers = 2
    Ip <- IpOf
    GameIds = {1}
    Categories = {0, 1}
    Personas = {ann, bob}
    Threads = {t1}
    Events = {1}
    Conns = {k1, k2, k3}
    Tokens = {hostToken, guestToken, nextToken}
    Speakers = {host, cat}
    PersonaOf <- PersonaOfToken
    Gamers = {1, 2, 3}
    Sessions = {5, 6}
    ClassicCapacity = 3
    CarbonCapacity = 2
    Limit = 2
    MaxGeneration = 3
    MaxAttributes = 2
    MaxDrops = 1
    MaxSeeds = 2
    MaxRaces = 2
    MaxRuns = 2
    MaxEdits = 1
    MaxExtra = 1
    MaxLives = 2
    MaxFaults = 1
    MaxFlight = 2
    MaxGames = 2
    MaxSets = 1
    MaxExits = 1
    MaxGen = 2
    MaxWaiting = 1
    MaxStrays = 1
SYMMETRY Symmetry
CONSTRAINT Bounds
INVARIANTS
    PartsTypeOK
    
    
    
PROPERTIES
    RacesStartTogether
    
    
    
    PacketsReachTheirPlayers
CHECK_DEADLOCK FALSE

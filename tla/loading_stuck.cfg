\* Two guests load, and one of them is lost.
SPECIFICATION FairSpec
CONSTANTS
    None = None  h = h  a = a  b = b
    Players = {h, a, b}
    Host = h
    Challenge = FALSE
    Invited = {}
    Cars = {}
    MaxSeeds = 0
    MaxDrops = 1
    MaxRaces = 1
CONSTRAINT ShortWay
PROPERTY LoadingIsReleased
CHECK_DEADLOCK FALSE

\* A helper that leaves and comes back from its address.
SPECIFICATION Spec
CONSTANTS
    None = None
    Host = h
    Helpers = {a}
    Events = {1, 2}
    MaxGeneration = 3
    MaxDrops = 1
    MaxEdits = 2
INVARIANT HelpersAreCommittedAfresh
CHECK_DEADLOCK FALSE

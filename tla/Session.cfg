\* Two tasks, every driver, a switch with two slots.  It stops when
\* unloaded.
CONSTANTS
    t1 = t1
    t2 = t2
    Tasks <- MCTasks
    Drivers = {"json", "v2", "legacy", "base"}
    Slots = 2
    MaxSessions = 12
    MaxLosses = 1
    MaxFaults = 1
    MaxPresses = 1
SPECIFICATION FairSpec
CHECK_DEADLOCK FALSE
INVARIANTS
    TypeOK
    LoginsBounded
PROPERTIES
    NoSpuriousAuthError
    RequestEnds

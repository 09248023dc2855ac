\* Two switches of several kinds, one with a name, a spare address, one move
\* and one restart.
CONSTANTS
    s1 = s1
    s2 = s2
    h1 = h1
    h2 = h2
    h3 = h3
    n1 = n1
    Switches <- MCSwitches
    Hosts <- MCHosts
    Names <- MCNames
    Owner <- MCOwner
    NoHost = NoHost
    Homes <- MCHomes
    MaxMoves = 1
    MaxRestarts = 1
SPECIFICATION FairSpec
INVARIANTS
    TypeOK
    DuplicatesExplained
PROPERTIES
    SwitchFound
\* Without switches that can be found, nothing need ever happen.
CHECK_DEADLOCK FALSE

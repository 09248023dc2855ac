\* The aj4 and legacy drivers, whose behaviours include those of the JSON and
\* classic ones; every page; two calls at a time, two ports, one of which other
\* users configure, too.
CONSTANTS
    p1 = p1
    p2 = p2
    c1 = c1
    c2 = c2
    Ports <- MCPorts
    Calls <- MCCalls
    Drivers <- MCDrivers
    Asked <- MCAsked
    Touched <- MCTouched
    MaxLate = 1
SPECIFICATION FairSpec
INVARIANTS
    TypeOK
    ConfirmedHolds
PROPERTIES
    WritesPreserve
    CallsEnd

\* One port, both drivers, with and without a community: every read may fail.
CONSTANTS
    p1 = p1
    Ports <- OnePort
    Snmps = {TRUE, FALSE}
    Drivers = {"json", "base"}
    Missing = Missing
    Threshold = 2
    NamesEvery = 2
    MaxNames = 2
    MaxFailures = 4
SPECIFICATION FairSpec
INVARIANTS
    TypeOK
    StallFlagEarned
PROPERTIES
    NamesConverge

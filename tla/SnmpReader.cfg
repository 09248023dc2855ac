\* Two ports, agents with and without PoE and vendor tables that may hang.
CONSTANTS
    p1 = p1
    p2 = p2
    Ports <- TwoPorts
    Group = Group
    Agents <- EveryAgent
    HungTables <- EveryHang
    RewalkEvery = 2
    Backoff = 2
    MaxChanges = 1
    MaxFailures = 1
SPECIFICATION FairSpec
INVARIANTS
    TypeOK
    NoTableWrittenOff
PROPERTIES
    PortsFound
    WattsFound

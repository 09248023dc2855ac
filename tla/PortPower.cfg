\* Two ports, a web UI without a native reset, SNMP fallback configured.  No
\* symmetry: the run also checks liveness.
CONSTANTS
    p1 = p1
    p2 = p2
    Ports <- MCPorts
    NoPort = NoPort
    Native = FALSE
    Snmp = TRUE
    MaxLate = 1
SPECIFICATION FairSpec
INVARIANTS
    TypeOK
    DarkOnlyWhenExplained
    RestoresCounted
PROPERTIES
    PressEnds
    ConfirmedOffIsRestored

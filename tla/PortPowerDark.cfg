\* One port, no late requests: the doc string's claim, against the code.
CONSTANTS
    p1 = p1
    p2 = p2
    Ports <- OnePort
    NoPort = NoPort
    Native = FALSE
    Snmp = FALSE
    MaxLate = 0
SPECIFICATION Spec
INVARIANTS
    NoDarkFromOneFailure

\* A JSON switch, whose VLAN map is posted whole, and an S350, whose PoE table
\* is; every request is answered.
CONSTANTS
    p1 = p1
    p2 = p2
    c1 = c1
    c2 = c2
    Ports <- MCPorts
    Calls <- MCCalls
    Drivers <- WholeForms
    Asked <- MCAsked
    Touched <- MCTouched
    MaxLate = 0
SPECIFICATION Spec
PROPERTIES
    OthersUntouched

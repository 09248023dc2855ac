\* Two entries, one with the legacy driver, that compete for the trap port;
\* one over MQTT and one without traps.  Each switch grants one session.
CONSTANTS
    e1 = e1
    e2 = e2
    Entries <- Both
    NoEntry = NoEntry
    Modes <- BothModes
    Legacy <- SecondLegacy
    Slots = 1
    Lossy = TRUE
SPECIFICATION LifecycleFairSpec
INVARIANTS
    LifecycleTypeOK
    NothingLeftBehind
    
PROPERTIES
    SetupLoads

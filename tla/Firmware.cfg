\* Repeated installs over every driver, two power cuts.
CONSTANTS
    Drivers = {"json", "legacy", "base", "cheetah"}
    FlashPolls = 4
    FlashGrace = 2
    RebootPolls = 2
    MaxInstalls = 3
    MaxCuts = 2
SPECIFICATION FairSpec
CHECK_DEADLOCK FALSE
INVARIANTS
    TypeOK
    RebootIsSafe
    InstalledIsRunning
PROPERTIES
    InstallEnds
    KeepsUpgradePromise

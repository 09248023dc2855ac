\* Two ports, every outcome of a poll and of an install.  No symmetry: the
\* run also checks liveness.
CONSTANTS
    p1 = p1
    p2 = p2
    Ports <- TwoPorts
    PollOutcomes = {"fresh", "stalled", "down", "auth"}
    InstallOutcomes = {"ok", "failed"}
    MaxChanges = 2
    MaxFailures = 2
SPECIFICATION FairSpec
INVARIANTS
    TypeOK
    PollingStaysArmed
    NoScheduledPollInInstall
    OneRefreshAtATime
PROPERTIES
    Converges

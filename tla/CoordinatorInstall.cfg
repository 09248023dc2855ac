\* Polls that all bring fresh data, and installs that fail.
CONSTANTS
    p1 = p1
    p2 = p2
    Ports <- TwoPorts
    PollOutcomes = {"fresh"}
    InstallOutcomes = {"failed"}
    MaxChanges = 0
    MaxFailures = 0
SPECIFICATION FairSpec
PROPERTIES
    FailedInstallResumes

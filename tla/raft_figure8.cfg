SPECIFICATION Spec
CONSTANTS
    s1 = s1
    s2 = s2
    s3 = s3
    Servers = {s1, s2, s3}
    Commands = {c}
    Nil = Nil
    MaxTerm = 4
    MaxIndex = 2
    MaxInFlight = 1
    MaxBoots <- S1Crashes
    MaxSnapshot = 0
    Electable <- Rivals
VIEW LiveStateAndCommits
INVARIANTS
    LeaderCompleteness
    LogMatching
    StateMachineSafety
PROPERTIES
    ReplicatesLogs

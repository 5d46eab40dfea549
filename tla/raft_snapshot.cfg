SPECIFICATION Spec
CONSTANTS
    s1 = s1
    s2 = s2
    s3 = s3
    Servers = {s1, s2, s3}
    Commands = {c}
    Nil = Nil
    MaxTerm = 2
    MaxIndex = 2
    MaxInFlight = 2
    MaxBoots <- NoCrash
    MaxSnapshot = 1
    Electable <- OnlyS1
VIEW LiveStateAndCommits
SYMMETRY PeerSymmetry
INVARIANTS
    MatchIndexSound
    NextIndexInLog
PROPERTIES
    LeaderAppendOnly

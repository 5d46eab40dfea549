SPECIFICATION Spec
CONSTANTS
    s1 = s1
    s2 = s2
    s3 = s3
    Servers = {s1, s2, s3}
    Commands = {}
    Nil = Nil
    MaxTerm = 3
    MaxIndex = 0
    MaxInFlight = 2
    MaxBoots <- EachCrashesOnce
    MaxSnapshot = 0
    Electable <- Contested
VIEW LiveStateAndBallots
INVARIANTS
    ElectionInv
    ElectionSafety
    DiskIsCurrent
PROPERTIES
    TermAndVoteStable

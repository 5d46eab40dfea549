SPECIFICATION Spec
CONSTANTS
    s1 = s1
    s2 = s2
    s3 = s3
    Servers = {s1, s2, s3}
    Commands = {c}
    Nil = Nil
    MaxTerm = 3
    MaxIndex = 2
    MaxInFlight = 2
    MaxBoots <- NoCrash
    MaxSnapshot = 2
    Electable <- Rivals
VIEW LiveStateAndCommits
CONSTRAINT LateRival
INVARIANTS
    CommittedAgree

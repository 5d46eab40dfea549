\* Two servers and three terms, so that a deposed leader may lead again; the
\* workloads of MCShardCtrler say what is called and how many faults happen.
CONSTANTS
    Servers = {0, 1}
    c1 = c1
    c2 = c2
    Clerks = {c1, c2}
    Workloads <- MCWorkloads
    MaxTerm = 3
    MaxIndex = 4
    Room <- MCRoom
SPECIFICATION FairSpec
INVARIANTS ReplicasAgree Linearizable
PROPERTIES CallsReturn
CHECK_DEADLOCK FALSE

\* Two servers, of which either may lead, two terms, one snapshot; the workloads
\* of MCKVRaft say what is called and how many faults happen.  The bounds let a
\* run stop when every call has returned.
CONSTANTS
    Servers = {0, 1}
    c1 = c1
    c2 = c2
    k1 = k1
    Clerks = {c1, c2}
    Keys = {k1}
    Workloads <- MCWorkloads
    MaxTerm = 2
    MaxIndex = 4
    Room <- MCRoom
    SnapshotAt = {1}
SPECIFICATION FairSpec
PROPERTIES AlwaysLinearizable
CHECK_DEADLOCK FALSE

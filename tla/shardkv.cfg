\* Two groups, three shards, of which two move at once; their configurations are
\* made by the shard controller's own state machine (MCShardKV).
CONSTANTS
    c1 = c1
    c2 = c2
    Groups = {1, 2}
    Shards = {0, 1, 2}
    Clerks = {c1, c2}
    Scenarios <- MCScenarios
SPECIFICATION FairSpec
INVARIANTS TypeOK OneOwner MovesTogether NothingLost Linearizable
PROPERTIES Settles CallsReturn
CHECK_DEADLOCK FALSE

\* Three groups, five shards, up to five operations.
CONSTANTS
    NShards = 5
    Gids = {1, 2, 3}
    MaxNum = 5
SPECIFICATION Spec
INVARIANTS TypeOK ShardsAssigned
PROPERTIES StaysBalanced MinimalTransfer
CHECK_DEADLOCK FALSE

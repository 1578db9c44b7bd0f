\* A ClusterStream created, deleted and created again while caches are late.
CONSTANTS
    None = None
    Owners <- OneClusterStream
    ChildType <- MCChildType
    Brokers = {1, 3}
    MaxOps = 4
    MaxCrashes = 1
    MaxLag = 2
SPECIFICATION FairSpec
PROPERTIES
    OwnersAreServed
    NoOrphans
    StatusFollows
\* The cluster may come to rest.
CHECK_DEADLOCK FALSE

\* Two kinds of resource that claim one Deployment.
CONSTANTS
    None = None
    Owners <- SameName
    ChildType <- MCChildType
    Brokers = {}
    MaxOps = 3
    MaxCrashes = 1
    MaxLag = 2
SPECIFICATION FairSpec
INVARIANTS
    TypeOK
    ChildIsOfOneVersion
PROPERTIES
    OneOfNameIsServed
    DeletionEnds
\* The cluster may come to rest.
CHECK_DEADLOCK FALSE

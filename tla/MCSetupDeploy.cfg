\* A Joiner that runs, listed before one that brings the manager down until it is
\* deleted, and after that one a Joiner that cannot start and one that is rejected;
\* Streams come and go.
CONSTANTS
    example = example  both = both  streamOnly = streamOnly  bad = bad
    oneSource = oneSource  noTargets = noTargets
    None = None
    Listing <- SeveralKindsListing
    Streams <- MCStreams
    SpecOf <- SeveralKindsSpecs
    StreamSpecs <- MCStreamSpecs
    Bad <- MCBad
    MaxChanges = 3
SPECIFICATION FairSpec
INVARIANTS
    TypeOK
    RoutesAsSpecified
    SubscribesToNamed
PROPERTIES
    ValidAreDeployed
\* Once every Joiner is deleted and every change is used up nothing happens.
CHECK_DEADLOCK FALSE

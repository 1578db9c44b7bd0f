\* Two events, one restart of either channel, and one call the network fails.
CONSTANTS
    NoData = NoData
    Events = {x, y}
    UpFilter <- MCFilter
    DownFilter <- MCFilter
    Select <- MCSelect
    InputCapacity = 1
    OutputCapacity = 1
    MaxCalls = 1
    MaxCrashes = 1
    MaxFaults = 1
SPECIFICATION FairSpec
INVARIANTS
    TypeOK
    NothingLostBetween
    AtMostOnce
    SucceededInOrder
PROPERTIES
    UpstreamIsChannel
    EndToEnd
\* Callers may stop calling; the channels then wait for input.
CHECK_DEADLOCK FALSE

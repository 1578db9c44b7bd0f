\* An event that passes and fails in the projection, one the filter refuses, two
\* calls with each and one restart.  One event each fills outputChan, the
\* processing loop's hand and inputChan, and a handler can wait behind them.
CONSTANTS
    x = x  y = y  f = f
    NoData = NoData
    Events = {y, f}
    Filter <- MCFilter
    Select <- MCSelect
    Trigger = 0
    StreamTarget = TRUE
    ComponentTarget = TRUE
    InputCapacity = 1
    OutputCapacity = 1
    MaxCalls = 2
    MaxCrashes = 1
SPECIFICATION FairSpec
INVARIANTS
    TypeOK
    NothingSkipped
    AnsweredIsReceived
    RelayedInOrder
PROPERTIES
    CallsReturn
    EventuallyOffered
    ImplementsRelay

\* Callers may stop calling; the channel then waits for input.
CHECK_DEADLOCK FALSE

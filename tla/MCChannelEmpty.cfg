\* One event, which the filter and the projection accept; the trigger expression
\* is count >= 2.
CONSTANTS
    x = x  y = y  f = f
    NoData = NoData
    Events = {x}
    Filter <- MCFilter
    Select <- MCSelect
    Trigger = 2
    StreamTarget = TRUE
    ComponentTarget = FALSE
    InputCapacity = 1
    OutputCapacity = 1
    MaxCalls = 1
    MaxCrashes = 0
SPECIFICATION Spec
INVARIANTS
    CollectedIsSent

\* Callers may stop calling; the channel then waits for input.
CHECK_DEADLOCK FALSE

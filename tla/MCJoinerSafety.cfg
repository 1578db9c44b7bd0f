\* Three messages, two of them of one topic; a pair that fails; redelivery; a restart.
CONSTANTS
    hello = hello  goodbye = goodbye
    a1 = a1  a2 = a2  b1 = b1  b2 = b2
    Events = {a1, a2, b1}
    TopicA = hello
    TopicB = goodbye
    TopicOf <- MCTopicOf
    Filter <- MCFilter
    Select <- MCSelect
    StreamTarget = TRUE
    OutputCapacity = 1
    MaxDeliveries = 2
    MaxArrivals = 6
    MaxCrashes = 1
SPECIFICATION Spec
INVARIANTS
    TypeOK
    AckedIsAccountedFor
    NoArrivalJoinedTwice
    DeliveredInOrder
PROPERTIES
    NothingDroppedUnjoined
    ImplementsWindowJoin

\* Five deliveries of three messages, some of them redelivered: two batches fill
\* outputChan and the input loop's hand, and a handler can wait behind them.
\* <<a1, b1>> matches, b2 matches nothing and no pair fails.
CONSTANTS
    hello = hello  goodbye = goodbye
    a1 = a1  a2 = a2  b1 = b1  b2 = b2
    Events = {a1, b1, b2}
    TopicA = hello
    TopicB = goodbye
    TopicOf <- MCTopicOf
    Filter <- MCFilter
    Select <- MCSelect
    StreamTarget = FALSE
    OutputCapacity = 1
    MaxDeliveries = 2
    MaxArrivals = 5
    MaxCrashes = 0
SPECIFICATION FairSpec
PROPERTIES
    HandlersReturn
    MatchesAreJoined

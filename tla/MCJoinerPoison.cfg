\* The pair <<a2, b1>> fails to evaluate; <<a1, b1>> matches.
CONSTANTS
    hello = hello  goodbye = goodbye
    a1 = a1  a2 = a2  b1 = b1  b2 = b2
    Events = {a1, a2, b1}
    TopicA = hello
    TopicB = goodbye
    TopicOf <- MCTopicOf
    Filter <- MCFilter
    Select <- MCSelect
    StreamTarget = FALSE
    OutputCapacity = 1
    MaxDeliveries = 1
    MaxArrivals = 3
    MaxCrashes = 0
SPECIFICATION FairSpec
PROPERTIES
    MatchesAreJoined

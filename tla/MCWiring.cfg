\* A path from a Stream to a processor, and a channel that brings the manager
\* down; six changes are enough to build the path beside that channel and to
\* delete it, or to change, delete and create again parts of the path.
CONSTANTS
    None = None
    ClusterStreams <- MCClusterStreams
    Streams <- MCStreams
    Channels <- MCChannels
    Processors <- MCProcessors
    SpecsOf <- MCSpecsOf
    Bad <- MCBad
    MaxChanges = 6
    MaxDeaths = 1
SPECIFICATION FairSpec
INVARIANTS
    TypeOK
    ChannelIsAsAsked
    ProcessorIsAsAsked
PROPERTIES
    PathOpens
\* With every change used up and every resource deleted nothing happens.
CHECK_DEADLOCK FALSE

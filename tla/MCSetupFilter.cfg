\* A valid Joiner with a filter, and one whose window does not parse.
CONSTANTS
    example = example  both = both  streamOnly = streamOnly  bad = bad
    oneSource = oneSource  noTargets = noTargets
    None = None
    Listing <- WithFilterListing
    Streams <- MCStreams
    SpecOf <- WithFilterSpecs
    StreamSpecs <- MCStreamSpecs
    Bad <- MCBad
    MaxChanges = 2
SPECIFICATION Spec
INVARIANTS
    FilterIsApplied

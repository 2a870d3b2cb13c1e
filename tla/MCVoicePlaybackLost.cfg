SPECIFICATION FairSpec
CONSTANTS
    MaxLines = 6
    Capacity = 3
    Prebuffer = 2
    Rebuffer = 1
INVARIANTS
    FailureReported

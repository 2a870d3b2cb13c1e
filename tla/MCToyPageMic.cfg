SPECIFICATION FairSpec
CONSTANTS
    MaxPresses = 3
INVARIANTS
    MicOffInReplies

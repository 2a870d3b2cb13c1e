SPECIFICATION FairSpec
CONSTANTS
    MaxPresses = 3
INVARIANTS
    RecordingIsTimed
    MicOffUnlessHasty
PROPERTIES
    ButtonComesBack
    MicReleased

SPECIFICATION Spec
CONSTANTS
    ActiveTicks = 1
    IdleTicks = 2
    AudioCap = 1
    MaxSentences = 1
    MaxSent <- SmallMaxSent
PROPERTIES
    BabbleDoesNotRefresh

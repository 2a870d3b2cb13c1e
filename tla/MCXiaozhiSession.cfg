SPECIFICATION MCSpec
CONSTANTS
    ActiveTicks = 1
    IdleTicks = 2
    AudioCap = 1
    MaxSentences = 2
    MaxSent <- MCMaxSent
INVARIANTS
    TypeOK
    SpeakingHasAnEnd
    StandbyNotForgotten
    AbortStopsReply
PROPERTIES
    ClaimsOnlyBetweenTurns
    FarewellAfterQuiet
    SessionEnds

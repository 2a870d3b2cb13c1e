SPECIFICATION FairSpec
CONSTANTS
    MaxSentences = 3
    MaxPackets = 3
    SentenceCap = 1
    PacketCap = 1
    PrebufferPackets = 2
INVARIANTS
    SpokenInOrder
    NoSilentLoss
PROPERTIES
    ImplementsLoop
    CancelledTurnEnds

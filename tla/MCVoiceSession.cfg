SPECIFICATION FairSession
CONSTANTS
    PreRoll = 4
    StartFrames = 3
    EndSilence = 3
    Trailing = 1
    MinimumActive = 6
    MaxFrames = 10
    InitialWait = 6
    FollowupWait = 8
    MaxLines = 6
    Capacity = 3
    Prebuffer = 2
    Rebuffer = 1
INVARIANTS
    TypeOK
    CleanReplyPlayed
    PlaybackEndsFirst
    CapturedWhole
    ListeningBounded
PROPERTIES
    ReplyEnds
    QuietEndsSession

SPECIFICATION VolumeFairSpec
CONSTANTS
    Top = 4
    VolumeMin = 1
    VolumeMax = 3
    DefaultVolume = 2
    Step = 1
    MaxCommands = 2
    MaxKeys = 1
    MaxLate = 1
INVARIANTS
    VolumeInRange
PROPERTIES
    VolumesAgree

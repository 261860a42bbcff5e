SPECIFICATION MCSpec
CONSTANTS
    TotalFrames = 7
    WordBits = 2
    BitmapFrames <- MCBitmapFrames
    MaxUsed = 7
    Creations = 5
INVARIANTS
    MemoryTypeOK
    BitmapTracksOwners
    UsedFramesCountsBits
    BitmapSafeBelowItsFrames
    TypeOK
    RunningIsCurrent
PROPERTIES
    TerminatedIsFinal
    NoSecondTurn
    NoStarvation

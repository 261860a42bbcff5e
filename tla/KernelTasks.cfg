SPECIFICATION Spec
CONSTANTS
    TotalFrames = 7
    WordBits = 2
    BitmapFrames <- MCBitmapFrames
    MaxUsed = 7
    Creations = 5
    MAX_TASKS = 5
    TaskPages = 2
INVARIANTS
    ListedTasksKeepTheirFrame
    BitmapOutOfReach

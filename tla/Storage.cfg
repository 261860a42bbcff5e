SPECIFICATION MCSpec
CONSTANTS
    MAX_FILES = 2
    MAX_BLOCKS = 4
    InodeBlocks = 2
    Excess = 2
    Disks <- MCDisks
    PacketDevices <- MCPacketDevices
    DiskSectors = 2
    LBA_SPACE = 3
    COUNT_SPACE = 2
    Words <- MCWords
    Blank <- MCBlank
    Garbage <- MCGarbage
    Starts <- MCStarts
    Counts <- MCCounts
INVARIANTS
    TypeOK
    NoSharedBlock
    BlocksAccounted
    CountersAgree
    AtaTypeOK
    StoresWhereAsked
    ReadsWhatIsStored
PROPERTIES
    NothingElsewhere
    EveryCallReturns

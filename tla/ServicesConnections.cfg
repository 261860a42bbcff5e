SPECIFICATION MCSpec
CONSTANTS
    MAX_CONNECTIONS = 2
    MAX_LOG_ENTRIES = 2
    Levels <- MCLevels
    WARNING = 2
    MaxLogged = 4
    MAX_METRICS = 6
    NAME_LENGTH = 3
    Names <- MCNames
    Values <- MCValues
    WORD = 1024
    Table <- MCTable
    AskedNames <- MCAskedNames
    MemorySizes <- MCMemorySizes
    DiskSize = 2
    MAX_ROUTES = 5
    MAX_PATH_LENGTH = 3
    Methods <- MCMethods
    Paths <- MCPaths
    Handlers <- MCHandlers
    BuiltinRoutes <- MCBuiltinRoutes
    NotFound = "not found"
    VGA_WIDTH = 2
    VGA_HEIGHT = 3
    Characters <- MCCharacters
    Space = " "
    NewLine <- MCNewLine
    Texts <- MCTexts
    Banner <- MCBanner
PROPERTIES
    SimultaneousConnections

SPECIFICATION MCSpec
CONSTANTS
    MAX_CONTAINERS = 3
    ContainerLimits <- MCContainerLimits
    DefaultMaxContainers = 3
    ExposedPorts = 1
    ContainerCreations = 4
    PidCycle = 5001
    UpdateCycle = 2
    MAX_VMS = 3
    VmLimits <- MCVmLimits
    DefaultMaxVms = 3
    Disks = 1
    MacBase = 2
    VmCreations = 10
    FewVms = 4
    UptimeCycle = 2
    MAX_BACKUPS = 3
    DefaultConfig <- MCDefaultConfig
    Configs <- MCConfigs
    BackupCreations = 5
    Days = 2
INVARIANTS
    TypeOK
    ContainerPidWhileActive
    MacsRepeatByCycle
    BackupTypeOK
PROPERTIES
    OneContainerAtATime
    ContainersImplementLifecycle
    VmsImplementLifecycle
    CleanupKeepsMostRecent

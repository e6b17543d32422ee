SPECIFICATION DevicesSpec
CONSTANTS
    root = root
    ann = ann
    bob = bob
    users = users
    wheel = wheel
    Users <- MCUsers
    Groups <- MCGroups
    Root = root
    NoUser = NoUser
    Tables <- MCTables
    Skeletons <- MCSkeletons
    MIN_UID = 1
    MAX_UID = 2
    MIN_GID = 1
    MAX_GID = 2
    FileNames <- MCFileNames
    Files <- MCFiles
    Home <- MCHome
    Modes <- MCModes
    DeviceTables <- MCDeviceTables
    ExtendedAttributes = TRUE
INVARIANTS UidsUnique  HomesOwned FailsForAReason TablesApplied
CHECK_DEADLOCK FALSE

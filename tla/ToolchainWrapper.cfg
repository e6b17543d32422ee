SPECIFICATION Spec
CONSTANTS
    Options <- MCOptions
    Rests <- MCRests
    Configs <- MCConfigs
    Commands <- MCCommands
    Environments <- MCEnvironments
INVARIANTS FitsTheBuffer NothingContradicted UnsafeFound
CHECK_DEADLOCK FALSE

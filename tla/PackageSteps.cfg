SPECIFICATION Spec
CONSTANTS
    tool = tool
    lib = lib
    app = app
    Pkgs <- MCPkgs
    Host = {tool}
    Override = {app}
    InstallTarget = {lib, app}
    InstallStaging = {lib}
    InstallImages = {app}
    Deps <- MCDeps
    DownloadDeps <- MCNone
    ExtractDeps <- MCExtractDeps
    PatchDeps <- MCPatchDeps
    Patches <- MCPatches
    Jobs = {1, 2}
    NoPkg = NoPkg
    Needed <- MCNeeded
    MaxRuns = 2
    MaxFails = 1
    MaxKills <- MCMaxKills
INVARIANTS PatchedOnce EndsAsItShould RebuildRestartsAlone
PROPERTIES DepsReady
CHECK_DEADLOCK FALSE

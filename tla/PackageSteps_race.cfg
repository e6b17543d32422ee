SPECIFICATION Spec
CONSTANTS
    tool = tool
    lib = lib
    app = app
    Pkgs <- MCPkgs
    Host = {tool}
    Override = {app}
    InstallTarget = {lib, app}
    InstallStaging = {lib}
    InstallImages = {}
    Deps <- MCDeps
    DownloadDeps <- MCNone
    ExtractDeps <- MCExtractDeps
    PatchDeps <- MCPatchDeps
    Patches <- MCPatches
    Jobs = {2}
    NoPkg = NoPkg
    Needed <- MCNeeded
    MaxRuns = 2
    MaxFails = 0
    MaxKills <- MCMaxKills
INVARIANTS RebuildRestarts
CHECK_DEADLOCK FALSE

SPECIFICATION Spec
CONSTANTS
    SymType <- MCSymType
    Modules = "MODULES"
    Number <- MCNumber
    Rank <- MCRank
    IntText <- MCIntText
    HexText <- MCHexText
    Sources <- MCSources
    Order <- MCOrder
    Upgrades <- MCUpgrades
    Configs <- MCConfigs
    Autos <- MCAutos
    MaxRuns <- MCMaxRuns
    FrontEnds <- MCFrontEnds
    MaxEdits <- MCMaxEdits
    MaxDepth = 2
    ConfModes <- MCConfModes
    Texts = {"9"}
    Entered = {"7"}
    Names = {".config", "other"}
    RandomValues <- MCRandomValues
    RandomPicks <- MCRandomPicks
INVARIANTS AlwaysAnAnswer ValuesAreCurrent LegalValues WrittenIsConsistent UnchangedMeansSaved AcceptedIsKept MinimalIsEnough MenusAsWritten BuildIsCurrent
PROPERTIES SavesTheConfiguration NothingLost ImplementsFiles ConfEnds
CHECK_DEADLOCK FALSE

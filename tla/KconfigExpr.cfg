SPECIFICATION Spec
CONSTANTS
    SymType <- MCSymType
    Exprs <- MCExprs
    BaseDeps <- MCBaseDeps
    Modules = "MODULES"
    Number <- MCNumber
    Rank <- MCRank
INVARIANTS SimplificationKeepsValue SubmenuNeedsParent PrintedIsMeant
CHECK_DEADLOCK FALSE

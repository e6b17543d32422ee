SPECIFICATION Spec
CONSTANTS
    b1 = b1
    b2 = b2
    f1 = f1
    f2 = f2
    t1 = t1
    t2 = t2
    t3 = t3
    good = good
    other = other
    Short = Short
    Mixed = Mixed
    Empty = Empty
    Absent = Absent
    Fail = Fail
    NoBuild = NoBuild
    NoTemp = NoTemp
    NoHashFile = NoHashFile
    Builds <- MCBuilds
    Files <- MCFiles
    Contents <- MCContents
    Temps = {t1, t2}
    Want <- MCWantOne
    HashFile <- MCHashNone
    NoCheck <- MCNoCheckNone
    Primary = {}
    PrimaryOnly = {}
    Backup = {}
    Serves <- MCServesAny
    Legacy <- MCLegacy
    CanLink = FALSE
    DiskFull = TRUE
    MaxRuns = 2
    MaxKills = 0
INVARIANTS NoTornCopyAccepted
CHECK_DEADLOCK FALSE

SPECIFICATION Spec
CONSTANTS
    b1 = b1
    b2 = b2
    f1 = f1
    f2 = f2
    t1 = t1
    t2 = t2
    t3 = t3
    good = good
    other = other
    Short = Short
    Mixed = Mixed
    Empty = Empty
    Absent = Absent
    Fail = Fail
    NoBuild = NoBuild
    NoTemp = NoTemp
    NoHashFile = NoHashFile
    Builds <- MCBuilds
    Files <- MCFiles
    Contents <- MCContents
    Temps = {t1, t2, t3}
    Want <- MCWant
    HashFile <- MCHashMissing
    NoCheck <- MCNoCheckNone
    Primary = {b1, b2}
    PrimaryOnly = {b2}
    Backup = {}
    Serves <- MCServesAny
    Legacy <- MCLegacy
    CanLink = TRUE
    DiskFull = TRUE
    MaxRuns = 3
    MaxKills = 2
INVARIANTS OnlyWholeFiles
PROPERTIES KeepUnrefuted ImplementsShared
CHECK_DEADLOCK FALSE

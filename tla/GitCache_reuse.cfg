SPECIFICATION FairSpec
CONSTANTS
    main = main
    pull = pull
    missing = missing
    Commits <- MCCommits
    Remote = {main}
    Special = {pull}
    Under <- MCUnder
    Junk = Junk
    NoCommit = NoCommit
    NoArchive = NoArchive
    MaxFaults = 2
    MaxKills = 2
    MaxMoves = 1
INVARIANTS ArchiveIsCset CacheNeverToBlame
PROPERTIES SoundCacheKept ScriptEnds


SPECIFICATION Spec
CONSTANTS
    main = main
    pull = pull
    missing = missing
    Commits <- MCCommits
    Remote = {main}
    Special = {pull}
    Under <- MCUnder
    Junk = Junk
    NoCommit = NoCommit
    NoArchive = NoArchive
    MaxFaults = 1
    MaxKills = 0
    MaxMoves = 0
INVARIANTS RecoversFromAnyError


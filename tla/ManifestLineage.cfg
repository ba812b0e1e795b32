CONSTANTS
    Events = {"a", "b"}
    Procs = {"p", "q"}
    Nobody = "nobody"
    Ceiling = 2
    MaxCrashes = 1
    Trees = {"main", "side"}
    Home = "main"
    Publishers = {"x", "y"}
    Works <- MCWorks
    Rewrites = {"b"}
    MaxCommits = 2
    MaxManifests = 3
    MaxChecks = 1
    Mixes <- MCMixes
SPECIFICATION FairSpec
INVARIANTS JournalHolds 
PROPERTIES MarkersClose
CHECK_DEADLOCK FALSE

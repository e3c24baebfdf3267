\* Runs for one tractate or both, with a crash, while the texts are served.
SPECIFICATION Spec
CONSTANTS
    Slugs <- MCSlugs
    Titles <- MCTitles
    Places <- MCPlaces
    Links <- MCLinks
    Libraries <- MCLibraries
    Served = {"berakhot"}
    MaxAlternates = 1
    MaxRuns = 2
    MaxCrashes = 1
INVARIANTS
    Attributed
    GapsFilledInOrder
    ReportIsTrue
PROPERTIES
    RunEnds

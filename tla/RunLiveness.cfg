SPECIFICATION FairSpec
CONSTANTS
    r1 = r1
    r2 = r2
    a1 = a1
    a2 = a2
    s1 = s1
    s2 = s2
    Runs <- TwoRuns
    Starters <- OneStarter
    Stops <- TwoStops
    MaxSwitches = 0
    SignalErrors = FALSE
PROPERTIES
    StopReleasesEmptyGroup
    StopFreesSlot

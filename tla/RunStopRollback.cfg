SPECIFICATION Spec
CONSTANTS
    r1 = r1
    r2 = r2
    a1 = a1
    a2 = a2
    s1 = s1
    s2 = s2
    Runs <- OneRun
    Starters <- OneStarter
    Stops <- TwoStops
    MaxSwitches = 0
    SignalErrors = TRUE
PROPERTIES
    StopReleasesEmptyGroup

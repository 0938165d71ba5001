SPECIFICATION Spec
CONSTANTS
    r1 = r1
    r2 = r2
    a1 = a1
    a2 = a2
    s1 = s1
    s2 = s2
    Runs <- TwoRuns
    Starters <- TwoStarters
    Stops <- TwoStops
    MaxSwitches = 1
    SignalErrors = TRUE
SYMMETRY Symmetry
INVARIANTS
    IInv
PROPERTIES
    OutputPrecedesTheEnd
    SlotSpec

SPECIFICATION Spec
CONSTANTS
    w1 = w1
    w2 = w2
    p1 = p1
    p2 = p2
    p3 = p3
    Workflows <- TwoWorkflows
    Steps <- TwoSteps
    MaxSequence = 2
    MaxEpoch = 2
    ChannelCapacity = 2
SYMMETRY Symmetry
CHECK_DEADLOCK FALSE
INVARIANTS
    SessionInv
PROPERTIES
    ControlDiscipline

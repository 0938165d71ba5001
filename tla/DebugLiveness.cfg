SPECIFICATION FairSpec
CONSTANTS
    w1 = w1
    w2 = w2
    p1 = p1
    p2 = p2
    p3 = p3
    Workflows <- OneWorkflow
    Steps <- TwoSteps
    MaxSequence = 2
    MaxEpoch = 1
    ChannelCapacity = 1
CHECK_DEADLOCK FALSE
PROPERTIES
    ControlResolves
    RejectionFails

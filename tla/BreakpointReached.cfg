SPECIFICATION BreakpointSpec
CONSTANTS
    Workflows = {1}
    Steps = {1, 2}
    NoPoint = none
    MaxSafePoints = 3
    MaxRuns = 1
CHECK_DEADLOCK FALSE
PROPERTIES
    ArmedCheckpointIsReached

SPECIFICATION EditorSpec
CONSTANTS
    Files = {a, b}
    NoFile = null
    Texts <- TwoTexts
    Original = 0
    Formatted <- Pretty
    Reads = {r1}
    NoRead = noRead
    Ops = {o1}
    MaxActs = 4
CHECK_DEADLOCK FALSE
PROPERTIES
    CancelKeepsTabs

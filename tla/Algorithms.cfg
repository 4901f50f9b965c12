SPECIFICATION Spec
CONSTANTS
    WarningBytes <- WarningSize
    SuffixBytes <- SuffixSize
    FrameBytes <- FrameSize
    TreeLines <- TreeLimits
    TextChars <- TextLimits
    Elements <- ElementLimits
    MinimalElements = 1
INVARIANTS
    CutsKeepText
    WebContentIsMarked
    CallsReachTheirTool
CHECK_DEADLOCK FALSE

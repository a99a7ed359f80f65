CONSTANTS
    Cols = 2
    Rows = 4
    Visible = 3
    Fine = 4
    Low = 4
    Lines = 3
    LineLen = 4
    LoadTime = 1
    DotTime = 2
    FirstLine = 4
    HblankIn = 1
    XData = {1}
    YData <- MCYData
    AddrData = {0, 43}
    NtData <- MCNtData
    MaxAccesses = 3
SPECIFICATION Spec
INVARIANTS
    LinesRight
    VerticalRight
    EveryLine
PROPERTY
    RisesClocked

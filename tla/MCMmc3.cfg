CONSTANTS
    Latches <- MCLatches
    Overclock = 3
    LineLen = 5
    FirstLine = 7
    Lines = 3
    FrameLen = 9
    Overshoot = 1
SPECIFICATION Spec
INVARIANTS
    TypeOK
    PredictionExact
    CpuToldInTime
PROPERTY LazyIsScanline

CONSTANTS
    Chips <- AllChips
    LowSize = 4
    Bytes = {0, 1, 3}
    Delays = {3, 6}
    FrameLen = 7
    Overshoot = 2
    Vector = 2
SPECIFICATION Spec
INVARIANTS
    TypeOK
    TimerExact
    TimerToldInTime

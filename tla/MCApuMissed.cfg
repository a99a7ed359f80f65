CONSTANTS
    FramePeriod = 4
    ByteBits = 2
    Periods = {2}
    Lengths = {1, 2}
    FrameLen = 4
    Overshoot = 1
    NoIrq = 999
SPECIFICATION Spec
INVARIANT WaitingWhenPending

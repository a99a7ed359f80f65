CONSTANTS
    FrameLen = 12
    VblEnd = 4
    Lengths = {2, 3}
    VectorCycles = 3
    IrqDelays = {0, 2}
    Never = 99
SPECIFICATION Spec
INVARIANTS
    TypeOK
    ThreeExtraSuffice
PROPERTIES
    TakenByRule
    NmiNotTwice
    FramesEnd

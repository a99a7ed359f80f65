CONSTANTS
    Width = 5
    Operands = {0, 3, 11, 16, 31}
    Indices = {1, 30}
    Targets = {1023, 32}
    StartPc = 1021
    MaxSteps = 2
SPECIFICATION Spec
INVARIANT
    TypeOK
PROPERTY
    RunsLikeA6502
CHECK_DEADLOCK FALSE

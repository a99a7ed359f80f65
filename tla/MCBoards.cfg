CONSTANTS
    Kinds <- AllKinds
    PrgPages = 16
    ChrPages = 64
    Mirrors = {0, 1, 8}
    Commands = {0, 7, 8, 9, 12}
    Data <- MCData
    MaxWrites <- MCMaxWrites
SPECIFICATION Spec
INVARIANTS
    TypeOK
    MapFollowsRegisters
    LoadRestores

CONSTANTS
    Paths = {"", "shot.bmp", "shot.gif", "shot.bin"}
    NoPath = ""
    BadPaths = {"shot.gif"}
    NoDotPaths = {""}
    BmpPaths = {"shot.bmp"}
    BinPaths = {"shot.bin"}
    HooksUsed = {"before"}
    MaxDepth = 2
    MaxFrames = 3
SPECIFICATION SessionSpec
INVARIANTS
    TypeOK
    PixelsOnlyForShots
    RequestKept
    ResetsAgree
    CrashesOnlyAfterErrors

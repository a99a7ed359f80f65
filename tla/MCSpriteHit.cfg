CONSTANTS
    Lines = 5
    LineLen = 9
    Width = 2
    Height = 2
    LastX = 4
    VblEnd = 1
    FirstLine = 8
    HitOffset = 7
    FrameLen = 19
    Overclock = 3
    Pictures <- MCPictures
    Sprites <- MCSprites
    MaxWrites = 1
SPECIFICATION Spec
INVARIANTS
    HitOnTime

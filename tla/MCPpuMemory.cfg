CONSTANTS
    Pages = 2
    Carts <- MCCarts
    Values = {1}
    Fill = 0
    Rom <- MCRom
    Garbage = 9
    Banks = {5}
    Manual <- MCScreens
    MaxWrites = 2
SPECIFICATION MemorySpec
INVARIANTS
    TypeOK
    CacheCurrent
PROPERTIES
    DrawnRight
    RoundTrip

CONSTANTS
    f = f
    g = g
    Callbacks = {f, g}
    Nil = Nil
    TableSize = 2
    Starts <- MCStarts
    Lengths <- MCLengths
    Junk <- MCJunk
    MaxHooks = 3
SPECIFICATION HooksSpec
SYMMETRY Symmetry
INVARIANTS
    HooksTypeOK
    EntriesNameHooks
    TracingIffHooked
    CallsWhatWasAsked
CHECK_DEADLOCK FALSE

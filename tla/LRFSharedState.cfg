CONSTANTS
    DefaultSize = 128
    SharedSize = 24
    FrameLens = {22, 73, 6}
    DiagLens = {5, 27, 207}
    MaxSwitches = 2
SPECIFICATION Spec
INVARIANT StoreInBounds

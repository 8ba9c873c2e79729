SPECIFICATION RateSpec
CONSTANTS
    Hits = {h1, h2}
    Limit = 2
    Window = 2
    Saturation = 4
    MaxOutages = 1
    MaxLosses = 0
INVARIANT OutageLocksNobodyOut

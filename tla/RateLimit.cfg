\* Two hits in flight, one outage, one loss of a store.
SPECIFICATION FairRateSpec
CONSTANTS
    Hits = {h1, h2}
    Limit = 2
    Window = 2
    Saturation = 4
    MaxOutages = 1
    MaxLosses = 1
INVARIANTS RateTypeOK SlidingBound
PROPERTY WindowEnds

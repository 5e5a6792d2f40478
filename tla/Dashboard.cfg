\* Three records through a ring of two, at most one restart between them, two
\* refreshes that overlap; a page is stale after one second.
SPECIFICATION Spec
CONSTANTS
    Traffic <- MCTraffic
    Capacity = 2
    Limit = 1
    StaleAfter = 1
    Overlap = 2
INVARIANTS LiveMeansFresh
PROPERTIES RendersItsOwnTime LostServerIsNoticed HoverSettles CatchesUp

CONSTANTS
    f1 = f1
    r1 = r1
    Flight = {f1}
    Room = {r1}
    NoFlight = NoFlight
    Units <- Few
    MaxQuantity = 2
    MaxBookings = 2
    MaxLoads = 2
SPECIFICATION FairSpec
INVARIANTS TypeOK NeverRefused OnePostAtATime LatestIsShown
PROPERTIES CatalogCatchesUp
\* The user may leave the page as it is.
CHECK_DEADLOCK FALSE

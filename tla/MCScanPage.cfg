SPECIFICATION FairSpec
CONSTANTS
    A = A
    B = B
    None = None
    Scans <- TwoScans
    Results <- ResultsOfA
    ScanOf <- OfA
    Earlier <- OnlyB
    Streams <- Sessions
    ReplayLimit = 2
    MaxFaults = 1
    MaxClicks = 2
    MaxPolls = 2
INVARIANTS TypeOK StreamComplete OneStream ScanningHasOwner
PROPERTIES DeliversResults ScanSettles
CHECK_DEADLOCK FALSE

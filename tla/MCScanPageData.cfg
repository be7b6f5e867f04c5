SPECIFICATION Spec
CONSTANTS
    A = A
    B = B
    None = None
    Scans <- TwoScans
    Results <- ResultsOfA
    ScanOf <- OfA
    Earlier <- OnlyB
    Streams <- Sessions
    ReplayLimit = 2
    MaxFaults = 0
    MaxClicks = 2
    MaxPolls = 2
INVARIANTS DataIsOnScreen
CHECK_DEADLOCK FALSE

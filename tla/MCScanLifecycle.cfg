CONSTANTS
    Scans = {s1, s2, s3}
    Inputs = {i1}
    None = None
    MaxConcurrent = 1
    MaxQueued = 1
    MaxCrashes = 1
SPECIFICATION FairSpec
INVARIANTS TypeOK PermitsConserved
PROPERTIES VerdictStands SweepSparesLive EveryScanEnds
CHECK_DEADLOCK FALSE

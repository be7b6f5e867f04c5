CONSTANTS
    Scans = {s1, s2, s3}
    Inputs = {i1}
    None = None
    MaxConcurrent = 1
    MaxQueued = 1
    MaxCrashes = 1
SPECIFICATION Spec
PROPERTY ReapsOrphansOnly
SYMMETRY Interchangeable
CHECK_DEADLOCK FALSE

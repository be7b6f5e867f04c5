--------------------------- MODULE MCScanLifecycle ---------------------------
(* Instances of ScanLifecycle for TLC.  Scan ids are interchangeable.        *)
EXTENDS ScanLifecycle, TLC

Interchangeable == Permutations(Scans)

==============================================================================

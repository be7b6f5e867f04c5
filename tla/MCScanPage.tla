------------------------------ MODULE MCScanPage ------------------------------
(* Instances of ScanPage for TLC: scan A with two results, scan B with none. *)
EXTENDS ScanPage

CONSTANTS A, B

TwoScans == {A, B}
OnlyB == {B}
ResultsOfA == 1..2
OfA == [r \in ResultsOfA |-> A]
Sessions == 1..(2 * MaxClicks)

===============================================================================

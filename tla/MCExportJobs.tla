----------------------------- MODULE MCExportJobs -----------------------------
(* ExportJobs on small instances. *)
EXTENDS ExportJobs, TLC

\* Jobs and processes are interchangeable: no action orders them.
Interchangeable == Permutations(Jobs) \cup Permutations(Workers)

===============================================================================

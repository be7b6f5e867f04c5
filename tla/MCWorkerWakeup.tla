----------------------------- MODULE MCWorkerWakeup -----------------------------
(* WorkerWakeup on small instances. *)
EXTENDS WorkerWakeup

=================================================================================

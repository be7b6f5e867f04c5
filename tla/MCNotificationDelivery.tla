------------------------ MODULE MCNotificationDelivery ------------------------
(* NotificationDelivery on small instances. *)
EXTENDS NotificationDelivery, TLC

\* Processes are interchangeable: no action orders them.
Interchangeable == Permutations(Workers)

===============================================================================

------------------------------ MODULE MCWorker ------------------------------
(* Instances of Worker, and with it of Notification, for TLC. *)
EXTENDS Worker, TLC

=============================================================================

------------------------------ MODULE MCManager ------------------------------
(* The Manager and the ClientService together, for TLC. *)
EXTENDS ManagerMonitor
=============================================================================

-------------------------- MODULE MCPollingServer --------------------------
(* An instance of PollingServer for TLC.                                   *)
EXTENDS PollingServer
=============================================================================

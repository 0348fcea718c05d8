---------------------------- MODULE MCMsOSQueue ----------------------------
(* A small instance of the message queue for TLC.                          *)
EXTENDS MsOSQueue
=============================================================================

-------------------------- MODULE MCMessageQueue --------------------------
(* A small instance of MessageQueue for TLC.                               *)
EXTENDS MessageQueue
=============================================================================

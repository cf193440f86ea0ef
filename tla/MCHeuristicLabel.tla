------------------------- MODULE MCHeuristicLabel -------------------------
(* Small instances of HeuristicLabel for TLC.                              *)
EXTENDS HeuristicLabel
=============================================================================

--------------------------- MODULE MCFullyAsync ---------------------------
(* Small instances of FullyAsync for TLC.                                  *)
EXTENDS FullyAsync
=============================================================================

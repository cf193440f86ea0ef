--------------------------- MODULE MCContentUnit ---------------------------
(* A small instance of ContentUnit for TLC.                                *)
EXTENDS ContentUnit

\* The first sentence is less than a tenth of the trace, the others are more.
Lengths == <<1, 6, 4>>
NoSet == {"null"}
Codes == {{}, {"H1"}, NoSet}
=============================================================================

-------------------------- MODULE MCSemanticSpace --------------------------
(* A small instance of SemanticSpace for TLC.                              *)
EXTENDS SemanticSpace

\* A trigger of both modes, a trigger of the model's mode only, an H tag that
\* triggers nothing, and a non-heuristic tag.
MCTagSets == {{<<"N", 1, "">>}, {<<"H", 1, "a">>}, {<<"H", 13, "b">>},
              {<<"H", 3, "">>, <<"N", 2, "">>}}
=============================================================================

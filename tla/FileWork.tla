----------------------------- MODULE FileWork -----------------------------
(***************************************************************************)
(* What a step of the pipeline does with one file, seen from outside: it   *)
(* takes the file or leaves it, works, opens the output, and fills it,     *)
(* fails or is killed.  ContentUnit, HeuristicLabel and SemanticSpace      *)
(* implement this for the file they are about, and Pipeline for every step *)
(* and file, so that Pipeline needs no more of a file than these states.   *)
(***************************************************************************)

CONSTANT Anew   \* whether the step may make an output anew, and makes one attempt (Step 1)

VARIABLES
  work,    \* "out", "asking", "writing", "done" or "gaveup"
  output   \* "absent", "torn" or "whole"

Idle == {"out", "done", "gaveup"}

Init == work \in {"out", "asking"} /\ output = "absent"

Take == /\ work \in Idle /\ (Anew \/ output = "absent")
        /\ work' = "asking" /\ UNCHANGED output

\* Whoever makes no output anew takes a torn one for finished.
Skip == /\ work \in Idle /\ output \in IF Anew THEN {"whole"} ELSE {"torn", "whole"}
        /\ work' = "done" /\ UNCHANGED output

GiveUp == work = "asking" /\ work' = "gaveup" /\ UNCHANGED output

Open == /\ work = "asking" /\ (Anew \/ output # "whole")
        /\ work' = "writing" /\ output' = "torn"

Fill == work = "writing" /\ work' = "done" /\ output' = "whole"

\* What is open and not filled stays torn; whoever makes attempts makes the next one.
FillFails == /\ work = "writing"
             /\ work' \in IF Anew THEN {"gaveup"} ELSE {"asking", "gaveup"}
             /\ UNCHANGED output

\* The program ends or is killed.
Leave == work' = "out" /\ UNCHANGED output

Next == Take \/ Skip \/ GiveUp \/ Open \/ Fill \/ FillFails \/ Leave

Spec == Init /\ [][Next]_<<work, output>>
=============================================================================

-------------------------- MODULE SpaceTrajectory --------------------------
(***************************************************************************)
(* What Step 3 of the SHAPE pipeline promises to the metrics that read its *)
(* output: a reasoning trace is a walk over semantic spaces.  The walk     *)
(* starts in space 0; each Content Unit stays, goes back to a space that   *)
(* was opened before, or opens the next one.  Space ids are dense: nothing *)
(* is ever called k before 1 .. k-1 have been visited.  A failed attempt   *)
(* may throw the whole walk away and start again, and only a complete walk *)
(* is published.                                                           *)
(***************************************************************************)
EXTENDS Naturals, Sequences

CONSTANT Length          \* set of possible trace lengths

VARIABLES trail,         \* space of each Content Unit walked so far
          known,         \* how many spaces this attempt has opened; they are 0 .. known-1
          published      \* the walk that readers see; <<>> before there is one

avars == <<trail, known, published>>

AInit == /\ trail = <<>>
         /\ known = 1
         /\ published = <<>>

\* The next unit lies in a space that is already known ...
Revisit(id) == /\ id \in 0 .. known - 1
               /\ trail' = Append(trail, id)
               /\ UNCHANGED <<known, published>>

\* ... or in the one new space that may follow.
Open == /\ trail' = Append(trail, known)
        /\ known' = known + 1
        /\ UNCHANGED published

StartOver == /\ trail' = <<>>
             /\ known' = 1
             /\ UNCHANGED published

Publish == /\ Len(trail) \in Length
           /\ published' = trail
           /\ UNCHANGED <<trail, known>>

ANext == \/ \E id \in 0 .. known - 1 : Revisit(id)
         \/ Open
         \/ StartOver
         \/ Publish

ASpec == AInit /\ [][ANext]_avars
=============================================================================

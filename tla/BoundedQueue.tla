--------------------------- MODULE BoundedQueue ---------------------------
(***************************************************************************)
(* What the users of the message queue rely on: putting and taking are     *)
(* indivisible, samples are taken in the order they were put, each at most *)
(* once, and when the queue is full it is the oldest sample that makes     *)
(* room.  The sample put n-th is represented by n.                         *)
(***************************************************************************)
EXTENDS Naturals, Sequences

CONSTANT Capacity        \* how many samples the queue holds

VARIABLES contents,      \* the samples, oldest first
          puts,          \* how many were put
          newest_taken,  \* the latest sample handed out, 0 before any
          closed

qvars == <<contents, puts, newest_taken, closed>>

\* What a put leaves in a queue q of capacity cap.
Putting(q, sample, cap) == Append(IF Len(q) >= cap THEN Tail(q) ELSE q, sample)

QInit == /\ contents = <<>>
         /\ puts = 0
         /\ newest_taken = 0
         /\ closed = FALSE

Put == /\ puts' = puts + 1
       /\ contents' = Putting(contents, puts + 1, Capacity)
       /\ UNCHANGED <<newest_taken, closed>>

Take == /\ contents # <<>>
        /\ newest_taken' = Head(contents)
        /\ contents' = Tail(contents)
        /\ UNCHANGED <<puts, closed>>

Clear == /\ contents' = <<>>
         /\ UNCHANGED <<puts, newest_taken, closed>>

Close == /\ closed' = TRUE
         /\ UNCHANGED <<contents, puts, newest_taken>>

QNext == Put \/ Take \/ Clear \/ Close

QSpec == QInit /\ [][QNext]_qvars
=============================================================================

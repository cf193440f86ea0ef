--------------------------- MODULE AsyncChannels ---------------------------
(***************************************************************************)
(* What the Rollouter and the Trainer of fully asynchronous training share:*)
(* the message queue, whose calls are indivisible (MessageQueue implements *)
(* BoundedQueue), and the calls the ParameterSynchronizer makes to the     *)
(* Rollouter around a transfer of weights.                                 *)
(***************************************************************************)
EXTENDS Integers, Sequences, FiniteSets

CONSTANTS
  Total,          \* total_rollout_steps: the samples of the run
  MaxRequired     \* max_required_samples, which is also the queue's capacity

ASSUME ChannelConstants == Total \in Nat /\ MaxRequired \in Nat \ {0}

Samples == 1 .. Total
Sentinel == 0            \* None in the queue: no sample will follow

VARIABLES
  queue,          \* the message queue, oldest first
  dropped,        \* history: what puts into the full queue pushed out
  calls,          \* the calls pause, update_param_version and resume
  weights         \* the version of the weights on the generation servers

channels == <<queue, dropped, calls, weights>>

BQ == INSTANCE BoundedQueue WITH
  Capacity <- MaxRequired, contents <- queue, puts <- 0, newest_taken <- 0,
  closed <- FALSE

Methods == {"pause", "update", "resume"}

\* Before the training loop starts the first synchronisation has completed.
ChannelsInit == /\ queue = <<>>
                /\ dropped = {}
                /\ calls = [m \in Methods |-> "returned"]
                /\ weights = 0

Put(sample) == /\ queue' = BQ!Putting(queue, sample, MaxRequired)
               /\ dropped' = IF Len(queue) >= MaxRequired
                             THEN dropped \cup {Head(queue)} ELSE dropped

=============================================================================

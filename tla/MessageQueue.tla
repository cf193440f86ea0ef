--------------------------- MODULE MessageQueue ---------------------------
(***************************************************************************)
(* The MessageQueue actor of fully_async_policy/message_queue.py: a deque  *)
(* guarded by an asyncio lock, with a condition on which get_sample waits. *)
(* Every remote call is a coroutine of the actor.  Between two awaits a    *)
(* coroutine runs alone; asyncio.Lock is granted first come, first served, *)
(* and a coroutine that waits on the condition gives the lock up and asks  *)
(* for it again, at the end of the line, once it is notified.              *)
(***************************************************************************)
EXTENDS Integers, Sequences, FiniteSets

CONSTANTS
  Clients,          \* callers; each has at most one call in flight
  max_queue_size,   \* capacity of the deque
  MaxProduced,      \* bound: calls of put_sample
  MaxAside          \* bound: parameter versions and validation results waiting, together

ASSUME QueueConstants ==
  /\ max_queue_size \in Nat \ {0}
  /\ MaxProduced \in Nat /\ MaxAside \in Nat

VARIABLES
  pc,               \* of every client: what its call is at
  lock,             \* who holds the lock, and behind it who waits for it, in order
  queue,            \* the deque; the sample put n-th is represented by n
  val_queue,        \* validation results: how many wait
  current_param_version,
  running,
  total_produced, total_consumed, dropped_samples,
  cleared,          \* history: samples removed by clear_queue
  last_taken        \* history: the latest sample handed out

counters == <<total_produced, total_consumed, dropped_samples, cleared, last_taken>>
aside == <<val_queue, current_param_version>>
vars == <<pc, lock, queue, aside, running, counters>>

Ops == {"put", "get", "clear", "shutdown", "version", "put_validate", "get_validate"}

-----------------------------------------------------------------------------
Init == /\ pc = [c \in Clients |-> "idle"]
        /\ lock = <<>>
        /\ queue = <<>>
        /\ val_queue = 0
        /\ current_param_version = 0
        /\ running = TRUE
        /\ total_produced = 0 /\ total_consumed = 0 /\ dropped_samples = 0
        /\ cleared = 0 /\ last_taken = 0

\* Bound: of the calls that touch neither deque nor condition, one at a time.
AsideOps == {"version", "put_validate", "get_validate"}

\* A call arrives and asks for the lock.  (get_queue_size, get_statistics and
\* get_memory_usage take the lock and change nothing; they are left out.)
Call(c, op) == /\ pc[c] = "idle"
               /\ op = "put" => total_produced + Cardinality({d \in Clients : pc[d] = "put"})
                                  < MaxProduced
               /\ op \in {"version", "put_validate"} =>
                    current_param_version + val_queue < MaxAside
               /\ op \in AsideOps => \A d \in Clients : pc[d] \notin AsideOps
               /\ pc' = [pc EXCEPT ![c] = op]
               /\ lock' = Append(lock, c)
               /\ UNCHANGED <<queue, aside, running, counters>>

Holds(c) == lock # <<>> /\ Head(lock) = c

\* The call ends: the lock goes to the next in line.
Return(c) == /\ pc' = [pc EXCEPT ![c] = "idle"]
             /\ lock' = Tail(lock)

\* notify_all in a call that ends: the waiting calls will ask for the lock again.
ReturnNotifying(c) == /\ pc' = [d \in Clients |-> IF d = c THEN "idle"
                                                  ELSE IF pc[d] = "waiting" THEN "woken"
                                                  ELSE pc[d]]
                      /\ lock' = Tail(lock)

\* Slips: the deque's own maxlen makes the room and nobody counts; a full queue refuses
\* the new sample.
PutSampleSilentDrop(c) ==
  /\ pc[c] = "put" /\ Holds(c)
  /\ queue' = Append(IF Len(queue) >= max_queue_size THEN Tail(queue) ELSE queue,
                     total_produced + 1)
  /\ total_produced' = total_produced + 1
  /\ ReturnNotifying(c)
  /\ UNCHANGED <<aside, running, total_consumed, dropped_samples, cleared, last_taken>>

PutSampleRefuses(c) ==
  /\ pc[c] = "put" /\ Holds(c)
  /\ queue' = IF Len(queue) >= max_queue_size THEN queue
              ELSE Append(queue, total_produced + 1)
  /\ dropped_samples' = dropped_samples + IF Len(queue) >= max_queue_size THEN 1 ELSE 0
  /\ total_produced' = total_produced + 1
  /\ ReturnNotifying(c)
  /\ UNCHANGED <<aside, running, total_consumed, cleared, last_taken>>

PutSample(c) ==
  /\ pc[c] = "put" /\ Holds(c)
  /\ queue' = Append(IF Len(queue) >= max_queue_size THEN Tail(queue) ELSE queue,
                     total_produced + 1)
  /\ dropped_samples' = dropped_samples + IF Len(queue) >= max_queue_size THEN 1 ELSE 0
  /\ total_produced' = total_produced + 1
  /\ ReturnNotifying(c)
  /\ UNCHANGED <<aside, running, total_consumed, cleared, last_taken>>

\* Mutant of GetSampleWaits: sleeping without giving the lock up.
GetSampleWaitsLocked(c) == /\ pc[c] = "get" /\ Holds(c)
                           /\ queue = <<>> /\ running
                           /\ pc' = [pc EXCEPT ![c] = "waiting"]
                           /\ UNCHANGED <<lock, queue, aside, running, counters>>

\* get_sample finds nothing and waits on the condition, without the lock.
GetSampleWaits(c) == /\ pc[c] = "get" /\ Holds(c)
                     /\ queue = <<>> /\ running
                     /\ pc' = [pc EXCEPT ![c] = "waiting"]
                     /\ lock' = Tail(lock)
                     /\ UNCHANGED <<queue, aside, running, counters>>

\* A waiting call that was notified asks for the lock to look again.
Wake(c) == /\ pc[c] = "woken"
           /\ pc' = [pc EXCEPT ![c] = "get"]
           /\ lock' = Append(lock, c)
           /\ UNCHANGED <<queue, aside, running, counters>>

\* Mutant of GetSample: taking from the wrong end.
GetSampleNewest(c) == /\ pc[c] = "get" /\ Holds(c)
                      /\ queue # <<>>
                      /\ last_taken' = queue[Len(queue)]
                      /\ queue' = SubSeq(queue, 1, Len(queue) - 1)
                      /\ total_consumed' = total_consumed + 1
                      /\ Return(c)
                      /\ UNCHANGED <<aside, running, total_produced, dropped_samples, cleared>>

GetSample(c) == /\ pc[c] = "get" /\ Holds(c)
                /\ queue # <<>>
                /\ last_taken' = Head(queue)
                /\ queue' = Tail(queue)
                /\ total_consumed' = total_consumed + 1
                /\ Return(c)
                /\ UNCHANGED <<aside, running, total_produced, dropped_samples, cleared>>

GetSampleClosed(c) == /\ pc[c] = "get" /\ Holds(c)
                      /\ queue = <<>> /\ ~running
                      /\ Return(c)
                      /\ UNCHANGED <<queue, aside, running, counters>>

ClearQueue(c) == /\ pc[c] = "clear" /\ Holds(c)
                 /\ queue' = <<>>
                 /\ cleared' = cleared + Len(queue)
                 /\ Return(c)
                 /\ UNCHANGED <<aside, running, total_produced, total_consumed,
                                dropped_samples, last_taken>>

\* Mutant of Shutdown: nobody is told.
ShutdownSilent(c) == /\ pc[c] = "shutdown" /\ Holds(c)
                     /\ running' = FALSE
                     /\ Return(c)
                     /\ UNCHANGED <<queue, aside, counters>>

Shutdown(c) == /\ pc[c] = "shutdown" /\ Holds(c)
               /\ running' = FALSE
               /\ ReturnNotifying(c)
               /\ UNCHANGED <<queue, aside, counters>>

UpdateParamVersion(c) == /\ pc[c] = "version" /\ Holds(c)
                         /\ current_param_version' = current_param_version + 1
                         /\ Return(c)
                         /\ UNCHANGED <<queue, val_queue, running, counters>>

PutValidate(c) == /\ pc[c] = "put_validate" /\ Holds(c)
                  /\ val_queue' = val_queue + 1
                  /\ Return(c)
                  /\ UNCHANGED <<queue, current_param_version, running, counters>>

GetValidate(c) == /\ pc[c] = "get_validate" /\ Holds(c)
                  /\ val_queue' = IF val_queue > 0 THEN val_queue - 1 ELSE 0
                  /\ Return(c)
                  /\ UNCHANGED <<queue, current_param_version, running, counters>>

\* One step of a call that is under way.
Step(c) == \/ PutSample(c)
           \/ GetSampleWaits(c) \/ Wake(c) \/ GetSample(c) \/ GetSampleClosed(c)
           \/ ClearQueue(c) \/ Shutdown(c)
           \/ UpdateParamVersion(c) \/ PutValidate(c) \/ GetValidate(c)

Next == \E c \in Clients : Step(c) \/ \E op \in Ops : Call(c, op)

\* The event loop of the actor runs every coroutine that can run.
Spec == Init /\ [][Next]_vars /\ \A c \in Clients : WF_vars(Step(c))

-----------------------------------------------------------------------------
(* Properties.                                                             *)

InLock == {lock[i] : i \in 1 .. Len(lock)}

TypeOK ==
  /\ pc \in [Clients -> Ops \cup {"idle", "waiting", "woken"}]
  /\ lock \in Seq(Clients)
  /\ queue \in Seq(Nat) /\ Len(queue) <= max_queue_size
  /\ val_queue \in Nat /\ current_param_version \in Nat
  /\ running \in BOOLEAN
  /\ total_produced \in Nat /\ total_consumed \in Nat /\ dropped_samples \in Nat
  /\ cleared \in Nat /\ last_taken \in Nat

\* Every sample that was put is one of the at most max_queue_size that are queued, or was
\* handed out, dropped to make room or cleared, once: the actor's statistics add up.
Conservation ==
  /\ TypeOK
  /\ total_produced = total_consumed + dropped_samples + cleared + Len(queue)

\* The queue holds the newest samples in the order they were put, and all of them
\* are newer than anything handed out; so nothing is handed out twice or out of
\* order.
NewestInOrder ==
  /\ \A i \in 1 .. Len(queue) : queue[i] = total_produced - Len(queue) + i
  /\ last_taken <= total_produced - Len(queue)

\* No wakeup is lost: a call of get_sample sleeps only while there is nothing to
\* take and the queue is open.
WaitersJustified ==
  (\E c \in Clients : pc[c] = "waiting") => queue = <<>> /\ running

\* Every call comes to an end, or to wait on the condition for samples.
CallsReturn ==
  \A c \in Clients : pc[c] \notin {"idle", "waiting"} ~> pc[c] \in {"idle", "waiting"}

\* The actor implements the indivisible queue its users assume.
Queue == INSTANCE BoundedQueue WITH
  Capacity <- max_queue_size,
  contents <- queue,
  puts <- total_produced,
  newest_taken <- last_taken,
  closed <- ~running

ImplementsQueue == Queue!QSpec
=============================================================================

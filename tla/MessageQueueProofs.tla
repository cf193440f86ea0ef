------------------------- MODULE MessageQueueProofs -------------------------
(***************************************************************************)
(* Proofs about the MessageQueue actor, for every set of callers, every    *)
(* capacity and any number of puts: the types, the account and the order   *)
(* of the samples, that no wakeup is lost, and that the locked deque       *)
(* implements the indivisible queue of BoundedQueue.                       *)
(***************************************************************************)
EXTENDS MessageQueue, TLAPS

\* What a step of one call leaves in pc and lock has the right type.
LEMMA LineType ==
  ASSUME TypeOK, NEW c \in Clients,
         \/ Return(c) /\ lock # <<>>
         \/ ReturnNotifying(c) /\ lock # <<>>
  PROVE  /\ pc' \in [Clients -> Ops \cup {"idle", "waiting", "woken"}]
         /\ lock' \in Seq(Clients)
<1>1. CASE Return(c) /\ lock # <<>>
  BY <1>1 DEF TypeOK, Return
<1>2. CASE ReturnNotifying(c) /\ lock # <<>>
  <2>1. lock' \in Seq(Clients)
    BY <1>2 DEF TypeOK, ReturnNotifying
  <2>2. pc' \in [Clients -> Ops \cup {"idle", "waiting", "woken"}]
    BY <1>2 DEF TypeOK, ReturnNotifying
  <2> QED
    BY <2>1, <2>2
<1> QED
  BY <1>1, <1>2

LEMMA TypeStep == ASSUME QueueConstants, TypeOK, [Next]_vars PROVE TypeOK'
<1> USE DEF QueueConstants
<1>0. CASE UNCHANGED vars
  BY <1>0 DEF TypeOK, vars, aside, counters
<1>a. ASSUME NEW c \in Clients, NEW op \in Ops, Call(c, op) PROVE TypeOK'
  BY <1>a DEF Call, TypeOK, aside, counters
<1>b. ASSUME NEW c \in Clients, Step(c) PROVE TypeOK'
  <2>1. CASE PutSample(c)
    <3>1. /\ pc' \in [Clients -> Ops \cup {"idle", "waiting", "woken"}]
          /\ lock' \in Seq(Clients)
      BY <2>1, LineType DEF PutSample, Holds
    <3>2. queue' \in Seq(Nat) /\ Len(queue') <= max_queue_size
      BY <2>1 DEF PutSample, TypeOK
    <3>3. dropped_samples' \in Nat /\ total_produced' \in Nat
      BY <2>1 DEF PutSample, TypeOK
    <3> QED
      BY <2>1, <3>1, <3>2, <3>3 DEF PutSample, TypeOK, aside
  <2>2. CASE GetSampleWaits(c)
    BY <2>2 DEF GetSampleWaits, Holds, TypeOK, aside, counters
  <2>3. CASE Wake(c)
    BY <2>3 DEF Wake, Ops, TypeOK, aside, counters
  <2>4. CASE GetSample(c)
    <3>1. /\ pc' \in [Clients -> Ops \cup {"idle", "waiting", "woken"}]
          /\ lock' \in Seq(Clients)
      BY <2>4, LineType DEF GetSample, Holds
    <3>2. /\ queue' \in Seq(Nat) /\ Len(queue') <= max_queue_size
          /\ last_taken' \in Nat /\ total_consumed' \in Nat
      BY <2>4 DEF GetSample, TypeOK
    <3> QED
      BY <2>4, <3>1, <3>2 DEF GetSample, TypeOK, aside
  <2>5. CASE GetSampleClosed(c)
    BY <2>5, LineType DEF GetSampleClosed, Holds, TypeOK, aside, counters
  <2>6. CASE ClearQueue(c)
    <3>1. /\ pc' \in [Clients -> Ops \cup {"idle", "waiting", "woken"}]
          /\ lock' \in Seq(Clients)
      BY <2>6, LineType DEF ClearQueue, Holds
    <3> QED
      BY <2>6, <3>1 DEF ClearQueue, TypeOK, aside
  <2>7. CASE Shutdown(c)
    BY <2>7, LineType DEF Shutdown, Holds, TypeOK, aside, counters
  <2>8. CASE UpdateParamVersion(c)
    BY <2>8, LineType DEF UpdateParamVersion, Holds, TypeOK, counters
  <2>9. CASE PutValidate(c)
    BY <2>9, LineType DEF PutValidate, Holds, TypeOK, counters
  <2>10. CASE GetValidate(c)
    BY <2>10, LineType DEF GetValidate, Holds, TypeOK, counters
  <2> QED
    BY <1>b, <2>1, <2>2, <2>3, <2>4, <2>5, <2>6, <2>7, <2>8, <2>9, <2>10 DEF Step
<1> QED
  BY <1>0, <1>a, <1>b DEF Next

\* The actor's state keeps its types and the deque its capacity, whatever calls interleave.
LEMMA TypeCorrect == ASSUME QueueConstants PROVE Spec => []TypeOK
<1>1. Init => TypeOK
  BY DEF Init, TypeOK, QueueConstants
<1>2. TypeOK /\ [Next]_vars => TypeOK'
  BY TypeStep
<1> QED
  BY <1>1, <1>2, PTL DEF Spec

-----------------------------------------------------------------------------
\* Every step that neither puts, takes nor clears leaves the deque and its counters alone.

LEMMA OtherSteps ==
  ASSUME NEW c \in Clients, Step(c)
  PROVE  \/ PutSample(c) \/ GetSample(c) \/ ClearQueue(c)
         \/ Shutdown(c) /\ UNCHANGED <<queue, counters>>
         \/ UNCHANGED <<queue, counters, running>>
BY DEF Step, GetSampleWaits, Wake, GetSampleClosed, Shutdown, UpdateParamVersion, PutValidate,
       GetValidate

\* Every sample put is queued, handed out, dropped or cleared.
AddsUp == total_produced = total_consumed + dropped_samples + cleared + Len(queue)
Account == AddsUp /\ NewestInOrder

LEMMA AccountStep == ASSUME QueueConstants, TypeOK, Account, [Next]_vars PROVE Account'
<1>0. CASE UNCHANGED <<queue, counters>>
  BY <1>0 DEF Account, AddsUp, NewestInOrder, counters
<1>1. ASSUME NEW c \in Clients, PutSample(c) PROVE Account'
  <2>1. CASE Len(queue) >= max_queue_size
    <3>1. /\ queue' = Append(Tail(queue), total_produced + 1)
          /\ dropped_samples' = dropped_samples + 1
          /\ total_produced' = total_produced + 1
          /\ UNCHANGED <<total_consumed, cleared, last_taken>>
      BY <1>1, <2>1 DEF PutSample
    <3>2. /\ queue # <<>> /\ queue \in Seq(Nat) /\ Len(queue') = Len(queue)
          /\ \A i \in 1 .. Len(queue) - 1 : queue'[i] = queue[i + 1]
          /\ queue'[Len(queue)] = total_produced + 1
      BY <2>1, <3>1 DEF TypeOK, QueueConstants
    <3>3. AddsUp'
      BY <3>1, <3>2 DEF Account, AddsUp, TypeOK
    <3>a. /\ Len(queue) \in Nat \ {0} /\ total_produced \in Nat
          /\ \A i \in 1 .. Len(queue) : queue[i] = total_produced - Len(queue) + i
          /\ last_taken <= total_produced - Len(queue) /\ last_taken \in Nat
      BY <3>2 DEF Account, NewestInOrder, TypeOK
    <3>b. \A i \in 1 .. Len(queue) : queue'[i] = (total_produced + 1) - Len(queue) + i
      <4>1. TAKE i \in 1 .. Len(queue)
      <4>2. CASE i = Len(queue)
        <5>1. queue'[i] = total_produced + 1
          BY <3>2, <4>2
        <5> QED
          BY <5>1, <4>2, <3>a
      <4>3. CASE i # Len(queue)
        <5>1. i \in 1 .. Len(queue) - 1 /\ i + 1 \in 1 .. Len(queue)
          BY <4>3, <3>a
        <5>2. queue'[i] = total_produced - Len(queue) + (i + 1)
          BY <5>1, <3>2, <3>a
        <5> QED
          BY <5>1, <5>2, <3>a
      <4> QED
        BY <4>2, <4>3
    <3>c. last_taken <= (total_produced + 1) - Len(queue)
      BY <3>a
    <3>4. NewestInOrder'
      BY <3>1, <3>2, <3>b, <3>c DEF NewestInOrder
    <3> QED
      BY <3>3, <3>4 DEF Account
  <2>2. CASE ~(Len(queue) >= max_queue_size)
    <3>1. /\ queue' = Append(queue, total_produced + 1)
          /\ dropped_samples' = dropped_samples + 0
          /\ total_produced' = total_produced + 1
          /\ UNCHANGED <<total_consumed, cleared, last_taken>>
      BY <1>1, <2>2 DEF PutSample
    <3>2. /\ Len(queue') = Len(queue) + 1
          /\ \A i \in 1 .. Len(queue) : queue'[i] = queue[i]
          /\ queue'[Len(queue) + 1] = total_produced + 1
      BY <3>1 DEF TypeOK
    <3>3. AddsUp'
      BY <3>1, <3>2 DEF Account, AddsUp, TypeOK
    <3>a. /\ Len(queue) \in Nat /\ total_produced \in Nat
          /\ \A i \in 1 .. Len(queue) : queue[i] = total_produced - Len(queue) + i
          /\ last_taken <= total_produced - Len(queue) /\ last_taken \in Nat
      BY DEF Account, NewestInOrder, TypeOK
    <3>b. \A i \in 1 .. Len(queue) + 1 :
            queue'[i] = (total_produced + 1) - (Len(queue) + 1) + i
      <4>1. TAKE i \in 1 .. Len(queue) + 1
      <4>2. CASE i = Len(queue) + 1
        <5>1. queue'[i] = total_produced + 1
          BY <3>2, <4>2
        <5> QED
          BY <5>1, <4>2, <3>a
      <4>3. CASE i # Len(queue) + 1
        <5>1. i \in 1 .. Len(queue)
          BY <4>3, <3>a
        <5>2. queue'[i] = total_produced - Len(queue) + i
          BY <5>1, <3>2, <3>a
        <5> QED
          BY <5>1, <5>2, <3>a
      <4> QED
        BY <4>2, <4>3
    <3>c. last_taken <= (total_produced + 1) - (Len(queue) + 1)
      BY <3>a
    <3>4. NewestInOrder'
      BY <3>1, <3>2, <3>b, <3>c DEF NewestInOrder
    <3> QED
      BY <3>3, <3>4 DEF Account
  <2> QED
    BY <2>1, <2>2
<1>2. ASSUME NEW c \in Clients, GetSample(c) PROVE Account'
  <2>1. /\ queue # <<>> /\ queue' = Tail(queue) /\ last_taken' = queue[1]
        /\ total_consumed' = total_consumed + 1
        /\ UNCHANGED <<total_produced, dropped_samples, cleared>>
    BY <1>2 DEF GetSample, TypeOK
  <2>2. Len(queue) \in Nat \ {0} /\ Len(queue') = Len(queue) - 1
    BY <2>1 DEF TypeOK
  <2>3. \A i \in 1 .. Len(queue) - 1 : queue'[i] = queue[i + 1]
    BY <2>1 DEF TypeOK
  <2>4. AddsUp'
    BY <2>1, <2>2 DEF Account, AddsUp, TypeOK
  <2>5. NewestInOrder'
    BY <2>1, <2>2, <2>3 DEF Account, NewestInOrder, TypeOK
  <2> QED
    BY <2>4, <2>5 DEF Account
<1>3. ASSUME NEW c \in Clients, ClearQueue(c) PROVE Account'
  <2>1. /\ queue' = <<>> /\ cleared' = cleared + Len(queue)
        /\ UNCHANGED <<total_produced, total_consumed, dropped_samples, last_taken>>
    BY <1>3 DEF ClearQueue
  <2>2. AddsUp'
    BY <2>1 DEF Account, AddsUp, TypeOK
  <2>3. NewestInOrder'
    BY <2>1 DEF Account, NewestInOrder, TypeOK
  <2> QED
    BY <2>2, <2>3 DEF Account
<1>4. ASSUME NEW c \in Clients, Step(c) PROVE Account'
  BY <1>0, <1>1, <1>2, <1>3, <1>4, OtherSteps
<1>5. ASSUME NEW c \in Clients, NEW op \in Ops, Call(c, op) PROVE Account'
  BY <1>0, <1>5 DEF Call
<1>6. CASE UNCHANGED vars
  BY <1>0, <1>6 DEF vars
<1> QED
  BY <1>4, <1>5, <1>6 DEF Next

LEMMA AccountCorrect == ASSUME QueueConstants PROVE Spec => []Account
<1>1. Init => Account
  BY DEF Init, Account, AddsUp, NewestInOrder
<1>2. TypeOK /\ Account /\ [Next]_vars => Account'
  BY AccountStep
<1> QED
  BY <1>1, <1>2, TypeCorrect, PTL DEF Spec

\* Nothing that was put disappears uncounted: handed out, dropped, cleared and queued samples
\* add up to the samples put, for every capacity and every interleaving of calls.
THEOREM SamplesConserved == ASSUME QueueConstants PROVE Spec => []Conservation
<1>1. TypeOK /\ Account => Conservation
  BY DEF Account, AddsUp, Conservation
<1> QED
  BY <1>1, TypeCorrect, AccountCorrect, PTL

\* The deque always holds the newest samples in order, all newer than the last one handed out.
THEOREM OrderKept == ASSUME QueueConstants PROVE Spec => []NewestInOrder
<1>1. Account => NewestInOrder
  BY DEF Account
<1> QED
  BY <1>1, AccountCorrect, PTL

-----------------------------------------------------------------------------
LEMMA WaitersStep ==
  ASSUME TypeOK, WaitersJustified, [Next]_vars PROVE WaitersJustified'
<1>0. CASE /\ UNCHANGED <<queue, running>>
           /\ \A c \in Clients : pc'[c] = "waiting" => pc[c] = "waiting"
  BY <1>0 DEF WaitersJustified
<1>1. ASSUME NEW c \in Clients, PutSample(c) \/ Shutdown(c) PROVE WaitersJustified'
  <2>1. \A d \in Clients : pc'[d] # "waiting"
    BY <1>1 DEF PutSample, Shutdown, ReturnNotifying, TypeOK
  <2> QED
    BY <2>1 DEF WaitersJustified
<1>2. ASSUME NEW c \in Clients, GetSampleWaits(c) PROVE WaitersJustified'
  BY <1>2 DEF GetSampleWaits, WaitersJustified
<1>3. ASSUME NEW c \in Clients, GetSample(c) PROVE WaitersJustified'
  BY <1>3 DEF GetSample, Return, WaitersJustified, TypeOK
<1>4. ASSUME NEW c \in Clients, ClearQueue(c) PROVE WaitersJustified'
  BY <1>4 DEF ClearQueue, Return, WaitersJustified, TypeOK
<1>5. ASSUME NEW c \in Clients,
             \/ Wake(c) \/ GetSampleClosed(c) \/ UpdateParamVersion(c)
             \/ PutValidate(c) \/ GetValidate(c)
      PROVE  WaitersJustified'
  <2>1. UNCHANGED <<queue, running>>
    BY <1>5 DEF Wake, GetSampleClosed, UpdateParamVersion, PutValidate, GetValidate
  <2>2. \A d \in Clients : pc'[d] = "waiting" => pc[d] = "waiting"
    BY <1>5 DEF Wake, GetSampleClosed, UpdateParamVersion, PutValidate, GetValidate, Return, TypeOK
  <2> QED
    BY <1>0, <2>1, <2>2
<1>6. ASSUME NEW c \in Clients, NEW op \in Ops, Call(c, op) PROVE WaitersJustified'
  BY <1>0, <1>6 DEF Call, Ops, TypeOK
<1>7. CASE UNCHANGED vars
  BY <1>0, <1>7 DEF vars
<1> QED
  BY <1>1, <1>2, <1>3, <1>4, <1>5, <1>6, <1>7 DEF Next, Step

\* No wakeup is lost: whatever calls interleave, get_sample sleeps only while the deque is
\* empty and the queue is open.
THEOREM NoLostWakeup == ASSUME QueueConstants PROVE Spec => []WaitersJustified
<1>1. Init => WaitersJustified
  BY DEF Init, WaitersJustified
<1>2. TypeOK /\ WaitersJustified /\ [Next]_vars => WaitersJustified'
  BY WaitersStep
<1> QED
  BY <1>1, <1>2, TypeCorrect, PTL DEF Spec

-----------------------------------------------------------------------------
LEMMA QueueStep == ASSUME [Next]_vars PROVE [Queue!QNext]_(Queue!qvars)
<1> USE DEF Queue!QNext, Queue!qvars
<1>1. ASSUME NEW c \in Clients, PutSample(c) PROVE Queue!Put
  BY <1>1 DEF PutSample, Queue!Put, Queue!Putting
<1>2. ASSUME NEW c \in Clients, GetSample(c) PROVE Queue!Take
  BY <1>2 DEF GetSample, Queue!Take
<1>3. ASSUME NEW c \in Clients, ClearQueue(c) PROVE Queue!Clear
  BY <1>3 DEF ClearQueue, Queue!Clear
<1>4. ASSUME NEW c \in Clients, Shutdown(c) PROVE Queue!Close
  BY <1>4 DEF Shutdown, Queue!Close, counters
<1>5. ASSUME UNCHANGED <<queue, counters, running>> PROVE UNCHANGED Queue!qvars
  BY <1>5 DEF counters
<1>6. ASSUME NEW c \in Clients, Step(c) PROVE [Queue!QNext]_(Queue!qvars)
  BY <1>1, <1>2, <1>3, <1>4, <1>5, <1>6, OtherSteps
<1>7. ASSUME NEW c \in Clients, NEW op \in Ops, Call(c, op) PROVE UNCHANGED Queue!qvars
  BY <1>5, <1>7 DEF Call
<1>8. CASE UNCHANGED vars
  BY <1>5, <1>8 DEF vars
<1> QED
  BY <1>6, <1>7, <1>8 DEF Next

\* The deque with its lock, its condition and its waiting consumers implements a queue whose
\* put and take are indivisible: the one the Rollouter and the Trainer are verified with.
THEOREM QueueImplemented == ASSUME QueueConstants PROVE Spec => ImplementsQueue
<1>1. Init => Queue!QInit
  BY DEF Init, Queue!QInit
<1>2. [Next]_vars => [Queue!QNext]_(Queue!qvars)
  BY QueueStep
<1> QED
  BY <1>1, <1>2, PTL DEF Spec, ImplementsQueue, Queue!QSpec
=============================================================================

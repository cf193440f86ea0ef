------------------------- MODULE FullyAsyncProofs -------------------------
(***************************************************************************)
(* Proofs about FullyAsync, for any number of samples and any limits: who  *)
(* has the lock, where every sample is, what pause finds, how old a sample *)
(* may be; and, where nothing may be stale, on-policy generation.          *)
(***************************************************************************)
EXTENDS FullyAsync, SequenceTheorems, FiniteSetTheorems, TLAPS

Constants == ChannelConstants /\ RollouterConstants /\ TrainerConstants

-----------------------------------------------------------------------------
(* Sequences without repetition                                              *)

LEMMA HeadElem ==
  ASSUME NEW S, NEW q \in Seq(S), q # <<>>
  PROVE  Head(q) \in Range(q) /\ q[1] = Head(q) /\ 1 \in DOMAIN q
<1>1. 1 \in DOMAIN q
  BY EmptySeq
<1> QED
  BY <1>1 DEF Range

LEMMA RangeType == ASSUME NEW S, NEW q \in Seq(S) PROVE Range(q) \subseteq S /\ (Range(q) = {} <=> q = <<>>)
<1>1. Range(q) \subseteq S
  BY ElementOfSeq, LenProperties DEF Range
<1>2. CASE q = <<>>
  BY <1>1, <1>2 DEF Range
<1>3. CASE q # <<>>
  BY <1>1, <1>3, HeadElem
<1> QED
  BY <1>2, <1>3, <1>1

LEMMA TailRange ==
  ASSUME NEW S, NEW q \in Seq(S), q # <<>>, IsInjective(q)
  PROVE  IsInjective(Tail(q)) /\ Range(Tail(q)) = Range(q) \ {Head(q)}
<1> DEFINE t == Tail(q)
<1>1. /\ t \in Seq(S) /\ Len(t) = Len(q) - 1 /\ Len(q) \in Nat \ {0}
      /\ DOMAIN q = 1 .. Len(q) /\ DOMAIN t = 1 .. Len(q) - 1
      /\ \A i \in DOMAIN t : t[i] = q[i + 1]
      /\ Head(q) = q[1]
  BY HeadTailProperties, EmptySeq, LenProperties, HeadElem
<1> HIDE DEF t
<1>2. IsInjective(t)
  BY <1>1 DEF IsInjective
<1>3. ASSUME NEW x \in Range(t) PROVE x \in Range(q) \ {Head(q)}
  <2>1. PICK i \in DOMAIN t : x = t[i]
    BY DEF Range
  <2>2. i + 1 \in DOMAIN q /\ 1 \in DOMAIN q /\ x = q[i + 1] /\ i + 1 # 1
    BY <1>1, <2>1
  <2> QED
    BY <2>2, <1>1 DEF Range, IsInjective
<1>4. ASSUME NEW x \in Range(q), x # Head(q) PROVE x \in Range(t)
  <2>1. PICK i \in DOMAIN q : x = q[i]
    BY DEF Range
  <2>2. i - 1 \in DOMAIN t /\ t[i - 1] = x
    BY <1>1, <1>4, <2>1
  <2> QED
    BY <2>2 DEF Range
<1> QED
  BY <1>2, <1>3, <1>4 DEF t

LEMMA AppendRange ==
  ASSUME NEW S, NEW q \in Seq(S), NEW x \in S
  PROVE  /\ Range(Append(q, x)) = Range(q) \cup {x}
         /\ IsInjective(q) /\ x \notin Range(q) => IsInjective(Append(q, x))
<1> DEFINE a == Append(q, x)
<1>1. /\ a \in Seq(S) /\ Len(a) = Len(q) + 1 /\ Len(q) \in Nat
      /\ DOMAIN q = 1 .. Len(q) /\ DOMAIN a = 1 .. Len(q) + 1
      /\ \A i \in DOMAIN q : a[i] = q[i]
      /\ a[Len(q) + 1] = x
  BY AppendProperties, LenProperties
<1> HIDE DEF a
<1>2. Range(a) = Range(q) \cup {x}
  <2>1. ASSUME NEW y \in Range(a) PROVE y \in Range(q) \cup {x}
    <3>1. PICK i \in DOMAIN a : y = a[i]
      BY DEF Range
    <3> QED
      BY <1>1, <3>1 DEF Range
  <2>2. ASSUME NEW y \in Range(q) PROVE y \in Range(a)
    BY <1>1 DEF Range
  <2>3. x \in Range(a)
    BY <1>1 DEF Range
  <2> QED
    BY <2>1, <2>2, <2>3
<1>3. ASSUME IsInjective(q), x \notin Range(q) PROVE IsInjective(a)
  <2> SUFFICES ASSUME NEW i \in DOMAIN a, NEW j \in DOMAIN a, a[i] = a[j] PROVE i = j
    BY DEF IsInjective
  <2>1. CASE i \in DOMAIN q /\ j \in DOMAIN q
    BY <1>1, <1>3, <2>1 DEF IsInjective
  <2>2. CASE i \notin DOMAIN q \/ j \notin DOMAIN q
    BY <1>1, <1>3, <2>2 DEF Range
  <2> QED
    BY <2>1, <2>2
<1> QED
  BY <1>2, <1>3 DEF a

\* A sequence without repetition has as many elements as places.
LEMMA LengthIsCount ==
  ASSUME NEW S, NEW q \in Seq(S), IsInjective(q), NEW T \in SUBSET (DOMAIN q)
  PROVE  /\ IsFiniteSet({q[i] : i \in T}) /\ IsFiniteSet(T)
         /\ Cardinality({q[i] : i \in T}) = Cardinality(T)
<1> DEFINE R == {q[i] : i \in T}
           f == [i \in T |-> q[i]]
<1>1. IsFiniteSet(DOMAIN q)
  BY LenProperties, FS_Interval
<1>2. IsFiniteSet(T)
  BY <1>1, FS_Subset
<1>3. f \in Bijection(T, R)
  BY DEF Bijection, Injection, Surjection, IsInjective
<1>4. ExistsBijection(T, R)
  BY <1>3 DEF ExistsBijection
<1> QED
  BY <1>2, <1>4, FS_Bijection

LEMMA RangeCount ==
  ASSUME NEW S, NEW q \in Seq(S), IsInjective(q)
  PROVE  IsFiniteSet(Range(q)) /\ Cardinality(Range(q)) = Len(q)
<1>1. IsFiniteSet(Range(q)) /\ Cardinality(Range(q)) = Cardinality(DOMAIN q)
  BY LengthIsCount DEF Range
<1>2. Len(q) \in Nat /\ DOMAIN q = 1 .. Len(q)
  BY LenProperties
<1>3. Cardinality(1 .. Len(q)) = Len(q)
  BY <1>2, FS_Interval
<1> QED
  BY <1>1, <1>2, <1>3

-----------------------------------------------------------------------------
(* Types                                                                     *)

ProcPlaces == {"top", "stopping", "reaping", "verifying", "awaiting", "getting", "holding",
               "submitting", "asleep", "woken", "ended", "crashed"}

PcType ==
  /\ DOMAIN pc = Coroutines
  /\ pc["proc"] \in ProcPlaces
  /\ pc["monitor"] \in {"sleeping", "looking", "unpausing", "ended"}
  /\ pc["main"] \in {"watching", "sending", "sent", "closing", "ended"}
  /\ pc["pause"] \in {"none", "pausing", "cancelling", "gathering", "clearing"}
  /\ pc["update"] \in {"none", "updating", "counting", "counted", "reporting"}
  /\ pc["resume"] \in {"none", "resuming", "reviving"}
  /\ loop \in Coroutines \cup {"idle"}

LockType == lock \in Seq(Coroutines)

TaskType ==
  /\ fed \in 0 .. DONE /\ taken \in 0 .. fed
  /\ cancel_queue \in Seq(Samples) /\ hand \in 0 .. Total
  /\ task \in [Samples -> {"none", "created", "generating", "generated", "cancelled",
                           "putting", "put"}]
  /\ stamp \in [Samples -> Nat]
  /\ finished \in Nat /\ failed \in Nat /\ lost \subseteq Samples
  /\ goal \in {"limit", "pause", "done"}

CountType ==
  /\ current_param_version \in Nat /\ staleness_samples \in Nat /\ tally \in Nat

ChannelType ==
  /\ queue \in Seq(0 .. Total) /\ dropped \subseteq 0 .. Total
  /\ calls \in [Methods -> {"called", "running", "returned"}]
  /\ weights \in Nat

TrainerType ==
  /\ trainer \in {"collecting", "training", "waiting_sync", "pausing", "transferring",
                  "waiting_last", "finishing", "ended"}
  /\ version \in Nat /\ local_trigger_step \in 1 .. trigger_parameter_sync_step
  /\ batch \subseteq Samples /\ trained \subseteq Samples

TypeInv == PcType /\ LockType /\ TaskType /\ CountType /\ ChannelType /\ TrainerType

LEMMA TypeStart == ASSUME Constants, Init PROVE TypeInv
<1> USE DEF Constants, ChannelConstants, RollouterConstants, TrainerConstants, Init,
            ChannelsInit, RollouterInit, TrainerInit
<1>1. PcType
  <2>1. pc["proc"] = "top" /\ pc["monitor"] = "sleeping" /\ pc["main"] = "watching"
    BY DEF Coroutines, Methods
  <2>2. pc["pause"] = "none" /\ pc["update"] = "none" /\ pc["resume"] = "none"
    BY DEF Coroutines, Methods
  <2>3. DOMAIN pc = Coroutines
    OBVIOUS
  <2> QED
    BY <2>1, <2>2, <2>3 DEF PcType, ProcPlaces, Coroutines, Methods
<1>2. TaskType /\ LockType
  BY DEF TaskType, DONE, Nothing, LockType
<1>3. CountType /\ ChannelType /\ TrainerType
  BY DEF CountType, ChannelType, TrainerType
<1> QED
  BY <1>1, <1>2, <1>3 DEF TypeInv

LEMMA TheCoroutines ==
  ASSUME DOMAIN pc = Coroutines
  PROVE  \A c \in {"proc", "monitor", "main", "pause", "update", "resume"} :
            c \in Coroutines /\ c \in DOMAIN pc
BY DEF Coroutines, Methods

\* What a step of the Rollouter does to pc: one coroutine moves; resuming wakes the processor.
LEMMA PcMoves ==
  ASSUME PcType
  PROVE  /\ Processor => \E at \in ProcPlaces : pc' = [pc EXCEPT !["proc"] = at]
         /\ Main => \E at \in {"sending", "sent", "closing", "ended"} :
                       pc' = [pc EXCEPT !["main"] = at]
         /\ Monitor => \E at \in {"sleeping", "looking", "unpausing", "ended"} :
                          pc' = [pc EXCEPT !["monitor"] = at] \/ pc' = [Notified EXCEPT !["monitor"] = at]
         /\ Synchronisation =>
              \/ \E at \in {"none", "pausing", "cancelling", "gathering", "clearing"} :
                    pc' = [pc EXCEPT !["pause"] = at]
              \/ \E at \in {"none", "updating", "counting", "counted", "reporting"} :
                    pc' = [pc EXCEPT !["update"] = at]
              \/ \E at \in {"resuming", "reviving"} : pc' = [pc EXCEPT !["resume"] = at]
              \/ pc' = [Notified EXCEPT !["resume"] = "none"]
<1> USE DEF Granted, Ask, GoOn, Suspend, Release
<1>1. Processor => \E at \in ProcPlaces : pc' = [pc EXCEPT !["proc"] = at]
  BY DEF ProcPlaces, Processor, ProcStops, ProcStopped, ProcTakesCancelled,
         ProcFindsNothing, ProcTakes, ProcReaps, ProcVerifies, ProcAwaited, ProcReaped, ProcSleeps,
         ProcWakes, ProcResumes, ProcSubmits
<1>2. Main => \E at \in {"sending", "sent", "closing", "ended"} :
                 pc' = [pc EXCEPT !["main"] = at]
  BY DEF Main, MainFinishes, QueuePutsSentinel, MainCloses, MainEnds
<1>3. Monitor => \E at \in {"sleeping", "looking", "unpausing", "ended"} :
                    pc' = [pc EXCEPT !["monitor"] = at] \/ pc' = [Notified EXCEPT !["monitor"] = at]
  BY DEF Monitor, MonitorLooks, MonitorDecides, MonitorUnpauses
<1>4. Synchronisation =>
              \/ \E at \in {"none", "pausing", "cancelling", "gathering", "clearing"} :
                    pc' = [pc EXCEPT !["pause"] = at]
              \/ \E at \in {"none", "updating", "counting", "counted", "reporting"} :
                    pc' = [pc EXCEPT !["update"] = at]
              \/ \E at \in {"resuming", "reviving"} : pc' = [pc EXCEPT !["resume"] = at]
              \/ pc' = [Notified EXCEPT !["resume"] = "none"]
  BY DEF Synchronisation, CallArrives, PauseLocked, ServersCancel, PauseGathered,
         PauseReturns, UpdateLocked, QueueSizeRead, UpdateCounted, UpdateReturns, ResumeArrives,
         ResumeLocked, ResumeReturns
<1> QED
  BY <1>1, <1>2, <1>3, <1>4

LEMMA Notification ==
  ASSUME DOMAIN pc = Coroutines
  PROVE  /\ DOMAIN Notified = Coroutines
         /\ \A c \in Coroutines : Notified[c] = IF c = "proc" /\ pc[c] = "asleep" THEN "woken" ELSE pc[c]
BY TheCoroutines DEF Notified

LEMMA LoopMoves ==
  ASSUME RollouterNext, PcType
  PROVE  loop' \in {loop, "idle", "proc", "monitor", "main", "pause", "update", "resume"}
<1> USE DEF Granted, Ask, GoOn, Suspend, Release
<1>1. CASE Processor
  BY <1>1 DEF Processor, ProcStops, ProcStopped, ProcTakesCancelled,
         ProcFindsNothing, ProcTakes, ProcReaps, ProcVerifies, ProcAwaited, ProcReaped, ProcSleeps,
         ProcWakes, ProcResumes, ProcSubmits
<1>2. CASE Main \/ Monitor
  BY <1>2 DEF Main, MainFinishes, QueuePutsSentinel, MainCloses, MainEnds, Monitor, MonitorLooks,
         MonitorDecides, MonitorUnpauses
<1>3. CASE Synchronisation
  BY <1>3 DEF Synchronisation, CallArrives, PauseLocked, ServersCancel, PauseGathered,
         PauseReturns, UpdateLocked, QueueSizeRead, UpdateCounted, UpdateReturns, ResumeArrives,
         ResumeLocked, ResumeReturns
<1>4. CASE Feed \/ \E s \in Samples : TaskStep(s) \/ TaskReturns(s)
  BY <1>4 DEF Feed, TaskStep, TaskReturns, control
<1> QED
  BY <1>1, <1>2, <1>3, <1>4 DEF RollouterNext

LEMMA PcTypes == ASSUME PcType, RollouterNext PROVE PcType'
<1>1. loop' \in Coroutines \cup {"idle"}
  BY LoopMoves, TheCoroutines DEF PcType
<1> USE TheCoroutines, Notification DEF PcType
<1>2. CASE Processor
  <2>1. PICK at \in ProcPlaces : pc' = [pc EXCEPT !["proc"] = at]
    BY <1>2, PcMoves
  <2> QED
    BY <1>1, <2>1
<1>3. CASE Main
  <2>1. PICK at \in {"sending", "sent", "closing", "ended"} : pc' = [pc EXCEPT !["main"] = at]
    BY <1>3, PcMoves
  <2> QED
    BY <1>1, <2>1
<1>4. CASE Monitor
  <2>1. PICK at \in {"sleeping", "looking", "unpausing", "ended"} :
           pc' = [pc EXCEPT !["monitor"] = at] \/ pc' = [Notified EXCEPT !["monitor"] = at]
    BY <1>4, PcMoves
  <2> QED
    BY <1>1, <2>1 DEF ProcPlaces
<1>5. CASE Synchronisation
  <2>1. ASSUME NEW at \in {"none", "pausing", "cancelling", "gathering", "clearing"},
               pc' = [pc EXCEPT !["pause"] = at]
        PROVE  PcType'
    BY <1>1, <2>1
  <2>2. ASSUME NEW at \in {"none", "updating", "counting", "counted", "reporting"},
               pc' = [pc EXCEPT !["update"] = at]
        PROVE  PcType'
    BY <1>1, <2>2
  <2>3. ASSUME NEW at \in {"resuming", "reviving"}, pc' = [pc EXCEPT !["resume"] = at]
        PROVE  PcType'
    BY <1>1, <2>3
  <2>4. CASE pc' = [Notified EXCEPT !["resume"] = "none"]
    BY <1>1, <2>4 DEF ProcPlaces
  <2> QED
    BY <1>5, PcMoves, <2>1, <2>2, <2>3, <2>4
<1>6. CASE Feed \/ \E s \in Samples : TaskStep(s) \/ TaskReturns(s)
  BY <1>6 DEF Feed, TaskStep, TaskReturns, control
<1> QED
  BY <1>2, <1>3, <1>4, <1>5, <1>6 DEF RollouterNext

\* The lock is asked for, passed on, both, or neither.
LEMMA LockMoves ==
  ASSUME RollouterNext, PcType
  PROVE  \/ lock' = lock
         \/ \E c \in Coroutines : lock' = Append(lock, c)
         \/ lock # <<>> /\ lock' = Tail(lock)
         \/ lock # <<>> /\ lock' = Append(Tail(lock), "monitor")
<1> USE TheCoroutines DEF Granted, Ask, GoOn, Suspend, Release, PcType
<1>1. CASE Processor
  BY <1>1 DEF Processor, ProcStops, ProcStopped, ProcTakesCancelled,
         ProcFindsNothing, ProcTakes, ProcReaps, ProcVerifies, ProcAwaited, ProcReaped, ProcSleeps,
         ProcWakes, ProcResumes, ProcSubmits
<1>2. CASE Main \/ Monitor
  BY <1>2 DEF Main, MainFinishes, QueuePutsSentinel, MainCloses, MainEnds, Monitor, MonitorLooks,
         MonitorDecides, MonitorUnpauses
<1>3. CASE Synchronisation
  BY <1>3 DEF Synchronisation, CallArrives, PauseLocked, ServersCancel, PauseGathered,
         PauseReturns, UpdateLocked, QueueSizeRead, UpdateCounted, UpdateReturns, ResumeArrives,
         ResumeLocked, ResumeReturns
<1>4. CASE Feed \/ \E s \in Samples : TaskStep(s) \/ TaskReturns(s)
  BY <1>4 DEF Feed, TaskStep, TaskReturns, control
<1> QED
  BY <1>1, <1>2, <1>3, <1>4 DEF RollouterNext

LEMMA LockTypes == ASSUME PcType, LockType, RollouterNext PROVE LockType'
<1>1. "monitor" \in Coroutines
  BY DEF Coroutines
<1>2. \A c \in Coroutines : Append(lock, c) \in Seq(Coroutines)
  BY AppendProperties DEF LockType
<1>3. ASSUME lock # <<>>
      PROVE  Tail(lock) \in Seq(Coroutines) /\ Append(Tail(lock), "monitor") \in Seq(Coroutines)
  BY <1>1, <1>3, HeadTailProperties, AppendProperties DEF LockType
<1> QED
  BY <1>1, <1>2, <1>3, LockMoves DEF LockType

\* Putting a sample, or the end signal, into the queue.
LEMMA PutType ==
  ASSUME Constants, queue \in Seq(0 .. Total), dropped \subseteq 0 .. Total,
         NEW s \in 0 .. Total, Put(s)
  PROVE  queue' \in Seq(0 .. Total) /\ dropped' \subseteq 0 .. Total
<1>1. CASE Len(queue) >= MaxRequired
  <2>1. queue # <<>>
    BY <1>1 DEF Constants, ChannelConstants
  <2>2. queue' = Append(Tail(queue), s) /\ dropped' = dropped \cup {Head(queue)}
    BY <1>1 DEF Put, BQ!Putting
  <2> QED
    BY <2>1, <2>2, HeadTailProperties, AppendProperties
<1>2. CASE ~(Len(queue) >= MaxRequired)
  <2>2. queue' = Append(queue, s) /\ dropped' = dropped
    BY <1>2 DEF Put, BQ!Putting
  <2> QED
    BY <2>2, AppendProperties
<1> QED
  BY <1>1, <1>2

LEMMA ProcessorTypes ==
  ASSUME Constants, TypeInv, Processor
  PROVE  TaskType' /\ CountType'
<1> USE DEF Constants, ChannelConstants, TypeInv, TaskType, CountType, DONE, Samples, Nothing,
            feeding, tasks, reaping, tracking
<1>1. CASE ProcTakesCancelled
  <2>1. Head(cancel_queue) \in Samples /\ Tail(cancel_queue) \in Seq(Samples)
    BY <1>1, HeadTailProperties DEF ProcTakesCancelled
  <2> QED
    BY <1>1, <2>1 DEF ProcTakesCancelled
<1>2. CASE ProcTakes
  BY <1>2 DEF ProcTakes
<1>3. CASE ProcSubmits
  <2>1. task' \in [Samples -> {"none", "created", "generating", "generated", "cancelled",
                               "putting", "put"}]
    BY <1>3 DEF ProcSubmits
  <2> QED
    BY <1>3, <2>1 DEF ProcSubmits
<1>4. CASE ProcAwaited
  BY <1>4 DEF ProcAwaited
<1>5. CASE UNCHANGED <<feeding, tasks, done_bound, tracking>> /\ goal' \in {goal, "pause"}
  <2>1. UNCHANGED <<fed, taken, cancel_queue, hand, task, stamp, finished, failed, lost>>
        /\ UNCHANGED <<current_param_version, staleness_samples, tally>>
    BY <1>5
  <2> QED
    BY <1>5, <2>1
<1> QED
  BY <1>1, <1>2, <1>3, <1>4, <1>5 DEF Processor, ProcStops, ProcStopped, ProcFindsNothing,
     ProcReaps, ProcVerifies, ProcReaped, ProcSleeps, ProcWakes, ProcResumes

LEMMA TaskTypes ==
  ASSUME Constants, TypeInv, NEW s \in Samples, TaskStep(s) \/ TaskReturns(s)
  PROVE  TaskType' /\ CountType' /\ ChannelType'
<1> USE DEF TypeInv, feeding, reaping, tracking
<1>1. CountType'
  BY DEF TaskStep, TaskReturns, CountType
<1>2. ChannelType'
  <2>1. s \in 0 .. Total
    BY DEF Samples
  <2>2. CASE QueuePuts(s) /\ UNCHANGED <<calls, weights>>
    <3>1. queue' \in Seq(0 .. Total) /\ dropped' \subseteq 0 .. Total
      BY <2>1, <2>2, PutType DEF QueuePuts, ChannelType
    <3> QED
      BY <2>2, <3>1 DEF ChannelType
  <2>3. CASE UNCHANGED channels
    BY <2>3 DEF ChannelType, channels
  <2> QED
    BY <2>2, <2>3 DEF TaskStep, TaskReturns, TaskStarts, Answered, TaskFails, TaskPuts,
                TaskEnds, channels
<1>3. TaskType'
  <2>1. task' \in [Samples -> {"none", "created", "generating", "generated", "cancelled",
                               "putting", "put"}]
    BY DEF TaskType, TaskStep, TaskReturns, TaskStarts, Answered, TaskFails, TaskPuts, QueuePuts,
           TaskEnds, TaskMoves
  <2>2. cancel_queue' \in Seq(Samples)
    <3>1. Append(cancel_queue, s) \in Seq(Samples) /\ cancel_queue \in Seq(Samples)
      BY AppendProperties DEF TaskType
    <3> QED
      BY <3>1 DEF TaskStep, TaskReturns
  <2>3. /\ stamp' \in [Samples -> Nat]
        /\ finished' \in Nat /\ failed' \in Nat /\ lost' \subseteq Samples
    <3>1. /\ stamp' = stamp \/ stamp' = [stamp EXCEPT ![s] = current_param_version]
          /\ finished' \in {finished, finished + 1} /\ failed' \in {failed, failed + 1}
          /\ lost' \in {lost, lost \cup {s}}
      BY DEF TaskStep, TaskReturns, TaskStarts, Answered, TaskFails, TaskPuts, QueuePuts, TaskEnds
    <3> QED
      BY <3>1 DEF TaskType, CountType
  <2>4. UNCHANGED <<fed, taken, hand, goal>>
    BY DEF TaskStep, TaskReturns
  <2> QED
    BY <2>1, <2>2, <2>3, <2>4 DEF TaskType
<1> QED
  BY <1>1, <1>2, <1>3

LEMMA ActiveCountType ==
  ASSUME Constants, TypeInv
  PROVE  IsFiniteSet(Live) /\ Cardinality(Live) \in Nat /\ ActiveCount \in Nat
<1>1. IsFiniteSet(Samples)
  BY FS_Interval DEF Samples, Constants, ChannelConstants
<1>2. IsFiniteSet(Live) /\ Cardinality(Live) \in Nat
  BY <1>1, FS_Subset, FS_CardinalityType DEF Live
<1> QED
  BY <1>2 DEF ActiveCount, TypeInv, TaskType

LEMMA OtherTypes ==
  ASSUME Constants, TypeInv, Feed \/ Main \/ Monitor \/ Synchronisation
  PROVE  TaskType' /\ CountType' /\ ChannelType'
<1> USE DEF TypeInv, feeding, tasks, reaping, tracking, channels
<1>1. CASE Feed
  <2>1. fed' \in 0 .. DONE /\ taken' \in 0 .. fed'
    BY <1>1 DEF Feed, TaskType, DONE, Constants, ChannelConstants, RollouterConstants
  <2> QED
    BY <1>1, <2>1 DEF Feed, TaskType, CountType, ChannelType
<1>2. CASE Main
  <2>1. ChannelType'
    <3>1. CASE QueuePutsSentinel
      <4>1. queue' \in Seq(0 .. Total) /\ dropped' \subseteq 0 .. Total
        BY <3>1, PutType DEF QueuePutsSentinel, Sentinel, ChannelType, Constants, ChannelConstants
      <4> QED
        BY <3>1, <4>1 DEF QueuePutsSentinel, ChannelType
    <3> QED
      BY <3>1, <1>2 DEF Main, MainFinishes, MainCloses, MainEnds, ChannelType
  <2>2. TaskType' /\ CountType'
    BY <1>2 DEF Main, MainFinishes, QueuePutsSentinel, MainCloses, MainEnds, TaskType, CountType
  <2> QED
    BY <2>1, <2>2
<1>3. CASE Monitor
  BY <1>3 DEF Monitor, MonitorLooks, MonitorDecides, MonitorUnpauses, TaskType, CountType,
              ChannelType
<1>4. CASE Synchronisation
  <2>1. TaskType'
    BY <1>4 DEF Synchronisation, CallArrives, PauseLocked, ServersCancel, PauseGathered,
         PauseReturns, UpdateLocked, QueueSizeRead, UpdateCounted, UpdateReturns, ResumeArrives,
         ResumeLocked, ResumeReturns, TaskType
  <2>2. ChannelType'
    BY <1>4 DEF Synchronisation, CallArrives, PauseLocked, ServersCancel, PauseGathered,
         PauseReturns, UpdateLocked, QueueSizeRead, UpdateCounted, UpdateReturns, ResumeArrives,
         ResumeLocked, ResumeReturns, ChannelType, CallReturns, Methods
  <2>3. CountType'
    <3>1. Len(cancel_queue) \in Nat /\ Len(queue) \in Nat
      BY DEF TaskType, ChannelType
    <3>2. ActiveCount \in Nat
      BY ActiveCountType
    <3> QED
      BY <1>4, <3>1, <3>2 DEF Synchronisation, CallArrives, PauseLocked, ServersCancel,
         PauseGathered, PauseReturns, UpdateLocked, QueueSizeRead, UpdateCounted, UpdateReturns,
         ResumeArrives, ResumeLocked, ResumeReturns, CountType, ChannelType
  <2> QED
    BY <2>1, <2>2, <2>3
<1> QED
  BY <1>1, <1>2, <1>3, <1>4

LEMMA TrainerTypes ==
  ASSUME Constants, TypeInv, TrainerNext
  PROVE  ChannelType' /\ TrainerType'
<1> USE DEF TypeInv, channels
<1>1. ChannelType'
  <2>1. CASE Collect \/ Terminate
    <3>1. Tail(queue) \in Seq(0 .. Total)
      BY <2>1, HeadTailProperties DEF Collect, Terminate, ChannelType
    <3> QED
      BY <2>1, <3>1 DEF Collect, Terminate, ChannelType
  <2>2. CASE ~(Collect \/ Terminate)
    BY <2>2 DEF ChannelType, TrainerType, TrainerNext, Train, SyncWeights, RolloutPaused,
         WeightsTransferred, LastSync, OwnValidation, Finish, Methods
  <2> QED
    BY <2>1, <2>2
<1>2. TrainerType'
  <2>1. CASE Collect
    <3>1. Head(queue) \in Samples
      BY <2>1, HeadTailProperties DEF Collect, ChannelType, Samples, Sentinel, Constants,
         ChannelConstants
    <3> QED
      BY <2>1, <3>1 DEF Collect, TrainerType
  <2>2. CASE ~Collect
    BY <2>2 DEF TrainerType, TrainerNext, Terminate, Train, SyncWeights,
     RolloutPaused, WeightsTransferred, LastSync, OwnValidation, Finish, Constants, TrainerConstants
  <2> QED
    BY <2>1, <2>2
<1> QED
  BY <1>1, <1>2

LEMMA TypeStep == ASSUME Constants, TypeInv, [Next]_vars PROVE TypeInv'
<1>1. CASE UNCHANGED vars
  <2>1. UNCHANGED channels /\ UNCHANGED feeding /\ UNCHANGED tasks /\ UNCHANGED control
        /\ UNCHANGED reaping /\ UNCHANGED tracking /\ UNCHANGED trainerVars
    BY <1>1 DEF vars, system, rollouterVars
  <2>2. PcType' /\ LockType'
    BY <2>1 DEF TypeInv, PcType, LockType, control
  <2>3. TaskType' /\ CountType' /\ ChannelType' /\ TrainerType'
    BY <2>1 DEF TypeInv, TaskType, CountType, ChannelType, TrainerType, feeding, tasks, reaping,
                tracking, trainerVars, channels
  <2> QED
    BY <2>2, <2>3 DEF TypeInv
<1>2. CASE RollouterNext /\ UNCHANGED trainerVars
  <2>1. PcType' /\ LockType'
    BY <1>2, PcTypes, LockTypes DEF TypeInv
  <2>2. TaskType' /\ CountType' /\ ChannelType'
    <3>1. ASSUME Processor PROVE UNCHANGED channels
      BY <3>1 DEF Processor, ProcStops, ProcStopped, ProcTakesCancelled,
         ProcFindsNothing, ProcTakes, ProcReaps, ProcVerifies, ProcAwaited, ProcReaped, ProcSleeps,
         ProcWakes, ProcResumes, ProcSubmits
    <3>2. ASSUME UNCHANGED channels PROVE ChannelType'
      BY <3>2 DEF channels, ChannelType, TypeInv
    <3> QED
      BY <1>2, <3>1, <3>2, ProcessorTypes, TaskTypes, OtherTypes DEF RollouterNext
  <2>3. TrainerType'
    BY <1>2 DEF TypeInv, TrainerType, trainerVars
  <2> QED
    BY <2>1, <2>2, <2>3 DEF TypeInv
<1>3. CASE TrainerNext /\ UNCHANGED rollouterVars
  <2>1. UNCHANGED feeding /\ UNCHANGED tasks /\ UNCHANGED control
        /\ UNCHANGED reaping /\ UNCHANGED tracking
    BY <1>3 DEF rollouterVars
  <2>2. PcType' /\ LockType'
    BY <2>1 DEF TypeInv, PcType, LockType, control
  <2>3. TaskType' /\ CountType'
    BY <2>1 DEF TypeInv, TaskType, CountType, feeding, tasks, reaping, tracking
  <2> QED
    BY <1>3, <2>2, <2>3, TrainerTypes DEF TypeInv
<1> QED
  BY <1>1, <1>2, <1>3 DEF Next

LEMMA ConstantsHold == Constants
BY ChannelConstants, RollouterConstants, TrainerConstants DEF Constants

THEOREM TypeCorrect == Spec => []TypeInv
<1>1. Init => TypeInv
  BY TypeStart, ConstantsHold
<1>2. TypeInv /\ [Next]_vars => TypeInv'
  BY TypeStep, ConstantsHold
<1> QED
  BY <1>1, <1>2, PTL DEF Spec

-----------------------------------------------------------------------------
(* The lock.  Who waits for it or has it is in line, once; who suspended     *)
(* while holding it is at its head.                                          *)

LockPlaces == {"stopping", "verifying", "awaiting", "holding", "submitting", "looking",
               "unpausing", "closing", "pausing", "cancelling", "gathering", "clearing",
               "updating", "counting", "counted", "reporting", "resuming", "reviving"}
HeldPlaces == {"awaiting", "cancelling", "gathering", "clearing", "counting", "counted",
               "reporting", "reviving"}

LockInv ==
  /\ IsInjective(lock)
  /\ \A c \in Coroutines : pc[c] \in LockPlaces <=> c \in Range(lock)
  /\ \A c \in Coroutines : pc[c] \in HeldPlaces => Head(lock) = c

\* A call is at work in its coroutine, and the Trainer makes no second one meanwhile.
CallInv ==
  /\ \A m \in Methods : pc[m] # "none" <=> calls[m] = "running"
  /\ calls["pause"] # "returned" => trainer = "pausing"
  /\ trainer \in {"pausing", "transferring"} => calls["update"] = "returned" /\ calls["resume"] = "returned"

ControlInv == TypeInv /\ LockInv /\ CallInv

\* What a step does to the line: ask, hold on, release, release and ask again, or nothing.
Moves(c, at) == pc' = [pc EXCEPT ![c] = at] \/ pc' = [Notified EXCEPT ![c] = at]
Asks(c) == /\ pc[c] \notin LockPlaces /\ lock' = Append(lock, c)
           /\ \E at \in LockPlaces \ HeldPlaces : Moves(c, at)
Holds(c) == /\ pc[c] \in LockPlaces /\ Head(lock) = c /\ lock' = lock
            /\ \E at \in LockPlaces : Moves(c, at)
Releases(c) == /\ pc[c] \in LockPlaces /\ Head(lock) = c /\ lock' = Tail(lock)
               /\ \E at : at \notin LockPlaces /\ Moves(c, at)
Passes(c) == /\ pc[c] \notin LockPlaces /\ lock' = lock
             /\ \E at : at \notin LockPlaces /\ Moves(c, at)
AsksAgain(c) == /\ pc[c] \in LockPlaces /\ Head(lock) = c /\ lock' = Append(Tail(lock), c)
                /\ \E at \in LockPlaces \ HeldPlaces : Moves(c, at)

LEMMA ControlSteps ==
  ASSUME Constants, ControlInv, RollouterNext
  PROVE  \/ UNCHANGED <<pc, lock>>
         \/ \E c \in Coroutines : Asks(c) \/ Holds(c) \/ Releases(c) \/ Passes(c) \/ AsksAgain(c)
<1> USE TheCoroutines DEF ControlInv, TypeInv, PcType, LockInv, LockPlaces, HeldPlaces
<1> DEFINE Goes(c) == Asks(c) \/ Holds(c) \/ Releases(c) \/ Passes(c) \/ AsksAgain(c)
<1>1. CASE Processor
  <2> USE DEF Asks, Holds, Releases, Passes, Moves, Granted, Ask, GoOn, Suspend, Release
  <2>1. ProcStops \/ ProcReaps \/ ProcWakes => Asks("proc")
    BY DEF ProcStops, ProcReaps, ProcWakes
  <2>2. ProcStopped \/ ProcAwaited \/ ProcSleeps \/ ProcResumes \/ ProcSubmits => Releases("proc")
    BY DEF ProcStopped, ProcAwaited, ProcSleeps, ProcResumes, ProcSubmits
  <2>3. ProcTakesCancelled \/ ProcFindsNothing \/ ProcTakes => Passes("proc")
    BY DEF ProcTakesCancelled, ProcFindsNothing, ProcTakes
  <2>4. ProcVerifies => Holds("proc") \/ Releases("proc")
    BY DEF ProcVerifies
  <2>5. ProcReaped => Asks("proc") \/ Passes("proc")
    BY DEF ProcReaped
  <2>6. Goes("proc")
    BY <1>1, <2>1, <2>2, <2>3, <2>4, <2>5 DEF Processor
  <2> QED
    BY <2>6
<1>2. CASE Main
  <2>1. Goes("main")
    BY <1>2 DEF Main, MainFinishes, QueuePutsSentinel, MainCloses, MainEnds, Asks, Releases,
                Passes, Moves, Granted, Ask, Suspend, Release
  <2> QED
    BY <2>1
<1>3. CASE Monitor
  <2>1. Goes("monitor")
    BY <1>3 DEF Monitor, MonitorLooks, MonitorDecides, MonitorUnpauses, Asks, Releases,
                AsksAgain, Moves, Granted, Ask, Suspend, Release
  <2> QED
    BY <2>1
<1>4. CASE Synchronisation
  <2>1. ASSUME NEW m \in Methods, NEW at \in {"pausing", "updating", "resuming"},
               CallArrives(m, at)
        PROVE  Asks(m)
    <3>1. pc[m] = "none" /\ m \in Coroutines
      BY <2>1 DEF CallArrives, CallInv, Coroutines
    <3> QED
      BY <2>1, <3>1 DEF CallArrives, Ask, Asks, Moves
  <2>2. CallArrives("pause", "pausing") \/ CallArrives("update", "updating") \/ ResumeArrives
          => \E m \in Methods : Asks(m)
    BY <2>1 DEF ResumeArrives, Methods
  <2> USE DEF Holds, Releases, Moves, Granted, GoOn, Suspend, Release
  <2>3. PauseLocked \/ ServersCancel \/ PauseGathered => Holds("pause")
    BY DEF PauseLocked, ServersCancel, PauseGathered
  <2>4. UpdateLocked \/ QueueSizeRead \/ UpdateCounted => Holds("update")
    BY DEF UpdateLocked, QueueSizeRead, UpdateCounted
  <2>5. ResumeLocked => Holds("resume")
    BY DEF ResumeLocked
  <2>6. /\ PauseReturns => Releases("pause")
        /\ UpdateReturns => Releases("update")
        /\ ResumeReturns => Releases("resume")
    BY DEF PauseReturns, UpdateReturns, ResumeReturns
  <2> HIDE DEF Holds, Releases
  <2>7. \E c \in Coroutines : Asks(c) \/ Holds(c) \/ Releases(c)
    BY <1>4, <2>2, <2>3, <2>4, <2>5, <2>6 DEF Synchronisation, Coroutines, Methods
  <2> QED
    BY <2>7
<1>5. CASE Feed \/ \E s \in Samples : TaskStep(s) \/ TaskReturns(s)
  BY <1>5 DEF Feed, TaskStep, TaskReturns, control
<1> QED
  BY <1>1, <1>2, <1>3, <1>4, <1>5 DEF RollouterNext

LEMMA LockStep == ASSUME Constants, ControlInv, RollouterNext PROVE LockInv'
<1> USE DEF ControlInv
<1>1. CASE UNCHANGED <<pc, lock>>
  BY <1>1 DEF LockInv
<1>2. ASSUME NEW c \in Coroutines,
             Asks(c) \/ Holds(c) \/ Releases(c) \/ Passes(c) \/ AsksAgain(c)
      PROVE  LockInv'
  <2>1. /\ lock \in Seq(Coroutines) /\ DOMAIN pc = Coroutines
        /\ IsInjective(lock)
        /\ \A d \in Coroutines : pc[d] \in LockPlaces <=> d \in Range(lock)
        /\ \A d \in Coroutines : pc[d] \in HeldPlaces => Head(lock) = d
        /\ HeldPlaces \subseteq LockPlaces
    BY DEF TypeInv, LockType, PcType, LockInv, LockPlaces, HeldPlaces
  <2>2. ASSUME NEW at, Moves(c, at)
        PROVE  /\ pc'[c] = at
               /\ \A d \in Coroutines \ {c} : /\ pc'[d] \in LockPlaces <=> pc[d] \in LockPlaces
                                              /\ pc'[d] \in HeldPlaces <=> pc[d] \in HeldPlaces
    <3>1. \A d \in Coroutines : /\ Notified[d] \in LockPlaces <=> pc[d] \in LockPlaces
                                /\ Notified[d] \in HeldPlaces <=> pc[d] \in HeldPlaces
      BY <2>1, Notification DEF LockPlaces, HeldPlaces
    <3>2. DOMAIN Notified = Coroutines
      BY <2>1, Notification
    <3> QED
      BY <2>1, <2>2, <3>1, <3>2 DEF Moves
  <2>3. CASE Asks(c)
    <3>1. PICK at \in LockPlaces \ HeldPlaces : Moves(c, at)
      BY <2>3 DEF Asks
    <3>2. lock' = Append(lock, c) /\ c \notin Range(lock)
      BY <2>1, <2>3 DEF Asks
    <3>3. IsInjective(lock') /\ Range(lock') = Range(lock) \cup {c}
      BY <2>1, <3>2, AppendRange
    <3>4. lock # <<>> => Head(lock') = Head(lock)
      BY <2>1, <3>2, HeadTailAppend
    <3>5. \A d \in Coroutines : pc[d] \in HeldPlaces => lock # <<>>
      BY <2>1, RangeType
    <3> QED
      BY <2>1, <2>2, <3>1, <3>3, <3>4, <3>5 DEF LockInv
  <2>4. CASE Holds(c)
    BY <2>1, <2>2, <2>4 DEF Holds, LockInv
  <2>5. CASE Passes(c)
    BY <2>1, <2>2, <2>5 DEF Passes, LockInv
  <2>6. CASE Releases(c) \/ AsksAgain(c)
    <3> DEFINE t == Tail(lock)
    <3>1. Head(lock) = c /\ lock # <<>> /\ c \in Range(lock)
      BY <2>1, <2>6, RangeType DEF Releases, AsksAgain
    <3>2. t \in Seq(Coroutines) /\ IsInjective(t) /\ Range(t) = Range(lock) \ {c}
      BY <2>1, <3>1, TailRange, HeadTailProperties
    <3>3. \A d \in Coroutines \ {c} : pc[d] \notin HeldPlaces
      BY <2>1, <3>1
    <3>4. CASE Releases(c)
      BY <2>1, <2>2, <3>2, <3>3, <3>4 DEF Releases, LockInv
    <3>5. CASE AsksAgain(c)
      <4>1. lock' = Append(t, c)
        BY <3>5 DEF AsksAgain
      <4> HIDE DEF t
      <4>2. IsInjective(lock') /\ Range(lock') = Range(t) \cup {c}
        BY <3>2, <4>1, AppendRange
      <4>3. Range(lock') = Range(lock)
        BY <3>1, <3>2, <4>2
      <4> QED
        BY <2>1, <2>2, <3>3, <3>5, <4>2, <4>3 DEF AsksAgain, LockInv
    <3> QED
      BY <2>6, <3>4, <3>5
  <2> QED
    BY <1>2, <2>3, <2>4, <2>5, <2>6
<1> QED
  BY <1>1, <1>2, ControlSteps

\* Whoever holds the lock across a suspension is its head, and nobody else is granted it.
LEMMA OneHolder ==
  ASSUME ControlInv, NEW c \in Coroutines, NEW d \in Coroutines, NEW at,
         pc[c] \in HeldPlaces, Granted(d, at)
  PROVE  c = d
BY DEF ControlInv, LockInv, Granted

LEMMA CallStep ==
  ASSUME Constants, ControlInv, RollouterNext, UNCHANGED trainerVars
  PROVE  CallInv'
<1>0. trainer' = trainer
  BY DEF trainerVars
<1> USE <1>0
<1> USE TheCoroutines, Notification DEF ControlInv, TypeInv, PcType, CallInv, Methods
<1>1. CASE Processor
  <2>1. calls' = calls
    BY <1>1 DEF Processor, ProcStops, ProcStopped, ProcTakesCancelled,
         ProcFindsNothing, ProcTakes, ProcReaps, ProcVerifies, ProcAwaited, ProcReaped, ProcSleeps,
         ProcWakes, ProcResumes, ProcSubmits, channels
  <2>2. PICK at \in ProcPlaces : pc' = [pc EXCEPT !["proc"] = at]
    BY <1>1, PcMoves
  <2> QED
    BY <2>1, <2>2
<1>2. CASE Main
  <2>1. calls' = calls
    BY <1>2 DEF Main, MainFinishes, QueuePutsSentinel, MainCloses, MainEnds, channels
  <2>2. PICK at \in {"sending", "sent", "closing", "ended"} : pc' = [pc EXCEPT !["main"] = at]
    BY <1>2, PcMoves
  <2> QED
    BY <2>1, <2>2
<1>3. CASE Monitor
  <2>1. calls' = calls
    BY <1>3 DEF Monitor, MonitorLooks, MonitorDecides, MonitorUnpauses, channels
  <2>2. PICK at \in {"sleeping", "looking", "unpausing", "ended"} :
           pc' = [pc EXCEPT !["monitor"] = at] \/ pc' = [Notified EXCEPT !["monitor"] = at]
    BY <1>3, PcMoves
  <2> QED
    BY <2>1, <2>2
<1>4. CASE Synchronisation
  <2>0. calls \in [Methods -> {"called", "running", "returned"}]
    BY DEF ChannelType
  <2>1. ASSUME NEW m \in Methods, NEW at \in {"pausing", "updating", "resuming"},
               CallArrives(m, at)
        PROVE  CallInv'
    BY <2>0, <2>1 DEF CallArrives, Ask
  <2>2. CASE CallArrives("pause", "pausing") \/ CallArrives("update", "updating") \/ ResumeArrives
    BY <2>1, <2>2 DEF ResumeArrives
  <2> USE DEF Granted, GoOn, Suspend
  <2>3. CASE PauseLocked \/ ServersCancel \/ PauseGathered
    BY <2>3 DEF PauseLocked, ServersCancel, PauseGathered, channels
  <2>4. CASE UpdateLocked \/ QueueSizeRead \/ UpdateCounted
    BY <2>4 DEF UpdateLocked, QueueSizeRead, UpdateCounted, channels
  <2>5. CASE ResumeLocked
    BY <2>5 DEF ResumeLocked, channels
  <2>6. CASE PauseReturns
    BY <2>0, <2>6 DEF PauseReturns, CallReturns
  <2>7. CASE UpdateReturns
    BY <2>0, <2>7 DEF UpdateReturns, CallReturns
  <2>8. CASE ResumeReturns
    BY <2>0, <2>8 DEF ResumeReturns, CallReturns
  <2> QED
    BY <1>4, <2>2, <2>3, <2>4, <2>5, <2>6, <2>7, <2>8 DEF Synchronisation
<1>5. CASE Feed \/ \E s \in Samples : TaskStep(s) \/ TaskReturns(s)
  BY <1>5 DEF Feed, TaskStep, TaskReturns, control, channels
<1> QED
  BY <1>1, <1>2, <1>3, <1>4, <1>5 DEF RollouterNext

LEMMA ControlStart == ASSUME Constants, Init PROVE ControlInv
<1>1. TypeInv
  BY TypeStart
<1>2. lock = <<>> /\ calls = [m \in Methods |-> "returned"]
      /\ pc = [c \in Coroutines |-> CASE c = "proc" -> "top"
                                      [] c = "monitor" -> "sleeping"
                                      [] c = "main" -> "watching"
                                      [] OTHER -> "none"]
      /\ trainer = "collecting"
  BY DEF Init, RollouterInit, ChannelsInit, TrainerInit
<1>3. \A c \in Coroutines : pc[c] \notin LockPlaces /\ pc[c] \notin HeldPlaces
  BY <1>2 DEF Coroutines, Methods, LockPlaces, HeldPlaces
<1>4. LockInv
  BY <1>2, <1>3, RangeType DEF LockInv, IsInjective, Range
<1>5. CallInv
  BY <1>2 DEF CallInv, Coroutines, Methods
<1> QED
  BY <1>1, <1>4, <1>5 DEF ControlInv

LEMMA TrainerCalls ==
  ASSUME Constants, ControlInv, TrainerNext, UNCHANGED rollouterVars
  PROVE  CallInv'
<1>1. pc' = pc /\ calls \in [Methods -> {"called", "running", "returned"}] /\ CallInv
  BY DEF rollouterVars, control, ControlInv, TypeInv, ChannelType
<1>2. CASE SyncWeights
  BY <1>1, <1>2 DEF SyncWeights, LastDone, CallInv, Methods
<1>3. CASE WeightsTransferred
  BY <1>1, <1>3 DEF WeightsTransferred, CallInv, Methods
<1>4. CASE RolloutPaused
  BY <1>1, <1>4 DEF RolloutPaused, CallInv, channels
<1>5. CASE calls' = calls /\ trainer \notin {"pausing", "transferring"}
           /\ trainer' \notin {"pausing", "transferring"}
  BY <1>1, <1>5 DEF CallInv
<1> QED
  BY <1>2, <1>3, <1>4, <1>5 DEF TrainerNext, Collect, Terminate, Train, LastSync, OwnValidation,
     Finish, channels

LEMMA ControlStep == ASSUME Constants, ControlInv, [Next]_vars PROVE ControlInv'
<1>1. TypeInv'
  BY TypeStep DEF ControlInv
<1>3. CASE UNCHANGED vars
  <2>1. UNCHANGED control /\ UNCHANGED calls /\ UNCHANGED trainer
    BY <1>3 DEF vars, system, channels, rollouterVars, trainerVars
  <2> QED
    BY <1>1, <2>1 DEF ControlInv, LockInv, CallInv, control
<1>4. CASE RollouterNext /\ UNCHANGED trainerVars
  BY <1>1, <1>4, LockStep, CallStep DEF ControlInv
<1>5. CASE TrainerNext /\ UNCHANGED rollouterVars
  <2>1. LockInv'
    BY <1>5 DEF ControlInv, LockInv, control, rollouterVars
  <2> QED
    BY <1>1, <1>5, <2>1, TrainerCalls DEF ControlInv
<1> QED
  BY <1>3, <1>4, <1>5 DEF Next

-----------------------------------------------------------------------------
(* The processor's hand, and room for what it holds                          *)

WithSample == {"reaping", "verifying", "awaiting", "submitting", "asleep", "woken"}

\* The processor holds a sample from taking it until it submits it.
HandInv ==
  /\ goal = "limit" /\ pc["proc"] \in WithSample => hand # Nothing
  /\ hand # Nothing => goal = "limit" /\ pc["proc"] \in WithSample \cup {"crashed"}
  /\ pc["proc"] = "submitting" => goal = "limit"
  /\ pc["proc"] = "holding" => goal = "pause"
  /\ pc["proc"] \in {"asleep", "woken"} => goal \in {"limit", "pause"}
  /\ pc["proc"] \in {"ended"} => goal = "done"

\* Once it has found room for it, room there is; and what pause waited for stays gone.
RoomInv ==
  /\ pc["proc"] = "submitting" \/ (pc["proc"] \in {"asleep", "woken"} /\ goal = "limit")
       => ActiveCount < MaxConcurrent
  /\ ActiveBound
  /\ pc["pause"] = "clearing" => Live = {} /\ finished = 0 /\ failed = 0

LEMMA OthersAlone ==
  ASSUME TypeInv,
         Feed \/ Main \/ Monitor \/ Synchronisation \/ \E s \in Samples : TaskStep(s) \/ TaskReturns(s)
  PROVE  /\ UNCHANGED <<taken, hand, goal, done_bound>>
         /\ pc'["proc"] = pc["proc"] \/ (pc["proc"] = "asleep" /\ pc'["proc"] = "woken")
<1> USE TheCoroutines, Notification DEF TypeInv, PcType
<1>1. CASE Feed \/ \E s \in Samples : TaskStep(s) \/ TaskReturns(s)
  BY <1>1 DEF Feed, TaskStep, TaskReturns, feeding, control, reaping
<1>2. CASE Main
  BY <1>2, PcMoves DEF Main, MainFinishes, QueuePutsSentinel, MainCloses, MainEnds, feeding, reaping
<1>3. CASE Monitor
  <2>1. UNCHANGED <<taken, hand, goal, done_bound>>
    BY <1>3 DEF Monitor, MonitorLooks, MonitorDecides, MonitorUnpauses, feeding, reaping
  <2> QED
    BY <1>3, <2>1, PcMoves
<1>4. CASE Synchronisation
  <2>1. UNCHANGED <<taken, hand, goal, done_bound>>
    BY <1>4 DEF Synchronisation, CallArrives, PauseLocked, ServersCancel, PauseGathered,
         PauseReturns, UpdateLocked, QueueSizeRead, UpdateCounted, UpdateReturns, ResumeArrives,
         ResumeLocked, ResumeReturns, feeding, reaping
  <2> QED
    BY <1>4, <2>1, PcMoves
<1> QED
  BY <1>1, <1>2, <1>3, <1>4

LEMMA ProcessorAlone ==
  ASSUME TypeInv, RollouterNext, ~Processor
  PROVE  /\ UNCHANGED <<taken, hand, goal, done_bound>>
         /\ pc'["proc"] = pc["proc"] \/ (pc["proc"] = "asleep" /\ pc'["proc"] = "woken")
BY OthersAlone DEF RollouterNext

LEMMA HandStep ==
  ASSUME Constants, ControlInv, HandInv, RollouterNext
  PROVE  HandInv'
<1> USE TheCoroutines DEF ControlInv, TypeInv, PcType, HandInv, WithSample, Nothing
<1>1. CASE Processor
  <2>1. ASSUME cancel_queue # <<>> PROVE Head(cancel_queue) # 0
    BY <2>1, HeadTailProperties DEF TaskType, Samples, Constants, ChannelConstants
  <2> USE DEF Granted, Ask, GoOn, Suspend, feeding, reaping, ProcPlaces
  <2>2. CASE ProcTakesCancelled
    BY <2>1, <2>2 DEF ProcTakesCancelled
  <2>3. CASE ProcTakes
    BY <2>3 DEF ProcTakes, TaskType
  <2>4. CASE ProcStops \/ ProcStopped \/ ProcFindsNothing
    BY <2>4 DEF ProcStops, ProcStopped, ProcFindsNothing
  <2>5. CASE ProcReaps \/ ProcVerifies \/ ProcAwaited
    BY <2>5 DEF ProcReaps, ProcVerifies, ProcAwaited
  <2>6. CASE ProcReaped
    BY <2>6 DEF ProcReaped, TaskType
  <2>7. CASE ProcSleeps \/ ProcWakes
    BY <2>7 DEF ProcSleeps, ProcWakes
  <2>8. CASE ProcResumes \/ ProcSubmits
    BY <2>8 DEF ProcResumes, ProcSubmits
  <2> QED
    BY <1>1, <2>2, <2>3, <2>4, <2>5, <2>6, <2>7, <2>8 DEF Processor
<1>2. CASE ~Processor
  BY <1>2, ProcessorAlone
<1> QED
  BY <1>1, <1>2

LEMMA OneEnds ==
  ASSUME NEW n \in Int, NEW f \in Int, NEW g \in Int, NEW n2 \in Int, NEW f2 \in Int, NEW g2 \in Int,
         n2 = n - 1, f2 + g2 = f + g + 1
  PROVE  n2 + f2 + g2 = n + f + g
OBVIOUS

\* How the number of active tasks changes.
LEMMA CountMoves ==
  ASSUME Constants, ControlInv, HandInv, RollouterNext
  PROVE  /\ ProcSubmits => /\ Live' = Live \cup {hand} /\ UNCHANGED <<finished, failed>>
                           /\ ActiveCount' <= ActiveCount + 1
                           /\ task[hand] = "none" => ActiveCount' = ActiveCount + 1
         /\ (\E s \in Samples : TaskStep(s) \/ TaskReturns(s))
              => ActiveCount' = ActiveCount /\ Live' \subseteq Live
         /\ ProcAwaited \/ PauseGathered => /\ Live' = Live /\ finished' = 0 /\ failed' = 0
                                            /\ ActiveCount' = Cardinality(Live)
                                            /\ ActiveCount' <= ActiveCount
         /\ \/ ProcSubmits \/ ProcAwaited \/ PauseGathered
            \/ \E s \in Samples : TaskStep(s) \/ TaskReturns(s)
            \/ UNCHANGED <<task, finished, failed>> /\ ActiveCount' = ActiveCount /\ Live' = Live
<1>0. /\ IsFiniteSet(Live) /\ Cardinality(Live) \in Nat /\ ActiveCount \in Nat
      /\ finished \in Nat /\ failed \in Nat
      /\ task \in [Samples -> {"none", "created", "generating", "generated", "cancelled",
                               "putting", "put"}]
  BY ActiveCountType DEF ControlInv, TypeInv, TaskType
<1>1. ASSUME ProcSubmits
      PROVE  /\ Live' = Live \cup {hand} /\ UNCHANGED <<finished, failed>>
             /\ ActiveCount' <= ActiveCount + 1
             /\ task[hand] = "none" => ActiveCount' = ActiveCount + 1
  <2>1. hand \in Samples
    BY <1>1 DEF ProcSubmits, Granted, HandInv, WithSample, ControlInv, TypeInv, TaskType, Nothing,
               Samples, Constants, ChannelConstants
  <2>2. Live' = Live \cup {hand} /\ UNCHANGED <<finished, failed>>
    BY <1>0, <1>1, <2>1 DEF ProcSubmits, Live
  <2>3. Cardinality(Live') = IF hand \in Live THEN Cardinality(Live) ELSE Cardinality(Live) + 1
    BY <1>0, <2>2, FS_AddElement
  <2>4. task[hand] = "none" => hand \notin Live
    BY DEF Live
  <2> QED
    BY <1>0, <2>2, <2>3, <2>4 DEF ActiveCount
<1>2. ASSUME NEW s \in Samples, TaskStep(s) \/ TaskReturns(s)
      PROVE  ActiveCount' = ActiveCount /\ Live' \subseteq Live
  <2>1. CASE UNCHANGED <<finished, failed>>
    <3>1. Live' = Live
      BY <1>0, <1>2, <2>1 DEF TaskStep, TaskReturns, TaskStarts, Answered, TaskFails, TaskPuts,
                              QueuePuts, TaskEnds, TaskMoves, Live
    <3> QED
      BY <2>1, <3>1 DEF ActiveCount
  <2>2. CASE ~UNCHANGED <<finished, failed>>
    <3>1. /\ s \in Live /\ Live' = Live \ {s}
          /\ finished' + failed' = finished + failed + 1 /\ finished' \in Nat /\ failed' \in Nat
      BY <1>0, <1>2, <2>2 DEF TaskStep, TaskReturns, TaskStarts, Answered, TaskFails, TaskPuts,
                              QueuePuts, TaskEnds, TaskMoves, Live
    <3>2. Cardinality(Live') = Cardinality(Live) - 1
      BY <1>0, <3>1, FS_RemoveElement
    <3>3. /\ ActiveCount = Cardinality(Live) + finished + failed
          /\ ActiveCount' = Cardinality(Live') + finished' + failed'
      BY DEF ActiveCount
    <3>4. PICK n \in Int, n2 \in Int, f \in Int, f2 \in Int, g \in Int, g2 \in Int :
            /\ n = Cardinality(Live) /\ n2 = Cardinality(Live')
            /\ f = finished /\ f2 = finished' /\ g = failed /\ g2 = failed'
      BY <1>0, <3>1, <3>2
    <3>5. n2 = n - 1 /\ f2 + g2 = f + g + 1
      BY <3>1, <3>2, <3>4
    <3>6. n2 + f2 + g2 = n + f + g
      BY <3>5, OneEnds
    <3> QED
      BY <3>1, <3>3, <3>4, <3>6
  <2> QED
    BY <2>1, <2>2
<1>3. ASSUME ProcAwaited \/ PauseGathered
      PROVE  /\ Live' = Live /\ finished' = 0 /\ failed' = 0
             /\ ActiveCount' = Cardinality(Live) /\ ActiveCount' <= ActiveCount
  <2>1. Live' = Live /\ finished' = 0 /\ failed' = 0
    BY <1>3 DEF ProcAwaited, PauseGathered, Live
  <2> QED
    BY <1>0, <2>1 DEF ActiveCount
<1>4. ASSUME UNCHANGED <<task, finished, failed>> PROVE ActiveCount' = ActiveCount /\ Live' = Live
  BY <1>4 DEF ActiveCount, Live
<1>5. \/ ProcSubmits \/ ProcAwaited \/ PauseGathered
      \/ \E s \in Samples : TaskStep(s) \/ TaskReturns(s)
      \/ UNCHANGED <<task, finished, failed>>
  BY DEF RollouterNext, Feed, Processor, ProcStops, ProcStopped, ProcTakesCancelled,
         ProcFindsNothing, ProcTakes, ProcReaps, ProcVerifies, ProcReaped, ProcSleeps,
         ProcWakes, ProcResumes, Main, MainFinishes, QueuePutsSentinel, MainCloses, MainEnds,
         Monitor, MonitorLooks, MonitorDecides, MonitorUnpauses, Synchronisation, CallArrives,
         PauseLocked, ServersCancel, PauseReturns, UpdateLocked, QueueSizeRead, UpdateCounted,
         UpdateReturns, ResumeArrives, ResumeLocked, ResumeReturns, tasks
<1> QED
  BY <1>1, <1>2, <1>3, <1>4, <1>5

\* pause comes to its last part only by having gathered every task.
LEMMA BecomesClearing ==
  ASSUME PcType, RollouterNext, pc'["pause"] = "clearing"
  PROVE  PauseGathered \/ pc["pause"] = "clearing"
<1> USE TheCoroutines, Notification DEF PcType
<1>1. CASE Processor \/ Main \/ Monitor
  BY <1>1, PcMoves
<1>2. CASE Synchronisation
  BY <1>2 DEF Synchronisation, CallArrives, PauseLocked, ServersCancel, PauseReturns, UpdateLocked,
       QueueSizeRead, UpdateCounted, UpdateReturns, ResumeArrives, ResumeLocked, ResumeReturns,
       Granted, Ask, GoOn, Suspend
<1>3. CASE Feed \/ \E s \in Samples : TaskStep(s) \/ TaskReturns(s)
  BY <1>3 DEF Feed, TaskStep, TaskReturns, control
<1> QED
  BY <1>1, <1>2, <1>3 DEF RollouterNext

LEMMA RoomStep ==
  ASSUME Constants, ControlInv, HandInv, RoomInv, RollouterNext, TypeInv'
  PROVE  RoomInv'
<1>0. /\ ActiveCount \in Nat /\ ActiveCount' \in Nat /\ MaxConcurrent \in Nat \ {0}
      /\ DOMAIN pc = Coroutines
      /\ IsFiniteSet(Live) /\ Cardinality(Live) \in Nat
      /\ finished \in Nat /\ failed \in Nat
  <2>1. ActiveCount \in Nat /\ IsFiniteSet(Live) /\ Cardinality(Live) \in Nat
    BY ActiveCountType DEF ControlInv
  <2>2. ActiveCount' \in Nat
    <3>1. IsFiniteSet(Samples)
      BY FS_Interval DEF Samples, Constants, ChannelConstants
    <3>2. Cardinality(Live') \in Nat
      BY <3>1, FS_Subset, FS_CardinalityType DEF Live
    <3> QED
      BY <3>2 DEF ActiveCount, TypeInv, TaskType
  <2> QED
    BY <2>1, <2>2 DEF ControlInv, TypeInv, PcType, TaskType, Constants, RollouterConstants,
       ChannelConstants
<1>1. CASE ProcSubmits
  <2>1. /\ Granted("proc", "submitting") /\ ~paused
        /\ pc' = [pc EXCEPT !["proc"] = "top"]
    BY <1>1 DEF ProcSubmits, GoOn
  <2>2. ActiveCount' <= ActiveCount + 1 /\ ActiveCount < MaxConcurrent
    BY <1>1, <2>1, CountMoves DEF Granted, RoomInv
  <2>3. pc["pause"] # "clearing"
    BY <1>0, <2>1, TheCoroutines, OneHolder DEF HeldPlaces
  <2> QED
    BY <1>0, <2>1, <2>2, <2>3, TheCoroutines DEF RoomInv, ActiveBound
<1>2. CASE ActiveCount' <= ActiveCount /\ (Live' \subseteq Live \/ ProcAwaited \/ PauseGathered)
           /\ ~ProcSubmits
  <2>1. ActiveBound' /\ ActiveBound
    BY <1>0, <1>2 DEF RoomInv, ActiveBound
  <2>2. pc'["pause"] = "clearing" => Live' = {} /\ finished' = 0 /\ failed' = 0
    <3> SUFFICES ASSUME pc'["pause"] = "clearing" PROVE Live' = {} /\ finished' = 0 /\ failed' = 0
      OBVIOUS
    <3>1. PauseGathered \/ pc["pause"] = "clearing"
      BY BecomesClearing DEF ControlInv, TypeInv
    <3>2. CASE PauseGathered
      <4>1. Live = {}
        BY <3>2 DEF PauseGathered
      <4> QED
        BY <3>2, <4>1, CountMoves
    <3>3. CASE pc["pause"] = "clearing"
      <4>1. Live = {} /\ finished = 0 /\ failed = 0
        BY <3>3 DEF RoomInv
      <4>2. ~(\E s \in Samples : TaskStep(s) \/ TaskReturns(s))
        BY <4>1 DEF Live, TaskStep, TaskReturns, TaskStarts, Answered, TaskFails, TaskPuts,
                    QueuePuts, TaskEnds, TaskMoves
      <4>3. ~ProcAwaited
        BY <4>1 DEF ProcAwaited
      <4> QED
        BY <1>2, <4>1, <4>2, <4>3, CountMoves
    <3> QED
      BY <3>1, <3>2, <3>3
  <2>3. pc'["proc"] = "submitting" \/ (pc'["proc"] \in {"asleep", "woken"} /\ goal' = "limit")
       => ActiveCount' < MaxConcurrent
    <3>1. CASE ~Processor
      BY <1>0, <1>2, <3>1, ProcessorAlone DEF RoomInv, ControlInv
    <3>2. CASE Processor
      <4> USE TheCoroutines DEF Granted, Ask, GoOn, Suspend, ProcPlaces
      <4>1. pc["proc"] \in ProcPlaces
        BY DEF ControlInv, TypeInv, PcType
      <4>2. CASE ProcReaped
        <5>1. goal = "limit" => ActiveCount <= MaxConcurrent - 1
          BY <1>0, <4>2 DEF ProcReaped, MustReap
        <5>2. pc'["proc"] \in {"submitting", "asleep", "woken"} => goal = "limit"
          BY <1>0, <4>2 DEF ProcReaped
        <5> QED
          BY <1>0, <1>2, <5>1, <5>2
      <4>3. CASE ProcSleeps \/ ProcWakes
        <5>1. goal' = goal
          BY <4>3 DEF ProcSleeps, ProcWakes, reaping
        <5>2. pc["proc"] = "submitting" \/ (goal = "pause" /\ pc'["proc"] # "submitting")
              \/ (goal = "limit" /\ pc["proc"] \in {"asleep", "woken"})
          BY <1>0, <4>3 DEF ProcSleeps, ProcWakes, HandInv
        <5> QED
          BY <1>0, <1>2, <5>1, <5>2 DEF RoomInv
      <4>4. CASE ~ProcReaped /\ ~ProcSleeps /\ ~ProcWakes
        <5>1. pc'["proc"] \notin {"submitting", "asleep", "woken"}
          BY <1>0, <1>2, <3>2, <4>4 DEF Processor, ProcStops, ProcStopped, ProcTakesCancelled,
               ProcFindsNothing, ProcTakes, ProcReaps, ProcVerifies, ProcAwaited, ProcResumes
        <5> QED
          BY <5>1
      <4> QED
        BY <4>2, <4>3, <4>4
    <3> QED
      BY <3>1, <3>2
  <2> QED
    BY <2>1, <2>2, <2>3 DEF RoomInv
<1> QED
  BY <1>0, <1>1, <1>2, CountMoves


LEMMA ReturnsByPause ==
  ASSUME calls \in [Methods -> {"called", "running", "returned"}],
         RollouterNext \/ TrainerNext, calls["pause"] = "running", calls'["pause"] = "returned"
  PROVE  PauseReturns
<1>1. CASE RollouterNext
  <2>1. Synchronisation \/ calls' = calls
    BY <1>1 DEF RollouterNext, Feed, Processor, ProcStops, ProcStopped, ProcTakesCancelled,
         ProcFindsNothing, ProcTakes, ProcReaps, ProcVerifies, ProcAwaited, ProcReaped, ProcSleeps,
         ProcWakes, ProcResumes, ProcSubmits, Main, MainFinishes, QueuePutsSentinel, MainCloses,
         MainEnds, Monitor, MonitorLooks, MonitorDecides, MonitorUnpauses, TaskStep, TaskReturns,
         channels
  <2>2. CASE Synchronisation
    BY <2>2 DEF Synchronisation, CallArrives, PauseLocked, ServersCancel, PauseGathered,
         UpdateLocked, QueueSizeRead, UpdateCounted, UpdateReturns, ResumeArrives, ResumeLocked,
         ResumeReturns, CallReturns, Methods, channels
  <2> QED
    BY <2>1, <2>2
<1>2. CASE TrainerNext
  BY <1>2 DEF TrainerNext, Collect, Terminate, Train, SyncWeights, RolloutPaused,
       WeightsTransferred, LastSync, OwnValidation, Finish, Methods, channels
<1> QED
  BY <1>1, <1>2

WorkInv == ControlInv /\ HandInv /\ RoomInv

LEMMA WorkStart == ASSUME Constants, Init PROVE WorkInv
<1>1. ControlInv
  BY ControlStart
<1>2. /\ goal = "limit" /\ hand = Nothing /\ finished = 0 /\ failed = 0
      /\ task = [s \in Samples |-> "none"]
  BY DEF Init, RollouterInit
<1>3. pc["proc"] = "top" /\ pc["pause"] = "none"
  BY DEF Init, RollouterInit, Coroutines, Methods
<1>4. ActiveCount = 0
  BY <1>2, FS_EmptySet DEF ActiveCount, Live
<1> QED
  BY <1>1, <1>2, <1>3, <1>4
     DEF WorkInv, HandInv, RoomInv, WithSample, ActiveBound, Constants, RollouterConstants

LEMMA WorkStep == ASSUME Constants, WorkInv, [Next]_vars PROVE WorkInv'
<1>1. ControlInv'
  BY ControlStep DEF WorkInv
<1>2. CASE UNCHANGED rollouterVars
  <2>1. UNCHANGED <<goal, hand, pc, task, finished, failed>>
    BY <1>2 DEF rollouterVars, reaping, feeding, control, tasks
  <2>2. ActiveCount' = ActiveCount /\ Live' = Live
    BY <2>1 DEF ActiveCount, Live
  <2> QED
    BY <1>1, <2>1, <2>2 DEF WorkInv, HandInv, RoomInv, ActiveBound
<1>3. CASE RollouterNext
  BY <1>1, <1>3, HandStep, RoomStep DEF WorkInv, ControlInv
<1> QED
  BY <1>2, <1>3 DEF Next, vars, system

LEMMA Working == Spec => []WorkInv
<1>1. Init => WorkInv
  BY WorkStart, ConstantsHold
<1>2. WorkInv /\ [Next]_vars => WorkInv'
  BY WorkStep, ConstantsHold
<1> QED
  BY <1>1, <1>2, PTL DEF Spec

\* No more generations run, or wait to be reaped, than max_concurrent_samples: the processor
\* starts one only with the lock and with room it found before it asked for the lock.
THEOREM ActiveBounded == Spec => []ActiveBound
<1>1. WorkInv => ActiveBound
  BY DEF WorkInv, RoomInv
<1> QED
  BY <1>1, Working, PTL

\* pause returns only when no generation runs and none waits to be reaped.
THEOREM PauseWaited == Spec => PauseWaits
<1>1. WorkInv /\ [Next]_vars
        => [calls["pause"] = "running" /\ calls'["pause"] = "returned"
              => Live = {} /\ finished = 0 /\ failed = 0]_vars
  <2> SUFFICES ASSUME WorkInv, Next, calls["pause"] = "running", calls'["pause"] = "returned"
               PROVE  Live = {} /\ finished = 0 /\ failed = 0
    OBVIOUS
  <2>1. calls \in [Methods -> {"called", "running", "returned"}]
    BY DEF WorkInv, ControlInv, TypeInv, ChannelType
  <2>2. PauseReturns
    BY <2>1, ReturnsByPause DEF Next
  <2> QED
    BY <2>2 DEF PauseReturns, Granted, WorkInv, RoomInv
<1> QED
  BY <1>1, Working, PTL DEF Spec, PauseWaits

-----------------------------------------------------------------------------
(* Where every sample is                                                     *)

\* Eight sets, no two of which share an element.
Apart(A, B, C, D, E, F, G, H) ==
  /\ A \cap (B \cup C \cup D \cup E \cup F \cup G \cup H) = {}
  /\ B \cap (C \cup D \cup E \cup F \cup G \cup H) = {}
  /\ C \cap (D \cup E \cup F \cup G \cup H) = {}
  /\ D \cap (E \cup F \cup G \cup H) = {}
  /\ E \cap (F \cup G \cup H) = {}
  /\ F \cap (G \cup H) = {}
  /\ G \cap H = {}

\* The end signal enters the queue once, when the work is over.
SentinelAt == pc["main"] \in {"sent", "closing", "ended"}

PlaceInv ==
  /\ IsInjective(queue) /\ IsInjective(cancel_queue)
  /\ Sentinel \in Range(queue) => SentinelAt
  /\ Begun = InQueue \cup InCancelQueue \cup AtTask \cup InHand \cup (dropped \ {Sentinel})
             \cup batch \cup trained \cup lost
  /\ Apart(InQueue, InCancelQueue, AtTask, InHand, dropped \ {Sentinel}, batch, trained, lost)

LEMMA QueueRange ==
  ASSUME TypeInv
  PROVE  /\ InQueue = Range(queue) \ {Sentinel} /\ InCancelQueue = Range(cancel_queue)
BY LenProperties DEF TypeInv, ChannelType, TaskType, InQueue, InCancelQueue, Range

\* A put adds an element; if the queue was full its head goes to the dropped ones.
LEMMA PutMoves ==
  ASSUME Constants, NEW S, queue \in Seq(S), IsInjective(queue), NEW x \in S, x \notin Range(queue), Put(x)
  PROVE  /\ IsInjective(queue')
         /\ \E E \in SUBSET Range(queue) : /\ Range(queue') = (Range(queue) \ E) \cup {x}
                                           /\ dropped' = dropped \cup E
<1>1. CASE Len(queue) >= MaxRequired
  <2> DEFINE t == Tail(queue)
  <2>1. queue # <<>>
    BY <1>1, EmptySeq DEF Constants, ChannelConstants
  <2>2. queue' = Append(t, x) /\ dropped' = dropped \cup {Head(queue)}
    BY <1>1 DEF Put, BQ!Putting
  <2>3. t \in Seq(S) /\ IsInjective(t) /\ Range(t) = Range(queue) \ {Head(queue)}
        /\ Head(queue) \in Range(queue)
    BY <2>1, TailRange, HeadElem, HeadTailProperties
  <2> HIDE DEF t
  <2>4. Range(Append(t, x)) = Range(t) \cup {x} /\ IsInjective(Append(t, x))
    BY <2>3, AppendRange
  <2>5. Range(queue') = (Range(queue) \ {Head(queue)}) \cup {x} /\ IsInjective(queue')
    BY <2>2, <2>3, <2>4
  <2>6. {Head(queue)} \in SUBSET Range(queue)
    BY <2>3
  <2> QED
    BY <2>2, <2>5, <2>6
<1>2. CASE ~(Len(queue) >= MaxRequired)
  <2>1. queue' = Append(queue, x) /\ dropped' = dropped
    BY <1>2 DEF Put, BQ!Putting
  <2>2. Range(Append(queue, x)) = Range(queue) \cup {x} /\ IsInjective(Append(queue, x))
    BY AppendRange
  <2>3. Range(queue') = (Range(queue) \ {}) \cup {x} /\ IsInjective(queue')
    BY <2>1, <2>2
  <2>4. {} \in SUBSET Range(queue) /\ dropped' = dropped \cup {}
    BY <2>1
  <2> QED
    BY <2>3, <2>4
<1> QED
  BY <1>1, <1>2

LEMMA MainMoves ==
  ASSUME PcType, RollouterNext
  PROVE  /\ SentinelAt => SentinelAt'
         /\ QueuePutsSentinel => ~SentinelAt /\ SentinelAt'
<1> USE TheCoroutines, Notification DEF PcType, SentinelAt
<1>1. CASE Processor \/ Monitor \/ Synchronisation
  <2>1. pc'["main"] = pc["main"] /\ ~QueuePutsSentinel
    BY <1>1, PcMoves DEF QueuePutsSentinel
  <2> QED
    BY <2>1
<1>2. CASE Main
  BY <1>2 DEF Main, MainFinishes, QueuePutsSentinel, MainCloses, MainEnds, Granted, Ask, Suspend
<1>3. CASE Feed \/ \E s \in Samples : TaskStep(s) \/ TaskReturns(s)
  BY <1>3 DEF Feed, TaskStep, TaskReturns, control, QueuePutsSentinel
<1> QED
  BY <1>1, <1>2, <1>3 DEF RollouterNext

\* The places after a step, from the sequences and sets it leaves.
LEMMA PlacesAfter ==
  ASSUME Constants, TypeInv, TypeInv'
  PROVE  /\ InQueue' = Range(queue') \ {Sentinel} /\ InQueue = Range(queue) \ {Sentinel}
         /\ InCancelQueue' = Range(cancel_queue') /\ InCancelQueue = Range(cancel_queue)
         /\ InHand' = {hand'} \ {Nothing}
         /\ \A s \in Samples : /\ s \in AtTask <=> task[s] \notin {"none", "put"}
                               /\ s \in AtTask' <=> task'[s] \notin {"none", "put"}
         /\ AtTask \subseteq Samples /\ AtTask' \subseteq Samples
         /\ Samples \subseteq 0 .. Total /\ Sentinel \notin Samples /\ Sentinel \in 0 .. Total
<1>1. InQueue' = Range(queue') \ {Sentinel} /\ InCancelQueue' = Range(cancel_queue')
  BY LenProperties DEF TypeInv, ChannelType, TaskType, InQueue, InCancelQueue, Range
<1> QED
  BY <1>1, QueueRange DEF InHand, AtTask, Samples, Sentinel, Constants, ChannelConstants

LEMMA TasksMove ==
  ASSUME Constants, TypeInv, TypeInv', PlaceInv, UNCHANGED <<batch, trained>>,
         NEW s \in Samples, TaskStep(s) \/ TaskReturns(s)
  PROVE  PlaceInv'
<1>0. /\ UNCHANGED <<taken, hand, pc>>
      /\ task \in [Samples -> {"none", "created", "generating", "generated", "cancelled",
                               "putting", "put"}]
      /\ queue \in Seq(0 .. Total) /\ cancel_queue \in Seq(Samples)
      /\ s # Sentinel /\ s \in 0 .. Total
  BY PlacesAfter DEF TaskStep, TaskReturns, feeding, control, TypeInv, TaskType, ChannelType
<1>1. Begun' = Begun /\ InHand' = InHand /\ SentinelAt' = SentinelAt
  BY <1>0 DEF Begun, InHand, SentinelAt
<1>2. CASE /\ TaskStarts(s) \/ Answered(s) \/ TaskPuts(s) \/ TaskEnds(s)
           /\ cancel_queue' = cancel_queue
  <2>1. UNCHANGED <<queue, dropped, lost, cancel_queue>>
    BY <1>2 DEF TaskStarts, Answered, TaskPuts, TaskEnds
  <2>2. AtTask' = AtTask
    BY <1>0, <1>2 DEF TaskStarts, Answered, TaskPuts, TaskEnds, TaskMoves, AtTask
  <2>3. InQueue' = InQueue /\ InCancelQueue' = InCancelQueue
    BY <2>1 DEF InQueue, InCancelQueue
  <2> QED
    BY <1>1, <2>1, <2>2, <2>3 DEF PlaceInv, Range, IsInjective
<1>3. CASE TaskFails(s) /\ cancel_queue' = cancel_queue
  <2>1. UNCHANGED <<queue, dropped, cancel_queue>> /\ lost' = lost \cup {s}
    BY <1>3 DEF TaskFails
  <2>2. AtTask' = AtTask \ {s} /\ s \in AtTask
    BY <1>0, <1>3 DEF TaskFails, TaskMoves, AtTask
  <2>3. InQueue' = InQueue /\ InCancelQueue' = InCancelQueue
    BY <2>1 DEF InQueue, InCancelQueue
  <2> QED
    BY <1>1, <2>1, <2>2, <2>3 DEF PlaceInv, Apart, Range, IsInjective
<1>4. CASE TaskReturns(s)
  <2>1. UNCHANGED <<queue, dropped, lost>> /\ cancel_queue' = Append(cancel_queue, s)
    BY <1>4 DEF TaskReturns, channels
  <2>2. AtTask' = AtTask \ {s} /\ s \in AtTask
    BY <1>0, <1>4 DEF TaskReturns, TaskMoves, AtTask
  <2>3. InQueue' = InQueue /\ IsInjective(queue') /\ Range(queue') = Range(queue)
    BY <2>1 DEF InQueue, PlaceInv
  <2>4. s \notin Range(cancel_queue)
    BY <2>2, QueueRange DEF PlaceInv, Apart
  <2>5. IsInjective(cancel_queue') /\ Range(cancel_queue') = Range(cancel_queue) \cup {s}
    BY <1>0, <2>1, <2>4, AppendRange DEF PlaceInv
  <2>6. InCancelQueue' = InCancelQueue \cup {s}
    BY <2>5, PlacesAfter
  <2> QED
    BY <1>1, <2>1, <2>2, <2>3, <2>5, <2>6 DEF PlaceInv, Apart
<1>5. CASE QueuePuts(s) /\ cancel_queue' = cancel_queue
  <2>1. UNCHANGED <<cancel_queue, lost>> /\ Put(s)
    BY <1>5 DEF QueuePuts
  <2>2. AtTask' = AtTask \ {s} /\ s \in AtTask
    BY <1>0, <1>5 DEF QueuePuts, TaskMoves, AtTask
  <2>3. InCancelQueue' = InCancelQueue /\ IsInjective(cancel_queue')
    BY <2>1 DEF InCancelQueue, PlaceInv
  <2>4. s \notin Range(queue)
    BY <1>0, <2>2, QueueRange DEF PlaceInv, Apart
  <2>5. /\ IsInjective(queue')
        /\ \E E \in SUBSET Range(queue) : /\ Range(queue') = (Range(queue) \ E) \cup {s}
                                          /\ dropped' = dropped \cup E
    BY <1>0, <2>1, <2>4, PutMoves DEF PlaceInv
  <2>6. PICK E \in SUBSET Range(queue) : /\ Range(queue') = (Range(queue) \ E) \cup {s}
                                         /\ dropped' = dropped \cup E
    BY <2>5
  <2>7. Sentinel \in Range(queue') => SentinelAt'
    BY <1>0, <1>1, <2>6 DEF PlaceInv
  <2>8. /\ InQueue = Range(queue) \ {Sentinel} /\ InQueue' = Range(queue') \ {Sentinel}
    BY PlacesAfter
  <2> QED
    BY <1>0, <1>1, <2>1, <2>2, <2>3, <2>5, <2>6, <2>7, <2>8 DEF PlaceInv, Apart
<1> QED
  BY <1>2, <1>3, <1>4, <1>5 DEF TaskStep, feeding

LEMMA ProcessorMoves ==
  ASSUME Constants, TypeInv, TypeInv', HandInv, PlaceInv, Processor, UNCHANGED <<batch, trained>>
  PROVE  PlaceInv'
<1>0. /\ UNCHANGED <<queue, dropped, lost>> /\ SentinelAt' = SentinelAt
      /\ pc["proc"] \in ProcPlaces /\ DOMAIN pc = Coroutines
      /\ task \in [Samples -> {"none", "created", "generating", "generated", "cancelled",
                               "putting", "put"}]
      /\ cancel_queue \in Seq(Samples) /\ hand \in 0 .. Total /\ taken \in 0 .. fed
      /\ fed \in 0 .. DONE
  <2>1. UNCHANGED <<queue, dropped, lost>>
    BY DEF Processor, ProcStops, ProcStopped, ProcTakesCancelled, ProcFindsNothing, ProcTakes,
         ProcReaps, ProcVerifies, ProcAwaited, ProcReaped, ProcSleeps, ProcWakes, ProcResumes,
         ProcSubmits, channels, tasks
  <2>2. pc'["main"] = pc["main"]
    BY PcMoves, TheCoroutines DEF TypeInv, PcType
  <2> QED
    BY <2>1, <2>2 DEF SentinelAt, TypeInv, PcType, TaskType
<1>1. InQueue' = InQueue /\ Range(queue') = Range(queue) /\ IsInjective(queue')
  BY <1>0 DEF InQueue, PlaceInv
<1>2. CASE ProcTakesCancelled
  <2>1. /\ hand' = Head(cancel_queue) /\ cancel_queue' = Tail(cancel_queue) /\ cancel_queue # <<>>
        /\ UNCHANGED <<taken, task>> /\ pc["proc"] = "top"
    BY <1>2 DEF ProcTakesCancelled, tasks
  <2>2. /\ IsInjective(cancel_queue') /\ Range(cancel_queue') = Range(cancel_queue) \ {hand'}
        /\ hand' \in Range(cancel_queue)
    BY <1>0, <2>1, TailRange, HeadElem DEF PlaceInv
  <2>3. InHand = {}
    BY <2>1 DEF HandInv, InHand, WithSample
  <2>4. InHand' = {hand'} /\ hand' \in InCancelQueue /\ InCancelQueue' = InCancelQueue \ {hand'}
    <3>1. hand' \in Samples /\ hand' # Nothing
      BY <1>0, <2>2, RangeType, PlacesAfter DEF Sentinel, Nothing
    <3> QED
      BY <2>2, <3>1, PlacesAfter
  <2>5. Begun' = Begun /\ AtTask' = AtTask
    BY <2>1 DEF Begun, AtTask
  <2> QED
    BY <1>0, <1>1, <2>2, <2>3, <2>4, <2>5 DEF PlaceInv, Apart
<1>3. CASE ProcTakes
  <2>1. /\ UNCHANGED <<cancel_queue, task>> /\ pc["proc"] \in {"top", "getting"}
        /\ taken' = taken + 1 /\ taken < fed
        /\ hand' = IF taken' = DONE THEN Nothing ELSE taken'
    BY <1>0, <1>3 DEF ProcTakes, tasks
  <2>2. InHand = {}
    BY <2>1 DEF HandInv, InHand, WithSample
  <2>3. Begun' = Begun \cup InHand' /\ InHand' \cap Begun = {}
    <3>1. Total \in Nat /\ taken \in Nat /\ taken <= Total
      BY <1>0, <2>1 DEF DONE, Constants, ChannelConstants
    <3>2. Begun = 1 .. taken
      BY <3>1 DEF Begun, DONE
    <3>3. CASE taken = Total
      BY <2>1, <3>1, <3>2, <3>3 DEF Begun, InHand, DONE
    <3>4. CASE taken < Total
      <4>1. taken' = taken + 1 /\ hand' = taken + 1 /\ hand' # Nothing
        BY <2>1, <3>1, <3>4 DEF DONE, Nothing
      <4>2. Begun' = 1 .. taken + 1 /\ InHand' = {taken + 1}
        BY <3>1, <3>4, <4>1 DEF Begun, InHand, DONE
      <4> QED
        BY <3>1, <3>2, <4>2
    <3> QED
      BY <3>1, <3>3, <3>4
  <2>4. InCancelQueue' = InCancelQueue /\ AtTask' = AtTask /\ IsInjective(cancel_queue')
    BY <2>1 DEF InCancelQueue, AtTask, PlaceInv
  <2> QED
    BY <1>0, <1>1, <2>2, <2>3, <2>4 DEF PlaceInv, Apart
<1>4. CASE ProcSubmits
  <2>1. /\ UNCHANGED <<cancel_queue, taken>> /\ pc["proc"] = "submitting"
        /\ task' = [task EXCEPT ![hand] = "created"] /\ hand' = Nothing
    BY <1>4 DEF ProcSubmits, Granted
  <2>2. hand # Nothing /\ hand \in Samples
    BY <1>0, <2>1 DEF HandInv, WithSample, Samples, Nothing, Constants, ChannelConstants
  <2>3. InHand' = {} /\ InHand = {hand} /\ AtTask' = AtTask \cup {hand}
    BY <1>0, <2>1, <2>2 DEF InHand, AtTask
  <2>4. InCancelQueue' = InCancelQueue /\ Begun' = Begun /\ IsInjective(cancel_queue')
    BY <2>1 DEF InCancelQueue, Begun, PlaceInv
  <2> QED
    BY <1>0, <1>1, <2>2, <2>3, <2>4 DEF PlaceInv, Apart
<1>5. CASE ~ProcTakesCancelled /\ ~ProcTakes /\ ~ProcSubmits
  <2>1. UNCHANGED <<cancel_queue, taken, hand, task>>
    BY <1>5 DEF Processor, ProcStops, ProcStopped, ProcFindsNothing,
         ProcReaps, ProcVerifies, ProcAwaited, ProcReaped, ProcSleeps, ProcWakes, ProcResumes,
         feeding, tasks
  <2>2. /\ InCancelQueue' = InCancelQueue /\ AtTask' = AtTask /\ InHand' = InHand /\ Begun' = Begun
        /\ IsInjective(cancel_queue')
    BY <2>1 DEF InCancelQueue, AtTask, InHand, Begun, PlaceInv
  <2> QED
    BY <1>0, <1>1, <2>2 DEF PlaceInv
<1> QED
  BY <1>2, <1>3, <1>4, <1>5

LEMMA OthersMove ==
  ASSUME Constants, TypeInv, TypeInv', PlaceInv, Feed \/ Main \/ Monitor \/ Synchronisation,
         UNCHANGED <<batch, trained>>
  PROVE  PlaceInv'
<1>1. UNCHANGED <<cancel_queue, taken, hand, task, lost>>
  BY DEF Feed, Main, MainFinishes, QueuePutsSentinel, MainCloses, MainEnds, Monitor, MonitorLooks,
         MonitorDecides, MonitorUnpauses, Synchronisation, CallArrives,
         PauseLocked, ServersCancel, PauseGathered, PauseReturns, UpdateLocked, QueueSizeRead,
         UpdateCounted, UpdateReturns, ResumeArrives, ResumeLocked, ResumeReturns, feeding, tasks
<1>2. /\ InCancelQueue' = InCancelQueue /\ AtTask' = AtTask /\ InHand' = InHand /\ Begun' = Begun
      /\ IsInjective(cancel_queue')
  BY <1>1 DEF InCancelQueue, AtTask, InHand, Begun, PlaceInv
<1>3. /\ SentinelAt => SentinelAt'
      /\ QueuePutsSentinel => ~SentinelAt /\ SentinelAt'
  BY MainMoves DEF RollouterNext, TypeInv
<1>4. CASE QueuePutsSentinel
  <2>1. Put(Sentinel) /\ Sentinel \notin Range(queue) /\ Sentinel \in 0 .. Total
    BY <1>3, <1>4, PlacesAfter DEF QueuePutsSentinel, PlaceInv
  <2>2. /\ IsInjective(queue')
        /\ \E E \in SUBSET Range(queue) : /\ Range(queue') = (Range(queue) \ E) \cup {Sentinel}
                                          /\ dropped' = dropped \cup E
    BY <2>1, PutMoves DEF PlaceInv, TypeInv, ChannelType
  <2>3. PICK E \in SUBSET Range(queue) : /\ Range(queue') = (Range(queue) \ E) \cup {Sentinel}
                                         /\ dropped' = dropped \cup E
    BY <2>2
  <2>4. /\ InQueue = Range(queue) \ {Sentinel} /\ InQueue' = Range(queue') \ {Sentinel}
    BY PlacesAfter
  <2> QED
    BY <1>1, <1>2, <1>3, <1>4, <2>1, <2>2, <2>3, <2>4 DEF PlaceInv, Apart
<1>5. CASE ~QueuePutsSentinel
  <2>1. UNCHANGED <<queue, dropped>>
    BY <1>5 DEF Feed, Main, MainFinishes, MainCloses, MainEnds, Monitor, MonitorLooks,
         MonitorDecides, MonitorUnpauses, Synchronisation, CallArrives,
         PauseLocked, ServersCancel, PauseGathered, PauseReturns, UpdateLocked, QueueSizeRead,
         UpdateCounted, UpdateReturns, ResumeArrives, ResumeLocked, ResumeReturns, channels
  <2>2. InQueue' = InQueue /\ Range(queue') = Range(queue) /\ IsInjective(queue')
    BY <2>1 DEF InQueue, PlaceInv
  <2> QED
    BY <1>1, <1>2, <1>3, <2>1, <2>2 DEF PlaceInv
<1> QED
  BY <1>4, <1>5

LEMMA TrainerMoves ==
  ASSUME Constants, TypeInv, TypeInv', PlaceInv, TrainerNext, UNCHANGED rollouterVars
  PROVE  PlaceInv'
<1>1. UNCHANGED <<taken, cancel_queue, hand, task, lost, pc>>
  BY DEF rollouterVars, feeding, tasks, control
<1>2. /\ InCancelQueue' = InCancelQueue /\ AtTask' = AtTask /\ InHand' = InHand /\ Begun' = Begun
      /\ IsInjective(cancel_queue') /\ SentinelAt' = SentinelAt
  BY <1>1 DEF InCancelQueue, AtTask, InHand, Begun, PlaceInv, SentinelAt
<1>3. InQueue = Range(queue) \ {Sentinel} /\ InQueue' = Range(queue') \ {Sentinel}
  BY PlacesAfter
<1>4. CASE Collect \/ Terminate
  <2>1. queue # <<>> /\ queue' = Tail(queue) /\ queue \in Seq(0 .. Total) /\ UNCHANGED <<dropped, trained>>
    BY <1>4 DEF Collect, Terminate, TypeInv, ChannelType
  <2>2. /\ IsInjective(Tail(queue)) /\ Range(Tail(queue)) = Range(queue) \ {Head(queue)}
        /\ Head(queue) \in Range(queue)
    BY <2>1, TailRange, HeadElem DEF PlaceInv
  <2>3. IsInjective(queue') /\ Range(queue') = Range(queue) \ {Head(queue)}
    BY <2>1, <2>2
  <2>4. CASE Collect
    <3>1. batch' = batch \cup {Head(queue)} /\ Head(queue) # Sentinel
      BY <2>4 DEF Collect
    <3> QED
      BY <1>1, <1>2, <1>3, <2>1, <2>2, <2>3, <3>1 DEF PlaceInv, Apart
  <2>5. CASE Terminate
    <3>1. batch' = batch /\ Head(queue) = Sentinel
      BY <2>5 DEF Terminate
    <3>2. InQueue' = InQueue
      BY <1>3, <2>3, <3>1
    <3> QED
      BY <1>1, <1>2, <2>1, <2>3, <3>1, <3>2 DEF PlaceInv
  <2> QED
    BY <1>4, <2>4, <2>5
<1>5. CASE ~Collect /\ ~Terminate
  <2>1. UNCHANGED <<queue, dropped>>
    BY <1>5 DEF TrainerNext, Train, SyncWeights, RolloutPaused, WeightsTransferred, LastSync,
                OwnValidation, Finish, channels
  <2>2. InQueue' = InQueue /\ Range(queue') = Range(queue) /\ IsInjective(queue')
    BY <2>1 DEF InQueue, PlaceInv
  <2>3. \/ UNCHANGED <<batch, trained>>
        \/ trained' = trained \cup batch /\ batch' = {}
    BY <1>5 DEF TrainerNext, Train, SyncWeights, RolloutPaused, WeightsTransferred, LastSync,
                OwnValidation, Finish
  <2> QED
    BY <1>1, <1>2, <2>1, <2>2, <2>3 DEF PlaceInv, Apart
<1> QED
  BY <1>4, <1>5

LEMMA PlaceStart == ASSUME Constants, Init PROVE PlaceInv
<1>1. /\ queue = <<>> /\ cancel_queue = <<>> /\ taken = 0 /\ dropped = {} /\ batch = {}
      /\ trained = {} /\ lost = {} /\ hand = Nothing /\ task = [s \in Samples |-> "none"]
  BY DEF Init, ChannelsInit, RollouterInit, TrainerInit
<1>2. /\ InQueue = {} /\ InCancelQueue = {} /\ AtTask = {} /\ InHand = {} /\ Begun = {}
  BY <1>1 DEF InQueue, InCancelQueue, AtTask, InHand, Begun, DONE, Constants, ChannelConstants
<1>3. IsInjective(<<>>) /\ Range(<<>>) = {}
  BY DEF IsInjective, Range
<1> QED
  BY <1>1, <1>2, <1>3 DEF PlaceInv, Apart

LEMMA PlaceStep == ASSUME Constants, WorkInv, PlaceInv, [Next]_vars PROVE PlaceInv'
<1>1. TypeInv /\ TypeInv' /\ HandInv
  BY WorkStep DEF WorkInv, ControlInv
<1>2. CASE UNCHANGED vars
  <2>1. UNCHANGED <<queue, dropped, cancel_queue, taken, hand, task, lost, pc, batch, trained>>
    BY <1>2 DEF vars, system, channels, rollouterVars, trainerVars, feeding, tasks, control
  <2>2. /\ InQueue' = InQueue /\ InCancelQueue' = InCancelQueue /\ AtTask' = AtTask
        /\ InHand' = InHand /\ Begun' = Begun /\ SentinelAt' = SentinelAt
    BY <2>1 DEF InQueue, InCancelQueue, AtTask, InHand, Begun, SentinelAt
  <2>3. IsInjective(queue') /\ IsInjective(cancel_queue') /\ Range(queue') = Range(queue)
    BY <2>1 DEF PlaceInv
  <2> QED
    BY <2>1, <2>2, <2>3 DEF PlaceInv
<1>3. CASE RollouterNext /\ UNCHANGED trainerVars
  <2>1. UNCHANGED <<batch, trained>>
    BY <1>3 DEF trainerVars
  <2> QED
    BY <1>1, <1>3, <2>1, TasksMove, ProcessorMoves, OthersMove DEF RollouterNext
<1>4. CASE TrainerNext /\ UNCHANGED rollouterVars
  BY <1>1, <1>4, TrainerMoves
<1> QED
  BY <1>2, <1>3, <1>4 DEF Next

LEMMA DisjointCount ==
  ASSUME NEW S, NEW T, IsFiniteSet(S), IsFiniteSet(T), S \cap T = {}
  PROVE  IsFiniteSet(S \cup T) /\ Cardinality(S \cup T) = Cardinality(S) + Cardinality(T)
<1>1. Cardinality(S) \in Nat /\ Cardinality(T) \in Nat /\ Cardinality({}) = 0
  BY FS_CardinalityType, FS_EmptySet
<1>2. IsFiniteSet(S \cup T) /\ Cardinality(S \cup T) = Cardinality(S) + Cardinality(T) - Cardinality(S \cap T)
  BY FS_Union
<1>3. Cardinality(S \cap T) = 0
  BY <1>1
<1> QED
  BY <1>1, <1>2, <1>3

LEMMA ApartCount ==
  ASSUME NEW A, NEW B, NEW C, NEW D, NEW E, NEW F, NEW G, NEW H, Apart(A, B, C, D, E, F, G, H),
         IsFiniteSet(A), IsFiniteSet(B), IsFiniteSet(C), IsFiniteSet(D),
         IsFiniteSet(E), IsFiniteSet(F), IsFiniteSet(G), IsFiniteSet(H)
  PROVE  Cardinality(A \cup B \cup C \cup D \cup E \cup F \cup G \cup H) =
           Cardinality(A) + Cardinality(B) + Cardinality(C) + Cardinality(D)
           + Cardinality(E) + Cardinality(F) + Cardinality(G) + Cardinality(H)
<1> USE DEF Apart
<1>1. IsFiniteSet(A \cup B) /\ Cardinality(A \cup B) = Cardinality(A) + Cardinality(B)
  BY DisjointCount
<1>2. /\ IsFiniteSet(A \cup B \cup C)
      /\ Cardinality(A \cup B \cup C) = Cardinality(A \cup B) + Cardinality(C)
  <2>1. (A \cup B) \cap C = {}
    OBVIOUS
  <2> QED
    BY <1>1, <2>1, DisjointCount
<1>3. /\ IsFiniteSet(A \cup B \cup C \cup D)
      /\ Cardinality(A \cup B \cup C \cup D) = Cardinality(A \cup B \cup C) + Cardinality(D)
  <2>1. (A \cup B \cup C) \cap D = {}
    OBVIOUS
  <2> QED
    BY <1>2, <2>1, DisjointCount
<1>4. /\ IsFiniteSet(A \cup B \cup C \cup D \cup E)
      /\ Cardinality(A \cup B \cup C \cup D \cup E) = Cardinality(A \cup B \cup C \cup D) + Cardinality(E)
  <2>1. (A \cup B \cup C \cup D) \cap E = {}
    OBVIOUS
  <2> QED
    BY <1>3, <2>1, DisjointCount
<1>5. /\ IsFiniteSet(A \cup B \cup C \cup D \cup E \cup F)
      /\ Cardinality(A \cup B \cup C \cup D \cup E \cup F)
           = Cardinality(A \cup B \cup C \cup D \cup E) + Cardinality(F)
  <2>1. (A \cup B \cup C \cup D \cup E) \cap F = {}
    OBVIOUS
  <2> QED
    BY <1>4, <2>1, DisjointCount
<1>6. /\ IsFiniteSet(A \cup B \cup C \cup D \cup E \cup F \cup G)
      /\ Cardinality(A \cup B \cup C \cup D \cup E \cup F \cup G)
           = Cardinality(A \cup B \cup C \cup D \cup E \cup F) + Cardinality(G)
  <2>1. (A \cup B \cup C \cup D \cup E \cup F) \cap G = {}
    OBVIOUS
  <2> QED
    BY <1>5, <2>1, DisjointCount
<1>7. Cardinality(A \cup B \cup C \cup D \cup E \cup F \cup G \cup H)
           = Cardinality(A \cup B \cup C \cup D \cup E \cup F \cup G) + Cardinality(H)
  <2>1. (A \cup B \cup C \cup D \cup E \cup F \cup G) \cap H = {}
    OBVIOUS
  <2> QED
    BY <1>6, <2>1, DisjointCount
<1> QED
  BY <1>1, <1>2, <1>3, <1>4, <1>5, <1>6, <1>7

LEMMA PlaceSizes ==
  ASSUME Constants, TypeInv, PlaceInv
  PROVE  /\ IsFiniteSet(InQueue) /\ IsFiniteSet(InCancelQueue) /\ IsFiniteSet(AtTask)
         /\ IsFiniteSet(InHand) /\ IsFiniteSet(dropped \ {Sentinel}) /\ IsFiniteSet(batch)
         /\ IsFiniteSet(trained) /\ IsFiniteSet(lost)
         /\ Cardinality(InCancelQueue) = Len(cancel_queue)
         /\ Cardinality(InQueue) = Cardinality({i \in DOMAIN queue : queue[i] # Sentinel})
         /\ Cardinality(Begun) = Cardinality(InQueue) + Cardinality(InCancelQueue)
              + Cardinality(AtTask) + Cardinality(InHand) + Cardinality(dropped \ {Sentinel})
              + Cardinality(batch) + Cardinality(trained) + Cardinality(lost)
<1> DEFINE T == {i \in DOMAIN queue : queue[i] # Sentinel}
<1>0. Total \in Nat /\ Samples = 1 .. Total
  BY DEF Samples, Constants, ChannelConstants
<1>1. /\ IsFiniteSet(Samples) /\ IsFiniteSet(0 .. Total)
      /\ queue \in Seq(0 .. Total) /\ cancel_queue \in Seq(Samples)
      /\ DOMAIN queue = 1 .. Len(queue) /\ DOMAIN cancel_queue = 1 .. Len(cancel_queue)
      /\ AtTask \subseteq Samples /\ batch \subseteq Samples /\ trained \subseteq Samples
      /\ lost \subseteq Samples /\ dropped \subseteq 0 .. Total
  <2>1. IsFiniteSet(Samples) /\ IsFiniteSet(0 .. Total)
    BY <1>0, FS_Interval
  <2>2. queue \in Seq(0 .. Total) /\ cancel_queue \in Seq(Samples)
    BY DEF TypeInv, ChannelType, TaskType
  <2>3. DOMAIN queue = 1 .. Len(queue) /\ DOMAIN cancel_queue = 1 .. Len(cancel_queue)
    BY <2>2, LenProperties
  <2> QED
    BY <2>1, <2>2, <2>3 DEF TypeInv, ChannelType, TaskType, TrainerType, AtTask
<1>2. /\ IsFiniteSet(AtTask) /\ IsFiniteSet(batch) /\ IsFiniteSet(trained) /\ IsFiniteSet(lost)
      /\ IsFiniteSet(dropped \ {Sentinel})
  <2>1. dropped \ {Sentinel} \subseteq 0 .. Total
    BY <1>1
  <2> QED
    BY <1>1, <2>1, FS_Subset
<1>3. IsFiniteSet(InHand)
  <2>1. InHand = {} \/ InHand = {hand}
    BY DEF InHand
  <2> QED
    BY <2>1, FS_EmptySet, FS_Singleton
<1>4. IsFiniteSet(InCancelQueue) /\ Cardinality(InCancelQueue) = Len(cancel_queue)
  BY <1>1, RangeCount, QueueRange DEF PlaceInv
<1>5. IsFiniteSet(InQueue) /\ Cardinality(InQueue) = Cardinality(T)
  <2>1. InQueue = {queue[i] : i \in T}
    BY <1>1 DEF InQueue
  <2>2. T \in SUBSET (DOMAIN queue) /\ IsInjective(queue)
    BY DEF PlaceInv
  <2> HIDE DEF T
  <2> QED
    BY <1>1, <2>1, <2>2, LengthIsCount
<1> HIDE DEF T
<1>6. Cardinality(Begun) = Cardinality(InQueue) + Cardinality(InCancelQueue) + Cardinality(AtTask)
        + Cardinality(InHand) + Cardinality(dropped \ {Sentinel}) + Cardinality(batch)
        + Cardinality(trained) + Cardinality(lost)
  BY <1>2, <1>3, <1>4, <1>5, ApartCount DEF PlaceInv
<1> QED
  BY <1>2, <1>3, <1>4, <1>5, <1>6 DEF T

LEMMA PlacesCount == ASSUME Constants, TypeInv, PlaceInv PROVE Whereabouts
<1>1. Begun = Outstanding \cup (dropped \ {Sentinel}) \cup batch \cup trained \cup lost
  BY DEF PlaceInv, Outstanding
<1> QED
  BY <1>1, PlaceSizes DEF Whereabouts

LEMMA Placing == Spec => []PlaceInv
<1>1. Init => PlaceInv
  BY PlaceStart, ConstantsHold
<1>2. WorkInv /\ PlaceInv /\ [Next]_vars => PlaceInv'
  BY PlaceStep, ConstantsHold
<1> QED
  BY <1>1, <1>2, Working, PTL DEF Spec

\* Every sample taken from the dataset is in one place, once, whatever is interrupted, put back,
\* pushed out of the full queue or lost with a task that raised.
THEOREM AllAccountedFor == Spec => []Whereabouts
<1>1. WorkInv /\ PlaceInv => Whereabouts
  BY PlacesCount, ConstantsHold DEF WorkInv, ControlInv
<1> QED
  BY <1>1, Working, Placing, PTL

-----------------------------------------------------------------------------
(* How old a sample may be                                                   *)

Exchanging == trainer \in {"waiting_sync", "pausing", "transferring"}

\* pause has gathered every task, and the weights have not moved since.
Gathered == \/ pc["pause"] = "clearing"
            \/ trainer = "pausing" /\ calls["pause"] = "returned"
            \/ trainer = "transferring"

Started(s) == task[s] \notin {"none", "created", "put"}

VersionInv ==
  /\ version = (IF Exchanging THEN weights + 1 ELSE weights)
  /\ current_param_version <= weights /\ weights <= current_param_version + 1
  /\ calls["update"] = "returned" \/ pc["update"] \in {"counting", "counted", "reporting"}
       => current_param_version = weights
  /\ closing => trainer \notin {"collecting", "training"}
  /\ trainer \in {"waiting_last", "finishing", "ended"} => closing
  /\ Exchanging => local_trigger_step = 1
  /\ trainer = "collecting" => Cardinality(batch) < required_samples
  /\ trainer = "training" => Cardinality(batch) = required_samples
  /\ ~closing /\ Exchanging => batch = {}

\* Generated since the transfer before the last one, or the last one if pause has gathered.
StampInv ==
  \A s \in Samples :
    /\ stamp[s] <= current_param_version
    /\ Started(s) => stamp[s] >= weights - 1 /\ (Gathered => stamp[s] >= weights)

\* What the Trainer still collects before the weights move again.
Left == IF trainer \in {"collecting", "training"}
        THEN (trigger_parameter_sync_step - local_trigger_step) * required_samples
             + required_samples - Cardinality(batch)
        ELSE 0

Lag == (MaxRequired - 1) \div PerVersion

\* A queued sample is near enough to the head to be collected in time.
QueueInv ==
  /\ Len(queue) <= MaxRequired
  /\ ~closing => \A i \in DOMAIN queue :
       queue[i] # Sentinel => i <= Left + PerVersion * (stamp[queue[i]] + 2 + Lag - weights)

LEMMA Multiples ==
  ASSUME Constants
  PROVE  /\ PerVersion \in Nat \ {0} /\ Lag \in Nat
         /\ MaxRequired <= PerVersion * (Lag + 1)
         /\ \A d \in Int : PerVersion * d \in Int
         /\ \A d \in Int : PerVersion * (d - 1) = PerVersion * d - PerVersion
         /\ \A d \in Int : d >= 1 => PerVersion * d >= PerVersion
         /\ \A d \in Int : d <= -1 => PerVersion * d <= -PerVersion
<1>1. /\ PerVersion \in Nat \ {0} /\ MaxRequired \in Nat \ {0}
  BY DEF PerVersion, Constants, ChannelConstants, TrainerConstants
<1> USE <1>1
<1>2. Lag \in Nat /\ MaxRequired <= PerVersion * (Lag + 1)
  <2>1. \A m \in Nat, p \in Nat \ {0} : m \div p \in Nat /\ m = p * (m \div p) + (m % p) /\ m % p < p /\ m % p \in Nat
    OBVIOUS
  <2>2. /\ Lag \in Nat /\ MaxRequired - 1 < PerVersion * Lag + PerVersion
    BY <2>1 DEF Lag
  <2>3. PerVersion * (Lag + 1) = PerVersion * Lag + PerVersion
    BY <2>2
  <2> QED
    BY <2>2, <2>3
<1>3. \A d \in Int : PerVersion * (d - 1) = PerVersion * d - PerVersion
  OBVIOUS
<1>4. \A d \in Int : d >= 1 => PerVersion * d >= PerVersion
  OBVIOUS
<1>5. \A d \in Int : d <= -1 => PerVersion * d <= -PerVersion
  OBVIOUS
<1> QED
  BY <1>2, <1>3, <1>4, <1>5

LEMMA UpdateMoves ==
  ASSUME TypeInv, RollouterNext
  PROVE  /\ weights' = weights
         /\ \/ UpdateLocked
            \/ /\ current_param_version' = current_param_version
               /\ pc'["update"] \in {"counting", "counted", "reporting"}
                    => pc["update"] \in {"counting", "counted", "reporting"}
               /\ calls'["update"] = "returned"
                    => calls["update"] = "returned" \/ pc["update"] = "reporting"
<1> USE TheCoroutines, Notification DEF TypeInv, PcType
<1>1. CASE Feed \/ \E s \in Samples : TaskStep(s) \/ TaskReturns(s)
  BY <1>1 DEF Feed, TaskStep, TaskReturns, control, tracking, channels
<1>2. CASE Processor
  <2>1. UNCHANGED <<calls, weights, current_param_version>>
    BY <1>2 DEF Processor, ProcStops, ProcStopped, ProcTakesCancelled, ProcFindsNothing, ProcTakes,
         ProcReaps, ProcVerifies, ProcAwaited, ProcReaped, ProcSleeps, ProcWakes, ProcResumes,
         ProcSubmits, channels, tracking
  <2>2. pc'["update"] = pc["update"]
    BY <1>2, PcMoves
  <2> QED
    BY <2>1, <2>2
<1>3. CASE Main \/ Monitor
  <2>1. UNCHANGED <<calls, weights, current_param_version>>
    BY <1>3 DEF Main, MainFinishes, QueuePutsSentinel, MainCloses, MainEnds, Monitor, MonitorLooks,
         MonitorDecides, MonitorUnpauses, channels, tracking
  <2>2. pc'["update"] = pc["update"]
    BY <1>3, PcMoves
  <2> QED
    BY <2>1, <2>2
<1>4. CASE Synchronisation
  BY <1>4 DEF Synchronisation, CallArrives, PauseLocked, ServersCancel, PauseGathered,
       PauseReturns, QueueSizeRead, UpdateCounted, UpdateReturns, UpdateLocked,
       ResumeArrives, ResumeLocked, ResumeReturns, Granted, Ask, GoOn, Suspend, channels, tracking,
       CallReturns, Methods, ChannelType
<1> QED
  BY <1>1, <1>2, <1>3, <1>4 DEF RollouterNext

LEMMA VersionByRollouter ==
  ASSUME Constants, ControlInv, VersionInv, RollouterNext, UNCHANGED trainerVars
  PROVE  VersionInv'
<1>1. UNCHANGED <<trainer, version, local_trigger_step, batch, closing>> /\ weights' = weights
  BY UpdateMoves DEF trainerVars, ControlInv
<1>2. /\ current_param_version' <= weights' /\ weights' <= current_param_version' + 1
      /\ calls'["update"] = "returned" \/ pc'["update"] \in {"counting", "counted", "reporting"}
           => current_param_version' = weights'
  <2>1. CASE UpdateLocked
    BY <1>1, <2>1 DEF UpdateLocked, ControlInv, TypeInv, ChannelType
  <2>2. CASE ~UpdateLocked
    BY <1>1, <2>2, UpdateMoves DEF ControlInv, VersionInv
  <2> QED
    BY <2>1, <2>2
<1> QED
  BY <1>1, <1>2 DEF VersionInv, Exchanging

LEMMA VersionByTrainer ==
  ASSUME Constants, ControlInv, VersionInv, TrainerNext, UNCHANGED rollouterVars
  PROVE  VersionInv'
<1>0. /\ UNCHANGED <<pc, current_param_version>>
      /\ calls \in [Methods -> {"called", "running", "returned"}] /\ weights \in Nat
      /\ current_param_version \in Nat /\ required_samples \in Nat \ {0}
  BY DEF rollouterVars, control, tracking, ControlInv, TypeInv, ChannelType, CountType, Constants,
         TrainerConstants
<1>1. CASE Collect
  <2>1. /\ trainer = "collecting" /\ trainer' \in {"collecting", "training"} /\ ~closing
        /\ UNCHANGED <<calls, weights, version, closing, local_trigger_step>>
    BY <1>1 DEF Collect, VersionInv, Exchanging
  <2>2. /\ trainer' = "collecting" => Cardinality(batch') < required_samples
        /\ trainer' = "training" => Cardinality(batch') = required_samples
    <3>1. IsFiniteSet(Samples)
      BY FS_Interval DEF Samples, Constants, ChannelConstants
    <3>2. IsFiniteSet(batch) /\ Cardinality(batch) \in Nat
      BY <3>1, FS_Subset, FS_CardinalityType DEF ControlInv, TypeInv, TrainerType
    <3>3. batch' = batch \cup {Head(queue)}
      BY <1>1 DEF Collect
    <3>4. Cardinality(batch') <= Cardinality(batch) + 1 /\ Cardinality(batch') \in Nat
      BY <3>2, <3>3, FS_AddElement
    <3>5. trainer' = IF Cardinality(batch') = required_samples THEN "training" ELSE "collecting"
      BY <1>1 DEF Collect
    <3> QED
      BY <1>0, <2>1, <3>2, <3>4, <3>5 DEF VersionInv
  <2> QED
    BY <1>0, <2>1, <2>2 DEF VersionInv, Exchanging
<1>2. CASE Train
  <2>1. Cardinality({}) = 0
    BY FS_EmptySet
  <2> QED
    BY <1>0, <1>2, <2>1 DEF Train, VersionInv, Exchanging
<1>3. CASE SyncWeights
  BY <1>0, <1>3 DEF SyncWeights, VersionInv, Exchanging, Methods
<1>4. CASE WeightsTransferred
  <2>1. pc["update"] = "none" /\ calls'["update"] = "called" /\ calls["update"] = "returned"
    BY <1>0, <1>4 DEF WeightsTransferred, ControlInv, CallInv, Methods
  <2>2. batch' = batch /\ Cardinality({}) = 0
    BY <1>4, FS_EmptySet DEF WeightsTransferred
  <2> QED
    BY <1>0, <1>4, <2>1, <2>2 DEF WeightsTransferred, VersionInv, Exchanging
<1>5. CASE Terminate \/ RolloutPaused \/ LastSync \/ OwnValidation \/ Finish
  BY <1>0, <1>5 DEF Terminate, RolloutPaused, LastSync, OwnValidation, Finish, VersionInv,
                    Exchanging, channels
<1> QED
  BY <1>1, <1>2, <1>3, <1>4, <1>5 DEF TrainerNext

\* Only TaskStarts stamps a sample, and only a sample under way is put.
LEMMA StampMoves ==
  ASSUME Constants, WorkInv, RollouterNext
  PROVE  /\ \A s \in Samples :
              \/ stamp'[s] = stamp[s] /\ (task'[s] \notin {"none", "created", "put"} => Started(s))
              \/ TaskStarts(s)
         /\ \/ queue' = queue
            \/ Put(Sentinel) /\ stamp' = stamp
            \/ \E s \in Samples : Started(s) /\ Put(s) /\ stamp' = stamp
         /\ \A s \in Samples : stamp'[s] = stamp[s] \/ task[s] = "created"
<1> USE DEF Started
<1>0. /\ stamp \in [Samples -> Nat]
      /\ task \in [Samples -> {"none", "created", "generating", "generated", "cancelled",
                               "putting", "put"}]
  BY DEF WorkInv, ControlInv, TypeInv, TaskType
<1>1. ASSUME NEW r \in Samples, TaskStep(r) \/ TaskReturns(r)
      PROVE  /\ \A s \in Samples :
                  \/ stamp'[s] = stamp[s] /\ (task'[s] \notin {"none", "created", "put"} => Started(s))
                  \/ TaskStarts(s)
             /\ \/ queue' = queue
                \/ \E s \in Samples : Started(s) /\ Put(s) /\ stamp' = stamp
             /\ \A s \in Samples : stamp'[s] = stamp[s] \/ task[s] = "created"
  <2>1. CASE TaskStarts(r)
    BY <1>0, <2>1 DEF TaskStarts, TaskMoves
  <2>2. CASE QueuePuts(r)
    BY <1>0, <2>2 DEF QueuePuts, TaskMoves
  <2>3. CASE Answered(r) \/ TaskFails(r) \/ TaskPuts(r) \/ TaskEnds(r) \/ TaskReturns(r)
    BY <1>0, <2>3 DEF Answered, TaskFails, TaskPuts, TaskEnds, TaskReturns, TaskMoves, channels
  <2> QED
    BY <1>1, <2>1, <2>2, <2>3 DEF TaskStep
<1>2. CASE Feed \/ Processor \/ Main \/ Monitor \/ Synchronisation
  <2>1. stamp' = stamp
    BY <1>2 DEF Feed, Processor, ProcStops, ProcStopped, ProcTakesCancelled,
         ProcFindsNothing, ProcTakes, ProcReaps, ProcVerifies, ProcAwaited, ProcReaped, ProcSleeps,
         ProcWakes, ProcResumes, ProcSubmits, Main, MainFinishes, QueuePutsSentinel, MainCloses,
         MainEnds, Monitor, MonitorLooks, MonitorDecides, MonitorUnpauses, Synchronisation,
         CallArrives, PauseLocked, ServersCancel, PauseGathered, PauseReturns, UpdateLocked,
         QueueSizeRead, UpdateCounted, UpdateReturns, ResumeArrives, ResumeLocked, ResumeReturns,
         tasks
  <2>2. queue' = queue \/ Put(Sentinel)
    BY <1>2 DEF Feed, Processor, ProcStops, ProcStopped, ProcTakesCancelled,
         ProcFindsNothing, ProcTakes, ProcReaps, ProcVerifies, ProcAwaited, ProcReaped, ProcSleeps,
         ProcWakes, ProcResumes, ProcSubmits, Main, MainFinishes, QueuePutsSentinel, MainCloses,
         MainEnds, Monitor, MonitorLooks, MonitorDecides, MonitorUnpauses, Synchronisation,
         CallArrives, PauseLocked, ServersCancel, PauseGathered, PauseReturns, UpdateLocked,
         QueueSizeRead, UpdateCounted, UpdateReturns, ResumeArrives, ResumeLocked, ResumeReturns,
         channels
  <2>3. \A s \in Samples : task'[s] \notin {"none", "created", "put"} => Started(s)
    <3>1. CASE task' = task
      BY <3>1
    <3>2. CASE ProcSubmits
      BY <1>0, <3>2 DEF ProcSubmits
    <3>3. task' = task \/ ProcSubmits
      BY <1>2 DEF Feed, Processor, ProcStops, ProcStopped, ProcTakesCancelled,
         ProcFindsNothing, ProcTakes, ProcReaps, ProcVerifies, ProcAwaited, ProcReaped, ProcSleeps,
         ProcWakes, ProcResumes, Main, MainFinishes, QueuePutsSentinel, MainCloses,
         MainEnds, Monitor, MonitorLooks, MonitorDecides, MonitorUnpauses, Synchronisation,
         CallArrives, PauseLocked, ServersCancel, PauseGathered, PauseReturns, UpdateLocked,
         QueueSizeRead, UpdateCounted, UpdateReturns, ResumeArrives, ResumeLocked, ResumeReturns,
         tasks
    <3> QED
      BY <3>1, <3>2, <3>3
  <2> QED
    BY <2>1, <2>2, <2>3
<1> QED
  BY <1>1, <1>2 DEF RollouterNext

LEMMA GatheredMoves ==
  ASSUME WorkInv, RollouterNext, UNCHANGED trainerVars, Gathered'
  PROVE  Gathered \/ PauseGathered
<1>1. trainer' = trainer
  BY DEF trainerVars
<1>2. CASE trainer = "transferring"
  BY <1>2 DEF Gathered
<1>3. CASE pc'["pause"] = "clearing"
  <2>1. PauseGathered \/ pc["pause"] = "clearing"
    BY <1>3, BecomesClearing DEF WorkInv, ControlInv, TypeInv
  <2> QED
    BY <2>1 DEF Gathered
<1>4. CASE trainer = "pausing" /\ calls'["pause"] = "returned"
  <2>1. calls["pause"] # "running" => calls["pause"] = "returned"
    <3> SUFFICES ASSUME calls["pause"] = "called" PROVE FALSE
      BY DEF WorkInv, ControlInv, TypeInv, ChannelType, Methods
    <3>1. calls \in [Methods -> {"called", "running", "returned"}]
      BY DEF WorkInv, ControlInv, TypeInv, ChannelType
    <3> QED
      BY <1>4, <3>1 DEF RollouterNext, Feed, Processor, ProcStops, ProcStopped,
         ProcTakesCancelled, ProcFindsNothing, ProcTakes, ProcReaps, ProcVerifies, ProcAwaited,
         ProcReaped, ProcSleeps, ProcWakes, ProcResumes, ProcSubmits, Main, MainFinishes,
         QueuePutsSentinel, MainCloses, MainEnds, Monitor, MonitorLooks, MonitorDecides,
         MonitorUnpauses, Synchronisation, CallArrives, PauseLocked, ServersCancel, PauseGathered,
         PauseReturns, Granted, UpdateLocked, QueueSizeRead, UpdateCounted, UpdateReturns,
         ResumeArrives, ResumeLocked, ResumeReturns, CallReturns, TaskStep, TaskReturns, channels,
         Methods, CallInv, WorkInv, ControlInv
  <2>2. CASE calls["pause"] = "running"
    <3>1. PauseReturns
      BY <1>4, <2>2, ReturnsByPause DEF WorkInv, ControlInv, TypeInv, ChannelType
    <3> QED
      BY <3>1 DEF PauseReturns, Granted, Gathered
  <2> QED
    BY <1>4, <2>1, <2>2 DEF Gathered
<1> QED
  BY <1>1, <1>2, <1>3, <1>4 DEF Gathered

AgeInv == VersionInv /\ StampInv /\ QueueInv

LEMMA StampByRollouter ==
  ASSUME Constants, WorkInv, AgeInv, RollouterNext, UNCHANGED trainerVars
  PROVE  StampInv'
<1>0. /\ stamp \in [Samples -> Nat] /\ weights \in Nat /\ current_param_version \in Nat
      /\ calls \in [Methods -> {"called", "running", "returned"}]
  BY DEF WorkInv, ControlInv, TypeInv, TaskType, ChannelType, CountType
<1>1. weights' = weights /\ current_param_version <= weights /\ weights <= current_param_version + 1
  BY UpdateMoves DEF WorkInv, ControlInv, AgeInv, VersionInv
<1>2. current_param_version' \in {current_param_version, weights}
  BY UpdateMoves DEF WorkInv, ControlInv, UpdateLocked
<1>3. Gathered => current_param_version = weights
  <2>1. Gathered => trainer \in {"pausing", "transferring"}
    BY DEF Gathered, WorkInv, ControlInv, CallInv, Methods
  <2> QED
    BY <2>1 DEF WorkInv, ControlInv, CallInv, AgeInv, VersionInv
<1>4. Gathered' => Gathered \/ \A s \in Samples : ~Started(s)
  BY GatheredMoves DEF PauseGathered, Live, Started
<1> SUFFICES ASSUME NEW s \in Samples
             PROVE  /\ stamp'[s] <= current_param_version'
                    /\ task'[s] \notin {"none", "created", "put"}
                         => stamp'[s] >= weights - 1 /\ (Gathered' => stamp'[s] >= weights)
  BY <1>1 DEF StampInv, Started
<1>5. /\ stamp[s] <= current_param_version
      /\ Started(s) => stamp[s] >= weights - 1 /\ (Gathered => stamp[s] >= weights)
  BY DEF AgeInv, StampInv
<1>6. CASE stamp'[s] = stamp[s] /\ (task'[s] \notin {"none", "created", "put"} => Started(s))
  BY <1>0, <1>1, <1>2, <1>4, <1>5, <1>6
<1>7. CASE TaskStarts(s)
  <2>1. stamp'[s] = current_param_version
    BY <1>0, <1>7 DEF TaskStarts
  <2>2. Gathered' => Gathered
    <3>1. \/ pc'["pause"] = pc["pause"] /\ calls' = calls
          \/ task' = task
      BY DEF RollouterNext, Feed, Processor, ProcStops, ProcStopped,
         ProcTakesCancelled, ProcFindsNothing, ProcTakes, ProcReaps, ProcVerifies, ProcAwaited,
         ProcReaped, ProcSleeps, ProcWakes, ProcResumes, ProcSubmits, Main, MainFinishes,
         QueuePutsSentinel, MainCloses, MainEnds, Monitor, MonitorLooks, MonitorDecides,
         MonitorUnpauses, Synchronisation, CallArrives, PauseLocked, ServersCancel, PauseGathered,
         PauseReturns, Granted, UpdateLocked, QueueSizeRead, UpdateCounted, UpdateReturns,
         ResumeArrives, ResumeLocked, ResumeReturns, TaskStep, TaskReturns, channels, tasks,
         control, GoOn, WorkInv, ControlInv, TypeInv, PcType, Coroutines, Methods
    <3> QED
      BY <1>0, <1>7, <3>1 DEF TaskStarts, TaskMoves, Gathered, trainerVars, WorkInv, ControlInv,
            TypeInv, TaskType
  <2> QED
    BY <1>0, <1>1, <1>2, <1>3, <2>1, <2>2
<1> QED
  BY <1>6, <1>7, StampMoves

LEMMA StampByTrainer ==
  ASSUME Constants, WorkInv, AgeInv, TrainerNext, UNCHANGED rollouterVars
  PROVE  StampInv'
<1>0. /\ UNCHANGED <<stamp, task, pc, current_param_version>>
      /\ stamp \in [Samples -> Nat] /\ weights \in Nat
      /\ calls \in [Methods -> {"called", "running", "returned"}]
  BY DEF rollouterVars, tasks, control, tracking, WorkInv, ControlInv, TypeInv, TaskType, ChannelType
<1>1. CASE WeightsTransferred
  <2>1. weights' = weights + 1 /\ Gathered
    BY <1>1 DEF WeightsTransferred, AgeInv, VersionInv, Exchanging, Gathered
  <2>2. ~Gathered'
    <3>1. trainer' \notin {"pausing", "transferring"}
      BY <1>1 DEF WeightsTransferred
    <3>2. pc["pause"] # "clearing"
      <4>1. calls["pause"] = "returned"
        BY <1>1 DEF WeightsTransferred, WorkInv, ControlInv, CallInv
      <4> QED
        BY <4>1 DEF WorkInv, ControlInv, CallInv, Methods
    <3> QED
      BY <1>0, <3>1, <3>2 DEF Gathered
  <2> QED
    BY <1>0, <2>1, <2>2 DEF AgeInv, StampInv, Started
<1>2. CASE ~WeightsTransferred
  <2>1. weights' = weights
    BY <1>2 DEF TrainerNext, Collect, Terminate, Train, SyncWeights, RolloutPaused, LastSync,
                OwnValidation, Finish, channels
  <2>2. Gathered' => Gathered
    BY <1>0, <1>2 DEF Gathered, TrainerNext, Collect, Terminate, Train, SyncWeights,
         RolloutPaused, LastSync, OwnValidation, Finish, channels, Methods
  <2> QED
    BY <1>0, <2>1, <2>2 DEF AgeInv, StampInv, Started
<1> QED
  BY <1>1, <1>2

\* How a put moves what is in the queue: nearer to the head, if at all.
LEMMA PutShifts ==
  ASSUME Constants, NEW S, queue \in Seq(S), NEW x \in S, Put(x), Len(queue) <= MaxRequired
  PROVE  /\ Len(queue') <= MaxRequired
         /\ \A i \in DOMAIN queue' : \/ queue'[i] = x
                                     \/ \E j \in DOMAIN queue : queue'[i] = queue[j] /\ i <= j
         /\ DOMAIN queue' = 1 .. Len(queue')
<1>0. MaxRequired \in Nat \ {0} /\ Len(queue) \in Nat /\ DOMAIN queue = 1 .. Len(queue)
  BY LenProperties DEF Constants, ChannelConstants
<1>1. CASE Len(queue) >= MaxRequired
  <2> DEFINE t == Tail(queue)
  <2>1. queue # <<>> /\ queue' = Append(t, x)
    BY <1>0, <1>1, EmptySeq DEF Put, BQ!Putting
  <2>2. t \in Seq(S) /\ Len(t) = Len(queue) - 1 /\ \A i \in 1 .. Len(t) : t[i] = queue[i + 1]
    BY <1>0, <2>1, HeadTailProperties
  <2> HIDE DEF t
  <2>3. /\ Len(Append(t, x)) = Len(t) + 1 /\ DOMAIN Append(t, x) = 1 .. Len(t) + 1
        /\ \A i \in 1 .. Len(t) : Append(t, x)[i] = t[i]
        /\ Append(t, x)[Len(t) + 1] = x
    BY <2>2, AppendProperties, LenProperties
  <2>9. PICK n \in Nat : n = Len(queue) /\ n > 0
    <3>1. PICK m \in Nat : m = MaxRequired /\ m > 0
      BY <1>0
    <3>2. PICK n \in Nat : n = Len(queue)
      BY <1>0
    <3> QED
      BY <1>1, <3>1, <3>2
  <2>4. PICK k \in Nat : k = Len(t) /\ n = k + 1 /\ n = Len(queue)
    BY <2>2, <2>9
  <2>5. /\ Len(queue') = n /\ DOMAIN queue' = 1 .. n /\ queue'[n] = x /\ DOMAIN queue = 1 .. n
        /\ n <= MaxRequired
    BY <1>0, <2>1, <2>3, <2>4
  <2>6. ASSUME NEW i \in 1 .. n
        PROVE  \/ queue'[i] = x
               \/ \E j \in 1 .. n : queue'[i] = queue[j] /\ i <= j
    <3>1. CASE i = n
      BY <2>5, <3>1
    <3>2. CASE i # n
      <4>1. i \in 1 .. k /\ i + 1 \in 1 .. n /\ i <= i + 1
        BY <2>4, <3>2
      <4>2. queue'[i] = queue[i + 1]
        BY <2>1, <2>2, <2>3, <2>4, <4>1
      <4> QED
        BY <4>1, <4>2
    <3> QED
      BY <3>1, <3>2
  <2> QED
    BY <2>5, <2>6
<1>2. CASE ~(Len(queue) >= MaxRequired)
  <2>1. queue' = Append(queue, x)
    BY <1>2 DEF Put, BQ!Putting
  <2>2. /\ Len(Append(queue, x)) = Len(queue) + 1 /\ DOMAIN Append(queue, x) = 1 .. Len(queue) + 1
        /\ \A i \in 1 .. Len(queue) : Append(queue, x)[i] = queue[i]
        /\ Append(queue, x)[Len(queue) + 1] = x
    BY AppendProperties, LenProperties
  <2> QED
    BY <1>0, <1>2, <2>1, <2>2
<1> QED
  BY <1>1, <1>2

LEMMA StepsLeft ==
  ASSUME NEW r \in Nat \ {0}, NEW t \in Nat \ {0}, NEW l \in 1 .. t
  PROVE  (t - l) * r \in Nat /\ (t - l) * r + r <= r * t
<1>1. PICK d \in Nat : d = t - l /\ d <= t - 1
  OBVIOUS
<1>2. d * r \in Nat /\ d * r <= (t - 1) * r /\ (t - 1) * r + r = r * t
  BY <1>1
<1> QED
  BY <1>1, <1>2

LEMMA LeftType ==
  ASSUME Constants, WorkInv, AgeInv
  PROVE  /\ Left \in Nat /\ Left <= PerVersion
         /\ IsFiniteSet(batch) /\ Cardinality(batch) \in Nat
<1>1. IsFiniteSet(batch) /\ Cardinality(batch) \in Nat
  <2>1. IsFiniteSet(Samples)
    BY FS_Interval DEF Samples, Constants, ChannelConstants
  <2> QED
    BY <2>1, FS_Subset, FS_CardinalityType DEF WorkInv, ControlInv, TypeInv, TrainerType
<1>2. /\ required_samples \in Nat \ {0} /\ trigger_parameter_sync_step \in Nat \ {0}
      /\ local_trigger_step \in 1 .. trigger_parameter_sync_step
  BY DEF Constants, TrainerConstants, WorkInv, ControlInv, TypeInv, TrainerType
<1>3. trainer \in {"collecting", "training"} => Cardinality(batch) <= required_samples
  BY <1>1, <1>2 DEF AgeInv, VersionInv
<1>4. PICK d \in Nat : /\ d = (trigger_parameter_sync_step - local_trigger_step) * required_samples
                       /\ d + required_samples <= PerVersion
  BY <1>2, StepsLeft DEF PerVersion
<1> QED
  <2>1. CASE trainer \in {"collecting", "training"}
    <3>1. PICK b \in Nat, r \in Nat : b = Cardinality(batch) /\ r = required_samples /\ b <= r
      BY <1>1, <1>2, <1>3, <2>1
    <3>2. Left = d + r - b
      BY <1>4, <2>1, <3>1 DEF Left
    <3>3. PICK p \in Nat : p = PerVersion
      BY Multiples
    <3> QED
      BY <1>1, <1>4, <3>1, <3>2, <3>3
  <2>2. CASE trainer \notin {"collecting", "training"}
    BY <1>1, <2>2, Multiples DEF Left
  <2> QED
    BY <2>1, <2>2

LEMMA FarEnough ==
  ASSUME NEW p \in Nat \ {0}, NEW l \in Nat, NEW m \in Nat, m <= p * (l + 1),
         NEW v \in Int, NEW w \in Int, v >= w - 1, NEW left \in Nat
  PROVE  m <= left + p * (v + 2 + l - w)
<1>1. PICK d \in Int : d = v + 2 + l - w /\ d >= l + 1
  OBVIOUS
<1>2. p * d >= p * (l + 1)
  BY <1>1
<1> QED
  BY <1>1, <1>2

LEMMA QueueByRollouter ==
  ASSUME Constants, WorkInv, TypeInv', PlaceInv, AgeInv, RollouterNext, UNCHANGED trainerVars
  PROVE  QueueInv'
<1>0. /\ queue \in Seq(0 .. Total) /\ stamp \in [Samples -> Nat] /\ weights \in Nat
      /\ DOMAIN queue = 1 .. Len(queue) /\ Len(queue) \in Nat /\ MaxRequired \in Nat \ {0}
      /\ Range(queue) \subseteq 0 .. Total
  BY LenProperties, RangeType
     DEF WorkInv, ControlInv, TypeInv, TaskType, ChannelType, Constants, ChannelConstants
<1>1. /\ UNCHANGED <<trainer, local_trigger_step, batch, closing>> /\ weights' = weights
      /\ Left' = Left
  BY UpdateMoves DEF trainerVars, Left, WorkInv, ControlInv
<1>2. /\ Len(queue) <= MaxRequired
      /\ ~closing => \A i \in DOMAIN queue :
           queue[i] # Sentinel => i <= Left + PerVersion * (stamp[queue[i]] + 2 + Lag - weights)
  BY DEF AgeInv, QueueInv
<1>3. \A i \in DOMAIN queue : queue[i] # Sentinel => queue[i] \in Samples /\ task[queue[i]] # "created"
  <2> SUFFICES ASSUME NEW i \in DOMAIN queue, queue[i] # Sentinel
               PROVE  queue[i] \in Samples /\ task[queue[i]] # "created"
    OBVIOUS
  <2>1. queue[i] \in InQueue /\ queue[i] \in 0 .. Total
    BY <1>0, ElementOfSeq DEF InQueue
  <2>2. queue[i] \in Samples
    BY <2>1 DEF Samples, Sentinel, Constants, ChannelConstants
  <2> QED
    BY <2>1, <2>2 DEF PlaceInv, Apart, AtTask
<1>4. \A i \in DOMAIN queue : queue[i] # Sentinel => stamp'[queue[i]] = stamp[queue[i]]
  BY <1>3, StampMoves
<1>5. CASE queue' = queue
  BY <1>1, <1>2, <1>4, <1>5 DEF QueueInv
<1>6. ASSUME NEW x \in 0 .. Total, Put(x), stamp' = stamp,
             x # Sentinel => x \in Samples /\ Started(x)
      PROVE  QueueInv'
  <2>0. \A v \in Nat : Left \in Nat /\ PerVersion * (v + 2 + Lag - weights) \in Int
    <3>0. PICK l \in Nat, w \in Nat : l = Lag /\ w = weights
      BY <1>0, Multiples
    <3>1. \A v \in Nat : v + 2 + Lag - weights \in Int
      BY <3>0
    <3> QED
      BY <3>1, Multiples, LeftType
  <2>1. /\ Len(queue') <= MaxRequired /\ DOMAIN queue' = 1 .. Len(queue')
        /\ \A i \in DOMAIN queue' : \/ queue'[i] = x
                                    \/ \E j \in DOMAIN queue : queue'[i] = queue[j] /\ i <= j
    BY <1>0, <1>2, <1>6, PutShifts
  <2> SUFFICES ASSUME ~closing, NEW i \in DOMAIN queue', queue'[i] # Sentinel
               PROVE  i <= Left + PerVersion * (stamp[queue'[i]] + 2 + Lag - weights)
    BY <1>1, <1>6, <2>1 DEF QueueInv
  <2>2. i \in Nat /\ i <= MaxRequired
    <3>1. queue' \in Seq(0 .. Total)
      BY DEF TypeInv, ChannelType
    <3>2. Len(queue') \in Nat
      BY <3>1, LenProperties
    <3> QED
      BY <1>0, <2>1, <3>2
  <2>3. CASE queue'[i] = x
    <3>1. stamp[x] \in Nat /\ stamp[x] >= weights - 1
      BY <1>0, <1>6, <2>3 DEF AgeInv, StampInv
    <3>2. MaxRequired <= Left + PerVersion * (stamp[x] + 2 + Lag - weights)
      <4>1. /\ PerVersion \in Nat \ {0} /\ Lag \in Nat /\ Left \in Nat /\ MaxRequired \in Nat
            /\ MaxRequired <= PerVersion * (Lag + 1)
        BY <1>0, Multiples, LeftType
      <4>2. stamp[x] \in Int /\ weights \in Int /\ stamp[x] >= weights - 1
        BY <1>0, <3>1
      <4> QED
        BY <4>1, <4>2, FarEnough
    <3>3. Left \in Int /\ PerVersion * (stamp[x] + 2 + Lag - weights) \in Int
      BY <2>0, <3>1
    <3> QED
      BY <1>0, <2>2, <2>3, <3>2, <3>3
  <2>4. CASE \E j \in DOMAIN queue : queue'[i] = queue[j] /\ i <= j
    <3>1. PICK j \in DOMAIN queue : queue'[i] = queue[j] /\ i <= j
      BY <2>4
    <3>2. j <= Left + PerVersion * (stamp[queue[j]] + 2 + Lag - weights) /\ j \in Nat
      BY <1>0, <1>2, <3>1
    <3>3. stamp[queue[j]] \in Nat
      BY <1>0, <1>3, <3>1
    <3>4. Left \in Nat /\ PerVersion * (stamp[queue[j]] + 2 + Lag - weights) \in Int
      BY <2>0, <3>3
    <3> QED
      BY <2>2, <3>1, <3>2, <3>4
  <2> QED
    BY <2>1, <2>3, <2>4
<1>7. Samples \subseteq 0 .. Total /\ Sentinel \in 0 .. Total
  BY DEF Samples, Sentinel, Constants, ChannelConstants
<1> QED
  BY <1>5, <1>6, <1>7, StampMoves

LEMMA QueueByTrainer ==
  ASSUME Constants, WorkInv, TypeInv', PlaceInv, AgeInv, TrainerNext, UNCHANGED rollouterVars
  PROVE  QueueInv'
<1>0. /\ queue \in Seq(0 .. Total) /\ stamp \in [Samples -> Nat] /\ weights \in Nat
      /\ DOMAIN queue = 1 .. Len(queue) /\ Len(queue) \in Nat /\ MaxRequired \in Nat \ {0}
      /\ stamp' = stamp /\ Left \in Nat
      /\ IsFiniteSet(batch) /\ Cardinality(batch) \in Nat /\ Lag \in Nat
  BY LenProperties, LeftType, Multiples
     DEF WorkInv, ControlInv, TypeInv, TaskType, ChannelType, Constants, ChannelConstants,
         rollouterVars, tasks
<1>1. /\ Len(queue) <= MaxRequired
      /\ ~closing => \A i \in DOMAIN queue :
           queue[i] # Sentinel => i <= Left + PerVersion * (stamp[queue[i]] + 2 + Lag - weights)
  BY DEF AgeInv, QueueInv
<1>2. \A i \in DOMAIN queue : queue[i] # Sentinel => queue[i] \in Samples /\ stamp[queue[i]] \in Nat
  <2> SUFFICES ASSUME NEW i \in DOMAIN queue, queue[i] # Sentinel
               PROVE  queue[i] \in Samples
    BY <1>0
  <2>1. queue[i] \in 0 .. Total
    BY <1>0, ElementOfSeq
  <2> QED
    BY <2>1 DEF Samples, Sentinel, Constants, ChannelConstants
<1>3. \A v \in Nat : PerVersion * (v + 2 + Lag - weights) \in Int
  <2>0. PICK l \in Nat, w \in Nat : l = Lag /\ w = weights
    BY <1>0
  <2>1. \A v \in Nat : v + 2 + Lag - weights \in Int
    BY <2>0
  <2> QED
    BY <2>1, Multiples
<1>4. CASE Collect
  <2>1. queue # <<>> /\ queue' = Tail(queue) /\ UNCHANGED <<weights, closing, local_trigger_step>>
        /\ batch' = batch \cup {Head(queue)} /\ trainer = "collecting"
        /\ trainer' \in {"collecting", "training"} /\ Head(queue) # Sentinel
    BY <1>4 DEF Collect
  <2>2. /\ Len(queue') = Len(queue) - 1 /\ DOMAIN queue' = 1 .. Len(queue) - 1
        /\ \A i \in DOMAIN queue' : queue'[i] = queue[i + 1]
    BY <1>0, <2>1, HeadTailProperties, LenProperties
  <2>3. Left' = Left - 1
    <3>1. Head(queue) \notin batch
      <4>1. Head(queue) \in InQueue
        BY <1>0, <2>1, HeadElem DEF InQueue
      <4> QED
        BY <4>1 DEF PlaceInv, Apart
    <3>2. Cardinality(batch') = Cardinality(batch) + 1
      BY <1>0, <2>1, <3>1, FS_AddElement
    <3>3. PICK d \in Int : d = (trigger_parameter_sync_step - local_trigger_step) * required_samples
      BY DEF WorkInv, ControlInv, TypeInv, TrainerType, Constants, TrainerConstants
    <3>4. PICK b \in Nat, r \in Nat : b = Cardinality(batch) /\ r = required_samples
      BY <1>0 DEF Constants, TrainerConstants
    <3>5. Left = d + r - b /\ Left' = d + r - (b + 1)
      BY <2>1, <3>2, <3>3, <3>4 DEF Left
    <3> QED
      BY <3>5
  <2>4. ASSUME ~closing, NEW i \in DOMAIN queue', queue'[i] # Sentinel
        PROVE  i <= Left' + PerVersion * (stamp[queue'[i]] + 2 + Lag - weights)
    <3>1. i + 1 \in DOMAIN queue /\ queue'[i] = queue[i + 1] /\ i \in Nat
      BY <1>0, <2>2, <2>4
    <3>2. PICK k \in Int : k = PerVersion * (stamp[queue[i + 1]] + 2 + Lag - weights)
      BY <1>2, <1>3, <2>4, <3>1
    <3>3. i + 1 <= Left + k
      BY <1>1, <2>4, <3>1, <3>2
    <3> QED
      BY <1>0, <2>3, <3>1, <3>2, <3>3
  <2>5. Len(queue') <= MaxRequired
    BY <1>0, <1>1, <2>2
  <2> QED
    BY <1>0, <2>1, <2>4, <2>5 DEF QueueInv
<1>5. CASE Terminate
  <2>1. queue # <<>> /\ queue' = Tail(queue) /\ closing'
    BY <1>5 DEF Terminate
  <2>2. Len(queue') = Len(queue) - 1
    BY <1>0, <2>1, HeadTailProperties
  <2> QED
    BY <1>0, <1>1, <2>1, <2>2 DEF QueueInv
<1>6. CASE ~Collect /\ ~Terminate
  <2>1. queue' = queue /\ closing' = closing
    BY <1>6 DEF TrainerNext, Train, SyncWeights, RolloutPaused, WeightsTransferred, LastSync,
                OwnValidation, Finish, channels
  <2>2. CASE closing
    BY <1>1, <2>1, <2>2 DEF QueueInv
  <2>3. ASSUME ~closing
        PROVE  \A v \in Nat : Left' + PerVersion * (v + 2 + Lag - weights')
                              = Left + PerVersion * (v + 2 + Lag - weights)
    <3>1. CASE Train
      <4>1. weights' = weights
        BY <3>1 DEF Train
      <4>2. Left' = Left
        <5>1. Cardinality(batch) = required_samples /\ Cardinality(batch') = 0
              /\ trainer = "training"
          BY <3>1, FS_EmptySet DEF Train, AgeInv, VersionInv
        <5>2. PICK r \in Nat, t \in Nat, l \in Nat :
                r = required_samples /\ t = trigger_parameter_sync_step /\ l = local_trigger_step
                /\ l <= t
          <6>1. /\ required_samples \in Nat \ {0} /\ trigger_parameter_sync_step \in Nat \ {0}
                /\ local_trigger_step \in 1 .. trigger_parameter_sync_step
            BY DEF Constants, TrainerConstants, WorkInv, ControlInv, TypeInv, TrainerType
          <6>2. PICK t \in Nat : t = trigger_parameter_sync_step
            BY <6>1
          <6> QED
            BY <6>1, <6>2
        <5>3. Left = (t - l) * r + r - r
          BY <5>1, <5>2 DEF Left
        <5>4. Left = (t - l) * r
          BY <5>2, <5>3
        <5>5. CASE l < t
          <6>1. trainer' = "collecting" /\ local_trigger_step' = l + 1
            BY <3>1, <5>2, <5>5 DEF Train
          <6>2. Left' = (t - (l + 1)) * r + r - 0
            BY <5>1, <5>2, <6>1 DEF Left
          <6>3. (t - (l + 1)) * r + r - 0 = (t - l) * r
            BY <5>2
          <6> QED
            BY <5>4, <6>2, <6>3
        <5>6. CASE ~(l < t)
          <6>1. trainer' = "waiting_sync"
            BY <3>1, <5>2, <5>6 DEF Train
          <6>2. t - l = 0 /\ 0 * r = 0
            BY <5>2, <5>6
          <6> QED
            BY <5>4, <6>1, <6>2 DEF Left
        <5> QED
          BY <5>5, <5>6
      <4> QED
        BY <4>1, <4>2
    <3>2. CASE WeightsTransferred
      <4>1. weights' = weights + 1 /\ batch' = {} /\ local_trigger_step' = 1
            /\ trainer = "transferring" /\ trainer' = "collecting"
        BY <2>3, <3>2 DEF WeightsTransferred, AgeInv, VersionInv, Exchanging
      <4>2. Left = 0 /\ Left' = PerVersion
        <5>1. Left' = (trigger_parameter_sync_step - 1) * required_samples + required_samples - 0
          BY <4>1, FS_EmptySet DEF Left
        <5>2. (trigger_parameter_sync_step - 1) * required_samples + required_samples - 0 = PerVersion
          BY DEF PerVersion, Constants, TrainerConstants
        <5> QED
          BY <4>1, <5>1, <5>2 DEF Left
      <4>3. ASSUME NEW v \in Nat
            PROVE  PerVersion + PerVersion * (v + 2 + Lag - (weights + 1))
                     = 0 + PerVersion * (v + 2 + Lag - weights)
        <5>1. PICK p \in Nat, l \in Nat, w \in Nat : p = PerVersion /\ l = Lag /\ w = weights
          BY <1>0, Multiples
        <5>2. p + p * (v + 2 + l - (w + 1)) = 0 + p * (v + 2 + l - w)
          OBVIOUS
        <5> QED
          BY <5>1, <5>2
      <4> QED
        BY <4>1, <4>2, <4>3
    <3>3. CASE ~Train /\ ~WeightsTransferred
      <4>1. /\ trainer \notin {"collecting", "training"} /\ trainer' \notin {"collecting", "training"}
            /\ weights' = weights
        BY <1>6, <2>3, <3>3 DEF TrainerNext, SyncWeights, RolloutPaused, LastSync, OwnValidation,
           Finish, channels, AgeInv, VersionInv
      <4> QED
        BY <4>1 DEF Left
    <3> QED
      BY <3>1, <3>2, <3>3
  <2>4. ASSUME ~closing, NEW i \in DOMAIN queue', queue'[i] # Sentinel
        PROVE  i <= Left' + PerVersion * (stamp[queue'[i]] + 2 + Lag - weights')
    BY <1>1, <1>2, <2>1, <2>3, <2>4
  <2> QED
    BY <1>0, <1>1, <2>1, <2>2, <2>4 DEF QueueInv
<1> QED
  BY <1>4, <1>5, <1>6

LEMMA AgeStart == ASSUME Constants, Init PROVE AgeInv
<1>1. /\ trainer = "collecting" /\ version = 0 /\ weights = 0 /\ current_param_version = 0
      /\ ~closing /\ local_trigger_step = 1 /\ batch = {} /\ queue = <<>>
      /\ task = [s \in Samples |-> "none"] /\ stamp = [s \in Samples |-> 0]
  BY DEF Init, ChannelsInit, RollouterInit, TrainerInit
<1>2. VersionInv
  BY <1>1, FS_EmptySet DEF VersionInv, Exchanging, Constants, TrainerConstants
<1>3. StampInv
  BY <1>1 DEF StampInv, Started
<1>4. QueueInv
  BY <1>1 DEF QueueInv, Constants, ChannelConstants
<1> QED
  BY <1>2, <1>3, <1>4 DEF AgeInv

LEMMA AgeStep == ASSUME Constants, WorkInv, PlaceInv, AgeInv, [Next]_vars PROVE AgeInv'
<1>1. TypeInv'
  BY WorkStep DEF WorkInv, ControlInv
<1>2. CASE UNCHANGED vars
  <2>1. UNCHANGED <<trainer, version, weights, current_param_version, calls, pc, closing,
                    local_trigger_step, batch, queue, task, stamp>>
    BY <1>2 DEF vars, system, channels, rollouterVars, trainerVars, tasks, control, tracking
  <2>2. Left' = Left /\ Gathered' = Gathered
    BY <2>1 DEF Left, Gathered
  <2>3. VersionInv'
    BY <2>1 DEF AgeInv, VersionInv, Exchanging
  <2>4. StampInv'
    BY <2>1, <2>2 DEF AgeInv, StampInv, Started
  <2>5. QueueInv'
    BY <2>1, <2>2 DEF AgeInv, QueueInv
  <2> QED
    BY <2>3, <2>4, <2>5 DEF AgeInv
<1>3. CASE RollouterNext /\ UNCHANGED trainerVars
  <2>1. VersionInv'
    BY <1>3, VersionByRollouter DEF WorkInv, AgeInv
  <2> QED
    BY <1>1, <1>3, <2>1, StampByRollouter, QueueByRollouter DEF AgeInv
<1>4. CASE TrainerNext /\ UNCHANGED rollouterVars
  <2>1. VersionInv'
    BY <1>4, VersionByTrainer DEF WorkInv, AgeInv
  <2> QED
    BY <1>1, <1>4, <2>1, StampByTrainer, QueueByTrainer DEF AgeInv
<1> QED
  BY <1>2, <1>3, <1>4 DEF Next

LEMMA Aging == Spec => []AgeInv
<1>1. Init => AgeInv
  BY AgeStart, ConstantsHold
<1>2. WorkInv /\ PlaceInv /\ AgeInv /\ [Next]_vars => AgeInv'
  BY AgeStep, ConstantsHold
<1> QED
  BY <1>1, <1>2, Working, Placing, PTL DEF Spec

\* What the batch receives, it receives from the head of the queue.
LEMMA BatchGrows ==
  ASSUME Next, NEW s \in batch' \ batch
  PROVE  Collect /\ s = Head(queue) /\ UNCHANGED rollouterVars
<1>1. CASE RollouterNext /\ UNCHANGED trainerVars
  BY <1>1 DEF trainerVars
<1>2. CASE TrainerNext /\ UNCHANGED rollouterVars
  BY <1>2 DEF TrainerNext, Collect, Terminate, Train, SyncWeights, RolloutPaused,
     WeightsTransferred, LastSync, OwnValidation, Finish
<1> QED
  BY <1>1, <1>2 DEF Next

\* A sample is collected at most 2 + (MaxRequired - 1) \div PerVersion versions after the one
\* its generation last started with, whatever the two actors do in between.
THEOREM Freshness == Spec => Fresh
<1>1. WorkInv /\ PlaceInv /\ AgeInv /\ [Next]_vars
        => [\A s \in batch' \ batch :
              stamp[s] <= version
              /\ version <= stamp[s] + 2 + (MaxRequired - 1) \div PerVersion]_vars
  <2> SUFFICES ASSUME WorkInv, PlaceInv, AgeInv, Next, NEW s \in batch' \ batch
               PROVE  stamp[s] <= version
                      /\ version <= stamp[s] + 2 + (MaxRequired - 1) \div PerVersion
    OBVIOUS
  <2>0. Constants
    BY ConstantsHold
  <2>1. Collect /\ s = Head(queue)
    BY BatchGrows
  <2>2. trainer = "collecting" /\ queue # <<>> /\ s # Sentinel /\ ~closing /\ version = weights
    BY <2>1 DEF Collect, AgeInv, VersionInv, Exchanging
  <2>3. /\ queue \in Seq(0 .. Total) /\ stamp \in [Samples -> Nat] /\ weights \in Nat
        /\ current_param_version \in Nat
    BY DEF WorkInv, ControlInv, TypeInv, TaskType, ChannelType, CountType
  <2>4. s \in 0 .. Total /\ s = queue[1] /\ 1 \in DOMAIN queue
    BY <2>1, <2>2, <2>3, HeadElem, RangeType
  <2>5. s \in Samples
    BY <2>0, <2>2, <2>4 DEF Samples, Sentinel, Constants, ChannelConstants
  <2>6. stamp[s] \in Nat /\ stamp[s] <= current_param_version /\ current_param_version <= weights
    BY <2>3, <2>5 DEF AgeInv, StampInv, VersionInv
  <2>7. 1 <= Left + PerVersion * (stamp[s] + 2 + Lag - weights)
    BY <2>2, <2>4 DEF AgeInv, QueueInv
  <2>8. Left \in Nat /\ Left <= PerVersion
    BY <2>0, LeftType
  <2>a. PICK v \in Nat : v = stamp[s]
    BY <2>6
  <2>b. PICK l \in Nat : l = Lag
    BY <2>0, Multiples
  <2>c. PICK w \in Nat : w = weights
    BY <2>3
  <2>9. PICK d \in Int : v = stamp[s] /\ l = Lag /\ w = weights /\ d = v + 2 + l - w
    BY <2>a, <2>b, <2>c
  <2>10. d >= 0
    <3> SUFFICES ASSUME d <= -1 PROVE FALSE
      BY <2>9
    <3>1. PICK p \in Nat, e \in Int, f \in Nat : p = PerVersion /\ e = PerVersion * d /\ f = Left
      BY <2>0, <2>8, Multiples
    <3>2. e <= -p
      BY <2>0, <3>1, Multiples
    <3>3. 1 <= f + e
      BY <2>7, <2>9, <3>1
    <3>4. f <= p
      BY <2>8, <3>1
    <3> QED
      BY <3>1, <3>2, <3>3, <3>4
  <2>11. w <= v + 2 + l
    BY <2>9, <2>10
  <2> QED
    BY <2>2, <2>3, <2>6, <2>9, <2>11 DEF Lag
<1> QED
  BY <1>1, Working, Placing, Aging, PTL DEF Spec, Fresh

-----------------------------------------------------------------------------
(* Where nothing may be stale: staleness_threshold is 0, so that a version   *)
(* may use as many samples as it trains, and generations are not interrupted.*)

Synchronous == ~partial_rollout /\ MaxRequired = PerVersion

\* The samples of the versions before the one that is trained.
Base == weights * MaxRequired

Uninterrupted ==
  /\ cancel_queue = <<>> /\ ~servers_cancelled /\ pc["pause"] # "cancelling"
  /\ \A s \in Samples : task[s] # "cancelled"

\* How the work ends: with DONE or with a task that raised, and with room for the signal.
DrainInv ==
  /\ goal = "done" <=> taken = DONE
  /\ pc["proc"] = "ended" => Live = {}
  /\ taken = DONE => pc["proc"] \in {"reaping", "verifying", "awaiting", "ended", "crashed"}
  /\ pc["main"] # "watching" => pc["proc"] \in {"ended", "crashed"}
  /\ failed > 0 \/ pc["proc"] = "crashed" => lost # {}
  /\ SentinelAt <=> Sentinel \in Range(queue) \/ closing
  /\ closing => Sentinel \notin Range(queue)
  /\ pc["proc"] = "ended" /\ Sentinel \in Range(queue) => queue[Len(queue)] = Sentinel
  /\ dropped = {}

\* update_param_version is under way and has not yet set staleness_samples.
Updating == calls["update"] # "returned" /\ pc["update"] # "reporting"

\* While a version is trained: staleness_samples counts what was begun for it, ...
CountInv ==
  /\ excess = 0
  /\ staleness_samples <= MaxRequired
  /\ ~Updating => taken = staleness_samples + Base
  /\ pc["proc"] = "getting" => staleness_samples < MaxRequired
  /\ ~closing => Cardinality(trained)
                   = Base + (IF Exchanging THEN MaxRequired ELSE (local_trigger_step - 1) * required_samples)
  /\ closing => Cardinality(trained) >= Base
  /\ \A s \in Samples : s <= Base => s \in trained /\ stamp[s] < weights
  /\ \A s \in Samples : Started(s) \/ s \in InQueue => stamp[s] = weights
  /\ Gathered => ActiveCount = 0
  /\ trainer # "finishing"

\* ... and while its count is set anew, nothing happens.
QuietInv ==
  Updating => /\ staleness_samples = MaxRequired /\ taken = Base
              /\ trainer = "collecting" /\ batch = {} /\ local_trigger_step = 1
              /\ ActiveCount = 0 /\ queue = <<>> /\ hand = Nothing
              /\ pc["proc"] \notin {"ended", "crashed"}
              /\ pc["update"] \in {"counting", "counted"} => tally = 0

\* After the last transfer nothing is generated or collected.
LastInv ==
  /\ closing /\ trainer \in {"finishing", "ended"}
  /\ Live = {} /\ excess \in 0 .. MaxRequired
  /\ \A s \in Samples : stamp[s] < weights

\* Before the processor has reaped for the first time, nobody waits for the lock; a pause
\* therefore does not find the processor between looking for tasks and having the lock.
Early ==
  /\ lock = <<>> \/ (Len(lock) = 1 /\ loop = Head(lock)) \/ pc["proc"] = "awaiting"
  /\ calls["pause"] = "running" => pc["proc"] = "awaiting"
  /\ calls["update"] = "returned" /\ calls["resume"] = "returned" /\ ~Gathered
  /\ pc["proc"] \notin {"asleep", "woken", "holding"}
  /\ paused => goal = "pause" /\ pc["proc"] \in {"reaping", "verifying", "awaiting"}
  /\ pc["proc"] = "top" => loop = "proc" \/ taken = 0
  /\ pc["proc"] = "reaping" => loop = "proc"
  /\ Begun # InHand => ActiveCount > 0
  /\ goal = "pause" \/ pc["proc"] \in {"verifying", "awaiting", "stopping"} => ActiveCount > 0

FirstInv == done_bound \/ pc["proc"] \in {"ended", "crashed"} \/ Early

\* With no sample lost, the end signal comes when all complete batches have been trained.
EndInv == closing /\ lost = {} => Cardinality(trained) >= PerVersion * (Total \div PerVersion)

SyncInv == /\ Uninterrupted /\ DrainInv /\ FirstInv /\ EndInv
           /\ (CountInv /\ QuietInv) \/ LastInv

\* What a step of the Rollouter leaves alone.
LEMMA RollouterKeeps ==
  ASSUME RollouterNext, PcType
  PROVE  /\ taken' = taken \/ ProcTakes
         /\ staleness_samples' = staleness_samples \/ ProcTakes \/ UpdateCounted
         /\ done_bound' = done_bound \/ ProcAwaited
         /\ goal' = goal \/ ProcStopped \/ ProcTakesCancelled \/ ProcTakes
         /\ lost' = lost \/ \E s \in Samples : TaskFails(s)
         /\ tally' = tally \/ Synchronisation
         /\ calls' = calls \/ Synchronisation
<1>1. CASE Processor
  <2>1. UNCHANGED <<lost, tally, calls>>
    BY <1>1 DEF Processor, ProcStops, ProcStopped, ProcTakesCancelled, ProcFindsNothing, ProcTakes,
         ProcReaps, ProcVerifies, ProcAwaited, ProcReaped, ProcSleeps, ProcWakes, ProcResumes,
         ProcSubmits, tasks, tracking, channels
  <2>2. (taken' = taken /\ staleness_samples' = staleness_samples) \/ ProcTakes
    BY <1>1 DEF Processor, ProcStops, ProcStopped, ProcTakesCancelled, ProcFindsNothing,
         ProcReaps, ProcVerifies, ProcReaped, ProcSleeps, ProcWakes, ProcResumes,
         ProcSubmits, ProcAwaited, feeding, tracking
  <2>3. /\ done_bound' = done_bound \/ ProcAwaited
        /\ goal' = goal \/ ProcStopped \/ ProcTakesCancelled \/ ProcTakes
    <3>1. ASSUME ProcStopped \/ ProcTakesCancelled \/ ProcTakes PROVE done_bound' = done_bound
      BY <3>1 DEF ProcStopped, ProcTakesCancelled, ProcTakes
    <3>2. ASSUME ProcAwaited PROVE goal' = goal
      BY <3>2 DEF ProcAwaited
    <3>3. \/ ProcStopped \/ ProcTakesCancelled \/ ProcTakes \/ ProcAwaited
          \/ UNCHANGED reaping
      BY <1>1 DEF Processor, ProcStops, ProcFindsNothing, ProcReaps, ProcVerifies, ProcReaped,
           ProcSleeps, ProcWakes, ProcResumes, ProcSubmits
    <3> QED
      BY <3>1, <3>2, <3>3 DEF reaping
  <2> QED
    BY <2>1, <2>2, <2>3
<1>2. CASE Feed \/ Main \/ Monitor
  BY <1>2 DEF Feed, Main, MainFinishes, QueuePutsSentinel, MainCloses, MainEnds, Monitor,
       MonitorLooks, MonitorDecides, MonitorUnpauses, feeding, tasks, reaping, tracking, channels
<1>3. CASE Synchronisation
  BY <1>3 DEF Synchronisation, CallArrives, PauseLocked, ServersCancel, PauseGathered,
       PauseReturns, UpdateLocked, QueueSizeRead, UpdateReturns, ResumeArrives, ResumeLocked,
       ResumeReturns, UpdateCounted, feeding, tasks, reaping, tracking
<1>4. ASSUME NEW s \in Samples, TaskStep(s) \/ TaskReturns(s)
      PROVE  UNCHANGED <<taken, staleness_samples, done_bound, goal, tally, calls>>
             /\ (lost' = lost \/ TaskFails(s))
  BY <1>4 DEF TaskStep, TaskReturns, TaskStarts, Answered, TaskPuts, QueuePuts, TaskEnds, feeding,
              tasks, reaping, tracking, channels
<1> QED
  BY <1>1, <1>2, <1>3, <1>4 DEF RollouterNext

LEMMA UninterruptedStep ==
  ASSUME Synchronous, TypeInv, Uninterrupted, Next
  PROVE  Uninterrupted'
<1> USE DEF Synchronous, TypeInv, PcType, Uninterrupted
<1>0. task \in [Samples -> {"none", "created", "generating", "generated", "cancelled",
                            "putting", "put"}]
  BY DEF TaskType
<1>1. CASE TrainerNext /\ UNCHANGED rollouterVars
  BY <1>1 DEF rollouterVars, feeding, tasks, control, flags
<1>2. CASE Processor
  <2>1. pc'["pause"] = pc["pause"]
    BY <1>2, PcMoves, TheCoroutines
  <2>2. UNCHANGED <<cancel_queue, servers_cancelled>>
    BY <1>2 DEF Processor, ProcStops, ProcStopped, ProcTakesCancelled, ProcFindsNothing, ProcTakes,
         ProcReaps, ProcVerifies, ProcAwaited, ProcReaped, ProcSleeps, ProcWakes, ProcResumes,
         ProcSubmits, feeding, flags
  <2>3. task' = task \/ task' = [task EXCEPT ![hand] = "created"]
    BY <1>2 DEF Processor, ProcStops, ProcStopped, ProcTakesCancelled, ProcFindsNothing, ProcTakes,
         ProcReaps, ProcVerifies, ProcAwaited, ProcReaped, ProcSleeps, ProcWakes, ProcResumes,
         ProcSubmits, tasks
  <2> QED
    BY <1>0, <2>1, <2>2, <2>3
<1>3. CASE Feed \/ Main \/ Monitor
  <2>1. pc'["pause"] = pc["pause"]
    BY <1>3, PcMoves, TheCoroutines, Notification DEF Feed, control
  <2>2. UNCHANGED <<cancel_queue, servers_cancelled, task>>
    BY <1>3 DEF Feed, Main, MainFinishes, QueuePutsSentinel, MainCloses, MainEnds, Monitor,
         MonitorLooks, MonitorDecides, MonitorUnpauses, feeding, tasks, flags
  <2> QED
    BY <2>1, <2>2
<1>4. CASE Synchronisation
  <2>1. UNCHANGED <<cancel_queue, task>> /\ ~servers_cancelled'
    BY <1>4 DEF Synchronisation, CallArrives, PauseLocked, ServersCancel, PauseGathered,
         PauseReturns, UpdateLocked, QueueSizeRead, UpdateCounted, UpdateReturns, ResumeArrives,
         ResumeLocked, ResumeReturns, feeding, tasks, flags
  <2>2. pc'["pause"] # "cancelling"
    BY <1>4, TheCoroutines, Notification DEF Synchronisation, CallArrives, PauseLocked,
         ServersCancel, PauseGathered, PauseReturns, UpdateLocked, QueueSizeRead, UpdateCounted,
         UpdateReturns, ResumeArrives, ResumeLocked, ResumeReturns, Ask, Suspend, GoOn
  <2> QED
    BY <2>1, <2>2
<1>5. ASSUME NEW s \in Samples, TaskStep(s) \/ TaskReturns(s)
      PROVE  Uninterrupted'
  BY <1>0, <1>5 DEF TaskStep, TaskReturns, TaskStarts, Answered, TaskFails, TaskPuts, QueuePuts,
       TaskEnds, TaskMoves, feeding, control, flags
<1> QED
  BY <1>1, <1>2, <1>3, <1>4, <1>5 DEF Next, RollouterNext

\* The sizes of the places, where nothing is interrupted or pushed out.
LEMMA Counts ==
  ASSUME Constants, TypeInv, PlaceInv, Uninterrupted, dropped = {}
  PROVE  /\ IsFiniteSet(InQueue) /\ IsFiniteSet(AtTask) /\ IsFiniteSet(InHand)
         /\ IsFiniteSet(batch) /\ IsFiniteSet(trained) /\ IsFiniteSet(lost)
         /\ Cardinality(InQueue) \in Nat /\ Cardinality(AtTask) \in Nat
         /\ Cardinality(InHand) \in Nat /\ Cardinality(batch) \in Nat
         /\ Cardinality(trained) \in Nat /\ Cardinality(lost) \in Nat
         /\ (IF taken < DONE THEN taken ELSE Total)
              = Cardinality(InQueue) + Cardinality(AtTask) + Cardinality(InHand)
                + Cardinality(batch) + Cardinality(trained) + Cardinality(lost)
         /\ Len(queue) = Cardinality(InQueue) + (IF Sentinel \in Range(queue) THEN 1 ELSE 0)
<1>1. /\ IsFiniteSet(InQueue) /\ IsFiniteSet(AtTask) /\ IsFiniteSet(InHand)
      /\ IsFiniteSet(batch) /\ IsFiniteSet(trained) /\ IsFiniteSet(lost)
      /\ Cardinality(InCancelQueue) = Len(cancel_queue)
      /\ Cardinality(Begun) = Cardinality(InQueue) + Cardinality(InCancelQueue)
           + Cardinality(AtTask) + Cardinality(InHand) + Cardinality(dropped \ {Sentinel})
           + Cardinality(batch) + Cardinality(trained) + Cardinality(lost)
  BY PlaceSizes
<1>2. /\ Cardinality(InQueue) \in Nat /\ Cardinality(AtTask) \in Nat
      /\ Cardinality(InHand) \in Nat /\ Cardinality(batch) \in Nat
      /\ Cardinality(trained) \in Nat /\ Cardinality(lost) \in Nat
  BY <1>1, FS_CardinalityType
<1>3. Cardinality(InCancelQueue) = 0 /\ Cardinality(dropped \ {Sentinel}) = 0
  <2>1. dropped \ {Sentinel} = {} /\ Len(cancel_queue) = 0
    BY EmptySeq DEF Uninterrupted
  <2> QED
    BY <1>1, <2>1, FS_EmptySet
<1>4. Cardinality(Begun) = IF taken < DONE THEN taken ELSE Total
  BY FS_Interval DEF Begun, TypeInv, TaskType, DONE, Constants, ChannelConstants
<1>5. Len(queue) = Cardinality(InQueue) + (IF Sentinel \in Range(queue) THEN 1 ELSE 0)
  <2>1. queue \in Seq(0 .. Total) /\ IsInjective(queue)
    BY DEF TypeInv, ChannelType, PlaceInv
  <2>2. IsFiniteSet(Range(queue)) /\ Cardinality(Range(queue)) = Len(queue) /\ Len(queue) \in Nat
    BY <2>1, RangeCount, LenProperties
  <2>3. InQueue = Range(queue) \ {Sentinel}
    BY QueueRange
  <2>4. CASE Sentinel \in Range(queue)
    <3>1. Cardinality(InQueue) = Cardinality(Range(queue)) - 1
      BY <2>2, <2>3, <2>4, FS_RemoveElement
    <3> QED
      BY <1>2, <2>2, <2>4, <3>1
  <2>5. CASE Sentinel \notin Range(queue)
    <3>1. InQueue = Range(queue)
      BY <2>3, <2>5
    <3> QED
      BY <1>2, <2>2, <2>5, <3>1
  <2> QED
    BY <2>4, <2>5
<1> QED
  BY <1>1, <1>2, <1>3, <1>4, <1>5

\* A finite set without elements, and one with some.
LEMMA NoneOrSome ==
  ASSUME NEW S, IsFiniteSet(S)
  PROVE  /\ Cardinality(S) = 0 <=> S = {}
         /\ S # {} => Cardinality(S) >= 1
         /\ Cardinality(S) \in Nat
<1>1. Cardinality(S) \in Nat /\ (Cardinality(S) = 0 <=> S = {})
  BY FS_CardinalityType, FS_EmptySet
<1> QED
  BY <1>1

\* Nothing is active but what the tasks are at.
LEMMA Idle ==
  ASSUME Constants, TypeInv
  PROVE  /\ ActiveCount \in Nat
         /\ ActiveCount = 0 <=> Live = {} /\ finished = 0 /\ failed = 0
         /\ \A s \in Samples : task[s] # "none" => ActiveCount > 0
         /\ Live = {} => AtTask = {} /\ \A s \in Samples : ~Started(s)
<1>1. IsFiniteSet(Live) /\ ActiveCount \in Nat
  BY ActiveCountType
<1>2. Cardinality(Live) \in Nat /\ (Cardinality(Live) = 0 <=> Live = {})
  BY <1>1, NoneOrSome
<1>3. finished \in Nat /\ failed \in Nat
  BY DEF TypeInv, TaskType
<1>4. ActiveCount = 0 <=> Live = {} /\ finished = 0 /\ failed = 0
  BY <1>2, <1>3 DEF ActiveCount
<1>5. \A s \in Samples : task[s] # "none" => ActiveCount > 0
  BY <1>1, <1>4 DEF Live
<1>6. Live = {} => AtTask = {} /\ \A s \in Samples : ~Started(s)
  BY DEF Live, AtTask, Started
<1> QED
  BY <1>1, <1>4, <1>5, <1>6

\* The Trainer gets the end signal only from a processor that has ended.
LEMMA ClosingEnds ==
  ASSUME SyncInv, closing \/ SentinelAt
  PROVE  pc["proc"] \in {"ended", "crashed"}
BY DEF SyncInv, DrainInv, SentinelAt

LEMMA BaseType ==
  ASSUME Constants, TypeInv
  PROVE  /\ MaxRequired \in Nat \ {0} /\ Base \in Nat /\ weights \in Nat /\ Total \in Nat
         /\ taken \in Nat /\ taken <= DONE /\ staleness_samples \in Nat
         /\ required_samples \in Nat \ {0} /\ local_trigger_step \in Nat \ {0}
         /\ (local_trigger_step - 1) * required_samples \in Nat
<1>1. /\ MaxRequired \in Nat \ {0} /\ weights \in Nat /\ Total \in Nat
      /\ taken \in Nat /\ taken <= DONE /\ staleness_samples \in Nat
      /\ required_samples \in Nat \ {0} /\ local_trigger_step \in Nat \ {0}
  BY DEF Constants, ChannelConstants, TrainerConstants, TypeInv, ChannelType, TaskType, CountType,
         TrainerType, DONE
<1> QED
  BY <1>1 DEF Base

\* Where the numbers of CountInv leave the rest.
LEMMA Sums ==
  ASSUME NEW m \in Nat, NEW b \in Nat, NEW st \in Nat, NEW tk \in Nat, NEW tot \in Nat,
         NEW q \in Nat, NEW a \in Nat, NEW h \in Nat, NEW c \in Nat, NEW t \in Nat, NEW l \in Nat,
         tk <= st + b, st <= m, t >= b, tk <= tot + 1,
         (IF tk < tot + 1 THEN tk ELSE tot) = q + a + h + c + t + l
  PROVE  /\ q + a + h + c + l <= m
         /\ q + a + l <= m
         /\ tk = tot + 1 => q + a + h + c + l <= m - 1
         /\ t = b + m => /\ q = 0 /\ a = 0 /\ h = 0 /\ c = 0 /\ l = 0 /\ st = m
                         /\ tk = b + m /\ tk <= tot
         /\ (tk = b /\ t = b) => /\ q = 0 /\ a = 0 /\ h = 0 /\ c = 0 /\ l = 0 /\ tk <= tot
OBVIOUS

\* What was begun for a version and is not trained fits into the queue.
LEMMA Fits ==
  ASSUME Constants, TypeInv, PlaceInv, Uninterrupted, DrainInv, CountInv, ~Updating
  PROVE  /\ Cardinality(InQueue) + Cardinality(AtTask) + Cardinality(InHand)
              + Cardinality(batch) + Cardinality(lost) <= MaxRequired
         /\ taken = DONE => Cardinality(InQueue) + Cardinality(AtTask) + Cardinality(InHand)
                              + Cardinality(batch) + Cardinality(lost) <= MaxRequired - 1
<1>1. dropped = {}
  BY DEF DrainInv
<1>2. Cardinality(trained) >= Base
  <2>1. CASE closing
    BY <2>1 DEF CountInv
  <2>2. CASE ~closing
    BY <2>2, BaseType DEF CountInv
  <2> QED
    BY <2>1, <2>2
<1>3. taken = staleness_samples + Base /\ staleness_samples <= MaxRequired
  BY DEF CountInv
<1>4. PICK m \in Nat : m = MaxRequired
  BY BaseType
<1>5. PICK b \in Nat : b = Base
  BY BaseType
<1>6. PICK st \in Nat : st = staleness_samples
  BY BaseType
<1>7. PICK tk \in Nat : tk = taken
  BY BaseType
<1>8. PICK tot \in Nat : tot = Total
  BY BaseType
<1>9. PICK q \in Nat : q = Cardinality(InQueue)
  BY <1>1, Counts
<1>10. PICK a \in Nat : a = Cardinality(AtTask)
  BY <1>1, Counts
<1>11. PICK h \in Nat : h = Cardinality(InHand)
  BY <1>1, Counts
<1>12. PICK c \in Nat : c = Cardinality(batch)
  BY <1>1, Counts
<1>13. PICK t \in Nat : t = Cardinality(trained)
  BY <1>1, Counts
<1>14. PICK l \in Nat : l = Cardinality(lost)
  BY <1>1, Counts
<1>15. (IF tk < tot + 1 THEN tk ELSE tot) = q + a + h + c + t + l
  BY <1>1, <1>7, <1>8, <1>9, <1>10, <1>11, <1>12, <1>13, <1>14, Counts DEF DONE
<1>16. /\ q + a + h + c + l <= m
       /\ tk = tot + 1 => q + a + h + c + l <= m - 1
  <2>1. tk <= st + b /\ st <= m /\ t >= b /\ tk <= tot + 1
    BY <1>2, <1>3, <1>4, <1>5, <1>6, <1>7, <1>8, <1>13, BaseType DEF DONE
  <2> QED
    BY <1>15, <2>1, Sums
<1> QED
  BY <1>4, <1>7, <1>8, <1>9, <1>10, <1>11, <1>12, <1>14, <1>16 DEF DONE

\* When all of a version's batches are trained, nothing that was begun is left.
LEMMA AllTrained ==
  ASSUME Constants, TypeInv, PlaceInv, Uninterrupted, DrainInv, VersionInv, CountInv, QuietInv,
         (Exchanging /\ ~closing) \/ Updating
  PROVE  /\ InQueue = {} /\ AtTask = {} /\ InHand = {} /\ batch = {} /\ lost = {}
         /\ staleness_samples = MaxRequired
         /\ taken = Base + (IF Updating THEN 0 ELSE MaxRequired) /\ taken < DONE
         /\ trained = 1 .. taken
<1>1. dropped = {}
  BY DEF DrainInv
<1> USE <1>1
<1>2. Updating => trainer = "collecting" /\ ~Exchanging /\ local_trigger_step = 1
                  /\ staleness_samples = MaxRequired /\ taken = Base
  BY DEF QuietInv, Exchanging
<1>4. PICK m \in Nat : m = MaxRequired
  BY BaseType
<1>5. PICK b \in Nat : b = Base
  BY BaseType
<1>6. PICK st \in Nat : st = staleness_samples
  BY BaseType
<1>7. PICK tk \in Nat : tk = taken
  BY BaseType
<1>8. PICK tot \in Nat : tot = Total
  BY BaseType
<1>9. PICK q \in Nat : q = Cardinality(InQueue)
  BY Counts
<1>10. PICK a \in Nat : a = Cardinality(AtTask)
  BY Counts
<1>11. PICK h \in Nat : h = Cardinality(InHand)
  BY Counts
<1>12. PICK c \in Nat : c = Cardinality(batch)
  BY Counts
<1>13. PICK t \in Nat : t = Cardinality(trained)
  BY Counts
<1>14. PICK l \in Nat : l = Cardinality(lost)
  BY Counts
<1>15. (IF tk < tot + 1 THEN tk ELSE tot) = q + a + h + c + t + l
  BY <1>7, <1>8, <1>9, <1>10, <1>11, <1>12, <1>13, <1>14, Counts DEF DONE
<1>16. tk <= st + b /\ st <= m /\ t >= b /\ tk <= tot + 1
       /\ (Updating => tk = b /\ t = b /\ st = m) /\ (~Updating => t = b + m)
  <2>1. Updating => ~closing
    BY <1>2 DEF VersionInv
  <2> QED
    BY <1>2, <1>4, <1>5, <1>6, <1>7, <1>8, <1>13, <2>1, BaseType DEF DONE, CountInv
<1>17. /\ q = 0 /\ a = 0 /\ h = 0 /\ c = 0 /\ l = 0 /\ st = m /\ tk <= tot
       /\ tk = b + (IF Updating THEN 0 ELSE m)
  BY <1>15, <1>16, Sums
<1>18. /\ InQueue = {} /\ AtTask = {} /\ InHand = {} /\ batch = {} /\ lost = {}
  BY <1>9, <1>10, <1>11, <1>12, <1>14, <1>17, Counts, NoneOrSome
<1>19. taken < DONE /\ Begun = 1 .. taken
  BY <1>7, <1>8, <1>17 DEF Begun, DONE
<1>20. InCancelQueue = {}
  BY QueueRange, RangeType DEF Uninterrupted, TypeInv, TaskType
<1>21. trained = Begun
  BY <1>18, <1>20 DEF PlaceInv
<1> QED
  BY <1>4, <1>5, <1>6, <1>7, <1>17, <1>18, <1>19, <1>21

\* A put finds room.
LEMMA Room ==
  ASSUME Constants, WorkInv, PlaceInv, SyncInv,
         \/ QueuePutsSentinel
         \/ \E s \in Samples : QueuePuts(s)
  PROVE  /\ Len(queue) < MaxRequired
         /\ \A x : Put(x) => queue' = Append(queue, x) /\ dropped' = dropped
<1>0. /\ TypeInv /\ Uninterrupted /\ DrainInv /\ dropped = {} /\ Len(queue) \in Nat
      /\ MaxRequired \in Nat \ {0}
  BY BaseType, LenProperties DEF WorkInv, ControlInv, SyncInv, DrainInv, TypeInv, ChannelType
<1>1. Len(queue) < MaxRequired
  <2>1. CASE \E s \in Samples : QueuePuts(s)
    <3>1. PICK s \in Samples : task[s] = "putting"
      BY <2>1 DEF QueuePuts, TaskMoves
    <3>2. ActiveCount > 0 /\ s \in AtTask /\ s \in Live /\ ActiveCount \in Nat
      BY <1>0, <3>1, Idle DEF AtTask, Live
    <3>3. CountInv /\ ~Updating
      BY <3>2 DEF SyncInv, LastInv, QuietInv
    <3>4. Cardinality(InQueue) + Cardinality(AtTask) + Cardinality(InHand)
              + Cardinality(batch) + Cardinality(lost) <= MaxRequired
      BY <1>0, <3>3, Fits
    <3>5. Cardinality(AtTask) >= 1
      BY <1>0, <3>2, Counts, NoneOrSome
    <3>6. Sentinel \in Range(queue) => Cardinality(lost) >= 1
      <4>1. pc["proc"] # "ended"
        BY <1>0, <3>2 DEF DrainInv
      <4>2. Sentinel \in Range(queue) => lost # {}
        BY <1>0, <4>1, ClosingEnds DEF DrainInv
      <4> QED
        BY <1>0, <4>2, Counts, NoneOrSome
    <3>7. /\ Cardinality(InQueue) \in Nat /\ Cardinality(AtTask) \in Nat
          /\ Cardinality(InHand) \in Nat /\ Cardinality(batch) \in Nat /\ Cardinality(lost) \in Nat
          /\ Len(queue) = Cardinality(InQueue) + (IF Sentinel \in Range(queue) THEN 1 ELSE 0)
      BY <1>0, Counts
    <3> QED
      BY <1>0, <3>4, <3>5, <3>6, <3>7
  <2>2. CASE QueuePutsSentinel
    <3>1. pc["main"] = "sending"
      BY <2>2 DEF QueuePutsSentinel
    <3>2. pc["proc"] \in {"ended", "crashed"} /\ ~closing /\ Sentinel \notin Range(queue)
      BY <1>0, <3>1 DEF DrainInv, SentinelAt
    <3>3. CountInv /\ ~Updating
      BY <3>2 DEF SyncInv, LastInv, QuietInv
    <3>4. /\ Cardinality(InQueue) + Cardinality(AtTask) + Cardinality(InHand)
               + Cardinality(batch) + Cardinality(lost) <= MaxRequired
          /\ taken = DONE => Cardinality(InQueue) + Cardinality(AtTask) + Cardinality(InHand)
                               + Cardinality(batch) + Cardinality(lost) <= MaxRequired - 1
      BY <1>0, <3>3, Fits
    <3>5. taken = DONE \/ Cardinality(lost) >= 1
      <4>1. CASE pc["proc"] = "ended"
        BY <1>0, <4>1 DEF DrainInv, WorkInv, HandInv
      <4>2. CASE pc["proc"] = "crashed"
        BY <1>0, <4>2, Counts, NoneOrSome DEF DrainInv
      <4> QED
        BY <3>2, <4>1, <4>2
    <3>7. /\ Cardinality(InQueue) \in Nat /\ Cardinality(AtTask) \in Nat
          /\ Cardinality(InHand) \in Nat /\ Cardinality(batch) \in Nat /\ Cardinality(lost) \in Nat
          /\ Len(queue) = Cardinality(InQueue) + (IF Sentinel \in Range(queue) THEN 1 ELSE 0)
      BY <1>0, Counts
    <3> QED
      BY <1>0, <3>2, <3>4, <3>5, <3>7
  <2> QED
    BY <2>1, <2>2
<1> QED
  BY <1>0, <1>1 DEF Put, BQ!Putting

\* An active task raised, or nothing of the sort is to be seen.
LEMMA NoCrash ==
  ASSUME Constants, ControlInv, SyncInv, ProcVerifies
  PROVE  pc'["proc"] # "crashed"
<1>1. CASE ActiveCount > 0
  BY <1>1, TheCoroutines, Idle DEF ProcVerifies, Suspend, ControlInv, TypeInv, PcType
<1>2. CASE ActiveCount = 0
  <2>1. pc["proc"] = "verifying"
    BY DEF ProcVerifies, Granted
  <2>2. done_bound
    BY <1>2, <2>1, Idle DEF SyncInv, FirstInv, Early, ControlInv
  <2> QED
    BY <1>2, <2>2, TheCoroutines DEF ProcVerifies, GoOn, ControlInv, TypeInv, PcType
<1> QED
  BY <1>1, <1>2, Idle DEF ControlInv

LEMMA DrainByProcessor ==
  ASSUME Constants, WorkInv, PlaceInv, SyncInv, Processor, UNCHANGED trainerVars
  PROVE  DrainInv'
<1> USE TheCoroutines DEF ProcPlaces, Granted, Ask, GoOn, Suspend
<1>0. /\ DOMAIN pc = Coroutines /\ DrainInv /\ closing' = closing /\ HandInv
      /\ taken \in 0 .. fed /\ fed \in 0 .. DONE /\ TypeInv /\ ActiveCount \in Nat
      /\ MaxConcurrent \in Nat \ {0} /\ Total \in Nat
  BY Idle DEF WorkInv, ControlInv, TypeInv, PcType, TaskType, SyncInv, trainerVars, Constants,
              RollouterConstants, ChannelConstants
<1>1. pc["proc"] \notin {"ended", "crashed"}
  BY DEF Processor, ProcStops, ProcStopped, ProcTakesCancelled, ProcFindsNothing, ProcTakes,
         ProcReaps, ProcVerifies, ProcAwaited, ProcReaped, ProcSleeps, ProcWakes, ProcResumes,
         ProcSubmits
<1>2. ~SentinelAt /\ pc["main"] = "watching" /\ Sentinel \notin Range(queue) /\ ~closing
  BY <1>0, <1>1 DEF DrainInv, SentinelAt
<1>3. /\ UNCHANGED <<queue, dropped, lost, fed>> /\ failed' \in {failed, 0} /\ pc'["main"] = pc["main"]
      /\ cancel_queue = <<>>
  <2>1. UNCHANGED <<queue, dropped, lost, fed>> /\ failed' \in {failed, 0}
    BY DEF Processor, ProcStops, ProcStopped, ProcTakesCancelled, ProcFindsNothing, ProcTakes,
         ProcReaps, ProcVerifies, ProcAwaited, ProcReaped, ProcSleeps, ProcWakes, ProcResumes,
         ProcSubmits, channels, tasks, feeding
  <2> QED
    BY <1>0, <2>1, PcMoves DEF SyncInv, Uninterrupted, TypeInv
<1>4. /\ SentinelAt' <=> Sentinel \in Range(queue') \/ closing'
      /\ closing' => Sentinel \notin Range(queue')
      /\ pc'["proc"] = "ended" /\ Sentinel \in Range(queue') => queue'[Len(queue')] = Sentinel
      /\ dropped' = {}
      /\ pc'["main"] # "watching" => pc'["proc"] \in {"ended", "crashed"}
  BY <1>0, <1>2, <1>3 DEF SentinelAt, DrainInv
<1>5. pc'["proc"] = "crashed" => failed > 0
  <2>1. CASE ProcVerifies
    BY <2>1, NoCrash DEF WorkInv
  <2>2. CASE ProcAwaited
    BY <1>0, <2>2 DEF ProcAwaited
  <2>3. CASE ~ProcVerifies /\ ~ProcAwaited
    BY <1>0, <2>3 DEF Processor, ProcStops, ProcStopped, ProcTakesCancelled, ProcFindsNothing,
         ProcTakes, ProcReaps, ProcReaped, ProcSleeps, ProcWakes, ProcResumes, ProcSubmits
  <2> QED
    BY <2>1, <2>2, <2>3
<1>6. failed' > 0 \/ pc'["proc"] = "crashed" => lost' # {}
  BY <1>0, <1>3, <1>5 DEF DrainInv
<1>7. CASE ProcTakes
  <2>1. /\ taken' = taken + 1 /\ taken < fed /\ pc'["proc"] = "reaping"
        /\ goal' = IF taken' = DONE THEN "done" ELSE "limit"
    BY <1>0, <1>7 DEF ProcTakes
  <2> QED
    BY <1>4, <1>6, <2>1 DEF DrainInv
<1>8. CASE ProcReaped
  <2>1. /\ taken' = taken /\ goal' = goal /\ Live' = Live
        /\ pc'["proc"] \in {"holding", "submitting", "ended"}
        /\ pc'["proc"] = "ended" => goal = "done"
        /\ goal = "done" => pc'["proc"] = "ended" /\ ActiveCount = 0
    BY <1>0, <1>8 DEF ProcReaped, MustReap, feeding, reaping, tasks, Live, TypeInv, TaskType
  <2>2. ActiveCount = 0 => Live = {}
    BY <1>0, Idle
  <2> QED
    BY <1>0, <1>4, <1>6, <2>1, <2>2 DEF DrainInv
<1>9. CASE ~ProcTakes /\ ~ProcReaped
  <2>1. /\ taken' = taken
        /\ pc'["proc"] # "ended"
        /\ taken = DONE => pc'["proc"] \in {"reaping", "verifying", "awaiting", "crashed"} /\ goal' = goal
        /\ goal' = goal \/ (taken # DONE /\ goal' = "pause")
    <3>1. CASE ProcReaps \/ ProcVerifies \/ ProcAwaited
      BY <1>0, <3>1 DEF ProcReaps, ProcVerifies, ProcAwaited, feeding, reaping
    <3>2. CASE ~ProcReaps /\ ~ProcVerifies /\ ~ProcAwaited
      <4>1. pc["proc"] \notin {"reaping", "verifying", "awaiting", "ended", "crashed"}
        BY <1>9, <3>2 DEF Processor, ProcStops, ProcStopped, ProcTakesCancelled,
             ProcFindsNothing, ProcSleeps, ProcWakes, ProcResumes, ProcSubmits
      <4>2. taken # DONE
        BY <1>0, <4>1 DEF DrainInv
      <4>3. /\ taken' = taken /\ pc'["proc"] # "ended"
            /\ goal' = goal \/ goal' = "pause"
        BY <1>0, <1>3, <1>9, <3>2 DEF Processor, ProcStops, ProcStopped, ProcTakesCancelled,
             ProcFindsNothing, ProcSleeps, ProcWakes, ProcResumes, ProcSubmits, feeding, reaping
      <4> QED
        BY <4>2, <4>3
    <3> QED
      BY <3>1, <3>2
  <2> QED
    BY <1>0, <1>4, <1>6, <2>1 DEF DrainInv
<1> QED
  BY <1>7, <1>8, <1>9

LEMMA AppendAdds ==
  ASSUME NEW S, queue \in Seq(S), NEW x \in S, queue' = Append(queue, x)
  PROVE  Range(queue') = Range(queue) \cup {x} /\ queue'[Len(queue')] = x
BY AppendRange, AppendProperties, LenProperties

LEMMA DrainByOthers ==
  ASSUME Constants, WorkInv, PlaceInv, SyncInv, Feed \/ Main \/ Monitor \/ Synchronisation,
         UNCHANGED trainerVars
  PROVE  DrainInv'
<1>0. /\ DOMAIN pc = Coroutines /\ DrainInv /\ closing' = closing /\ TypeInv /\ PcType
      /\ queue \in Seq(0 .. Total) /\ Sentinel \in 0 .. Total /\ failed \in Nat
  BY DEF WorkInv, ControlInv, TypeInv, PcType, TaskType, ChannelType, SyncInv, trainerVars,
         Sentinel, Constants, ChannelConstants
<1>1. /\ UNCHANGED <<taken, hand, goal, done_bound>>
      /\ pc'["proc"] = pc["proc"] \/ (pc["proc"] = "asleep" /\ pc'["proc"] = "woken")
  BY <1>0, OthersAlone
<1>2. /\ Live' = Live /\ lost' = lost /\ failed' \in {failed, 0}
  BY DEF Feed, Main, MainFinishes, QueuePutsSentinel, MainCloses, MainEnds, Monitor,
         MonitorLooks, MonitorDecides, MonitorUnpauses, Synchronisation, CallArrives, PauseLocked,
         ServersCancel, PauseGathered, PauseReturns, UpdateLocked, QueueSizeRead, UpdateCounted,
         UpdateReturns, ResumeArrives, ResumeLocked, ResumeReturns, tasks, Live
<1>3. /\ goal' = "done" <=> taken' = DONE
      /\ pc'["proc"] = "ended" => Live' = {}
      /\ taken' = DONE => pc'["proc"] \in {"reaping", "verifying", "awaiting", "ended", "crashed"}
      /\ failed' > 0 \/ pc'["proc"] = "crashed" => lost' # {}
  BY <1>0, <1>1, <1>2 DEF DrainInv
<1>4. CASE QueuePutsSentinel
  <2>1. /\ pc' = [pc EXCEPT !["main"] = "sent"] /\ pc["main"] = "sending" /\ Put(Sentinel)
    BY <1>4 DEF QueuePutsSentinel
  <2>2. ~closing /\ pc["proc"] \in {"ended", "crashed"}
    BY <1>0, <2>1 DEF DrainInv, SentinelAt
  <2>3. queue' = Append(queue, Sentinel) /\ dropped' = dropped
    BY <1>4, <2>1, Room
  <2>4. Range(queue') = Range(queue) \cup {Sentinel} /\ queue'[Len(queue')] = Sentinel
    BY <1>0, <2>3, AppendAdds
  <2> QED
    BY <1>0, <1>1, <1>3, <2>1, <2>2, <2>3, <2>4, TheCoroutines DEF DrainInv, SentinelAt
<1>5. CASE ~QueuePutsSentinel
  <2>1. UNCHANGED <<queue, dropped>>
    BY <1>5 DEF Feed, Main, MainFinishes, MainCloses, MainEnds, Monitor, MonitorLooks,
         MonitorDecides, MonitorUnpauses, Synchronisation, CallArrives,
         PauseLocked, ServersCancel, PauseGathered, PauseReturns, UpdateLocked, QueueSizeRead,
         UpdateCounted, UpdateReturns, ResumeArrives, ResumeLocked, ResumeReturns, channels
  <2>2. /\ SentinelAt' <=> SentinelAt
        /\ pc'["main"] # "watching" => pc["main"] # "watching" \/ pc["proc"] \in {"ended", "crashed"}
    <3>1. CASE Main
      BY <1>0, <1>5, <3>1, TheCoroutines DEF Main, MainFinishes, MainCloses, MainEnds, SentinelAt,
         Granted, Ask, Suspend
    <3>2. CASE Feed \/ Monitor \/ Synchronisation
      <4>1. pc'["main"] = pc["main"]
        BY <1>0, <3>2, PcMoves, TheCoroutines, Notification DEF Feed, control
      <4> QED
        BY <4>1 DEF SentinelAt
    <3> QED
      BY <3>1, <3>2
  <2> QED
    BY <1>0, <1>1, <1>3, <2>1, <2>2 DEF DrainInv
<1> QED
  BY <1>4, <1>5

LEMMA DrainByTasks ==
  ASSUME Constants, WorkInv, PlaceInv, SyncInv, UNCHANGED trainerVars,
         NEW s \in Samples, TaskStep(s) \/ TaskReturns(s)
  PROVE  DrainInv'
<1>0. /\ DrainInv /\ closing' = closing /\ TypeInv
      /\ queue \in Seq(0 .. Total) /\ failed \in Nat /\ s \in 0 .. Total /\ s # Sentinel
      /\ task \in [Samples -> {"none", "created", "generating", "generated", "cancelled",
                               "putting", "put"}]
  BY DEF WorkInv, ControlInv, TypeInv, TaskType, ChannelType, SyncInv, trainerVars,
         Sentinel, Constants, ChannelConstants, Samples
<1>1. UNCHANGED <<taken, goal, pc>>
  BY DEF TaskStep, TaskReturns, feeding, control, reaping
<1>2. Live' \subseteq Live /\ pc["proc"] # "ended"
  <2>1. s \in Live
    BY <1>0 DEF Live, TaskStep, TaskReturns, TaskStarts, Answered, TaskFails, TaskPuts,
                QueuePuts, TaskEnds, TaskMoves
  <2>2. Live' \subseteq Live
    BY <1>0, <2>1 DEF Live, TaskStep, TaskReturns, TaskStarts, Answered, TaskFails, TaskPuts,
                QueuePuts, TaskEnds, TaskMoves
  <2> QED
    BY <1>0, <2>1, <2>2 DEF DrainInv
<1>3. lost \subseteq lost' /\ (failed' = failed \/ lost' # {})
  BY DEF TaskStep, TaskReturns, TaskStarts, Answered, TaskFails, TaskPuts, QueuePuts, TaskEnds
<1>4. dropped' = dropped /\ (Sentinel \in Range(queue') <=> Sentinel \in Range(queue))
  <2>1. CASE QueuePuts(s)
    <3>1. queue' = Append(queue, s) /\ dropped' = dropped
      BY <2>1, Room DEF QueuePuts
    <3>2. Range(queue') = Range(queue) \cup {s}
      BY <1>0, <3>1, AppendAdds
    <3> QED
      BY <1>0, <3>1, <3>2
  <2>2. CASE ~QueuePuts(s)
    <3>1. UNCHANGED <<queue, dropped>>
      BY <2>2 DEF TaskStep, TaskReturns, TaskStarts, Answered, TaskFails, TaskPuts, TaskEnds, channels
    <3> QED
      BY <3>1
  <2> QED
    BY <2>1, <2>2
<1> QED
  BY <1>0, <1>1, <1>2, <1>3, <1>4 DEF DrainInv, SentinelAt

LEMMA DrainByTrainer ==
  ASSUME Constants, WorkInv, PlaceInv, AgeInv, SyncInv, TrainerNext, UNCHANGED rollouterVars
  PROVE  DrainInv'
<1>0. /\ DrainInv /\ queue \in Seq(0 .. Total) /\ IsInjective(queue)
      /\ UNCHANGED <<taken, goal, pc, task, failed, lost>>
  BY DEF WorkInv, ControlInv, TypeInv, ChannelType, SyncInv, PlaceInv, rollouterVars, feeding, tasks,
         control, reaping
<1>1. Live' = Live /\ SentinelAt' = SentinelAt
  BY <1>0 DEF Live, SentinelAt
<1>2. CASE Collect \/ Terminate
  <2>1. /\ queue # <<>> /\ queue' = Tail(queue) /\ dropped' = dropped
        /\ closing' <=> closing \/ Head(queue) = Sentinel
        /\ ~closing
    <3>1. trainer = "collecting"
      BY <1>2 DEF Collect, Terminate
    <3> QED
      BY <1>2, <3>1 DEF Collect, Terminate, AgeInv, VersionInv
  <2>2. /\ Range(queue') = Range(queue) \ {Head(queue)} /\ Head(queue) \in Range(queue)
    BY <1>0, <2>1, TailRange, HeadElem
  <2>3. /\ Sentinel \in Range(queue) => Sentinel \in Range(queue') \/ closing'
        /\ Sentinel \in Range(queue') \/ closing' => Sentinel \in Range(queue)
        /\ closing' => Sentinel \notin Range(queue')
    BY <2>1, <2>2
  <2>4. pc["proc"] = "ended" /\ Sentinel \in Range(queue') => queue'[Len(queue')] = Sentinel
    <3> SUFFICES ASSUME pc["proc"] = "ended", Sentinel \in Range(queue')
                 PROVE  queue'[Len(queue')] = Sentinel
      OBVIOUS
    <3>1. queue[Len(queue)] = Sentinel
      BY <1>0, <2>2 DEF DrainInv
    <3>2. /\ queue' \in Seq(0 .. Total) /\ Len(queue') = Len(queue) - 1 /\ Len(queue) \in Nat
          /\ \A i \in 1 .. Len(queue') : queue'[i] = queue[i + 1]
      BY <1>0, <2>1, HeadTailProperties, LenProperties
    <3>3. queue' # <<>>
      BY <2>2, <3>2, RangeType
    <3>4. Len(queue') \in 1 .. Len(queue')
      BY <3>2, <3>3, EmptySeq, LenProperties
    <3> QED
      BY <3>1, <3>2, <3>4
  <2> QED
    BY <1>0, <1>1, <2>1, <2>3, <2>4 DEF DrainInv
<1>3. CASE ~Collect /\ ~Terminate
  <2>1. UNCHANGED <<queue, dropped, closing>>
    BY <1>3 DEF TrainerNext, Train, SyncWeights, RolloutPaused, WeightsTransferred, LastSync,
                OwnValidation, Finish, channels
  <2> QED
    BY <1>0, <1>1, <2>1 DEF DrainInv
<1> QED
  BY <1>2, <1>3

LEMMA IdleAfter ==
  ASSUME Constants, TypeInv'
  PROVE  /\ ActiveCount' \in Nat
         /\ ActiveCount' = 0 <=> Live' = {} /\ finished' = 0 /\ failed' = 0
<1>1. IsFiniteSet(Samples)
  BY FS_Interval DEF Samples, Constants, ChannelConstants
<1>2. IsFiniteSet(Live')
  BY <1>1, FS_Subset DEF Live
<1>3. Cardinality(Live') \in Nat /\ (Cardinality(Live') = 0 <=> Live' = {})
  BY <1>2, NoneOrSome
<1>4. finished' \in Nat /\ failed' \in Nat
  BY DEF TypeInv, TaskType
<1> QED
  BY <1>3, <1>4 DEF ActiveCount

\* While Early holds, a processor that runs without the lock could have it at once.
LEMMA EarlyLock ==
  ASSUME ControlInv, Early, Runs("proc"), pc["proc"] \notin LockPlaces
  PROVE  lock = <<>>
<1>1. lock \in Seq(Coroutines)
  BY DEF ControlInv, TypeInv, LockType
<1>2. ASSUME lock # <<>> PROVE Head(lock) \in Coroutines /\ pc[Head(lock)] \in LockPlaces
  BY <1>1, <1>2, HeadElem, RangeType DEF ControlInv, LockInv
<1>3. "idle" \notin Coroutines
  BY DEF Coroutines, Methods
<1>4. pc["proc"] # "awaiting"
  BY DEF LockPlaces
<1> QED
  BY <1>2, <1>3, <1>4 DEF Early, Runs

\* ... and one that has it was alone in the line.
LEMMA EarlyGrant ==
  ASSUME ControlInv, Early, NEW c \in Coroutines, NEW at, Granted(c, at)
  PROVE  Tail(lock) = <<>> \/ (c = "proc" /\ pc["proc"] = "awaiting")
<1>1. lock \in Seq(Coroutines) /\ lock # <<>> /\ Head(lock) = c
  BY DEF ControlInv, TypeInv, LockType, Granted
<1>2. CASE Len(lock) = 1
  <2>1. Tail(lock) \in Seq(Coroutines) /\ Len(Tail(lock)) = 0
    BY <1>1, <1>2, HeadTailProperties
  <2> QED
    BY <2>1, EmptySeq
<1>3. CASE pc["proc"] = "awaiting"
  <2>1. Head(lock) = "proc"
    BY <1>3, TheCoroutines DEF ControlInv, TypeInv, PcType, LockInv, HeldPlaces
  <2> QED
    BY <1>1, <1>3, <2>1
<1> QED
  BY <1>1, <1>2, <1>3 DEF Early

LEMMA OneInLine ==
  ASSUME NEW c \in Coroutines
  PROVE  Len(Append(<<>>, c)) = 1 /\ Head(Append(<<>>, c)) = c
OBVIOUS

LEMMA EarlyByProcessor ==
  ASSUME Constants, WorkInv, PlaceInv, SyncInv, TypeInv', Early, Processor, UNCHANGED trainerVars
  PROVE  FirstInv'
<1> USE TheCoroutines DEF ProcPlaces
<1>0. /\ DOMAIN pc = Coroutines /\ DrainInv /\ HandInv /\ TypeInv /\ ControlInv
      /\ taken \in 0 .. fed /\ fed \in 0 .. DONE /\ Total \in Nat /\ DONE = Total + 1
      /\ ActiveCount \in Nat /\ MaxConcurrent \in Nat \ {0} /\ MaxRequired \in Nat \ {0}
      /\ lock \in Seq(Coroutines) /\ queue \in Seq(0 .. Total) /\ "proc" \in Coroutines
  <2>1. TypeInv /\ ControlInv /\ DrainInv /\ HandInv /\ ActiveCount \in Nat
    BY Idle DEF WorkInv, ControlInv, SyncInv
  <2>2. /\ taken \in 0 .. fed /\ fed \in 0 .. DONE /\ Total \in Nat /\ DONE = Total + 1
        /\ MaxConcurrent \in Nat \ {0} /\ MaxRequired \in Nat \ {0}
    BY <2>1 DEF TypeInv, TaskType, Constants, RollouterConstants, ChannelConstants, DONE
  <2>3. lock \in Seq(Coroutines) /\ queue \in Seq(0 .. Total) /\ DOMAIN pc = Coroutines
    BY <2>1 DEF TypeInv, PcType, LockType, ChannelType
  <2> QED
    BY <2>1, <2>2, <2>3
<1>1. /\ UNCHANGED <<calls, queue, trainer>>
      /\ pc'["pause"] = pc["pause"] /\ Gathered' = Gathered
  <2>1. UNCHANGED <<calls, queue>> /\ trainer' = trainer
    BY DEF Processor, ProcStops, ProcStopped, ProcTakesCancelled, ProcFindsNothing, ProcTakes,
         ProcReaps, ProcVerifies, ProcAwaited, ProcReaped, ProcSleeps, ProcWakes, ProcResumes,
         ProcSubmits, channels, trainerVars
  <2>2. pc'["pause"] = pc["pause"]
    BY <1>0, PcMoves DEF TypeInv
  <2> QED
    BY <2>1, <2>2 DEF Gathered
<1>2. calls["update"] = "returned" /\ calls["resume"] = "returned" /\ ~Gathered
      /\ (calls["pause"] = "running" => pc["proc"] = "awaiting")
  BY DEF Early
<1>3. pc["proc"] \notin {"ended", "crashed"} /\ cancel_queue = <<>>
  BY DEF Processor, ProcStops, ProcStopped, ProcTakesCancelled, ProcFindsNothing, ProcTakes,
         ProcReaps, ProcVerifies, ProcAwaited, ProcReaped, ProcSleeps, ProcWakes, ProcResumes,
         ProcSubmits, Granted, SyncInv, Uninterrupted
<1>4. ProcFindsNothing \/ ProcStops \/ ProcReaps \/ ProcVerifies \/ ProcStopped \/ ProcReaped
        => /\ UNCHANGED <<taken, hand>> /\ Begun' = Begun /\ InHand' = InHand
           /\ ActiveCount' = ActiveCount
  BY DEF ProcFindsNothing, ProcStops, ProcReaps, ProcVerifies, ProcStopped, ProcReaped, feeding,
         tasks, Begun, InHand, ActiveCount, Live
<1>5. CASE ProcStops
  <2>1. /\ pc["proc"] = "top" /\ lock = <<>> /\ ~paused /\ ShouldPause
        /\ pc' = [pc EXCEPT !["proc"] = "stopping"] /\ lock' = Append(lock, "proc") /\ loop' = "proc"
        /\ UNCHANGED <<paused, goal>>
    <3>1. pc["proc"] = "top" /\ Runs("proc")
      BY <1>5 DEF ProcStops
    <3>2. lock = <<>>
      BY <1>0, <3>1, EarlyLock DEF LockPlaces
    <3> QED
      BY <1>5, <3>1, <3>2 DEF ProcStops, Ask, Early, reaping, flags
  <2>2. ActiveCount > 0
    <3>1. CountInv /\ ~Updating /\ Sentinel \notin Range(queue) /\ taken < DONE
      BY <1>0, <1>2, <2>1, ClosingEnds DEF SyncInv, LastInv, Updating, DrainInv
    <3>2. Begun # {}
      <4>1. CASE staleness_samples >= MaxRequired
        <5>1. taken = staleness_samples + Base /\ taken \in Nat
          BY <1>0, <3>1 DEF CountInv
        <5>2. taken >= 1
          BY <1>0, <4>1, <5>1, BaseType
        <5>3. 1 \in Begun
          BY <1>0, <3>1, <5>2 DEF Begun
        <5> QED
          BY <5>3
      <4>2. CASE Len(queue) >= MaxRequired
        <5>1. queue # <<>>
          BY <1>0, <4>2, EmptySeq
        <5>2. Head(queue) \in InQueue
          BY <1>0, <3>1, <5>1, HeadElem, QueueRange
        <5> QED
          BY <5>2 DEF PlaceInv
      <4> QED
        BY <2>1, <4>1, <4>2 DEF ShouldPause
    <3>3. InHand = {}
      BY <1>0, <2>1 DEF HandInv, WithSample, InHand
    <3> QED
      BY <3>2, <3>3 DEF Early
  <2>3. Len(lock') = 1 /\ Head(lock') = "proc"
    BY <1>0, <2>1, OneInLine
  <2>4. Early'
    BY <1>0, <1>1, <1>2, <1>4, <1>5, <2>1, <2>2, <2>3 DEF Early
  <2> QED
    BY <2>4 DEF FirstInv
<1>6. CASE ProcStopped
  <2>1. /\ pc["proc"] = "stopping" /\ paused' = TRUE /\ goal' = "pause" /\ lock' = Tail(lock)
        /\ Tail(lock) = <<>>
        /\ pc' = [pc EXCEPT !["proc"] = "reaping"] /\ loop' = "proc"
    BY <1>0, <1>6, EarlyGrant DEF ProcStopped, Release, GoOn, Granted
  <2>2. Early'
    BY <1>0, <1>1, <1>2, <1>4, <1>6, <2>1 DEF Early
  <2> QED
    BY <2>2 DEF FirstInv
<1>7. CASE ProcFindsNothing
  <2>1. /\ pc["proc"] = "top" /\ lock' = lock
        /\ pc' = [pc EXCEPT !["proc"] = "getting"] /\ lock = <<>> /\ UNCHANGED <<paused, goal>>
    BY <1>0, <1>7, EarlyLock DEF ProcFindsNothing, Suspend, reaping, flags, LockPlaces
  <2>2. Early'
    BY <1>0, <1>1, <1>2, <1>4, <1>7, <2>1 DEF Early
  <2> QED
    BY <2>2 DEF FirstInv
<1>8. CASE ProcTakes
  <2>1. /\ pc["proc"] \in {"top", "getting"} /\ lock' = lock /\ lock = <<>>
        /\ pc' = [pc EXCEPT !["proc"] = "reaping"] /\ loop' = "proc" /\ paused' = paused
        /\ taken' = taken + 1 /\ taken < DONE /\ goal' # "pause"
        /\ hand' = IF taken' = DONE THEN Nothing ELSE taken'
        /\ UNCHANGED <<task, finished, failed>>
    <3>1. pc["proc"] \in {"top", "getting"} /\ Runs("proc")
      BY <1>8 DEF ProcTakes
    <3>2. lock = <<>>
      BY <1>0, <3>1, EarlyLock DEF LockPlaces
    <3> QED
      BY <1>0, <1>8, <3>1, <3>2 DEF ProcTakes, GoOn, flags, tasks
  <2>2. ActiveCount' = ActiveCount
    BY <2>1 DEF ActiveCount, Live
  <2>3. Begun' # InHand' => ActiveCount > 0
    <3>1. CASE taken = 0
      BY <1>0, <2>1, <3>1 DEF Begun, InHand, Nothing
    <3>2. CASE taken > 0
      <4>1. 1 \in Begun
        BY <1>0, <2>1, <3>2 DEF Begun
      <4>2. InHand = {}
        BY <1>0, <2>1 DEF HandInv, WithSample, InHand
      <4> QED
        BY <4>1, <4>2 DEF Early
    <3> QED
      BY <1>0, <3>1, <3>2
  <2>4. Early'
    BY <1>0, <1>1, <1>2, <2>1, <2>2, <2>3 DEF Early
  <2> QED
    BY <2>4 DEF FirstInv
<1>9. CASE ProcReaps
  <2>1. /\ pc["proc"] = "reaping" /\ ActiveCount > 0 /\ lock = <<>>
        /\ lock' = Append(lock, "proc") /\ loop' = "proc"
        /\ pc' = [pc EXCEPT !["proc"] = "verifying"] /\ UNCHANGED <<paused, goal>>
    <3>1. pc["proc"] = "reaping" /\ Runs("proc") /\ MustReap
      BY <1>9 DEF ProcReaps
    <3>2. lock = <<>>
      BY <1>0, <3>1, EarlyLock DEF LockPlaces
    <3> QED
      BY <1>0, <1>9, <3>1, <3>2 DEF ProcReaps, MustReap, Ask, reaping, flags
  <2>2. Len(lock') = 1 /\ Head(lock') = "proc"
    BY <1>0, <2>1, OneInLine
  <2>3. Early'
    BY <1>0, <1>1, <1>2, <1>4, <1>9, <2>1, <2>2 DEF Early
  <2> QED
    BY <2>3 DEF FirstInv
<1>10. CASE ProcVerifies
  <2>1. ActiveCount > 0
    BY <1>10 DEF ProcVerifies, Granted, Early
  <2>2. /\ pc["proc"] = "verifying" /\ pc' = [pc EXCEPT !["proc"] = "awaiting"]
        /\ UNCHANGED <<paused, goal>>
    BY <1>0, <1>10, <2>1 DEF ProcVerifies, Granted, Suspend, reaping, flags
  <2>3. Early'
    BY <1>0, <1>1, <1>2, <1>4, <1>10, <2>1, <2>2 DEF Early
  <2> QED
    BY <2>3 DEF FirstInv
<1>11. CASE ProcAwaited
  BY <1>11 DEF ProcAwaited, FirstInv
<1>12. CASE ProcReaped
  <2>1. /\ pc["proc"] = "reaping" /\ Runs("proc") /\ ~MustReap /\ UNCHANGED <<paused, goal>>
    BY <1>12 DEF ProcReaped, reaping, flags
  <2>2. goal # "pause"
    BY <1>0, <2>1 DEF MustReap, Early
  <2>3. lock = <<>>
    BY <1>0, <2>1, EarlyLock DEF LockPlaces
  <2>4. CASE goal = "limit"
    <3>1. /\ pc' = [pc EXCEPT !["proc"] = "submitting"] /\ lock' = Append(lock, "proc")
          /\ loop' = "proc"
      BY <1>12, <2>3, <2>4 DEF ProcReaped, Ask
    <3>2. Len(lock') = 1 /\ Head(lock') = "proc"
      BY <1>0, <2>3, <3>1, OneInLine
    <3>3. Early'
      BY <1>0, <1>1, <1>2, <1>4, <1>12, <2>1, <2>2, <3>1, <3>2 DEF Early
    <3> QED
      BY <3>3 DEF FirstInv
  <2>5. CASE goal = "done"
    BY <1>0, <1>12, <2>5 DEF ProcReaped, Suspend, FirstInv
  <2> QED
    BY <1>0, <2>2, <2>4, <2>5 DEF TypeInv, TaskType
<1>13. CASE ProcSubmits
  <2>1. /\ pc["proc"] = "submitting" /\ lock' = Tail(lock) /\ Tail(lock) = <<>>
        /\ pc' = [pc EXCEPT !["proc"] = "top"] /\ loop' = "proc" /\ UNCHANGED <<paused, goal, taken>>
        /\ ~paused
    BY <1>0, <1>13, EarlyGrant DEF ProcSubmits, Release, GoOn, Granted, reaping, flags
  <2>2. ActiveCount' > 0
    <3>1. RollouterNext
      BY <1>13 DEF RollouterNext, Processor
    <3>2. Live' = Live \cup {hand}
      BY <1>0, <1>13, <3>1, CountMoves
    <3> QED
      BY <3>2, IdleAfter
  <2>3. Early'
    BY <1>0, <1>1, <1>2, <2>1, <2>2 DEF Early
  <2> QED
    BY <2>3 DEF FirstInv
<1>14. ~ProcTakesCancelled /\ ~ProcSleeps /\ ~ProcWakes /\ ~ProcResumes
  BY <1>3 DEF ProcTakesCancelled, ProcSleeps, ProcWakes, ProcResumes, Granted, Early
<1> QED
  BY <1>5, <1>6, <1>7, <1>8, <1>9, <1>10, <1>11, <1>12, <1>13, <1>14 DEF Processor

\* pause finds the processor waiting for tasks: all that was begun is trained, but its tasks are
\* not yet reaped.
LEMMA PauseFinds ==
  ASSUME Constants, WorkInv, PlaceInv, AgeInv, SyncInv, Early, pc["proc"] \notin {"ended", "crashed"},
         calls["pause"] = "called", loop = "idle"
  PROVE  pc["proc"] = "awaiting"
<1>0. /\ TypeInv /\ ControlInv /\ DrainInv /\ HandInv /\ Uninterrupted /\ VersionInv
      /\ lock \in Seq(Coroutines) /\ "proc" \in Coroutines /\ pc["proc"] \in ProcPlaces
  BY TheCoroutines DEF WorkInv, ControlInv, SyncInv, AgeInv, TypeInv, LockType, PcType
<1>1. trainer = "pausing" /\ Exchanging /\ ~closing
  BY <1>0, ClosingEnds DEF ControlInv, CallInv, Exchanging
<1>2. CountInv /\ QuietInv /\ ~Updating
  BY <1>1 DEF SyncInv, LastInv, Updating, Early
<1>3. /\ InHand = {} /\ staleness_samples = MaxRequired /\ taken = Base + MaxRequired
      /\ taken < DONE
  BY <1>0, <1>1, <1>2, AllTrained
<1>4. taken > 0
  BY <1>0, <1>3, BaseType
<1>5. Begun # {}
  BY <1>3, <1>4 DEF Begun
<1>6. ActiveCount > 0
  BY <1>3, <1>5 DEF Early
<1>7. "idle" \notin Coroutines /\ \A c \in Coroutines : c # "idle"
  BY DEF Coroutines, Methods
<1>8. pc["proc"] \in LockPlaces => pc["proc"] = "awaiting"
  <2>1. pc["proc"] \in LockPlaces => lock # <<>> /\ Head(lock) \in Coroutines
    BY <1>0, RangeType, HeadElem DEF ControlInv, LockInv
  <2> QED
    BY <1>7, <2>1 DEF Early
<1>9. pc["proc"] \notin {"top", "reaping", "getting", "asleep", "woken"}
  BY <1>0, <1>2, <1>3, <1>4, <1>7, BaseType DEF Early, CountInv
<1> QED
  BY <1>0, <1>8, <1>9 DEF ProcPlaces, LockPlaces

LEMMA EarlyByOthers ==
  ASSUME Constants, WorkInv, PlaceInv, AgeInv, SyncInv, Early,
         pc["proc"] \notin {"ended", "crashed"}, Feed \/ Main \/ Monitor \/ Synchronisation,
         UNCHANGED trainerVars
  PROVE  Early'
<1> USE TheCoroutines
<1>0. /\ DOMAIN pc = Coroutines /\ DrainInv /\ TypeInv /\ ControlInv /\ CallInv /\ PcType
      /\ lock \in Seq(Coroutines) /\ "monitor" \in Coroutines /\ "pause" \in Coroutines
      /\ pc["main"] = "watching" /\ trainer' = trainer
      /\ calls \in [Methods -> {"called", "running", "returned"}]
  <2>1. TypeInv /\ ControlInv /\ CallInv /\ DrainInv
    BY DEF WorkInv, ControlInv, SyncInv
  <2> QED
    BY <2>1 DEF TypeInv, PcType, LockType, DrainInv, ChannelType, trainerVars
<1>1. /\ UNCHANGED <<taken, hand, goal, done_bound>>
      /\ pc'["proc"] = pc["proc"]
  BY <1>0, OthersAlone DEF Early
<1>2. /\ pc["pause"] = "none" \/ pc["proc"] = "awaiting"
      /\ pc["update"] = "none" /\ pc["resume"] = "none"
  BY <1>0 DEF Early, CallInv, Methods
<1>3. pc["proc"] = "awaiting" => \A c \in Coroutines : \A at : Granted(c, at) => c = "proc"
  BY <1>0, OneHolder DEF HeldPlaces
<1>4. Begun' = Begun /\ InHand' = InHand
  BY <1>1 DEF Begun, InHand
<1>5. pc["pause"] # "none" => pc["pause"] = "pausing"
  <2>1. pc["pause"] \in HeldPlaces => Head(lock) = "pause" /\ pc["proc"] = "awaiting"
    BY <1>0, <1>2 DEF ControlInv, LockInv, HeldPlaces
  <2>2. pc["proc"] = "awaiting" => Head(lock) = "proc"
    BY <1>0 DEF ControlInv, LockInv, HeldPlaces
  <2> QED
    BY <1>0, <2>1, <2>2 DEF PcType, HeldPlaces
<1>6. CASE Feed
  <2>1. UNCHANGED <<pc, lock, loop, calls, paused, task, finished, failed>>
    BY <1>6 DEF Feed, control, channels, flags, tasks
  <2>2. Gathered' = Gathered /\ ActiveCount' = ActiveCount
    BY <1>0, <2>1 DEF Gathered, ActiveCount, Live
  <2> QED
    BY <1>0, <1>1, <1>4, <2>1, <2>2 DEF Early
<1>7. CASE Main
  BY <1>0, <1>7 DEF Main, MainFinishes, QueuePutsSentinel, MainCloses, MainEnds, Granted
<1>8. CASE Monitor
  <2>1. UNCHANGED <<calls, task, finished, failed>> /\ (paused' => paused)
    BY <1>8 DEF Monitor, MonitorLooks, MonitorDecides, MonitorUnpauses, channels, flags, tasks
  <2>2. pc'["pause"] = pc["pause"]
    BY <1>0, <1>8, PcMoves, Notification
  <2>3. Gathered' = Gathered /\ ActiveCount' = ActiveCount
    BY <1>0, <2>1, <2>2 DEF Gathered, ActiveCount, Live
  <2>4. /\ lock' = <<>> \/ (Len(lock') = 1 /\ loop' = Head(lock')) \/ pc["proc"] = "awaiting"
        /\ pc["proc"] = "top" => taken = 0
        /\ pc["proc"] # "reaping"
    <3>1. loop # "proc"
      BY <1>8 DEF Monitor, MonitorLooks, MonitorDecides, MonitorUnpauses, Granted, Runs
    <3>2. pc["proc"] = "awaiting" \/ lock' = <<>> \/ (Len(lock') = 1 /\ loop' = Head(lock'))
      <4>1. CASE MonitorDecides
        <5>1. loop = "idle" /\ lock' = Append(lock, "monitor")
              /\ (lock = <<>> => loop' = "monitor")
          BY <4>1 DEF MonitorDecides, Ask
        <5>2. pc["proc"] = "awaiting" \/ lock = <<>>
          <6>1. lock # <<>> => Head(lock) # "idle"
            BY <1>0, HeadElem, RangeType DEF Coroutines, Methods
          <6> QED
            BY <5>1, <6>1 DEF Early
        <5> QED
          BY <1>0, <5>1, <5>2, OneInLine
      <4>2. CASE MonitorLooks
        BY <1>0, <4>2, EarlyGrant DEF MonitorLooks, Release
      <4>3. CASE MonitorUnpauses
        <5>1. /\ Granted("monitor", "unpausing") /\ lock' = Append(Tail(lock), "monitor")
              /\ (Tail(lock) = <<>> => loop' = "monitor")
          BY <4>3 DEF MonitorUnpauses
        <5>2. Tail(lock) = <<>>
          BY <1>0, <5>1, EarlyGrant
        <5> QED
          BY <1>0, <5>1, <5>2, OneInLine
      <4> QED
        BY <1>8, <4>1, <4>2, <4>3 DEF Monitor
    <3> QED
      BY <3>1, <3>2 DEF Early
  <2> QED
    BY <1>0, <1>1, <1>4, <2>1, <2>3, <2>4 DEF Early
<1>9. CASE Synchronisation
  <2>1. CallArrives("pause", "pausing")
    <3>1. ~PauseLocked
      BY <1>0, <1>2, <1>3 DEF PauseLocked, Granted
    <3>2. ~ServersCancel /\ ~PauseGathered /\ ~PauseReturns
      BY <1>5 DEF ServersCancel, PauseGathered, PauseReturns, Granted
    <3>3. ~CallArrives("update", "updating") /\ ~ResumeArrives
      BY DEF CallArrives, ResumeArrives, Early
    <3>4. ~UpdateLocked /\ ~QueueSizeRead /\ ~UpdateCounted /\ ~UpdateReturns
      BY <1>2 DEF UpdateLocked, QueueSizeRead, UpdateCounted, UpdateReturns, Granted
    <3>5. ~ResumeLocked /\ ~ResumeReturns
      BY <1>2 DEF ResumeLocked, ResumeReturns, Granted
    <3> QED
      BY <1>9, <3>1, <3>2, <3>3, <3>4, <3>5 DEF Synchronisation
  <2>2. /\ calls["pause"] = "called" /\ loop = "idle" /\ calls' = [calls EXCEPT !["pause"] = "running"]
        /\ pc' = [pc EXCEPT !["pause"] = "pausing"] /\ UNCHANGED <<task, finished, failed, paused>>
    BY <2>1 DEF CallArrives, Ask, tasks, flags
  <2>3. pc["proc"] = "awaiting"
    BY <2>2, PauseFinds
  <2>4. ~Gathered' /\ ActiveCount' = ActiveCount
    BY <1>0, <2>2 DEF Gathered, ActiveCount, Live, Early, Methods
  <2> QED
    BY <1>0, <1>1, <1>4, <2>2, <2>3, <2>4 DEF Early, Methods
<1> QED
  BY <1>6, <1>7, <1>8, <1>9

LEMMA FirstStep ==
  ASSUME Constants, WorkInv, PlaceInv, AgeInv, SyncInv, TypeInv', Next
  PROVE  FirstInv'
<1>0. FirstInv /\ TypeInv /\ ControlInv /\ HandInv
  BY DEF SyncInv, WorkInv, ControlInv
<1>1. CASE done_bound \/ pc["proc"] \in {"ended", "crashed"}
  <2>1. CASE TrainerNext /\ UNCHANGED rollouterVars
    BY <1>1, <2>1 DEF FirstInv, rollouterVars, reaping, control
  <2>2. CASE Processor
    <3>1. pc["proc"] \notin {"ended", "crashed"}
      BY <2>2 DEF Processor, ProcStops, ProcStopped, ProcTakesCancelled, ProcFindsNothing,
         ProcTakes, ProcReaps, ProcVerifies, ProcAwaited, ProcReaped, ProcSleeps, ProcWakes,
         ProcResumes, ProcSubmits, Granted
    <3>2. RollouterNext
      BY <2>2 DEF RollouterNext
    <3>3. done_bound' = done_bound \/ ProcAwaited
      BY <1>0, <3>2, RollouterKeeps DEF TypeInv
    <3> QED
      BY <1>1, <3>1, <3>3 DEF FirstInv, ProcAwaited
  <2>3. CASE Feed \/ Main \/ Monitor \/ Synchronisation \/ \E s \in Samples : TaskStep(s) \/ TaskReturns(s)
    BY <1>0, <1>1, <2>3, OthersAlone DEF FirstInv
  <2> QED
    BY <2>1, <2>2, <2>3 DEF Next, RollouterNext
<1>2. CASE Early /\ pc["proc"] \notin {"ended", "crashed"}
  <2>1. CASE RollouterNext /\ UNCHANGED trainerVars
    <3>1. CASE Processor
      BY <1>2, <2>1, <3>1, EarlyByProcessor
    <3>2. CASE Feed \/ Main \/ Monitor \/ Synchronisation
      BY <1>2, <2>1, <3>2, EarlyByOthers DEF FirstInv
    <3>3. ASSUME NEW s \in Samples, TaskStep(s) \/ TaskReturns(s) PROVE FirstInv'
      <4>1. /\ UNCHANGED <<taken, hand, pc, lock, loop, goal, paused, calls, trainer>>
        BY <2>1, <3>3 DEF TaskStep, TaskReturns, feeding, control, reaping, flags, channels,
           trainerVars
      <4>2. ActiveCount' = ActiveCount
        BY <1>0, <2>1, <3>3, CountMoves
      <4>3. Begun' = Begun /\ InHand' = InHand /\ Gathered' = Gathered
        BY <4>1 DEF Begun, InHand, Gathered
      <4> QED
        BY <1>2, <4>1, <4>2, <4>3 DEF FirstInv, Early
    <3> QED
      BY <2>1, <3>1, <3>2, <3>3 DEF RollouterNext
  <2>2. CASE TrainerNext /\ UNCHANGED rollouterVars
    <3>1. UNCHANGED <<taken, hand, pc, lock, loop, goal, paused, task, finished, failed>>
      BY <2>2 DEF rollouterVars, feeding, control, reaping, flags, tasks
    <3>2. Begun' = Begun /\ InHand' = InHand /\ ActiveCount' = ActiveCount
      BY <3>1 DEF Begun, InHand, ActiveCount, Live
    <3>3. /\ calls'["update"] = calls["update"] /\ calls'["resume"] = calls["resume"]
          /\ calls'["pause"] = "running" => calls["pause"] = "running"
          /\ ~Gathered'
      <4>1. ~RolloutPaused /\ ~WeightsTransferred /\ trainer # "transferring"
        BY <1>2 DEF RolloutPaused, WeightsTransferred, Gathered, Early
      <4>2. calls \in [Methods -> {"called", "running", "returned"}]
        BY <1>0 DEF TypeInv, ChannelType
      <4>3. CASE SyncWeights
        BY <1>2, <3>1, <4>2, <4>3 DEF SyncWeights, Gathered, Early, Methods
      <4>4. CASE ~SyncWeights
        BY <1>2, <2>2, <3>1, <4>1, <4>2, <4>4 DEF TrainerNext, Collect, Terminate, Train, LastSync,
           OwnValidation, Finish, channels, Gathered, Early
      <4> QED
        BY <4>3, <4>4
    <3> QED
      BY <1>2, <3>1, <3>2, <3>3 DEF FirstInv, Early
  <2> QED
    BY <2>1, <2>2 DEF Next
<1> QED
  BY <1>0, <1>1, <1>2 DEF FirstInv

\* update_param_version comes to set staleness_samples, and does not go back.
LEMMA UpdatingMoves ==
  ASSUME ControlInv, RollouterNext
  PROVE  /\ Updating' => Updating
         /\ Updating => Updating' \/ UpdateCounted
         /\ UpdateCounted => Updating /\ ~Updating'
         /\ pc'["update"] \in {"counting", "counted"}
              => pc["update"] \in {"counting", "counted"} \/ UpdateLocked
<1> USE TheCoroutines, Notification DEF ControlInv, TypeInv, PcType, CallInv
<1>0. calls \in [Methods -> {"called", "running", "returned"}] /\ "update" \in Methods
  BY DEF ChannelType, Methods
<1>1. CASE Feed \/ \E s \in Samples : TaskStep(s) \/ TaskReturns(s)
  <2>1. UNCHANGED <<calls, pc>> /\ ~UpdateCounted
    BY <1>1 DEF Feed, TaskStep, TaskReturns, control, channels, UpdateCounted, Suspend
  <2> QED
    BY <2>1 DEF Updating
<1>2. CASE Processor \/ Main \/ Monitor
  <2>1. pc'["update"] = pc["update"]
    BY <1>2, PcMoves
  <2>2. calls' = calls
    BY <1>2 DEF Processor, ProcStops, ProcStopped, ProcTakesCancelled, ProcFindsNothing, ProcTakes,
         ProcReaps, ProcVerifies, ProcAwaited, ProcReaped, ProcSleeps, ProcWakes, ProcResumes,
         ProcSubmits, Main, MainFinishes, QueuePutsSentinel, MainCloses, MainEnds, Monitor,
         MonitorLooks, MonitorDecides, MonitorUnpauses, channels
  <2>3. ~UpdateCounted
    BY <2>1 DEF UpdateCounted, Suspend
  <2> QED
    BY <2>1, <2>2, <2>3 DEF Updating
<1>3. CASE Synchronisation
  <2>1. CASE UpdateCounted
    BY <1>0, <2>1 DEF UpdateCounted, Suspend, Updating, channels
  <2>2. CASE UpdateReturns
    BY <1>0, <2>2 DEF UpdateReturns, Granted, Suspend, CallReturns, Updating, UpdateCounted, channels
  <2>3. CASE UpdateLocked
    BY <1>0, <2>3 DEF UpdateLocked, Granted, Suspend, Updating, UpdateCounted, channels
  <2>4. CASE QueueSizeRead
    BY <1>0, <2>4 DEF QueueSizeRead, Updating, UpdateCounted, Suspend, channels
  <2>5. CASE CallArrives("update", "updating")
    BY <1>0, <2>5 DEF CallArrives, Ask, Updating, UpdateCounted, Suspend, channels
  <2>6. CASE CallArrives("pause", "pausing") \/ PauseLocked \/ ServersCancel \/ PauseGathered
             \/ PauseReturns \/ ResumeArrives \/ ResumeLocked \/ ResumeReturns
    <3>1. pc'["update"] = pc["update"] /\ calls'["update"] = calls["update"]
      BY <1>0, <2>6 DEF CallArrives, Ask, PauseLocked, ServersCancel, PauseGathered, PauseReturns,
           ResumeArrives, ResumeLocked, ResumeReturns, Suspend, GoOn, CallReturns, Methods, channels
    <3>2. ~UpdateCounted
      BY <3>1 DEF UpdateCounted, Suspend
    <3> QED
      BY <3>1, <3>2 DEF Updating
  <2> QED
    BY <1>3, <2>1, <2>2, <2>3, <2>4, <2>5, <2>6 DEF Synchronisation
<1> QED
  BY <1>1, <1>2, <1>3 DEF RollouterNext

LEMMA QuietByRollouter ==
  ASSUME Constants, WorkInv, PlaceInv, AgeInv, SyncInv, TypeInv', CountInv, QuietInv, Updating,
         RollouterNext, UNCHANGED trainerVars
  PROVE  /\ QuietInv' /\ ~ProcTakes /\ ActiveCount' = 0
         /\ UpdateCounted => staleness_samples' = 0
<1> USE TheCoroutines
<1>0. /\ TypeInv /\ ControlInv /\ DrainInv /\ HandInv /\ Uninterrupted /\ VersionInv
      /\ DOMAIN pc = Coroutines /\ pc["proc"] \in ProcPlaces /\ PcType
      /\ MaxConcurrent \in Nat \ {0}
  BY DEF WorkInv, ControlInv, SyncInv, AgeInv, TypeInv, PcType, Constants, RollouterConstants,
         ChannelConstants
<1>1. /\ staleness_samples = MaxRequired /\ taken = Base
      /\ trainer = "collecting" /\ batch = {} /\ local_trigger_step = 1
      /\ ActiveCount = 0 /\ queue = <<>> /\ hand = Nothing
      /\ pc["proc"] \notin {"ended", "crashed"}
      /\ pc["update"] \in {"counting", "counted"} => tally = 0
  BY DEF QuietInv
<1>2. taken < DONE /\ goal # "done"
  BY <1>0, AllTrained, BaseType DEF DrainInv
<1>3. \A s \in Samples : task[s] = "none"
  BY <1>0, <1>1, Idle DEF Live
<1>4. ~(\E s \in Samples : TaskStep(s) \/ TaskReturns(s))
  BY <1>3 DEF TaskStep, TaskReturns, TaskStarts, Answered, TaskFails, TaskPuts, QueuePuts, TaskEnds,
              TaskMoves
<1>5. ~ProcTakes /\ ~ProcTakesCancelled
  <2>1. staleness_samples >= MaxRequired
    BY <1>0, <1>1, BaseType
  <2>2. ShouldPause /\ pc["proc"] # "getting"
    BY <1>0, <1>1, <2>1, BaseType DEF ShouldPause, CountInv
  <2> QED
    BY <2>2 DEF ProcTakes, ProcTakesCancelled
<1>6. ~ProcSubmits
  BY <1>0, <1>1 DEF ProcSubmits, Granted, HandInv, WithSample
<1>7. ~QueuePutsSentinel
  BY <1>0, <1>1 DEF QueuePutsSentinel, DrainInv
<1>8. ActiveCount' = 0
  <2>1. ActiveCount' <= ActiveCount
    BY <1>0, <1>1, <1>4, <1>6, CountMoves, Idle DEF WorkInv
  <2> QED
    BY <1>1, <2>1, IdleAfter
<1>9. UNCHANGED <<trainer, batch, local_trigger_step>> /\ weights' = weights /\ Base' = Base
  BY <1>0, UpdateMoves DEF trainerVars, Base
<1>10. /\ taken' = taken /\ hand' = hand /\ queue' = queue
  <2>1. taken' = taken
    BY <1>0, <1>5, RollouterKeeps
  <2>2. hand' = hand /\ queue' = queue
    BY <1>4, <1>5, <1>6, <1>7 DEF RollouterNext, Feed, Processor, ProcStops, ProcStopped,
         ProcFindsNothing, ProcReaps, ProcVerifies, ProcAwaited, ProcReaped, ProcSleeps, ProcWakes,
         ProcResumes, Main, MainFinishes, MainCloses, MainEnds, Monitor, MonitorLooks,
         MonitorDecides, MonitorUnpauses, Synchronisation, CallArrives, PauseLocked, ServersCancel,
         PauseGathered, PauseReturns, UpdateLocked, QueueSizeRead, UpdateCounted, UpdateReturns,
         ResumeArrives, ResumeLocked, ResumeReturns, feeding, channels
  <2> QED
    BY <2>1, <2>2
<1>11. pc'["proc"] \notin {"ended", "crashed"}
  <2>1. CASE ~Processor
    BY <1>0, <1>1, <2>1, ProcessorAlone
  <2>2. CASE ProcVerifies
    BY <1>0, <2>2, NoCrash DEF ProcVerifies, Suspend, GoOn
  <2>3. CASE ProcReaped
    BY <1>0, <1>2, <2>3 DEF ProcReaped, Ask, TypeInv, TaskType
  <2>4. CASE Processor /\ ~ProcVerifies /\ ~ProcReaped
    <3>1. ~ProcAwaited
      BY <1>0, <1>1, Idle DEF ProcAwaited
    <3> QED
      BY <1>0, <1>5, <1>6, <2>4, <3>1 DEF Processor, ProcStops, ProcStopped, ProcFindsNothing,
         ProcReaps, ProcSleeps, ProcWakes, ProcResumes, Ask, GoOn, Suspend
  <2> QED
    BY <2>1, <2>2, <2>3, <2>4
<1>12. pc'["update"] \in {"counting", "counted"} => tally' = 0
  <2>1. CASE UpdateLocked
    <3>1. Len(cancel_queue) = 0
      BY <1>0, EmptySeq DEF Uninterrupted
    <3> QED
      BY <1>1, <2>1, <3>1 DEF UpdateLocked
  <2>2. CASE QueueSizeRead
    <3>1. Len(queue) = 0
      BY <1>1, EmptySeq
    <3> QED
      BY <1>1, <2>2, <3>1 DEF QueueSizeRead
  <2>3. CASE UpdateCounted
    BY <2>3 DEF UpdateCounted
  <2>4. CASE ~UpdateLocked /\ ~QueueSizeRead /\ ~UpdateCounted
    <3>1. tally' = tally
      <4>1. CASE Synchronisation
        BY <2>4, <4>1 DEF Synchronisation, CallArrives, PauseLocked, ServersCancel, PauseGathered,
           PauseReturns, UpdateReturns, ResumeArrives, ResumeLocked, ResumeReturns, tracking
      <4> QED
        BY <1>0, <4>1, RollouterKeeps
    <3> QED
      BY <1>0, <1>1, <2>4, <3>1, UpdatingMoves
  <2> QED
    BY <2>1, <2>2, <2>3, <2>4
<1>13. CASE UpdateCounted
  <2>1. staleness_samples' = 0
    BY <1>1, <1>13 DEF UpdateCounted
  <2>2. ~Updating'
    BY <1>0, <1>13, UpdatingMoves
  <2> QED
    BY <1>5, <1>8, <2>1, <2>2 DEF QuietInv
<1>14. CASE ~UpdateCounted
  <2>1. staleness_samples' = staleness_samples
    BY <1>0, <1>5, <1>14, RollouterKeeps
  <2> QED
    BY <1>1, <1>5, <1>8, <1>9, <1>10, <1>11, <1>12, <1>14, <2>1 DEF QuietInv
<1> QED
  BY <1>13, <1>14

\* The processor begins a sample only where the version still may use one.
LEMMA TakesByRollouter ==
  ASSUME Constants, WorkInv, PlaceInv, AgeInv, SyncInv, TypeInv', CountInv, QuietInv,
         RollouterNext, UNCHANGED trainerVars
  PROVE  /\ QuietInv' /\ Base' = Base /\ weights' = weights
         /\ staleness_samples' <= MaxRequired
         /\ ~Updating' => taken' = staleness_samples' + Base
         /\ pc'["proc"] = "getting" => staleness_samples' < MaxRequired
<1> USE TheCoroutines
<1>0. /\ TypeInv /\ ControlInv /\ PcType /\ DOMAIN pc = Coroutines
      /\ MaxRequired \in Nat \ {0} /\ staleness_samples \in Nat /\ Base \in Nat /\ taken \in Nat
  BY BaseType DEF WorkInv, ControlInv, TypeInv, PcType
<1>1. Base' = Base /\ weights' = weights
  BY <1>0, UpdateMoves DEF Base
<1>2. /\ staleness_samples <= MaxRequired
      /\ ~Updating => taken = staleness_samples + Base
      /\ pc["proc"] = "getting" => staleness_samples < MaxRequired
  BY DEF CountInv
<1>3. ProcFindsNothing \/ ProcTakes => staleness_samples < MaxRequired
  BY <1>0, <1>2 DEF ProcFindsNothing, ProcTakes, ShouldPause
<1>4. pc'["proc"] = "getting" => pc["proc"] = "getting" \/ ProcFindsNothing
  <2>1. CASE ~Processor
    BY <1>0, <2>1, ProcessorAlone
  <2>2. CASE Processor
    BY <1>0, <2>2 DEF Processor, ProcStops, ProcStopped, ProcTakesCancelled, ProcTakes, ProcReaps,
       ProcVerifies, ProcAwaited, ProcReaped, ProcSleeps, ProcWakes, ProcResumes, ProcSubmits, Ask,
       GoOn, Suspend
  <2> QED
    BY <2>1, <2>2
<1>5. CASE Updating
  <2>1. /\ QuietInv' /\ ~ProcTakes /\ (UpdateCounted => staleness_samples' = 0)
        /\ staleness_samples = MaxRequired /\ taken = Base
    BY <1>5, QuietByRollouter DEF QuietInv
  <2>2. taken' = taken /\ (staleness_samples' = staleness_samples \/ UpdateCounted)
    BY <1>0, <2>1, RollouterKeeps
  <2>3. ~Updating' => UpdateCounted
    BY <1>0, <1>5, UpdatingMoves
  <2>4. pc'["proc"] # "getting"
    BY <1>0, <1>2, <1>3, <1>4, <2>1
  <2> QED
    BY <1>0, <1>1, <2>1, <2>2, <2>3, <2>4
<1>6. CASE ~Updating
  <2>1. ~Updating' /\ ~UpdateCounted /\ QuietInv'
    BY <1>0, <1>6, UpdatingMoves DEF QuietInv
  <2>2. CASE ProcTakes
    <3>1. taken' = taken + 1 /\ staleness_samples' = staleness_samples + 1
          /\ pc'["proc"] # "getting"
      BY <1>0, <2>2 DEF ProcTakes, GoOn
    <3> QED
      BY <1>0, <1>1, <1>2, <1>3, <1>6, <2>1, <2>2, <3>1
  <2>3. CASE ~ProcTakes
    <3>1. taken' = taken /\ staleness_samples' = staleness_samples
      BY <1>0, <2>1, <2>3, RollouterKeeps
    <3> QED
      BY <1>0, <1>1, <1>2, <1>3, <1>4, <1>6, <2>1, <3>1
  <2> QED
    BY <2>2, <2>3
<1> QED
  BY <1>5, <1>6

\* What is generated is generated with the weights of the version.
LEMMA StampsByRollouter ==
  ASSUME Constants, WorkInv, PlaceInv, AgeInv, TypeInv', CountInv, QuietInv,
         RollouterNext, UNCHANGED trainerVars, NEW s \in Samples
  PROVE  /\ s <= Base => s \in trained /\ stamp'[s] < weights
         /\ Started(s)' \/ s \in InQueue' => stamp'[s] = weights
<1>0. TypeInv /\ queue \in Seq(0 .. Total) /\ Len(queue) <= MaxRequired
  BY DEF WorkInv, ControlInv, AgeInv, QueueInv, TypeInv, ChannelType
<1>1. /\ s <= Base => s \in trained /\ stamp[s] < weights
      /\ Started(s) \/ s \in InQueue => stamp[s] = weights
  BY DEF CountInv
<1>2. s <= Base => stamp'[s] = stamp[s]
  <2>1. task[s] = "created" => s \in AtTask
    BY DEF AtTask
  <2>2. AtTask \cap trained = {}
    BY DEF PlaceInv, Apart
  <2> QED
    BY <1>1, <2>1, <2>2, StampMoves
<1>3. CASE TaskStarts(s)
  <2>1. ActiveCount > 0
    BY <1>0, <1>3, Idle DEF TaskStarts, TaskMoves
  <2>2. ~Updating
    BY <1>0, <2>1, Idle DEF QuietInv
  <2>3. current_param_version = weights
    BY <2>2 DEF Updating, AgeInv, VersionInv, WorkInv, ControlInv, TypeInv, PcType, CallInv, Methods
  <2>4. stamp'[s] = current_param_version
    BY <1>0, <1>3 DEF TaskStarts, TypeInv, TaskType
  <2> QED
    BY <1>1, <1>2, <2>3, <2>4
<1>4. CASE ~TaskStarts(s)
  <2>1. stamp'[s] = stamp[s] /\ (Started(s)' => Started(s))
    BY <1>4, StampMoves DEF Started
  <2>2. s \in InQueue' => s \in InQueue \/ Started(s)
    <3>0. /\ InQueue' = Range(queue') \ {Sentinel} /\ InQueue = Range(queue) \ {Sentinel}
          /\ Sentinel \in 0 .. Total /\ Samples \subseteq 0 .. Total /\ s # Sentinel
      BY <1>0, PlacesAfter
    <3>1. ASSUME NEW x \in 0 .. Total, Put(x)
          PROVE  Range(queue') \subseteq Range(queue) \cup {x}
      <4>1. \A i \in DOMAIN queue' : queue'[i] = x \/ \E j \in DOMAIN queue : queue'[i] = queue[j]
        BY <1>0, <3>1, PutShifts
      <4> QED
        BY <4>1 DEF Range
    <3>2. CASE queue' = queue
      BY <3>0, <3>2
    <3>3. CASE Put(Sentinel)
      BY <3>0, <3>1, <3>3
    <3>4. CASE \E u \in Samples : Started(u) /\ Put(u)
      BY <3>0, <3>1, <3>4
    <3> QED
      BY <3>2, <3>3, <3>4, StampMoves
  <2> QED
    BY <1>1, <2>1, <2>2
<1> QED
  BY <1>3, <1>4

\* Between the gathering and the transfer no task is created.
LEMMA StillGathered ==
  ASSUME Constants, WorkInv, PlaceInv, AgeInv, SyncInv, TypeInv', CountInv, QuietInv,
         RollouterNext, UNCHANGED trainerVars, Gathered'
  PROVE  ActiveCount' = 0
<1>0. /\ TypeInv /\ ControlInv /\ HandInv /\ Uninterrupted /\ DrainInv /\ VersionInv
      /\ ActiveCount \in Nat /\ ActiveCount' \in Nat
  BY Idle, IdleAfter DEF WorkInv, ControlInv, SyncInv, AgeInv
<1>1. CASE PauseGathered
  <2>1. Live = {} /\ ActiveCount' = Cardinality(Live)
    BY <1>0, <1>1, CountMoves DEF PauseGathered
  <2> QED
    BY <2>1, FS_EmptySet
<1>2. CASE Gathered
  <2>1. ActiveCount = 0
    BY <1>2 DEF CountInv
  <2>2. ~ProcSubmits
    <3> SUFFICES ASSUME ProcSubmits PROVE FALSE
      OBVIOUS
    <3>1. pc["proc"] = "submitting" /\ hand # Nothing
      BY <1>0 DEF ProcSubmits, Granted, HandInv, WithSample
    <3>2. Exchanging
      BY <1>0, <1>2 DEF Gathered, Exchanging, ControlInv, CallInv, Methods
    <3>3. ~closing
      BY <3>1, ClosingEnds
    <3>4. InHand = {}
      BY <1>0, <3>2, <3>3, AllTrained
    <3> QED
      BY <3>1, <3>4 DEF InHand
  <2>3. ActiveCount' <= ActiveCount
    BY <1>0, <2>2, CountMoves
  <2> QED
    BY <1>0, <2>1, <2>3
<1> QED
  BY <1>1, <1>2, GatheredMoves

LEMMA CountByRollouter ==
  ASSUME Constants, WorkInv, PlaceInv, AgeInv, SyncInv, TypeInv', CountInv, QuietInv,
         RollouterNext, UNCHANGED trainerVars, excess' = excess
  PROVE  CountInv' /\ QuietInv'
<1>1. /\ QuietInv' /\ Base' = Base /\ weights' = weights
      /\ staleness_samples' <= MaxRequired
      /\ ~Updating' => taken' = staleness_samples' + Base
      /\ pc'["proc"] = "getting" => staleness_samples' < MaxRequired
  BY TakesByRollouter
<1>2. \A s \in Samples : /\ s <= Base => s \in trained /\ stamp'[s] < weights
                         /\ Started(s)' \/ s \in InQueue' => stamp'[s] = weights
  BY StampsByRollouter
<1>3. Gathered' => ActiveCount' = 0
  BY StillGathered
<1>4. UNCHANGED <<closing, trained, trainer, local_trigger_step>> /\ Exchanging' = Exchanging
  BY DEF trainerVars, Exchanging
<1> QED
  BY <1>1, <1>2, <1>3, <1>4 DEF CountInv

LEMMA LastByRollouter ==
  ASSUME Constants, WorkInv, SyncInv, LastInv, RollouterNext, UNCHANGED trainerVars, excess' = excess
  PROVE  LastInv'
<1>0. /\ TypeInv /\ ControlInv /\ HandInv /\ pc["proc"] \in {"ended", "crashed"}
      /\ closing /\ trainer \in {"finishing", "ended"} /\ Live = {} /\ excess \in 0 .. MaxRequired
      /\ \A s \in Samples : stamp[s] < weights
  BY ClosingEnds DEF WorkInv, ControlInv, LastInv
<1>1. ~ProcSubmits
  BY <1>0 DEF ProcSubmits, Granted
<1>2. Live' = {}
  BY <1>0, <1>1, CountMoves
<1>3. weights' = weights
  BY <1>0, UpdateMoves
<1>4. \A s \in Samples : stamp'[s] = stamp[s]
  BY <1>0, StampMoves DEF Live
<1> QED
  BY <1>0, <1>2, <1>3, <1>4 DEF LastInv, trainerVars

LEMMA LastByTrainer ==
  ASSUME LastInv, TrainerNext, UNCHANGED rollouterVars,
         weights' = weights => excess' = excess
  PROVE  LastInv'
<1>1. OwnValidation \/ Finish
  BY DEF LastInv, TrainerNext, Collect, Terminate, Train, SyncWeights, RolloutPaused,
         WeightsTransferred, LastSync
<1>2. UNCHANGED <<closing, weights>> /\ trainer' \in {"finishing", "ended"}
  BY <1>1 DEF OwnValidation, Finish, channels
<1>3. UNCHANGED <<task, stamp>> /\ Live' = Live
  BY DEF rollouterVars, tasks, Live
<1> QED
  BY <1>2, <1>3 DEF LastInv

\* The batches of a version add up.
LEMMA BatchesAdd ==
  ASSUME NEW r \in Nat \ {0}, NEW t \in Nat \ {0}, NEW l \in 1 .. t
  PROVE  /\ (l - 1) * r + r = (l + 1 - 1) * r
         /\ l = t => (l - 1) * r + r = r * t
         /\ (l - 1) * r \in Nat
OBVIOUS

LEMMA NextBase ==
  ASSUME NEW w \in Nat, NEW m \in Nat
  PROVE  (w + 1) * m = w * m + m
OBVIOUS

\* What a step of the Trainer leaves alone.
LEMMA TrainerKeeps ==
  ASSUME TrainerNext, UNCHANGED rollouterVars, ControlInv
  PROVE  /\ UNCHANGED <<pc, task, stamp, taken, staleness_samples, tally, hand, lost, finished,
                        failed, cancel_queue, current_param_version>>
         /\ Live' = Live /\ AtTask' = AtTask /\ ActiveCount' = ActiveCount
         /\ \A s \in Samples : Started(s)' <=> Started(s)
         /\ ~WeightsTransferred => weights' = weights /\ Base' = Base /\ (Updating' <=> Updating)
         /\ Gathered' => Gathered
<1>1. /\ UNCHANGED <<pc, task, stamp, taken, staleness_samples, tally, hand, lost, finished,
                     failed, cancel_queue, current_param_version>>
      /\ Live' = Live /\ AtTask' = AtTask /\ ActiveCount' = ActiveCount
      /\ \A s \in Samples : Started(s)' <=> Started(s)
  BY DEF rollouterVars, tasks, control, feeding, tracking, Live, AtTask, Started, ActiveCount
<1>2. calls \in [Methods -> {"called", "running", "returned"}]
  BY DEF ControlInv, TypeInv, ChannelType
<1>3. ~WeightsTransferred => weights' = weights /\ calls'["update"] = calls["update"]
  BY <1>2 DEF TrainerNext, Collect, Terminate, Train, SyncWeights, RolloutPaused, LastSync,
              OwnValidation, Finish, Methods, channels
<1>4. Gathered' => Gathered
  BY <1>1, <1>2 DEF Gathered, TrainerNext, Collect, Terminate, Train, SyncWeights, RolloutPaused,
     WeightsTransferred, LastSync, OwnValidation, Finish, Methods, channels
<1> QED
  BY <1>1, <1>3, <1>4 DEF Updating, Base

\* A step of training ends with the version's next batch, or with all of them.
LEMMA CountByTrain ==
  ASSUME Synchronous, Constants, WorkInv, PlaceInv, AgeInv, SyncInv, CountInv, QuietInv,
         Train, UNCHANGED rollouterVars, excess' = excess
  PROVE  CountInv' /\ QuietInv'
<1>0. /\ TypeInv /\ ControlInv /\ Uninterrupted /\ dropped = {} /\ TrainerNext
      /\ required_samples \in Nat \ {0} /\ trigger_parameter_sync_step \in Nat \ {0}
      /\ local_trigger_step \in 1 .. trigger_parameter_sync_step
      /\ MaxRequired = required_samples * trigger_parameter_sync_step
      /\ Base \in Nat
  BY BaseType DEF WorkInv, ControlInv, SyncInv, DrainInv, TypeInv, TrainerType, Constants,
     TrainerConstants, TrainerNext, Synchronous, PerVersion
<1>1. trainer = "training" /\ ~closing /\ ~Updating /\ ~WeightsTransferred
  BY DEF Train, AgeInv, VersionInv, QuietInv, WeightsTransferred
<1>2. Cardinality(batch) = required_samples
      /\ Cardinality(trained) = Base + (local_trigger_step - 1) * required_samples
  BY <1>1 DEF AgeInv, VersionInv, CountInv, Exchanging
<1>3. Cardinality(trained') = Cardinality(trained) + required_samples
  <2>1. IsFiniteSet(batch) /\ IsFiniteSet(trained) /\ trained \cap batch = {}
    BY <1>0, Counts DEF PlaceInv, Apart
  <2> QED
    BY <1>2, <2>1, DisjointCount DEF Train
<1>4. /\ Cardinality(trained')
           = Base + (IF Exchanging' THEN MaxRequired ELSE (local_trigger_step' - 1) * required_samples)
  <2>1. PICK r \in Nat \ {0} : r = required_samples
    BY <1>0
  <2>2. PICK t \in Nat \ {0} : t = trigger_parameter_sync_step
    BY <1>0
  <2>3. PICK l \in 1 .. t : l = local_trigger_step
    BY <1>0, <2>2
  <2>4. PICK b \in Nat : b = Base
    BY <1>0
  <2>5. /\ (l - 1) * r + r = (l + 1 - 1) * r
        /\ l = t => (l - 1) * r + r = r * t
        /\ (l - 1) * r \in Nat
    BY BatchesAdd
  <2>6. Cardinality(trained') = b + (l - 1) * r + r
    BY <1>2, <1>3, <2>1, <2>3, <2>4, <2>5
  <2>7. CASE l < t
    <3>1. ~Exchanging' /\ local_trigger_step' = l + 1
      BY <2>2, <2>3, <2>7 DEF Train, Exchanging
    <3>2. Cardinality(trained') = b + (l + 1 - 1) * r
      BY <2>5, <2>6
    <3> QED
      BY <2>1, <2>4, <3>1, <3>2
  <2>8. CASE l = t
    <3>1. Exchanging'
      BY <1>0, <2>2, <2>3, <2>8 DEF Train, Exchanging
    <3>2. Cardinality(trained') = b + r * t
      BY <2>5, <2>6, <2>8
    <3> QED
      BY <1>0, <2>1, <2>2, <2>4, <3>1, <3>2
  <2> QED
    BY <2>7, <2>8
<1>5. weights' = weights /\ Base' = Base /\ ~Updating'
  BY <1>0, <1>1, TrainerKeeps
<1>6. UNCHANGED <<queue, closing>> /\ trained \subseteq trained' /\ trainer' # "finishing"
      /\ InQueue' = InQueue
  BY DEF Train, InQueue
<1>7. /\ UNCHANGED <<pc, stamp, taken, staleness_samples>>
      /\ ActiveCount' = ActiveCount /\ (Gathered' => Gathered)
      /\ \A s \in Samples : Started(s)' <=> Started(s)
  BY <1>0, TrainerKeeps
<1> QED
  BY <1>1, <1>4, <1>5, <1>6, <1>7 DEF CountInv, QuietInv

\* Steps of the Trainer other than training and transferring.
LEMMA CountByOther ==
  ASSUME Constants, WorkInv, PlaceInv, AgeInv, SyncInv, TypeInv', CountInv, QuietInv,
         Collect \/ Terminate \/ SyncWeights \/ RolloutPaused \/ LastSync,
         UNCHANGED rollouterVars, excess' = excess
  PROVE  CountInv' /\ QuietInv'
<1>0. TypeInv /\ ControlInv /\ TrainerNext /\ VersionInv
  BY DEF WorkInv, ControlInv, TrainerNext, AgeInv
<1>1. ~Updating /\ ~WeightsTransferred
  BY DEF QuietInv, Collect, Terminate, SyncWeights, RolloutPaused, LastSync, WeightsTransferred
<1>2. /\ UNCHANGED <<pc, stamp, taken, staleness_samples, weights>> /\ Base' = Base /\ ~Updating'
      /\ ActiveCount' = ActiveCount /\ (Gathered' => Gathered)
      /\ \A s \in Samples : Started(s)' <=> Started(s)
  BY <1>0, <1>1, TrainerKeeps
<1>3. InQueue' \subseteq InQueue
  <2>1. CASE Collect \/ Terminate
    <3>1. queue # <<>> /\ queue' = Tail(queue) /\ queue \in Seq(0 .. Total) /\ IsInjective(queue)
      BY <1>0, <2>1 DEF Collect, Terminate, TypeInv, ChannelType, PlaceInv
    <3> QED
      BY <1>0, <3>1, TailRange, PlacesAfter
  <2>2. CASE SyncWeights \/ RolloutPaused \/ LastSync
    BY <2>2 DEF SyncWeights, RolloutPaused, LastSync, channels, InQueue
  <2> QED
    BY <2>1, <2>2
<1>4. trained' = trained /\ trainer' # "finishing"
  BY DEF Collect, Terminate, SyncWeights, RolloutPaused, LastSync
<1>5. Cardinality(trained) >= Base \/ ~closing'
  <2>1. CASE Terminate
    <3>1. ~closing
      BY <1>0, <2>1 DEF Terminate, VersionInv
    <3>2. Cardinality(trained)
            = Base + (IF Exchanging THEN MaxRequired ELSE (local_trigger_step - 1) * required_samples)
      BY <3>1 DEF CountInv
    <3> QED
      BY <1>0, <3>2, BaseType
  <2>2. CASE ~Terminate
    <3>1. closing' = closing
      BY <2>2 DEF Collect, SyncWeights, RolloutPaused, LastSync
    <3> QED
      BY <3>1 DEF CountInv
  <2> QED
    BY <2>1, <2>2
<1>6. ~closing' => /\ ~closing /\ (Exchanging' <=> Exchanging)
                   /\ local_trigger_step' = local_trigger_step
  BY <1>0 DEF Collect, Terminate, SyncWeights, RolloutPaused, LastSync, VersionInv, Exchanging
<1> QED
  BY <1>1, <1>2, <1>3, <1>4, <1>5, <1>6 DEF CountInv, QuietInv

\* With new weights the next version begins: all that was begun is trained.
LEMMA CountByTransfer ==
  ASSUME Synchronous, Constants, WorkInv, PlaceInv, AgeInv, SyncInv, CountInv, QuietInv,
         WeightsTransferred, UNCHANGED rollouterVars,
         excess' = IF weights' = weights THEN excess
                   ELSE Cardinality(InQueue \cup InCancelQueue \cup AtTask)
  PROVE  (CountInv' /\ QuietInv') \/ LastInv'
<1>0. /\ TypeInv /\ ControlInv /\ HandInv /\ Uninterrupted /\ DrainInv /\ VersionInv /\ TrainerNext
      /\ trainer = "transferring" /\ Exchanging /\ Gathered /\ dropped = {}
      /\ weights \in Nat /\ MaxRequired \in Nat \ {0} /\ Base \in Nat
      /\ calls \in [Methods -> {"called", "running", "returned"}]
  BY BaseType DEF WorkInv, ControlInv, AgeInv, SyncInv, DrainInv, TrainerNext, WeightsTransferred,
     Exchanging, Gathered, TypeInv, ChannelType
<1>1. weights' = weights + 1 /\ Base' = Base + MaxRequired
  <2>1. weights' = weights + 1
    BY <1>0 DEF WeightsTransferred, VersionInv
  <2> QED
    BY <1>0, <2>1, NextBase DEF Base
<1>2. ActiveCount = 0 /\ Live = {} /\ AtTask = {} /\ \A s \in Samples : ~Started(s)
  BY <1>0, Idle DEF CountInv
<1>3. /\ UNCHANGED <<pc, task, stamp, taken, staleness_samples, hand>>
      /\ Live' = Live /\ ActiveCount' = ActiveCount
      /\ \A s \in Samples : Started(s)' <=> Started(s)
  BY <1>0, TrainerKeeps
<1>4. ~Updating /\ calls["update"] = "returned"
  BY <1>0 DEF QuietInv, ControlInv, CallInv
<1>5. \A s \in Samples : stamp[s] < weights'
  <2> SUFFICES ASSUME NEW s \in Samples PROVE stamp[s] < weights'
    OBVIOUS
  <2>1. stamp[s] <= current_param_version /\ current_param_version <= weights
    BY DEF AgeInv, StampInv, VersionInv
  <2>2. stamp[s] \in Nat /\ current_param_version \in Nat
    BY <1>0 DEF TypeInv, TaskType, CountType
  <2> QED
    BY <1>0, <1>1, <2>1, <2>2
<1>6. InCancelQueue = {}
  BY <1>0, QueueRange, RangeType DEF Uninterrupted, TypeInv, TaskType
<1>7. CASE closing
  <2>1. Cardinality(InQueue \cup InCancelQueue \cup AtTask) \in 0 .. MaxRequired
    <3>1. InQueue \cup InCancelQueue \cup AtTask = InQueue
      BY <1>2, <1>6
    <3>2. Cardinality(InQueue) + Cardinality(AtTask) + Cardinality(InHand)
              + Cardinality(batch) + Cardinality(lost) <= MaxRequired
      BY <1>0, <1>4, Fits
    <3>3. /\ Cardinality(InQueue) \in Nat /\ Cardinality(AtTask) \in Nat
          /\ Cardinality(InHand) \in Nat /\ Cardinality(batch) \in Nat /\ Cardinality(lost) \in Nat
      BY <1>0, Counts
    <3>4. Cardinality(InQueue) \in 0 .. MaxRequired
      BY <1>0, <3>2, <3>3
    <3> QED
      BY <3>1, <3>4
  <2>2. excess' \in 0 .. MaxRequired
    BY <1>0, <1>1, <2>1
  <2> QED
    BY <1>2, <1>3, <1>5, <1>7, <2>2 DEF WeightsTransferred, LastInv
<1>8. CASE ~closing
  <2>1. /\ InQueue = {} /\ InHand = {} /\ batch = {} /\ lost = {}
        /\ staleness_samples = MaxRequired
        /\ taken = Base + MaxRequired /\ taken < DONE
        /\ trained = 1 .. taken
    BY <1>0, <1>4, <1>8, AllTrained
  <2>2. pc["proc"] \notin {"ended", "crashed"} /\ goal # "done"
    BY <1>0, <2>1 DEF DrainInv, HandInv, TypeInv, TaskType, DONE
  <2>3. queue = <<>>
    <3>1. Sentinel \notin Range(queue)
      BY <2>2, ClosingEnds DEF PlaceInv
    <3>2. Range(queue) = {}
      BY <1>0, <2>1, <3>1, QueueRange
    <3> QED
      BY <1>0, <3>2, RangeType DEF TypeInv, ChannelType
  <2>4. hand = Nothing
    BY <2>1 DEF InHand
  <2>5. /\ UNCHANGED <<queue, batch, trained, closing, local_trigger_step>> /\ InQueue' = InQueue
        /\ trainer' = "collecting" /\ ~Exchanging' /\ calls'["update"] = "called"
    BY <1>0, <1>8 DEF WeightsTransferred, InQueue, Exchanging, Methods
  <2>6. excess' = 0
    <3>1. InQueue \cup InCancelQueue \cup AtTask = {}
      BY <1>2, <1>6, <2>1
    <3> QED
      BY <1>0, <1>1, <3>1, FS_EmptySet
  <2>7. pc["update"] = "none"
    BY <1>0, <1>4 DEF ControlInv, CallInv, Methods
  <2>8. Updating'
    BY <1>3, <2>5, <2>7 DEF Updating
  <2>9. local_trigger_step = 1 /\ Cardinality(trained) = Base'
    <3>1. local_trigger_step = 1
      BY <1>0 DEF VersionInv
    <3>2. Cardinality(trained) = taken
      BY <1>0, <2>1, FS_Interval DEF TypeInv, TaskType
    <3> QED
      BY <1>1, <2>1, <3>1, <3>2
  <2>10. (local_trigger_step' - 1) * required_samples = 0
    BY <1>0, <2>5, <2>9, BaseType
  <2>11. QuietInv'
    BY <1>1, <1>2, <1>3, <2>1, <2>2, <2>3, <2>4, <2>5, <2>7, <2>9 DEF QuietInv
  <2>12. \A s \in Samples : s <= Base' => s \in trained'
    BY <1>1, <2>1, <2>5 DEF Samples
  <2>13. CountInv'
    BY <1>0, <1>1, <1>2, <1>3, <1>4, <1>5, <1>8, <2>1, <2>5, <2>6, <2>8, <2>9, <2>10, <2>12
    DEF CountInv
  <2> QED
    BY <2>11, <2>13
<1> QED
  BY <1>7, <1>8

LEMMA CountByTrainer ==
  ASSUME Synchronous, Constants, WorkInv, PlaceInv, AgeInv, SyncInv, TypeInv', CountInv, QuietInv,
         TrainerNext, UNCHANGED rollouterVars,
         excess' = IF weights' = weights THEN excess
                   ELSE Cardinality(InQueue \cup InCancelQueue \cup AtTask)
  PROVE  (CountInv' /\ QuietInv') \/ LastInv'
<1>1. CASE WeightsTransferred
  BY <1>1, CountByTransfer
<1>2. CASE ~WeightsTransferred
  <2>1. excess' = excess
    BY <1>2, TrainerKeeps DEF WorkInv
  <2>2. ~OwnValidation /\ ~Finish
    BY DEF CountInv, OwnValidation, Finish
  <2>3. Train \/ Collect \/ Terminate \/ SyncWeights \/ RolloutPaused \/ LastSync
    BY <1>2, <2>2 DEF TrainerNext
  <2> QED
    BY <2>1, <2>3, CountByTrain, CountByOther
<1> QED
  BY <1>1, <1>2

\* Fewer samples than another version needs.
LEMMA WholeVersions ==
  ASSUME NEW n \in Nat, NEW m \in Nat \ {0}, NEW w \in Nat, n < w * m + m
  PROVE  m * (n \div m) <= w * m
<1>1. PICK q \in Nat : q = n \div m
  OBVIOUS
<1>2. m * q <= n
  BY <1>1
<1>3. q <= w
  <2> SUFFICES ASSUME q >= w + 1 PROVE FALSE
    OBVIOUS
  <2>1. PICK k \in Nat : q = w + 1 + k
    <3>1. q - w - 1 \in Nat /\ q = w + 1 + (q - w - 1)
      OBVIOUS
    <3> QED
      BY <3>1
  <2>2. m * q = w * m + m + k * m /\ k * m >= 0 /\ w * m \in Nat /\ k * m \in Nat
    BY <2>1
  <2> QED
    BY <1>2, <2>2
<1>4. PICK k \in Nat : w = q + k
  <2>1. w - q \in Nat /\ w = q + (w - q)
    BY <1>3
  <2> QED
    BY <2>1
<1>5. w * m = m * q + k * m /\ k * m \in Nat /\ m * q \in Nat
  BY <1>4
<1> QED
  BY <1>1, <1>5

\* The end signal is taken when, unless a task raised, less than a version is left over.
LEMMA EndByTerminate ==
  ASSUME Synchronous, Constants, WorkInv, PlaceInv, AgeInv, SyncInv, Terminate, lost = {}
  PROVE  Cardinality(trained) >= PerVersion * (Total \div PerVersion)
<1>0. /\ TypeInv /\ ControlInv /\ HandInv /\ Uninterrupted /\ DrainInv /\ VersionInv
      /\ dropped = {} /\ PerVersion = MaxRequired
      /\ required_samples \in Nat \ {0} /\ trigger_parameter_sync_step \in Nat \ {0}
      /\ local_trigger_step \in 1 .. trigger_parameter_sync_step
  BY DEF WorkInv, ControlInv, SyncInv, DrainInv, AgeInv, Synchronous, Constants, TrainerConstants,
         TypeInv, TrainerType
<1>1. /\ queue # <<>> /\ Head(queue) = Sentinel /\ trainer = "collecting" /\ ~closing
      /\ queue \in Seq(0 .. Total) /\ IsInjective(queue) /\ ~Exchanging
  BY <1>0 DEF Terminate, VersionInv, TypeInv, ChannelType, PlaceInv, Exchanging
<1>2. Sentinel \in Range(queue) /\ 1 \in DOMAIN queue /\ queue[1] = Sentinel
  BY <1>1, HeadElem
<1>3. pc["proc"] = "ended"
  <2>1. pc["proc"] \in {"ended", "crashed"}
    BY <1>2, ClosingEnds DEF PlaceInv
  <2> QED
    BY <1>0, <2>1 DEF DrainInv
<1>4. Len(queue) = 1
  <2>1. queue[Len(queue)] = Sentinel
    BY <1>0, <1>2, <1>3 DEF DrainInv
  <2>2. Len(queue) \in DOMAIN queue
    BY <1>1, <1>2, LenProperties
  <2> QED
    BY <1>1, <1>2, <2>1, <2>2 DEF IsInjective
<1>5. AtTask = {} /\ InHand = {} /\ taken = DONE
  <2>1. Live = {} /\ goal = "done" /\ taken = DONE
    BY <1>0, <1>3 DEF DrainInv, HandInv
  <2> QED
    BY <1>0, <2>1, Idle DEF HandInv, InHand
<1>6. CountInv
  BY <1>1 DEF SyncInv, LastInv
<1>7. PICK r \in Nat \ {0} : r = required_samples
  BY <1>0
<1>8. PICK t \in Nat \ {0} : t = trigger_parameter_sync_step
  BY <1>0
<1>9. PICK l \in 1 .. t : l = local_trigger_step
  BY <1>0, <1>8
<1>10. PICK m \in Nat \ {0} : m = MaxRequired /\ m = r * t
  BY <1>0, <1>7, <1>8, BaseType DEF PerVersion
<1>11. PICK w \in Nat : w = weights
  BY BaseType, <1>0
<1>12. PICK c \in Nat : c = Cardinality(batch)
  BY <1>0, Counts
<1>13. PICK d \in Nat : d = Cardinality(trained)
  BY <1>0, Counts
<1>14. PICK n \in Nat : n = Total
  BY BaseType, <1>0
<1>15. n = c + d
  <2>1. /\ Cardinality(AtTask) = 0 /\ Cardinality(InHand) = 0 /\ Cardinality(lost) = 0
    BY <1>5, FS_EmptySet
  <2>2. Cardinality(InQueue) = 0
    <3>1. Len(queue) = Cardinality(InQueue) + 1 /\ Cardinality(InQueue) \in Nat
      BY <1>0, <1>2, Counts
    <3> QED
      BY <1>4, <3>1
  <2>3. ~(taken < DONE)
    BY <1>5 DEF DONE
  <2>4. Total = Cardinality(InQueue) + Cardinality(AtTask) + Cardinality(InHand)
                + Cardinality(batch) + Cardinality(trained) + Cardinality(lost)
    BY <1>0, <2>3, Counts
  <2> QED
    BY <1>12, <1>13, <1>14, <2>1, <2>2, <2>4
<1>16. c < r
  BY <1>0, <1>1, <1>7, <1>12 DEF VersionInv
<1>17. d = w * m + (l - 1) * r
  BY <1>1, <1>6, <1>7, <1>9, <1>10, <1>11, <1>13 DEF CountInv, Base
<1>18. (l - 1) * r + r <= m /\ (l - 1) * r \in Nat /\ w * m \in Nat
  <2>1. PICK k \in Nat : t = l + k
    <3>1. t - l \in Nat /\ t = l + (t - l)
      OBVIOUS
    <3> QED
      BY <3>1
  <2>2. r * t = (l - 1) * r + r + k * r /\ k * r \in Nat /\ (l - 1) * r \in Nat
    BY <2>1
  <2> QED
    BY <1>10, <2>2
<1>19. n < w * m + m
  BY <1>15, <1>16, <1>17, <1>18
<1>20. m * (n \div m) <= w * m
  BY <1>19, WholeVersions
<1>21. m * (n \div m) \in Nat
  OBVIOUS
<1>22. d >= m * (n \div m)
  BY <1>17, <1>18, <1>20, <1>21
<1> QED
  BY <1>0, <1>10, <1>13, <1>14, <1>22

LEMMA EndStep ==
  ASSUME Synchronous, Constants, WorkInv, PlaceInv, AgeInv, SyncInv, Next
  PROVE  EndInv'
<1> SUFFICES ASSUME closing', lost' = {}
             PROVE  Cardinality(trained') >= PerVersion * (Total \div PerVersion)
  BY DEF EndInv
<1>1. lost = {}
  <2>1. CASE RollouterNext
    BY <2>1, RollouterKeeps DEF TaskFails, WorkInv, ControlInv, TypeInv
  <2>2. CASE UNCHANGED rollouterVars
    BY <2>2 DEF rollouterVars, tasks
  <2> QED
    BY <2>1, <2>2 DEF Next
<1>2. CASE Terminate
  BY <1>1, <1>2, EndByTerminate DEF Terminate
<1>3. CASE ~Terminate
  <2>1. closing' = closing
    BY <1>3 DEF Next, TrainerNext, Collect, Train, SyncWeights, RolloutPaused, WeightsTransferred,
                LastSync, OwnValidation, Finish, trainerVars
  <2>2. ~Train
    BY <2>1 DEF Train, AgeInv, VersionInv
  <2>3. trained' = trained
    BY <1>3, <2>2 DEF Next, TrainerNext, Collect, SyncWeights, RolloutPaused, WeightsTransferred,
                      LastSync, OwnValidation, Finish, trainerVars
  <2> QED
    BY <1>1, <2>1, <2>3 DEF SyncInv, EndInv
<1> QED
  BY <1>2, <1>3

-----------------------------------------------------------------------------
(* On-policy generation, where nothing may be stale                          *)

LEMMA SyncStart == ASSUME Constants, Synchronous, Init PROVE SyncInv
<1> USE DEF Init, ChannelsInit, RollouterInit, TrainerInit
<1>0. /\ WorkInv /\ TypeInv /\ MaxRequired \in Nat \ {0} /\ Total \in Nat
      /\ 0 < DONE /\ Base = 0
  <2>1. WorkInv /\ MaxRequired \in Nat \ {0} /\ Total \in Nat
    BY WorkStart DEF Constants, ChannelConstants
  <2>2. 0 < DONE /\ Base = 0
    BY <2>1 DEF DONE, Base
  <2> QED
    BY <2>1, <2>2 DEF WorkInv, ControlInv
<1>1. /\ pc["proc"] = "top" /\ pc["main"] = "watching" /\ pc["pause"] = "none"
      /\ pc["update"] = "none" /\ pc["resume"] = "none"
      /\ queue = <<>> /\ lock = <<>> /\ \A s \in Samples : task[s] = "none"
      /\ \A m \in Methods : calls[m] = "returned"
  BY DEF Coroutines, Methods
<1>2. ActiveCount = 0 /\ Live = {} /\ \A s \in Samples : ~Started(s)
  BY <1>0, <1>1, Idle DEF Live
<1>3. InQueue = {} /\ Range(queue) = {}
  BY <1>0, <1>1, QueueRange, RangeType DEF TypeInv, ChannelType
<1>4. Uninterrupted
  BY <1>1 DEF Uninterrupted
<1>5. DrainInv
  BY <1>0, <1>1, <1>3 DEF DrainInv, SentinelAt
<1>6. ~Gathered /\ ~Exchanging /\ ~Updating
  BY <1>1 DEF Gathered, Exchanging, Updating, Methods
<1>7. Early
  <2>1. Begun = {} /\ InHand = {}
    BY <1>0 DEF Begun, InHand
  <2> QED
    BY <1>1, <1>2, <1>6, <2>1 DEF Early, Methods
<1>8. CountInv
  <2>1. Cardinality(trained) = 0 /\ (local_trigger_step - 1) * required_samples = 0
    BY <1>0, FS_EmptySet, BaseType
  <2>2. \A s \in Samples : ~(s <= Base)
    BY <1>0 DEF Samples
  <2> QED
    BY <1>0, <1>1, <1>2, <1>3, <1>6, <2>1, <2>2 DEF CountInv
<1>9. QuietInv /\ EndInv
  BY <1>6 DEF QuietInv, EndInv
<1> QED
  BY <1>4, <1>5, <1>7, <1>8, <1>9 DEF SyncInv, FirstInv

LEMMA DrainStep ==
  ASSUME Constants, WorkInv, PlaceInv, AgeInv, SyncInv, Next
  PROVE  DrainInv'
<1>1. CASE RollouterNext /\ UNCHANGED trainerVars
  BY <1>1, DrainByProcessor, DrainByOthers, DrainByTasks DEF RollouterNext
<1>2. CASE TrainerNext /\ UNCHANGED rollouterVars
  BY <1>2, DrainByTrainer
<1> QED
  BY <1>1, <1>2 DEF Next

LEMMA SyncStep ==
  ASSUME Constants, Synchronous, WorkInv, PlaceInv, AgeInv, SyncInv, [Next]_vars
  PROVE  SyncInv'
<1>1. CASE UNCHANGED vars
  <2>1. /\ UNCHANGED <<queue, dropped, calls, weights, fed, taken, cancel_queue, hand, task, stamp,
                       finished, failed, lost, pc, lock, loop, goal, done_bound, staleness_samples,
                       tally, paused, servers_cancelled, trainer, local_trigger_step, batch, trained,
                       closing, excess>>
        /\ Live' = Live /\ AtTask' = AtTask /\ InQueue' = InQueue /\ InHand' = InHand
        /\ Begun' = Begun
    BY <1>1 DEF vars, system, channels, rollouterVars, feeding, tasks, control, reaping, tracking,
         flags, trainerVars, Live, AtTask, InQueue, InHand, Begun
  <2>2. /\ ActiveCount' = ActiveCount /\ Base' = Base /\ (Gathered' <=> Gathered)
        /\ (Exchanging' <=> Exchanging) /\ (Updating' <=> Updating) /\ (SentinelAt' <=> SentinelAt)
        /\ \A s \in Samples : Started(s)' <=> Started(s)
    BY <2>1 DEF ActiveCount, Base, Gathered, Exchanging, Updating, SentinelAt, Started
  <2>3. Uninterrupted' /\ DrainInv' /\ EndInv'
    BY <2>1, <2>2 DEF SyncInv, Uninterrupted, DrainInv, EndInv
  <2>4. FirstInv'
    BY <2>1, <2>2 DEF SyncInv, FirstInv, Early
  <2>5. (CountInv' /\ QuietInv') \/ LastInv'
    BY <2>1, <2>2 DEF SyncInv, CountInv, QuietInv, LastInv
  <2> QED
    BY <2>3, <2>4, <2>5 DEF SyncInv
<1>2. CASE Next
  <2>0. TypeInv'
    BY <1>2, WorkStep DEF WorkInv, ControlInv
  <2>1. Uninterrupted'
    BY <1>2, UninterruptedStep DEF SyncInv, WorkInv, ControlInv
  <2>2. DrainInv' /\ FirstInv' /\ EndInv'
    BY <1>2, <2>0, DrainStep, FirstStep, EndStep
  <2>3. (CountInv' /\ QuietInv') \/ LastInv'
    <3>1. CASE RollouterNext /\ UNCHANGED trainerVars
      <4>1. excess' = excess
        BY <1>2, <3>1, UpdateMoves DEF Next, WorkInv, ControlInv
      <4> QED
        BY <2>0, <3>1, <4>1, CountByRollouter, LastByRollouter DEF SyncInv
    <3>2. CASE TrainerNext /\ UNCHANGED rollouterVars
      <4>1. excess' = IF weights' = weights THEN excess
                      ELSE Cardinality(InQueue \cup InCancelQueue \cup AtTask)
        BY <1>2 DEF Next
      <4>2. CASE LastInv
        BY <3>2, <4>1, <4>2, LastByTrainer
      <4>3. CASE CountInv /\ QuietInv
        BY <2>0, <3>2, <4>1, <4>3, CountByTrainer
      <4> QED
        BY <4>2, <4>3 DEF SyncInv
    <3> QED
      BY <1>2, <3>1, <3>2 DEF Next
  <2> QED
    BY <2>1, <2>2, <2>3 DEF SyncInv
<1> QED
  BY <1>1, <1>2

LEMMA Synchronised == ASSUME Synchronous PROVE Spec => []SyncInv
<1>1. Init => SyncInv
  BY ConstantsHold, SyncStart
<1>2. WorkInv /\ PlaceInv /\ AgeInv /\ SyncInv /\ [Next]_vars => SyncInv'
  BY ConstantsHold, SyncStep
<1> QED
  BY <1>1, <1>2, Working, Placing, Aging, PTL DEF Spec

\* What the numbers say of one state.
LEMMA WithinVersion ==
  ASSUME Constants, Synchronous, TypeInv, PlaceInv, AgeInv, SyncInv
  PROVE  RolloutNum
<1> DEFINE S == {s \in Begun \ InHand : task[s] # "created" /\ stamp[s] = weights}
<1>0. /\ Begun = 1 .. (IF taken < DONE THEN taken ELSE Total) /\ Begun \subseteq Samples
      /\ taken \in Nat /\ Base \in Nat /\ MaxRequired \in Nat \ {0} /\ staleness_samples \in Nat
      /\ weights \in Nat /\ taken <= DONE /\ Total \in Nat
  BY BaseType DEF Begun, Samples, DONE
<1>1. CASE LastInv
  <2>1. \A s \in Samples : stamp[s] < weights
    BY <1>1 DEF LastInv
  <2>2. \A s \in Samples : stamp[s] \in Nat
    BY DEF TypeInv, TaskType
  <2>3. S = {}
    BY <1>0, <2>1, <2>2
  <2>4. Cardinality(S) = 0
    BY <2>3, FS_EmptySet
  <2>5. excess + 0 <= MaxRequired
    BY <1>0, <1>1 DEF LastInv
  <2> QED
    BY <2>4, <2>5 DEF RolloutNum
<1>2. CASE CountInv /\ QuietInv
  <2>1. taken <= Base + MaxRequired
    <3>1. CASE Updating
      BY <1>0, <1>2, <3>1 DEF QuietInv
    <3>2. CASE ~Updating
      BY <1>0, <1>2, <3>2 DEF CountInv
    <3> QED
      BY <3>1, <3>2
  <2>2. S \subseteq (Base + 1) .. (Base + MaxRequired)
    <3>1. \A s \in Samples : s <= Base => stamp[s] # weights
      BY <1>0, <1>2 DEF CountInv, TypeInv, TaskType
    <3>2. \A s \in Begun : s \in Nat /\ s >= 1 /\ s <= taken
      BY <1>0 DEF DONE
    <3> QED
      BY <1>0, <2>1, <3>1, <3>2
  <2>3. /\ IsFiniteSet((Base + 1) .. (Base + MaxRequired))
        /\ Cardinality((Base + 1) .. (Base + MaxRequired)) = MaxRequired
    BY <1>0, FS_Interval
  <2>4. Cardinality(S) <= MaxRequired /\ Cardinality(S) \in Nat
    BY <2>2, <2>3, FS_Subset, FS_CardinalityType
  <2> QED
    BY <1>0, <1>2, <2>4 DEF CountInv, RolloutNum
<1> QED
  BY <1>1, <1>2 DEF SyncInv

\* Where nothing may be stale, no version's weights generate more samples than it trains.
THEOREM WithinRolloutNum == ASSUME Synchronous PROVE Spec => []RolloutNum
<1>1. TypeInv /\ PlaceInv /\ AgeInv /\ SyncInv => RolloutNum
  BY ConstantsHold, WithinVersion
<1> QED
  BY <1>1, Synchronised, TypeCorrect, Placing, Aging, PTL

\* Where nothing may be stale, training ends early only if a generation raised.
THEOREM AllSteps == ASSUME Synchronous PROVE Spec => []StepsTaken
<1>1. AgeInv /\ SyncInv => StepsTaken
  BY DEF AgeInv, VersionInv, SyncInv, EndInv, StepsTaken
<1> QED
  BY <1>1, Synchronised, Aging, PTL

\* Where nothing may be stale, a sample is collected while the Trainer is at the version whose
\* weights generated it: training is on-policy.
THEOREM OnPolicyGeneration == ASSUME Synchronous PROVE Spec => OnPolicy
<1>1. WorkInv /\ PlaceInv /\ AgeInv /\ SyncInv /\ [Next]_vars
        => [\A s \in batch' \ batch : stamp[s] = version]_vars
  <2> SUFFICES ASSUME WorkInv, PlaceInv, AgeInv, SyncInv, Next, NEW s \in batch' \ batch
               PROVE  stamp[s] = version
    OBVIOUS
  <2>0. Constants
    BY ConstantsHold
  <2>1. Collect /\ s = Head(queue)
    BY BatchGrows
  <2>2. trainer = "collecting" /\ queue # <<>> /\ s # Sentinel /\ ~closing /\ version = weights
    BY <2>1 DEF Collect, AgeInv, VersionInv, Exchanging
  <2>3. TypeInv /\ queue \in Seq(0 .. Total)
    BY DEF WorkInv, ControlInv, TypeInv, ChannelType
  <2>4. s \in Range(queue) /\ s \in 0 .. Total
    BY <2>1, <2>2, <2>3, HeadElem, RangeType
  <2>5. s \in InQueue /\ s \in Samples
    BY <2>0, <2>2, <2>3, <2>4, QueueRange DEF Samples, Sentinel, Constants, ChannelConstants
  <2>6. CountInv
    BY <2>2 DEF SyncInv, LastInv
  <2> QED
    BY <2>2, <2>5, <2>6 DEF CountInv
<1> QED
  BY <1>1, Working, Placing, Aging, Synchronised, PTL DEF Spec, OnPolicy
=============================================================================

----------------------------- MODULE Rollouter -----------------------------
(***************************************************************************)
(* The FullyAsyncRollouter actor (fully_async_rollouter.py): the feeder,   *)
(* the processor, one task per sample, the monitor, the main coroutine and *)
(* the three remote calls of a synchronisation, all coroutines of a single *)
(* event loop.  A coroutine runs alone until it suspends; `loop' names the *)
(* one that is between two suspensions.  `lock' is the asyncio lock with   *)
(* the line behind it: granted first come, first served, and at once, with *)
(* no suspension, when it is free.  Generation servers and the queue act   *)
(* at any time.                                                            *)
(***************************************************************************)
EXTENDS AsyncChannels

CONSTANTS
  MaxConcurrent,   \* max_concurrent_samples
  PendingCap,      \* maxsize of pending_queue
  partial_rollout,
  MayFail          \* a generation may raise

ASSUME RollouterConstants ==
  /\ MaxConcurrent \in 1 .. MaxRequired
  /\ PendingCap \in Nat \ {0}
  /\ partial_rollout \in BOOLEAN /\ MayFail \in BOOLEAN

VARIABLES
  fed, taken,             \* pending_queue holds taken + 1 .. fed; Total + 1 is "DONE"
  cancel_queue,
  task,                   \* for each sample, what its running task is at
  stamp,                  \* for each sample, the version its task last started with
  finished, failed,       \* tasks that ended, well or not, and are still in active_tasks
  lost,                   \* history: samples whose task raised
  hand,                   \* the processor's rollout_sample
  goal, done_bound,       \* why the processor reaps; whether done_tasks was ever bound
  pc, lock, loop,
  current_param_version, staleness_samples, tally,
  paused, monitor_loop_trigger, running,
  servers_cancelled       \* the generation servers refuse and interrupt requests

feeding == <<fed, taken, cancel_queue, hand>>
tasks == <<task, stamp, finished, failed, lost>>
control == <<pc, lock, loop>>
reaping == <<goal, done_bound>>
tracking == <<current_param_version, staleness_samples, tally>>
flags == <<paused, monitor_loop_trigger, running, servers_cancelled>>
rollouterVars == <<feeding, tasks, control, reaping, tracking, flags>>

Coroutines == {"proc", "monitor", "main"} \cup Methods
Nothing == 0
DONE == Total + 1

Live == {s \in Samples : task[s] # "none"}
\* len(active_tasks)
ActiveCount == Cardinality(Live) + finished + failed

\* Mutant of ShouldPause: one sample too late.
ShouldPauseLate == Len(queue) > MaxRequired \/ staleness_samples > MaxRequired

\* _should_pause_generation; the call blocks the event loop, so it is one step.
ShouldPause == Len(queue) >= MaxRequired \/ staleness_samples >= MaxRequired

-----------------------------------------------------------------------------
(* The event loop and the lock.                                            *)

Runs(c) == loop \in {"idle", c}

\* Coroutine c asks for the lock, to go on at `at'.
Ask(c, at) == /\ lock' = Append(lock, c)
              /\ pc' = [pc EXCEPT ![c] = at]
              /\ loop' = IF lock = <<>> THEN c ELSE "idle"

Granted(c, at) == lock # <<>> /\ Head(lock) = c /\ pc[c] = at /\ Runs(c)

GoOn(c, at) == pc' = [pc EXCEPT ![c] = at] /\ loop' = c
Suspend(c, at) == pc' = [pc EXCEPT ![c] = at] /\ loop' = "idle"
Release == lock' = Tail(lock)

\* notify_all wakes the processor when it waits on the condition.
Notified == IF pc["proc"] = "asleep" THEN [pc EXCEPT !["proc"] = "woken"] ELSE pc

-----------------------------------------------------------------------------
RollouterInit ==
  \* The feeder, created before the processor, has run once.
  /\ fed = (IF PendingCap < DONE THEN PendingCap ELSE DONE) /\ taken = 0
  /\ cancel_queue = <<>> /\ hand = Nothing
  /\ task = [s \in Samples |-> "none"] /\ stamp = [s \in Samples |-> 0]
  /\ finished = 0 /\ failed = 0 /\ lost = {}
  /\ goal = "limit" /\ done_bound = FALSE
  \* (The monitor's first look at `running' is over.)
  /\ pc = [c \in Coroutines |-> CASE c = "proc" -> "top"
                                  [] c = "monitor" -> "sleeping"
                                  [] c = "main" -> "watching"
                                  [] OTHER -> "none"]
  /\ lock = <<>> /\ loop = "idle"
  /\ current_param_version = 0 /\ staleness_samples = 0 /\ tally = 0
  /\ paused = FALSE /\ monitor_loop_trigger = TRUE /\ running = TRUE
  /\ servers_cancelled = FALSE

\* _feed_samples runs until pending_queue is full or the samples and DONE are in.
Feed == /\ loop = "idle"
        /\ fed < DONE /\ fed < taken + PendingCap
        /\ fed' = IF taken + PendingCap < DONE THEN taken + PendingCap ELSE DONE
        /\ UNCHANGED <<taken, cancel_queue, hand, tasks, control, reaping, tracking, flags,
                       channels>>

-----------------------------------------------------------------------------
(* _processor_worker.                                                      *)

\* It must stop: first it takes the lock to say so.
ProcStops == /\ pc["proc"] = "top" /\ Runs("proc")
             /\ paused \/ ShouldPause
             /\ Ask("proc", "stopping")
             /\ UNCHANGED <<feeding, tasks, reaping, tracking, flags, channels>>

ProcStopped == /\ Granted("proc", "stopping")
               /\ paused' = TRUE
               /\ goal' = "pause"
               /\ Release /\ GoOn("proc", "reaping")
               /\ UNCHANGED <<feeding, tasks, done_bound, tracking, monitor_loop_trigger,
                              running, servers_cancelled, channels>>

\* Interrupted samples come before new ones.
ProcTakesCancelled == /\ pc["proc"] = "top" /\ Runs("proc")
                      /\ ~paused /\ ~ShouldPause
                      /\ cancel_queue # <<>>
                      /\ hand' = Head(cancel_queue)
                      /\ cancel_queue' = Tail(cancel_queue)
                      /\ goal' = "limit"
                      /\ GoOn("proc", "reaping")
                      /\ UNCHANGED <<fed, taken, tasks, lock, done_bound, tracking, flags,
                                     channels>>

ProcFindsNothing == /\ pc["proc"] = "top" /\ Runs("proc")
                    /\ ~paused /\ ~ShouldPause
                    /\ cancel_queue = <<>> /\ fed = taken
                    /\ Suspend("proc", "getting")
                    /\ UNCHANGED <<feeding, tasks, lock, reaping, tracking, flags, channels>>

ProcTakes == /\ \/ pc["proc"] = "top" /\ ~paused /\ ~ShouldPause /\ cancel_queue = <<>>
                \/ pc["proc"] = "getting"
             /\ Runs("proc") /\ fed > taken
             /\ taken' = taken + 1
             /\ hand' = IF taken' = DONE THEN Nothing ELSE taken'
             /\ staleness_samples' = staleness_samples + 1
             /\ goal' = IF taken' = DONE THEN "done" ELSE "limit"
             /\ GoOn("proc", "reaping")
             /\ UNCHANGED <<fed, cancel_queue, tasks, lock, done_bound, current_param_version,
                            tally, flags, channels>>

\* Mutant of MustReap: one task too many.
MustReapLate == ActiveCount > IF goal = "limit" THEN MaxConcurrent ELSE 0

\* The three loops that reap active_tasks: until none is left (to pause, and at the
\* end), or until there is room for one more.
MustReap == ActiveCount > IF goal = "limit" THEN MaxConcurrent - 1 ELSE 0

ProcReaps == /\ pc["proc"] = "reaping" /\ Runs("proc")
             /\ MustReap
             /\ Ask("proc", "verifying")
             /\ UNCHANGED <<feeding, tasks, reaping, tracking, flags, channels>>

\* With the lock it looks again.  If active_tasks was emptied meanwhile it awaits the
\* done_tasks of an earlier round, and fails if there never was one.
ProcVerifies == /\ Granted("proc", "verifying")
                /\ \/ ActiveCount > 0 /\ Suspend("proc", "awaiting") /\ UNCHANGED lock
                   \/ ActiveCount = 0 /\ done_bound /\ Release /\ GoOn("proc", "reaping")
                   \/ ActiveCount = 0 /\ ~done_bound /\ Release /\ Suspend("proc", "crashed")
                /\ UNCHANGED <<feeding, tasks, reaping, tracking, flags, channels>>

\* asyncio.wait returned: the tasks that ended leave active_tasks; awaiting one that
\* raised ends the processor.
ProcAwaited == /\ Granted("proc", "awaiting")
               /\ finished + failed > 0
               /\ finished' = 0 /\ failed' = 0
               /\ done_bound' = TRUE
               /\ Release
               /\ IF failed > 0 THEN Suspend("proc", "crashed") ELSE GoOn("proc", "reaping")
               /\ UNCHANGED <<feeding, task, stamp, lost, goal, tracking, flags, channels>>

ProcReaped == /\ pc["proc"] = "reaping" /\ Runs("proc")
              /\ ~MustReap
              /\ CASE goal = "pause" -> Ask("proc", "holding")
                   [] goal = "limit" -> Ask("proc", "submitting")
                   [] OTHER -> Suspend("proc", "ended") /\ UNCHANGED lock
              /\ UNCHANGED <<feeding, tasks, reaping, tracking, flags, channels>>

\* It waits on the condition while paused, and once notified asks for the lock again.
ProcSleeps == /\ Granted("proc", "holding") \/ Granted("proc", "submitting")
              /\ paused
              /\ Release /\ Suspend("proc", "asleep")
              /\ UNCHANGED <<feeding, tasks, reaping, tracking, flags, channels>>

ProcWakes == /\ pc["proc"] = "woken" /\ loop = "idle"
             /\ Ask("proc", IF goal = "pause" THEN "holding" ELSE "submitting")
             /\ UNCHANGED <<feeding, tasks, reaping, tracking, flags, channels>>

ProcResumes == /\ Granted("proc", "holding")
               /\ ~paused
               /\ Release /\ GoOn("proc", "top")
               /\ UNCHANGED <<feeding, tasks, reaping, tracking, flags, channels>>

ProcSubmits == /\ Granted("proc", "submitting")
               /\ ~paused
               /\ task' = [task EXCEPT ![hand] = "created"]
               /\ hand' = Nothing
               /\ Release /\ GoOn("proc", "top")
               /\ UNCHANGED <<fed, taken, cancel_queue, stamp, finished, failed, lost, reaping,
                              tracking, flags, channels>>

Processor == \/ ProcStops \/ ProcStopped
             \/ ProcTakesCancelled \/ ProcFindsNothing \/ ProcTakes
             \/ ProcReaps \/ ProcVerifies \/ ProcAwaited \/ ProcReaped
             \/ ProcSleeps \/ ProcWakes \/ ProcResumes \/ ProcSubmits

-----------------------------------------------------------------------------
(* _process_single_sample_streaming, and the servers and queue it calls.   *)

TaskMoves(s, from, to) == task[s] = from /\ task' = [task EXCEPT ![s] = to]

TaskStarts(s) == /\ loop = "idle"
                 /\ TaskMoves(s, "created", "generating")
                 /\ stamp' = [stamp EXCEPT ![s] = current_param_version]
                 /\ UNCHANGED <<finished, failed, lost, queue, dropped>>

\* The servers answer: in full, or, once they were told to stop, with what they had.
Answered(s) == /\ \/ TaskMoves(s, "generating", "generated")
                  \/ servers_cancelled /\ TaskMoves(s, "generating", "cancelled")
               /\ UNCHANGED <<stamp, finished, failed, lost, queue, dropped>>

TaskFails(s) == /\ MayFail /\ loop = "idle"
                /\ TaskMoves(s, "generating", "none")
                /\ failed' = failed + 1
                /\ lost' = lost \cup {s}
                /\ UNCHANGED <<stamp, finished, queue, dropped>>

TaskPuts(s) == /\ loop = "idle"
               /\ TaskMoves(s, "generated", "putting")
               /\ UNCHANGED <<stamp, finished, failed, lost, queue, dropped>>

QueuePuts(s) == /\ TaskMoves(s, "putting", "put")
                /\ Put(s)
                /\ UNCHANGED <<stamp, finished, failed, lost>>

TaskEnds(s) == /\ loop = "idle"
               /\ TaskMoves(s, "put", "none")
               /\ finished' = finished + 1
               /\ UNCHANGED <<stamp, failed, lost, queue, dropped>>

TaskStep(s) == /\ \/ TaskStarts(s) \/ Answered(s) \/ TaskFails(s)
                  \/ TaskPuts(s) \/ QueuePuts(s) \/ TaskEnds(s)
               /\ UNCHANGED <<feeding, control, reaping, tracking, flags, calls, weights>>

\* Mutant of TaskReturns: the interrupted sample is not kept.
TaskReturnsNothing(s) == /\ loop = "idle"
                         /\ TaskMoves(s, "cancelled", "none")
                         /\ finished' = finished + 1
                         /\ UNCHANGED <<feeding, stamp, failed, lost, control, reaping,
                                        tracking, flags, channels>>

\* An interrupted sample goes back, to be continued.
TaskReturns(s) == /\ loop = "idle"
                  /\ TaskMoves(s, "cancelled", "none")
                  /\ finished' = finished + 1
                  /\ cancel_queue' = Append(cancel_queue, s)
                  /\ UNCHANGED <<fed, taken, hand, stamp, failed, lost, control, reaping,
                                 tracking, flags, channels>>

-----------------------------------------------------------------------------
(* _streaming_generation_main and _async_monitor_loop.                     *)

\* Mutants of MainFinishes: the end of the feed is taken for the end of the work; a
\* processor that raised is not noticed.
MainFinishesEarly == /\ pc["main"] = "watching" /\ loop = "idle"
                     /\ fed = DONE
                     /\ Suspend("main", "sending")
                     /\ UNCHANGED <<feeding, tasks, lock, reaping, tracking, flags, channels>>

MainMissesCrash == /\ pc["main"] = "watching" /\ loop = "idle"
                   /\ pc["proc"] = "ended"
                   /\ Suspend("main", "sending")
                   /\ UNCHANGED <<feeding, tasks, lock, reaping, tracking, flags, channels>>

\* The processor ended, for whatever reason: the end signal goes into the queue ...
MainFinishes == /\ pc["main"] = "watching" /\ loop = "idle"
                /\ pc["proc"] \in {"ended", "crashed"}
                /\ Suspend("main", "sending")
                /\ UNCHANGED <<feeding, tasks, lock, reaping, tracking, flags, channels>>

QueuePutsSentinel == /\ pc["main"] = "sending"
                     /\ Put(Sentinel)
                     /\ pc' = [pc EXCEPT !["main"] = "sent"]
                     /\ UNCHANGED <<feeding, tasks, lock, loop, reaping, tracking, flags,
                                    calls, weights>>

\* ... and the monitor is told to end.
MainCloses == /\ pc["main"] = "sent" /\ loop = "idle"
              /\ Ask("main", "closing")
              /\ UNCHANGED <<feeding, tasks, reaping, tracking, flags, channels>>

MainEnds == /\ Granted("main", "closing")
            /\ running' = FALSE
            /\ Release /\ Suspend("main", "ended")
            /\ UNCHANGED <<feeding, tasks, reaping, tracking, paused, monitor_loop_trigger,
                           servers_cancelled, channels>>

Main == MainFinishes \/ QueuePutsSentinel \/ MainCloses \/ MainEnds

MonitorLooks == /\ Granted("monitor", "looking")
                /\ Release
                /\ Suspend("monitor", IF running THEN "sleeping" ELSE "ended")
                /\ UNCHANGED <<feeding, tasks, reaping, tracking, flags, channels>>

\* check_interval has passed: the monitor decides without the lock ...
MonitorDecides == /\ pc["monitor"] = "sleeping" /\ loop = "idle"
                  /\ Ask("monitor", IF monitor_loop_trigger /\ ~ShouldPause
                                    THEN "unpausing" ELSE "looking")
                  /\ UNCHANGED <<feeding, tasks, reaping, tracking, flags, channels>>

\* ... and acts when it has it.  (Releasing it and asking for it at the top of the
\* loop is one step: nothing is between.)
MonitorUnpauses == /\ Granted("monitor", "unpausing")
                   /\ paused' = FALSE
                   /\ pc' = [Notified EXCEPT !["monitor"] = "looking"]
                   /\ lock' = Append(Tail(lock), "monitor")
                   /\ loop' = IF Tail(lock) = <<>> THEN "monitor" ELSE "idle"
                   /\ UNCHANGED <<feeding, tasks, reaping, tracking, monitor_loop_trigger,
                                  running, servers_cancelled, channels>>

Monitor == MonitorLooks \/ MonitorDecides \/ MonitorUnpauses

-----------------------------------------------------------------------------
(* pause, update_param_version and resume.                                 *)

CallArrives(m, at) == /\ calls[m] = "called" /\ loop = "idle"
                      /\ calls' = [calls EXCEPT ![m] = "running"]
                      /\ Ask(m, at)
                      /\ UNCHANGED <<feeding, tasks, reaping, tracking, flags, queue, dropped,
                                     weights>>

CallReturns(m) == calls' = [calls EXCEPT ![m] = "returned"]

PauseLocked == /\ Granted("pause", "pausing")
               /\ paused' = TRUE
               /\ Suspend("pause", IF partial_rollout THEN "cancelling" ELSE "gathering")
               /\ UNCHANGED <<feeding, tasks, lock, reaping, tracking, monitor_loop_trigger,
                              running, servers_cancelled, channels>>

ServersCancel == /\ pc["pause"] = "cancelling" /\ loop = "idle"
                 /\ servers_cancelled' = TRUE
                 /\ Suspend("pause", "gathering")
                 /\ UNCHANGED <<feeding, tasks, lock, reaping, tracking, paused,
                                monitor_loop_trigger, running, channels>>

\* Mutant of PauseGathered: nobody waits.
PauseGathersNothing == /\ pc["pause"] = "gathering" /\ loop = "idle"
                       /\ Suspend("pause", "clearing")
                       /\ UNCHANGED <<feeding, tasks, lock, reaping, tracking, flags, channels>>

\* gather(return_exceptions=True) waits for every task and forgets those that raised.
PauseGathered == /\ pc["pause"] = "gathering" /\ loop = "idle"
                 /\ Live = {}
                 /\ finished' = 0 /\ failed' = 0
                 /\ Suspend("pause", "clearing")
                 /\ UNCHANGED <<feeding, task, stamp, lost, lock, reaping, tracking, flags,
                                channels>>

PauseReturns == /\ Granted("pause", "clearing")
                /\ monitor_loop_trigger' = FALSE
                /\ Release /\ Suspend("pause", "none")
                /\ CallReturns("pause")
                /\ UNCHANGED <<feeding, tasks, reaping, tracking, paused, running,
                               servers_cancelled, queue, dropped, weights>>

\* Mutant of UpdateLocked: the version is set ahead.
UpdateLockedAhead == /\ Granted("update", "updating")
                     /\ current_param_version' = weights + 1
                     /\ tally' = ActiveCount + Len(cancel_queue)
                     /\ Suspend("update", "counting")
                     /\ UNCHANGED <<feeding, tasks, lock, reaping, staleness_samples, flags,
                                    channels>>

\* The call came with the version of the weights just transferred; the Trainer may be
\* ahead of it by now.  The sum is taken from left to right: the queue's size comes from
\* another actor and arrives later than the two sizes before it were read.
UpdateLocked == /\ Granted("update", "updating")
                /\ current_param_version' = weights
                /\ tally' = ActiveCount + Len(cancel_queue)
                /\ Suspend("update", "counting")
                /\ UNCHANGED <<feeding, tasks, lock, reaping, staleness_samples, flags, channels>>

QueueSizeRead == /\ pc["update"] = "counting"
                 /\ tally' = tally + Len(queue)
                 /\ pc' = [pc EXCEPT !["update"] = "counted"]
                 /\ UNCHANGED <<feeding, tasks, lock, loop, reaping, current_param_version,
                                staleness_samples, flags, channels>>

UpdateCounted == /\ pc["update"] = "counted" /\ loop = "idle"
                 /\ staleness_samples' = tally
                 /\ tally' = 0
                 /\ Suspend("update", "reporting")
                 /\ UNCHANGED <<feeding, tasks, lock, reaping, current_param_version, flags,
                                channels>>

UpdateReturns == /\ Granted("update", "reporting")
                 /\ Release /\ Suspend("update", "none")
                 /\ CallReturns("update")
                 /\ UNCHANGED <<feeding, tasks, reaping, tracking, flags, queue, dropped,
                                weights>>

\* resume is called with the result of update_param_version: it starts after it.
ResumeArrives == calls["update"] = "returned" /\ CallArrives("resume", "resuming")

ResumeLocked == /\ Granted("resume", "resuming")
                /\ IF partial_rollout THEN Suspend("resume", "reviving")
                                      ELSE GoOn("resume", "reviving")
                /\ UNCHANGED <<feeding, tasks, lock, reaping, tracking, flags, channels>>

ResumeReturns == /\ Granted("resume", "reviving")
                 /\ servers_cancelled' = FALSE
                 /\ paused' = FALSE
                 /\ monitor_loop_trigger' = TRUE
                 /\ pc' = [Notified EXCEPT !["resume"] = "none"]
                 /\ loop' = "idle" /\ Release
                 /\ CallReturns("resume")
                 /\ UNCHANGED <<feeding, tasks, reaping, tracking, running, queue, dropped,
                                weights>>

Synchronisation == \/ CallArrives("pause", "pausing") \/ PauseLocked
                   \/ ServersCancel \/ PauseGathered \/ PauseReturns
                   \/ CallArrives("update", "updating") \/ UpdateLocked
                   \/ QueueSizeRead \/ UpdateCounted \/ UpdateReturns
                   \/ ResumeArrives \/ ResumeLocked \/ ResumeReturns

RollouterNext == \/ Feed \/ Processor \/ Main \/ Monitor \/ Synchronisation
                 \/ \E s \in Samples : TaskStep(s) \/ TaskReturns(s)
=============================================================================

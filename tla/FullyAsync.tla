---------------------------- MODULE FullyAsync ----------------------------
(***************************************************************************)
(* Fully asynchronous training (verl/experimental/fully_async_policy): the *)
(* Rollouter generates while the Trainer trains; they meet in the message  *)
(* queue and in the synchronisation of weights.                            *)
(***************************************************************************)
EXTENDS Rollouter, Trainer

VARIABLE excess     \* history: samples begun and not trained when the weights last moved

system == <<channels, rollouterVars, trainerVars>>
vars == <<system, excess>>

InQueue == {queue[i] : i \in 1 .. Len(queue)} \ {Sentinel}
InCancelQueue == {cancel_queue[i] : i \in 1 .. Len(cancel_queue)}
AtTask == {s \in Samples : task[s] \notin {"none", "put"}}
InHand == {hand} \ {Nothing}
Outstanding == InQueue \cup InCancelQueue \cup AtTask \cup InHand

Init == ChannelsInit /\ RollouterInit /\ TrainerInit /\ excess = 0

Next == /\ \/ RollouterNext /\ UNCHANGED trainerVars
           \/ TrainerNext /\ UNCHANGED rollouterVars
        /\ excess' = IF weights' = weights THEN excess
                     ELSE Cardinality(InQueue \cup InCancelQueue \cup AtTask)

\* The event loop runs every coroutine that keeps being ready (its ready queue is
\* first in, first out), servers and queue answer, and the Trainer goes on.  A monitor
\* that sleeps is such a coroutine.  Nothing says that a generation fails.
Fairness ==
  /\ SF_system(Feed /\ UNCHANGED trainerVars)
  /\ SF_system(Processor /\ UNCHANGED trainerVars)
  /\ SF_system(Main /\ UNCHANGED trainerVars)
  /\ SF_system(Monitor /\ UNCHANGED trainerVars)
  /\ SF_system(Synchronisation /\ UNCHANGED trainerVars)
  /\ \A s \in Samples : SF_system(((TaskStep(s) /\ ~TaskFails(s)) \/ TaskReturns(s))
                                /\ UNCHANGED trainerVars)
  /\ WF_system(TrainerNext /\ UNCHANGED rollouterVars)

Spec == Init /\ [][Next]_vars
FairSpec == Spec /\ Fairness

-----------------------------------------------------------------------------


Begun == 1 .. IF taken < DONE THEN taken ELSE Total

\* Samples trained between two synchronisations.
PerVersion == required_samples * trigger_parameter_sync_step

\* Every sample taken from the dataset is in one place, once: in the processor's hand,
\* with a task, interrupted, queued, pushed out of the queue, collected, trained, or
\* lost with a task that raised.
Whereabouts ==
  /\ Begun = Outstanding \cup (dropped \ {Sentinel}) \cup batch \cup trained \cup lost
  /\ Cardinality(Begun) = Cardinality({i \in DOMAIN queue : queue[i] # Sentinel})
                          + Len(cancel_queue) + Cardinality(AtTask) + Cardinality(InHand)
                          + Cardinality(dropped \ {Sentinel}) + Cardinality(batch)
                          + Cardinality(trained) + Cardinality(lost)

\* No more generations run, or wait to be reaped, than the limit allows.
ActiveBound == ActiveCount <= MaxConcurrent

\* What is generated for a version, together with what was there before, is what the
\* version may use at most.
RolloutNum ==
  excess + Cardinality({s \in Begun \ InHand : task[s] # "created" /\ stamp[s] = weights})
    <= MaxRequired

\* When pause returns, the tasks it found have ended.
PauseWaits == [][calls["pause"] = "running" /\ calls'["pause"] = "returned"
                 => Live = {} /\ finished = 0 /\ failed = 0]_vars

\* A sample is collected while the Trainer is at the version it was generated for.
OnPolicy == [][\A s \in batch' \ batch : stamp[s] = version]_vars

\* Staleness is bounded.  The pause before the second transfer after its generation began
\* waits for a sample; from then on it is in the queue with fewer than MaxRequired ahead.
Fresh == [][\A s \in batch' \ batch :
              stamp[s] <= version
              /\ version <= stamp[s] + 2 + (MaxRequired - 1) \div PerVersion]_vars

\* Unless a generation raised, training does not end before it made its total_train_steps.
StepsTaken == trainer = "ended" /\ lost = {}
                => Cardinality(trained) >= PerVersion * (Total \div PerVersion)

\* Training comes to an end.
Ends == <>(trainer = "ended")
====

------------------------------ MODULE Trainer ------------------------------
(***************************************************************************)
(* The FullyAsyncTrainer actor (fully_async_trainer.py) and the            *)
(* ParameterSynchronizer it drives (param_sync.py).  Both block on their   *)
(* remote calls, so each is at one place at a time.                        *)
(***************************************************************************)
EXTENDS AsyncChannels

CONSTANTS
  required_samples,             \* samples of a training step
  trigger_parameter_sync_step,  \* training steps between synchronisations
  test_freq,                    \* versions between validations
  use_trainer_do_validate

ASSUME TrainerConstants ==
  /\ required_samples \in Nat \ {0}
  /\ trigger_parameter_sync_step \in Nat \ {0}
  /\ test_freq \in Nat \ {0}
  /\ use_trainer_do_validate \in BOOLEAN

VARIABLES
  trainer,             \* what the Trainer is at
  version,             \* its current_param_version
  local_trigger_step,
  batch,               \* queue_samples
  trained,             \* history: samples that were in a training batch
  closing,             \* fit has left its loop
  validate_task        \* the Trainer's own remote validation: none, called or done

trainerVars == <<trainer, version, local_trigger_step, batch, trained, closing, validate_task>>

TrainerInit == /\ trainer = "collecting"
               /\ version = 0
               /\ local_trigger_step = 1
               /\ batch = {} /\ trained = {}
               /\ closing = FALSE
               /\ validate_task = "none"

\* get_sample_sync returns a sample, ...
Collect == /\ trainer = "collecting"
           /\ queue # <<>> /\ Head(queue) # Sentinel
           /\ queue' = Tail(queue)
           /\ batch' = batch \cup {Head(queue)}
           /\ trainer' = IF Cardinality(batch') = required_samples THEN "training"
                                                                   ELSE "collecting"
           /\ UNCHANGED <<dropped, calls, version, local_trigger_step, trained, weights,
                          closing, validate_task>>

\* ... or the end signal, and an incomplete batch is never trained.
Terminate == /\ trainer = "collecting"
             /\ queue # <<>> /\ Head(queue) = Sentinel
             /\ queue' = Tail(queue)
             /\ closing' = TRUE
             /\ trainer' = "waiting_last"
             /\ UNCHANGED <<dropped, calls, version, local_trigger_step, batch, trained, weights,
                            validate_task>>

\* A training step, and after every trigger_parameter_sync_step of them a new version.
Train == /\ trainer = "training"
         /\ trained' = trained \cup batch
         /\ batch' = {}
         /\ IF local_trigger_step < trigger_parameter_sync_step
            THEN /\ local_trigger_step' = local_trigger_step + 1
                 /\ trainer' = "collecting"
                 /\ UNCHANGED version
            ELSE /\ local_trigger_step' = 1
                 /\ version' = version + 1
                 /\ trainer' = "waiting_sync"
         /\ UNCHANGED <<queue, dropped, calls, weights, closing, validate_task>>

\* wait_last_valid
LastDone == /\ calls["update"] = "returned" /\ calls["resume"] = "returned"
            /\ validate_task # "called"

\* sync_weights: the Rollouter is asked to pause, ...
SyncWeights == /\ trainer = "waiting_sync"
               /\ LastDone
               /\ calls' = [calls EXCEPT !["pause"] = "called"]
               /\ trainer' = "pausing"
               /\ UNCHANGED <<queue, dropped, version, local_trigger_step, batch, trained,
                              weights, closing, validate_task>>

RolloutPaused == /\ trainer = "pausing"
                 /\ calls["pause"] = "returned"
                 /\ trainer' = "transferring"
                 /\ UNCHANGED <<channels, version, local_trigger_step, batch, trained, closing,
                                validate_task>>

\* ... the weights are transferred, and the calls that make the Rollouter go on are
\* left to themselves.  Only the final synchronisation validates.
WeightsTransferred ==
  /\ trainer = "transferring"
  /\ weights' = version
  /\ calls' = [calls EXCEPT !["update"] = "called", !["resume"] = "called"]
  /\ validate_task' = IF closing /\ use_trainer_do_validate THEN "called" ELSE "none"
  /\ trainer' = IF closing THEN "finishing" ELSE "collecting"
  /\ UNCHANGED <<queue, dropped, version, local_trigger_step, batch, trained, closing>>

\* fit leaves its loop, waits for the last synchronisation, and makes another if the
\* weights changed since or were not validated.
LastSync == /\ trainer = "waiting_last"
            /\ LastDone
            /\ IF version % test_freq # 0 \/ local_trigger_step > 1
               THEN /\ version' = version + 1
                    /\ local_trigger_step' = 1
                    /\ trainer' = "waiting_sync"
               ELSE /\ trainer' = "ended"
                    /\ UNCHANGED <<version, local_trigger_step>>
            /\ UNCHANGED <<queue, dropped, calls, batch, trained, weights, closing,
                           validate_task>>

\* _trigger_parameter_sync_after_step may itself validate, on the Trainer's event loop,
\* before fit blocks; while it awaits, the remote validation runs too.
OwnValidation == /\ trainer = "finishing"
                 /\ use_trainer_do_validate /\ version % test_freq = 0
                 /\ validate_task = "called"
                 /\ validate_task' = "done"
                 /\ UNCHANGED <<channels, trainer, version, local_trigger_step, batch, trained,
                                closing>>

Finish == /\ trainer = "finishing"
          /\ LastDone
          /\ trainer' = "ended"
          /\ UNCHANGED <<channels, version, local_trigger_step, batch, trained, closing,
                         validate_task>>

TrainerNext == \/ Collect \/ Terminate \/ Train \/ SyncWeights \/ RolloutPaused
               \/ WeightsTransferred \/ LastSync \/ OwnValidation \/ Finish

=============================================================================

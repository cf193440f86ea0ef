----------------------------- MODULE Checkpoint -----------------------------
(***************************************************************************)
(* Checkpoints and resumption of two trainers that share the checkpoint    *)
(* managers: PPO (RayPPOTrainer, whose driver calls an actor and a critic  *)
(* worker group in turn) and supervised fine-tuning (SFTTrainer and its    *)
(* CheckpointHandler, where every rank runs the whole of it).  A crash     *)
(* kills every process at any step; the launcher starts them again with    *)
(* resume_mode "auto".  What a batch holds, and what training does with    *)
(* it, is abstract: weights are the batches they were trained on.          *)
(***************************************************************************)
EXTENDS Integers, Sequences, SequencesExt

CONSTANTS
  Ranks,                \* of a worker group; 0 is one of them
  Configs,              \* records [sft, keep]: keep is max_ckpt_to_keep, 0 for None
  StepsPerEpoch, total_epochs, save_freq,
  MaxCrashes            \* bound

ASSUME ConstantsOK ==
  /\ 0 \in Ranks /\ Configs \subseteq [sft : BOOLEAN, keep : Nat]
  /\ StepsPerEpoch \in Nat \ {0} /\ total_epochs \in Nat \ {0} /\ save_freq \in Nat \ {0}
  /\ MaxCrashes \in Nat

VARIABLES
  config, crashes,
  phase,          \* down, training, saving (a manager), data (data.pt and tracker), done, failed
  manager,        \* whose save_checkpoint runs
  at,             \* each rank in it: called, ready (at the first barrier), dumped
  global_steps, epoch,
  position,       \* batches the rank's train_dataloader gave out this epoch
  weights,
  previous_saved_paths,  \* of rank 0's manager: the steps saved by this process
  folders,        \* global_step_* directories
  shard,          \* what a rank's model file of a step holds; NoFile
  data,           \* the position in a rank's data.pt of a step; NoData
  tracker         \* latest_checkpointed_iteration.txt: a step, none or torn

memory == <<manager, at, global_steps, epoch, position, weights, previous_saved_paths>>
disk == <<folders, shard, data, tracker>>
vars == <<config, crashes, phase, memory, disk>>

total_training_steps == StepsPerEpoch * total_epochs
Steps == 1 .. total_training_steps
NoFile == <<>>
NoData == -1
None == 0
Torn == -1

\* The SFT engine's manager writes into the step's folder, the PPO managers
\* into directories of their own in it; every SFT rank saves its dataloader.
Managers == IF config.sft THEN <<"model">> ELSE <<"actor", "critic">>
Loaders == IF config.sft THEN Ranks ELSE {0}

Blank ==
  /\ manager' = 1 /\ at' = [r \in Ranks |-> "called"]
  /\ global_steps' = 0 /\ epoch' = 0 /\ weights' = <<>>
  /\ position' = [r \in Ranks |-> 0]
  /\ previous_saved_paths' = [m \in Range(Managers) |-> <<>>]

Init ==
  /\ config \in Configs /\ crashes = 0 /\ phase = "down"
  /\ manager = 1 /\ at = [r \in Ranks |-> "called"]
  /\ global_steps = 0 /\ epoch = 0 /\ weights = <<>>
  /\ position = [r \in Ranks |-> 0]
  /\ previous_saved_paths = [m \in Range(Managers) |-> <<>>]
  /\ folders = {} /\ tracker = None
  /\ shard = [s \in Steps |-> [m \in Range(Managers) |-> [r \in Ranks |-> NoFile]]]
  /\ data = [s \in Steps |-> [r \in Ranks |-> NoData]]

\* Deleting a manager's directory of old steps, in one step: a removal cut short leaves a
\* part of a checkpoint that is not tracked, or with keep = 1 of the tracked one.
Removed(m, old) ==
  /\ shard' = [s \in Steps |-> IF s \in old THEN [shard[s] EXCEPT ![m] = [r \in Ranks |-> NoFile]]
                               ELSE shard[s]]
  /\ IF config.sft
     THEN /\ folders' = folders \ old
          /\ data' = [s \in Steps |-> IF s \in old THEN [r \in Ranks |-> NoData] ELSE data[s]]
     ELSE UNCHANGED <<folders, data>>

\* The first paths of the list go, so that at most n stay.
Trimmed(m, list, n) ==
  LET cut == IF Len(list) > n THEN Len(list) - n ELSE 0
  IN  /\ Removed(m, Range(SubSeq(list, 1, cut)))
      /\ previous_saved_paths' = [previous_saved_paths EXCEPT ![m] = SubSeq(list, cut + 1, Len(list))]

-----------------------------------------------------------------------------
(* Starting: find_latest_ckpt_path and the trainers' load_checkpoint.        *)

NoCheckpoint == tracker = None \/ (tracker \in Steps /\ tracker \notin folders)
Loadable(s) == s \in folders /\ \A m \in Range(Managers), r \in Ranks : shard[s][m][r] # NoFile

FromScratch == phase = "down" /\ NoCheckpoint /\ phase' = "training" /\ Blank

\* What the loader does with a state saved behind the last batch of an epoch
\* is the library's: the next loop is empty, or starts anew.
LoaderAt(s, r) ==
  IF data[s][r] = NoData THEN {0}
  ELSE IF data[s][r] = StepsPerEpoch THEN {0, StepsPerEpoch} ELSE {data[s][r]}

\* A mutant: the dataloader's state is not loaded.
ResumeFreshLoader ==
  /\ phase = "down" /\ tracker \in Steps /\ Loadable(tracker)
  /\ phase' = "training"
  /\ global_steps' = tracker /\ epoch' = tracker \div StepsPerEpoch
  /\ weights' = shard[tracker][Managers[1]][0]
  /\ position' = [r \in Ranks |-> 0]
  /\ UNCHANGED <<manager, at, previous_saved_paths>>

Resume ==
  /\ phase = "down" /\ tracker \in Steps /\ Loadable(tracker)
  /\ phase' = "training"
  /\ global_steps' = tracker /\ epoch' = tracker \div StepsPerEpoch
  /\ weights' = shard[tracker][Managers[1]][0]
  /\ \E p \in [Loaders -> 0 .. StepsPerEpoch] :
       /\ \A r \in Loaders : p[r] \in LoaderAt(tracker, r)
       /\ position' = [r \in Ranks |-> IF r \in Loaders THEN p[r] ELSE 0]
  /\ UNCHANGED <<manager, at, previous_saved_paths>>

\* int("") raises, and so does a model file that is not there.
CannotLoad ==
  /\ phase = "down"
  /\ tracker = Torn \/ (tracker \in folders /\ ~Loadable(tracker))
  /\ phase' = "failed" /\ UNCHANGED memory

Start == (FromScratch \/ Resume \/ CannotLoad) /\ UNCHANGED <<config, crashes, disk>>

-----------------------------------------------------------------------------
(* Training                                                                  *)

IsLastStep(n) == n >= total_training_steps
SaveHere(n) == IsLastStep(n) \/ n % save_freq = 0

\* PPO saves at any other step too when its instance is about to expire.
Train ==
  /\ phase = "training" /\ epoch < total_epochs
  /\ \A r \in Loaders : position[r] < StepsPerEpoch
  /\ global_steps' = global_steps + 1
  /\ position' = [r \in Ranks |-> IF r \in Loaders THEN position[r] + 1 ELSE 0]
  /\ weights' = Append(weights, {position[r] + 1 : r \in Loaders})
  /\ \/ phase' = "saving" /\ (SaveHere(global_steps') \/ ~config.sft)
     \/ phase' = "training" /\ ~SaveHere(global_steps')
  /\ UNCHANGED <<manager, at, epoch, previous_saved_paths>>

EndEpoch ==
  /\ phase = "training" /\ epoch < total_epochs
  /\ \A r \in Loaders : position[r] = StepsPerEpoch
  /\ epoch' = epoch + 1 /\ position' = [r \in Ranks |-> 0]
  /\ UNCHANGED <<phase, manager, at, global_steps, weights, previous_saved_paths>>

EndFit == phase = "training" /\ epoch = total_epochs /\ phase' = "done" /\ UNCHANGED memory

Training == (Train \/ EndEpoch \/ EndFit) /\ UNCHANGED <<config, crashes, disk>>

-----------------------------------------------------------------------------
(* save_checkpoint of one manager, by all its ranks, then of the next        *)

Name == Managers[manager]

\* A mutant: room is made for a single checkpoint too.
CapacityOfOne ==
  /\ phase = "saving" /\ at[0] = "called" /\ at' = [at EXCEPT ![0] = "ready"]
  /\ IF config.keep > 0
     THEN Trimmed(Name, previous_saved_paths[Name], config.keep - 1)
     ELSE UNCHANGED <<previous_saved_paths, folders, shard, data>>
  /\ UNCHANGED <<config, crashes, phase, manager, global_steps, epoch, position, weights, tracker>>

\* Rank 0 makes room first; with a limit of 1 (or none) it does nothing.
Capacity ==
  /\ phase = "saving" /\ at[0] = "called" /\ at' = [at EXCEPT ![0] = "ready"]
  /\ IF config.keep > 1
     THEN Trimmed(Name, previous_saved_paths[Name], config.keep - 1)
     ELSE UNCHANGED <<previous_saved_paths, folders, shard, data>>
  /\ UNCHANGED <<config, crashes, phase, manager, global_steps, epoch, position, weights, tracker>>

Arrive(r) ==
  /\ phase = "saving" /\ r # 0 /\ at[r] = "called" /\ at' = [at EXCEPT ![r] = "ready"]
  /\ UNCHANGED <<config, crashes, phase, manager, global_steps, epoch, position, weights,
                 previous_saved_paths, disk>>

\* Behind the first barrier.  Model, optimizer and extra state are one file here; one that
\* is cut short is of a step that is not tracked yet.
Dump(r) ==
  /\ phase = "saving" /\ \A q \in Ranks : at[q] # "called"
  /\ at[r] = "ready" /\ at' = [at EXCEPT ![r] = "dumped"]
  /\ folders' = folders \union {global_steps}
  /\ shard' = [shard EXCEPT ![global_steps][Name][r] = weights]
  /\ UNCHANGED <<config, crashes, phase, manager, global_steps, epoch, position, weights,
                 previous_saved_paths, data, tracker>>

AllDumped == \A r \in Ranks : at[r] \in {"dumped", "saved"}

\* A mutant: rank 0 does not wait for the others at the second barrier.
RegisterEarly ==
  /\ phase = "saving" /\ at[0] = "dumped"
  /\ LET list == Append(previous_saved_paths[Name], global_steps)
     IN  Trimmed(Name, list, IF config.keep = 0 THEN Len(list) ELSE config.keep)
  /\ IF manager < Len(Managers)
     THEN manager' = manager + 1 /\ at' = [r \in Ranks |-> "called"] /\ UNCHANGED phase
     ELSE phase' = "data" /\ UNCHANGED <<manager, at>>
  /\ UNCHANGED <<config, crashes, global_steps, epoch, position, weights, tracker>>

\* Behind the second: rank 0 registers the checkpoint, and the driver goes on.
Register ==
  /\ phase = "saving" /\ AllDumped
  /\ LET list == Append(previous_saved_paths[Name], global_steps)
     IN  Trimmed(Name, list, IF config.keep = 0 THEN Len(list) ELSE config.keep)
  /\ IF manager < Len(Managers)
     THEN manager' = manager + 1 /\ at' = [r \in Ranks |-> "called"] /\ UNCHANGED phase
     ELSE phase' = "data" /\ UNCHANGED <<manager, at>>
  /\ UNCHANGED <<config, crashes, global_steps, epoch, position, weights, tracker>>

-----------------------------------------------------------------------------
(* The dataloader's state, then the tracker                                  *)

\* In SFT a rank goes on alone behind the manager's last barrier.
SaveData(r) ==
  /\ r \in Loaders /\ at[r] = "dumped"
  /\ \/ phase = "data"
     \/ phase = "saving" /\ config.sft /\ r # 0 /\ AllDumped
  /\ at' = [at EXCEPT ![r] = "saved"]
  /\ data' = [data EXCEPT ![global_steps][r] = position[r]]
  /\ UNCHANGED <<config, crashes, phase, manager, global_steps, epoch, position, weights,
                 previous_saved_paths, folders, shard, tracker>>

\* The SFT handler renames a file over the tracker; PPO opens it and then writes.
Track ==
  /\ phase = "data" /\ at[0] = "saved"
  /\ IF config.sft \/ tracker = Torn
     THEN tracker' = global_steps /\ at' = [at EXCEPT ![0] = "tracked"]
     ELSE tracker' = Torn /\ UNCHANGED at
  /\ UNCHANGED <<config, crashes, phase, manager, global_steps, epoch, position, weights,
                 previous_saved_paths, folders, shard, data>>

\* SFT's last barrier; is_last_step returns from fit.
Saved ==
  /\ phase = "data" /\ at[0] = "tracked" /\ \A r \in Loaders : at[r] \in {"saved", "tracked"}
  /\ phase' = IF IsLastStep(global_steps) THEN "done" ELSE "training"
  /\ manager' = 1 /\ at' = [r \in Ranks |-> "called"]
  /\ UNCHANGED <<config, crashes, global_steps, epoch, position, weights, previous_saved_paths, disk>>

Saving ==
  \/ Capacity \/ Register \/ Track \/ Saved
  \/ \E r \in Ranks : Arrive(r) \/ Dump(r) \/ SaveData(r)

Crash ==
  /\ phase \in {"training", "saving", "data"} /\ crashes < MaxCrashes
  /\ crashes' = crashes + 1 /\ phase' = "down" /\ Blank
  /\ UNCHANGED <<config, disk>>

Next == Start \/ Training \/ Saving \/ Crash

\* The processes run; nothing makes them crash.
Fairness == WF_vars(Start) /\ WF_vars(Training) /\ WF_vars(Saving)
Spec == Init /\ [][Next]_vars /\ Fairness

-----------------------------------------------------------------------------
(* Properties                                                                *)

\* A checkpoint a start can go on from: every rank's models of that step's
\* training, and the position of the dataloader.
ModelWhole(s, m) ==
  /\ s \in folders
  /\ \A r \in Ranks : Len(shard[s][m][r]) = s /\ shard[s][m][r] = shard[s][m][0]
Whole(s) == data[s][0] # NoData /\ \A m \in Range(Managers) : ModelWhole(s, m)

\* What the comment on the tracker promises ("for atomic usage"): the step it
\* names is a checkpoint that can be loaded.  Not so when one is kept: the
\* actor's manager deletes the last one before the rest of the new one exists.
TrackedIsWhole == tracker \in Steps => Whole(tracker)

\* With more than one kept, whatever rank or manager has written when a crash
\* comes, the tracked checkpoint is whole; with one, each manager on its own
\* always has a whole save (the promise of ensure_checkpoint_capacity).
AlwaysSomething ==
  /\ config.keep # 1 => TrackedIsWhole
  /\ tracker # None => \A m \in Range(Managers) : \E s \in Steps : ModelWhole(s, m)

\* However often PPO is killed and resumed, the weights have seen the batches
\* of every epoch in order, none twice and none left out in between, and as
\* many as there were steps: loader, step and weights are saved as one.
Lineage ==
  /\ Len(weights) = global_steps
  /\ ~config.sft =>
       /\ \A i \in DOMAIN weights : weights[i] = {((i - 1) % StepsPerEpoch) + 1}
       /\ phase = "training" => position[0] \in {global_steps % StepsPerEpoch, StepsPerEpoch}

\* SFT ranks whose loaders went apart: one was killed before its data.pt was
\* written and behind rank 0's tracker, and started its epoch again.
Apart == \E r \in Loaders : position[r] # position[0]

\* Training ends, through any number of crashes, or a start fails for one of
\* the two known causes: a tracker cut short, or a limit of one checkpoint.
Ends ==
  <>(phase = "done" \/ Apart \/ (phase = "failed" /\ (tracker = Torn \/ config.keep = 1)))
=============================================================================

# A verification of SHAPE-of-CoT

TLA+ models, model-checking runs and machine-checked proofs for the programs of
this repository: the SHAPE labelling pipeline (`src/utils`,
`src/analaysis_notebook`) and the reinforcement-learning framework it trains with
(`src/train/verl`). Every definition is written from the source; `PROJECT.json`
maps each one to the lines it stands for.

## 1. Inventory

### 1.1 The SHAPE pipeline

Three command-line steps turn raw chains of thought into labelled trajectories and
a notebook module reads them. They communicate only through directories of JSON
files: one file per trajectory, written by one step and read by the next.

| component | source | state it keeps | operations |
|---|---|---|---|
| Content Units (Step 1) | `utils/content_unit/preprocessor.py`, `run_preprocessing.py` | the list of sentences, the list of chunks, `current_idx`; one output file per trajectory, `--resume` | split into sentences, ask the model for chunk boundaries in overlapping windows, clamp and close gaps, merge short chunks, verify coverage, write |
| Heuristic labels (Step 2) | `utils/method/label_stateless.py`, `utils.py`, `schemas.py`, `hf_client.py` | per file: tags of every chunk; per chunk: retry counter | ask, parse with a ladder of strategies, retry 5 times, fall back to `E`; thread pool over files; skip files whose output exists |
| Semantic spaces (Step 3) | `utils/method/label_semantic_space.py`, `utils.py` | `SemanticSpaceMemory` (spaces, current id, next id), trigger flags, record of every chunk, two retry counters, the output file | trigger, prompt, parse, `transition`, record, write; the same pool and skip rule |
| Metrics | `analaysis_notebook/shape_metrics.py` | none | carry the last space id over units without a record, weigh spaces and segments by H tags |
| Evaluation | `train/eval/eval_benchmark.py` | results file | sample answers, score, write |

Hard behaviour: replies that parse but contradict themselves, nested retry loops
whose inner state must not leak into the next attempt, a reader that re-derives
state the writer kept, non-atomic writes combined with "skip if the file exists",
worker threads and a process that may be killed and started again.

What makes it correct: every space id in an output was opened by one earlier record;
the reader's and the writer's idea of the current space coincide at every unit; an
output has a record on exactly the units that call for one; every sentence ends up in
some chunk, in order; a file that exists is a file that was finished; a file is
eventually finished or reported.

### 1.2 Fully asynchronous training (`train/verl/experimental/fully_async_policy`)

Four Ray actors run concurrently and call each other remotely:

* `MessageQueue` (`message_queue.py`): a bounded deque of samples under an asyncio
  lock and condition. `put_sample` drops the oldest sample when full, `get_sample`
  waits, `shutdown` wakes everybody.
* `FullyAsyncRollouter` (`fully_async_rollouter.py`): a feed coroutine, a processor
  coroutine, one task per sample being generated, and a monitor coroutine share
  `paused`, `staleness_samples`, `active_tasks`, `cancel_queue` under one lock; it
  pauses itself when it is too far ahead and is paused by weight synchronisation.
* `FullyAsyncTrainer` (`fully_async_trainer.py`): collects `required_samples`
  samples, updates, and every `trigger_parameter_sync_step` updates asks for a
  synchronisation.
* `ParameterSynchronizer` (`param_sync.py`): pauses the rollouter, moves the
  weights, publishes the new version and resumes generation.

Below the Rollouter, a manager, agent-loop workers and inference servers
(`agent_loop`, `vllm_rollout`) generate the samples and can be interrupted: a cancel
event per request at the server, one per worker, and a conversation's state kept to
go on from.

Hard behaviour: coroutines that wait for a lock and act on what they read before
it, cancellation of partially generated samples and their continuation, a bound on
staleness that several counters must agree on, a condition variable with several
writers, termination by a sentinel.

What makes it correct: no sample is lost or trained twice, samples are no staler
than the threshold allows, nothing is generated while weights move, an interrupted
conversation loses and repeats nothing, the trainer eventually gets what it waits for
and everything stops after the last sample.

### 1.3 Other parts of the framework

| part | source under `train/verl` | what is hard in it |
|---|---|---|
| Agent loops, tools, interactions | `experimental/agent_loop`, `tools`, `interactions` | one state machine per conversation |
| Reward loop | `experimental/reward_loop` | a token bucket shared by coroutines, timeouts, a router whose counts must survive failures |
| Checkpoint managers | `utils/checkpoint`, `trainer/ppo/ray_trainer.py`, `trainer/sft_trainer.py` | ranks between barriers, retention, a tracker that names what can be loaded, a crash anywhere |
| Checkpoint engines | `checkpoint_engine` | double-buffered transfers |
| Transfer queue, one-step-off-policy, vision-language-action | `experimental/*` | variants of the trainer over concurrent libraries |
| Single controller, protocol, balancing | `single_controller`, `protocol.py`, `utils/seqlen_balancing.py` | pure functions, dispatch |
| Trainers, workers, models, kernels, losses | the rest | numerical |

`PROJECT.json` lists every one with its status, and under "hazards" the places where
the code is hard to test. Most have a property; those that say why not are the ones the
code itself meets, so that no property excludes them (section 6 has these).

## 2. Plan

| order | module | composed of | checked | proved |
|---|---|---|---|---|
| 1 | `SemanticSpace`, abstract `SpaceTrajectory` | | yes | every safety property, the refinement |
| 2 | `MessageQueue`, abstract `BoundedQueue` | | yes | every safety property, the refinement |
| 3 | `Rollouter`, `Trainer` over `AsyncChannels` | `BoundedQueue` | in 4 | |
| 4 | `FullyAsync` | `Rollouter`, `Trainer` | yes | every safety property; three of them for `staleness_threshold` 0, where the code promises them |
| 5 | `ContentUnit`, abstract `FileWork` | | yes | every safety property, the refinement |
| 6 | `HeuristicLabel` | | yes | every safety property, the refinement of `FileWork` |
| 7 | `Pipeline`: the three steps over a directory, their pools, kills, further runs | `FileWork`, which 1, 5 and 6 implement | yes | every safety property, the refinement |
| 8 | `PartialRollout`: servers, agent loops, cancel and resume | | yes | every safety property |
| 9 | `Checkpoint`: saving, retention, crash, resumption, PPO and SFT | | yes | every safety property |
| 10 | `RewardLoop`: bucket, semaphore, timeout, router | | yes | every safety property |
| 11 | `ShapeMetrics`: segments and weights against a definition | reader of 1 | left | |
| 12 | partitioning of `seqlen_balancing.py` against a definition | | left | |

Abstract specifications: `SpaceTrajectory` (a trace is a walk over spaces),
`BoundedQueue` (an indivisible queue that drops its oldest), `FileWork` (a step at work
on one file, as the others see it: it takes or skips the file, gives up, opens the
output, fills it, fails to, or is killed). `ContentUnit`, `HeuristicLabel` and
`SemanticSpace` implement `FileWork` for their file and `Pipeline` for every step and
file, so the pool and the work in a thread meet in the same few steps; that `Pipeline`
in turn leaves out no step of `FileWork` is to be read off its actions, which are the
same ones. `PartialRollout` stands in this way behind the one step `Answered` by which
`Rollouter` hears of a generation; this is argued, not checked.

## 3. What the modules model

Names of the source are kept where TLA+ allows it. A definition whose comment says
"mutant" or "Slip" is no part of a model: it is a plausible mistake in the definition
that follows it, with which the properties are shown to fail.

### 3.1 `SemanticSpace` (Step 3 on one file)

State: the file (tags of every Content Unit), the flag `--without_llm`, where the
program is (`pc`), the two retry counters, `SemanticSpaceMemory` (`spaces`,
`current_space_id`, `next_id`), the two trigger flags, the record of every chunk, and
the output file, which may be absent, torn or whole.

| action | code |
|---|---|
| `Load`, `LoadFails` | an attempt of `process_chunk_file`: the file is read anew, the memory is new |
| `SkipChunk`, `TagWithoutLLM`, `BuildPrompt`, `BuildPromptFails` | one turn of the loop over chunks up to the request; printing the history breaks on a definition that is no object |
| `ApiCallFails`, `ReplyUnusable`, `ReplyArrives` | the request with its three tries; a reply that is JSON but no object leaves both inner handlers |
| `OpenOutput`, `WriteOutput`, `WriteFails` | `open(path, "w")` truncates, `json.dump` fills |

The labelling model is external: any decision, target and kind of definition may
come, also contradictory ones. Definitions are told apart only by what the program
tells apart: none, an object, another truthy value. `SpaceIds` is the reader of
`shape_metrics.py`.

The properties: the reader's space is the writer's (`ReaderAgrees`); every id was
opened by one earlier record (`Grounded`); an output has records exactly where the
tags call for them, whatever failed before (`OutputComplete`); `--without_llm` opens
one space per run of triggers (`SpacePerRun`); every file is written or given up
(`Settles`); and the whole implements the walk (`ImplementsWalk`), whose steps open
the next space, return to an open one or stay.

### 3.2 `MessageQueue`

State: for every caller, what its call is at; the asyncio lock as the line of those
who hold it and wait for it; the deque, the counters, and two history variables. A
coroutine runs alone between two awaits, so an action is the code from one await to
the next: `Call` (the request arrives and joins the line), then one action per method
by the holder of the lock; `GetSampleWaits` gives the lock up, `Wake` joins the line
again. `ReturnNotifying` is a method's end with `notify_all`. Samples are numbered in
the order they are put. `BoundedQueue` is what users of the actor assume.

The properties: what was put is queued, handed out, dropped or cleared, once, and the
statistics say so (`Conservation`); the deque holds the newest in order
(`NewestInOrder`); whoever sleeps has nothing to wake up for (`WaitersJustified`);
every call returns or waits for a sample (`CallsReturn`); callers see `BoundedQueue`
(`ImplementsQueue`).

### 3.3 `Rollouter`, `Trainer`, `AsyncChannels`, `FullyAsync`

`Rollouter` is one event loop. `loop` names the coroutine between two suspensions,
if any: only code that truly suspends (a wait for a lock that is taken, a remote
call, a sleep) lets another in, which matters because several of the code's
decisions are right only for that reason. `lock` is the asyncio lock with its line;
asking for a free lock does not suspend. The condition is on the same lock. Ready
coroutines run in any order, a superset of asyncio's.

| coroutine | actions | code |
|---|---|---|
| feeder | `Feed` | `_feed_samples` |
| processor | `ProcStops` ... `ProcSubmits` | `_processor_worker`: pause when too far ahead, take a sample (interrupted ones first), make room, submit |
| one task per sample | `TaskStarts` ... `TaskReturns` | `_process_single_sample_streaming` |
| main | `MainFinishes`, `QueuePutsSentinel`, `MainCloses`, `MainEnds` | `_streaming_generation_main` |
| monitor | `MonitorLooks`, `MonitorDecides`, `MonitorUnpauses` | `_async_monitor_loop` |
| remote calls | `CallArrives`, `Pause...`, `Update...`, `Resume...` | `pause`, `update_param_version`, `resume` |

`Answered`, `QueuePuts` and `QueueSizeRead` are other actors answering, at any time.
`Trainer` is `fit` of the Trainer and `sync_weights` and `wait_last_valid` of the
synchronizer, which block on their calls and so are one sequential process.
`weights` is the version the servers generate with, moved by the transfer;
`update_param_version` is told that version.
`AsyncChannels` holds what both sides share; its queue is `BoundedQueue`, which
`MessageQueue` is proved to implement. `FullyAsync` composes them; `excess` is a history
variable. The model starts after the first synchronisation, when the feeder has filled
`pending_queue` once and the monitor has looked once.

The properties: no sample is lost or in two places (`Whereabouts`); how many are
generated for a version (`RolloutNum`), how stale a sample may be when it is collected
(`Fresh`, `OnPolicy`); the limit of concurrent generations (`ActiveBound`); that pause
waits (`PauseWaits`); that no training step is missing unless a generation raised or the
end signal pushed a sample out (`StepsTaken`); that training ends (`Ends`).

### 3.4 `ContentUnit` (Step 1 on one trace)

State: where the program is, `current_idx`, the attempts of this window, whether it
covered anything, `processed_chunks`, and the label file with what it holds. A chunk
keeps the sentences of its text, its two indices and its tags, which the code can
make disagree, and as a history the tags of every segment it was joined from. Sentences
have lengths, because `--resume` compares lengths.

| action | code |
|---|---|
| `Start`, `Killed` | `_process_single_item`: with `--resume` a file that parses and covers nine tenths of the trace is left alone; `--skip-llm` makes one chunk of each sentence |
| `AttemptFails`, `ReplyEmpty`, `ReplyNoList`, `ReplyArrives` | the request for a window and its three attempts; when they are used up, or at an empty list, everything so far is dropped for one chunk per sentence |
| `Segment`, `NegativeEnd`, `UnreadableIndex` | one item of the reply: clamped at `current_idx` from both sides, out of range or wholly past ones skipped, what raises |
| `WindowEnds` | a window that covered nothing gives one sentence up ("Force advancing") |
| `Merge` | `merge_short_chunks`; codes that are `null` make no set |
| `OpenOutput`, `WriteOutput`, `OutputFails` | the file is truncated, then filled; either may raise, which ends the run for this trace |

The properties: the chunks read in order are the trace, no sentence twice, none out of
order, none missing but those given up one by one, each under the tags of its own segment
(`TextKept`); a run that ends by
itself leaves a whole file whatever it found (`RunLeavesWhole`); every run ends
(`RunEnds`).

### 3.5 `HeuristicLabel` (Step 2 on one file)

`batch` and `schema` choose among the four ways through the code: all requests at once
or one by one, with the pydantic schema or without. `Load`, `BatchArrives`,
`TryFails`, `TrySucceeds`, `ChunkBreaks`, `OpenLabels`, `WriteLabels` are the steps of
`process_chunk_file` and of the two passes of `utils.py`, each with its failing variant.
Replies are told apart by what the parsers make of them. The reuse of `response_json`
between the tries of a chunk is in the model (`Stale`), because one of the four ways
looks at an earlier parse instead of the new answer.

Names that `ContentUnit` has as well say that they are of the labels (`label_pc`,
`LabelNext`), so that `FileProofs` can be about both modules.

The properties: a written file has one label per chunk whatever attempts failed before
(`OutputComplete`); a chunk gets the first answer with codes, and `E` only if no try had
any, or it was not looked at (`FirstAnswerCounts`); the file settles (`Settles`).

### 3.6 `Pipeline` (the steps over a directory)

State: the running program, the files of every directory (absent, torn, or a version:
the number of the run of Step 1 whose cut they go back to), the raw file with the
problem texts, what each thread of the pool does, which input version and which text
it has.

| action | code |
|---|---|
| `Start` | `main`: list the input directory; Steps 2 and 3 load the raw file |
| `SkipFile`, `TakeFile` | skip if the output exists (Step 1 with `--resume`: if it parses, but one that parses may be cut again for its coverage); look up the problem's text, by the part of the name before `_` in Step 2, by `int(name)` in Step 3 |
| `GiveUp`, `OpenOutput`, `WriteOutput`, `WriteFails` | what 3.1, 3.4 and 3.5 do with one file (`FileWork`); a failed write is one more attempt in Steps 2 and 3 and the end of the trace in Step 1 |
| `Ends`, `OpenRaw`, `WriteRaw` | all futures done; Step 1 writes the raw file unless a trace raised |
| `Killed` | at any moment; the files stay |

The properties: a torn file was being written when the program was killed or the disk
failed, and a file of spaces belongs to the labels that are there (`FilesExplained`);
what is finished is never opened again (`FinishedStays`); a run that ends by itself
leaves nothing out without having reported it (`RunCompletes`); every step does with
every file what `FileWork` says (`ImplementsFileWork`); runs end (`RunEnds`).

### 3.7 `PartialRollout` (interruptible generation)

State: the manager's phase, which servers and whether the worker are paused, and per
conversation where its task waits (`at`), `AgentState`, `prompt_ids`, `response_mask`,
the turns, the server it is sent to, the server's cancel event and partial output, and
the answer on its way. Tokens are text, a complete tool call, or a reply.

| action | code |
|---|---|
| `Pause`, `ServerCancels`, `WorkerCancels`, `Cancelled`, `Gathered`, `Resumes` | `cancel` and `resume` of the manager, which reach servers and worker in any order; the Rollouter gathers its tasks in between |
| `Arrive`, `Answered` | `generate_for_partial`: refuse while paused, a new event, wait for the first of generation and cancellation; without tokens the entries stay |
| `Emit`, `EngineEnds`, `EngineRaises` | the engine, external |
| `Submit`, `Step`, `Complete` | the worker takes a sample, the top of `_run_state_machine`, the finished output |
| `SingleTurnAnswer` | `partial_single_turn_agent_loop.py` |
| `InterruptedAnswer`, `FinalAnswer` | `_handle_generating_state_partial` |
| `ToolsReply`, `UserReplies` | `_handle_processing_tools_state`, `_handle_interacting_state`, inherited from `ToolAgentLoop` |

The properties: a conversation is what engines answered and tools and users replied,
once, in order, the mask tells which is which, and an interrupted turn is one turn
(`Unbroken`); a server has told exactly those requests to stop that it should
(`CancelMeant`); a pause takes hold even if no engine ever ends by itself
(`CancelReturns`).

### 3.8 `Checkpoint` (the synchronous trainers)

`config` chooses PPO (a driver, two managers, one dataloader) or SFT (every rank runs
everything, one manager, a dataloader per rank) and `max_ckpt_to_keep`. Weights are the
batches they have seen, so that a model file says what it holds.

| action | code |
|---|---|
| `FromScratch`, `Resume`, `CannotLoad` | `find_latest_ckpt_path`, `load_checkpoint`; where the dataloader goes on from a state behind the last batch of an epoch is the library's, both ways are taken |
| `Train`, `EndEpoch`, `EndFit` | `fit` with its conditions for saving |
| `Capacity`, `Arrive`, `Dump`, `Register` | `save_checkpoint` of one manager by all ranks, between two barriers, with both places that delete old steps |
| `SaveData`, `Track`, `Saved` | `data.pt`, then the tracker (opened and then written in PPO, renamed over in SFT), the last barrier |
| `Crash` | of all processes, anywhere |

The properties: with more than one checkpoint kept, what the tracker names can be
loaded, and each manager always has a whole save (`AlwaysSomething`); PPO's weights
have seen every epoch's batches in order through any crashes (`Lineage`); training ends,
or a start fails for a known cause (`Ends`).

### 3.9 `RewardLoop`

Items of a batch are scored concurrently by the discriminative model (post and retry)
or by the rate-limited manager. Time counts ticks, one refilling `rate_limit` tokens.

| action | code |
|---|---|
| `AcquireLarge`, `SleptEnough`, `Acquire` | `AsyncTokenBucket.acquire`, whose two branches take the tokens before and after the sleep |
| `Begin`, `TimesOut`, `Answered`, `Refused` | semaphore, `wait_for`, `_post_request` with its retries |
| `Post`, `Succeeds`, `Fails`, `AnswersError` | the router: the least-loaded server, retries there, release on success only |
| `Tick` | the clock, when somebody waits for it |

The properties: no server is taken to be freer than it is (`NeverUndercounted`); the
bucket lets through what it held plus what was refilled, whoever wakes late
(`RateKept`); every item ends, unless it is a discriminative one that is left waiting at a
server that never answers (`Ends`). The servers are assumed nothing for this: a
rate-limited item ends by its timeout even if none ever answers.

## 4. Runs

| run | instance | shows |
|---|---|---|
| `space` | files of up to 3 units, 4 sets of tags, 2 tries per chunk, 2 per file, both modes | 3.1 |
| `queue` | 3 callers, capacity 2, 3 puts, 1 value set aside | 3.2 |
| `async_sync` | 5 samples, `staleness_threshold` 0 (2 samples per version, room for 2), 2 at a time, whole generations, which may raise | `RolloutNum`, `OnPolicy`, `StepsTaken`, `Ends` |
| `async_stream` | 4 samples, 1 per version, room for 2, 2 at a time, partial rollout, generations may raise | `Whereabouts`, `ActiveBound`, `Fresh`, `PauseWaits` |
| `units` | sentences of length 1, 6 and 4, three kinds of codes (one `null`), 2 attempts, 2 runs | 3.4 |
| `labels` | files of up to 2 chunks, 3 tries per chunk, 2 per file, all four ways | 3.5 |
| `pipeline` | traces `11` and `1_1`, 2 threads, 6 programs started | 3.6 |
| `pipeline_text` | the same | violation, see 6 |
| `rollout` | a tool conversation and a single turn of one sample, 2 servers, `response_length` 3, 1 user turn, an interaction, 1 pause | 3.7 |
| `rollout_calls` | 1 conversation, 1 server, `response_length` 4, 1 pause | violation, see 6 |
| `checkpoint` | 2 ranks, PPO and SFT, `max_ckpt_to_keep` none to 3, 3 epochs of 2 steps, `save_freq` 2, 2 crashes | 3.8 |
| `reward` | 3 items, 2 servers, requests of 2 and of 5 tokens, a bucket of 3 refilled by 2, 1 at a time, timeout 1, 2 posts, 2 attempts | 3.9 |

Why the bounds are enough.

* `space`: three units are the fewest in which a space is opened, left and returned to;
  two retries of each kind make an inner failure, an outer one and a success after
  each. The four sets of tags hold a trigger of both modes, one of the model's mode
  only, an H tag that triggers nothing and a tag that is no H tag.
* `queue`: three callers are one that holds the lock, one that waits for it and one
  that sleeps; capacity 2 with 3 puts fills, overflows and empties it. Versions and
  validation results touch nothing else of the state, so one caller at a time uses them
  and `MaxAside` bounds them.
* `async_*`: `MaxRequired` 2 with 2 concurrent generations has a task running, one in
  the queue and one in the processor's hand at once. Five samples with two per version
  go through three versions; four with one per version through five. `PendingCap` 2
  makes the feeder block, 5 never does.
* `units`: the first sentence is less than a tenth of the text, the others more, so a
  file that lost a sentence may pass for complete or not. Three sentences allow a merge
  of two that meets a third; indices run from below the range to above it.
* `labels`: three tries are a reply without annotations, one with, and one after it.
* `pipeline`: names `11` and `1_1` are the smallest that `int()` confuses; six programs
  are the three steps, each killed once.
* `rollout`: three tokens hold an interrupted segment, a tool's reply and a further
  token; two servers may be paused one after the other, and a resumed conversation may
  go to either. One pause leaves the stale entry that the requests after it may meet.
* `checkpoint`: three saves fill a limit of two and delete for it, four places may be
  killed in between; two crashes kill a resumed run again. The last step of an epoch is
  where the position of the dataloader is ambiguous, and every save falls on one or,
  in PPO, may fall elsewhere.
* `reward`: requests below and above the bucket take its two branches; three items at
  two servers and one permit make one wait, one score and one that is given up but
  still at its server.

Those of the bounds that are the model's own (`MaxProduced`, `MaxAside`, `MaxRuns`,
`MaxPauses`, `MaxReply`, `MaxCrashes`, `MaxChunks`) only end counters; the rest are
parameters of the code. `CHECK_DEADLOCK` is off where programs end, or where every caller
may be a consumer with nothing to consume; each cfg says which.

Fairness.

* `SemanticSpace`, `HeuristicLabel`: weak fairness of the whole, since every request to
  the model returns or times out and the program is sequential. `ContentUnit`: the same
  of its work, not of the kill or the next run.
* `MessageQueue`: weak fairness per caller, since asyncio's ready queue is first in,
  first out and a call whose turn it is stays ready.
* `FullyAsync`: weak fairness of the Trainer, which is a sequential process, and strong
  fairness of every coroutine of the Rollouter: a ready coroutine cannot act while
  another is between two suspensions, so its actions are enabled again and again rather
  than all the time, and the loop still gets to it. No fairness says that a generation
  fails. Subscripts leave out the history variable.
* `Pipeline`: weak fairness of each file's thread and of the main thread's end; none of
  starting or killing a program. A file whose write fails is tried again in Steps 2 and
  3, ten times at most; `Pipeline` does not count the attempts, and strong fairness of
  giving up or filling says instead that they are used up. That a thread settles is what
  `RunEnds` and `Settles` of the three modules of one file show.
* `PartialRollout`: weak fairness of what a conversation does by itself and of the
  manager's cancellation; none of the engine, which need never end, nor of resuming.
* `Checkpoint`: weak fairness of starting, training and saving; none of crashing.
* `RewardLoop`: weak fairness of the clock, and of *some* item that can go on at the
  limiter or in scoring: no item is favoured, and none needs to be. None of the servers:
  neither post has a time limit (`ClientTimeout(total=None)`, `reward_loop.py:130`,
  `naive_router.py:123`).

## 5. Proofs

Eight modules, for every value of the constants that satisfies the modules'
assumptions, which TLC evaluates on every run.

* `SemanticSpaceProofs`. `TypeOK` says that ids are `0 .. next_id - 1` and
  `next_id <= idx`; it is inductive only with `Control` (a request is under way only
  for a chunk that exists and with tries left). `LabelEffect` gives what labelling one
  chunk does to memory and records, once for all three actions that label.
  `ReaderAgrees`: the reader derives the current space from the last record, by a
  CHOOSE; `ReaderInv` adds that a last record exists whenever any does (`HasLast`),
  which spares an induction over finite sets. `LastRecordCounts` and `OnlyThePastCounts`
  say what a new record and later chunks mean to the reader.
  `Grounded` is inductive with `ReaderInv` and with which
  spaces the memory knows (`Known`): an id returned to was opened by some record, which
  stays. `OutputInv` strengthens `OutputComplete` and `SpacePerRun` to the chunks passed
  so far (`RecordsInv`), since both speak of a file only when it is whole. The walk
  (`WalkImplemented`): the trail of the implementation is what the reader makes of the
  records, so a labelled chunk must leave the trail before it alone (`TrailGrows`,
  `EarlierStay`), and a new attempt, which empties the records, is the walk's restart.
* `MessageQueueProofs`. `TypeOK` is inductive. `Account` (`AddsUp` of `Conservation` with
  `NewestInOrder`) is inductive given it: only put, take and clear touch the deque
  (`OtherSteps`). `WaitersJustified` is inductive: every step that fills the queue or
  closes it turns all sleepers into woken ones. `QueueImplemented` maps each step to a
  put, take, clear, close or stutter of `BoundedQueue`.
* `FullyAsyncProofs`. `TypeInv`: where each coroutine, task and call is, what the sequences
  hold. `LockInv`: who waits for the lock or has it is in its line, once, and who
  suspended while holding it is at its head (`OneHolder`). `RoomInv`: room the processor
  found before it asked for the lock is still there when it gets it, because nobody else
  starts tasks; `ActiveBound` and `PauseWaits` rest on these two. `PlaceInv`: eight places
  a sample can be in are disjoint (`Apart`), so their sizes add up to what was fed
  (`Whereabouts`). `Fresh` is an inequality between versions, which needs how many
  samples may lie before a sample in the queue: `AgeInv` is `VersionInv` (what versions the
  two sides have during an exchange), `StampInv` (what is being generated began since the
  transfer before the last one, or since the last one if a pause has gathered) and `QueueInv`
  (a queued sample's place is within what the Trainer collects before it would be too old:
  `Left` for this version, `Lag` versions more).
  `RolloutNum`, `StepsTaken` and `OnPolicy` hold where nothing may be stale: theorems with
  the hypothesis `Synchronous` (`staleness_threshold` 0, so that a version may use as many
  samples as it trains, and no partial rollout), which the instance of `async_sync`
  satisfies. `SyncInv`: nothing is interrupted (`Uninterrupted`); work ends with the last
  sample or a task that raised, with room in the queue for the end signal (`DrainInv`);
  `staleness_samples` counts what was begun for the version (`CountInv`), nothing happens
  while `update_param_version` sets it anew (`QuietInv`), and nothing is generated after the
  last transfer (`LastInv`); a pause in the first round does not find the processor
  between looking for tasks and having the lock (`FirstInv`); the end signal comes when
  all complete batches have been trained (`EndInv`).
* `FileProofs`, about Steps 1 and 2. `ContentUnit`: merging is a recursive function over
  the chunks, and what it does is shown by induction on the chunks merged so far.
  `SetInduction` makes this possible: the library's induction takes a formula as a
  parameter, but a set without a least missing number is all of `Nat`, which follows from
  the library's fact that `<` is well-founded; each induction names its set. One more chunk
  keeps the order and adds its sentences, appended or joined (`MergedOneMore`), so merging
  keeps what the chunks hold (`MergingKeeps`), each under its own tags
  (`ChunksOwnTags`). `UnitInv` adds to `TextKept` where the chunker stands: it has sentences left while it asks, what was given up lies behind it.
  `RunLeavesWhole` is inductive. `MergedForGood` is a result without a run: chunks of a
  run follow one another (`FollowInv`), and then one pass of merging leaves no single
  sentence beside a chunk with its codes. `HeuristicLabel`: `LabelInv` is `OutputComplete`
  with the place in the file: no more labels than chunks passed, and all of them where the
  output is written. `TriesInv`, for `FirstAnswerCounts`: of the tries before the one at
  hand none had codes, or one without annotations came before those (`BareFirst`).
  `UnitIsFileWork` and `LabelsAreFileWork` map each module's program counter to the
  states of `FileWork`; for the labels one needs that a whole file means a program that
  is done with it (`LabelOpen`). `SpacesAreFileWork` in `SemanticSpaceProofs` is alike.
* `PipelineProofs`. `PipelineInv` adds to `FilesExplained` what the pool holds
  (`PoolInv`): a thread that asks or writes has the version its input has, an output that
  is whole was accounted for, Step 2 never finds a file without a text. The last needs
  that a lookup by the last index with a key finds something (`LastWithKey`, from
  `HasMinimum`: numbers are well-founded). `FinishedStays` and `RunCompletes`
  are steps from it, and so is `ImplementsFileWork`: a thread's step is a step of its
  own file (`OwnFile`) and none of any other step's or file's (`OtherFiles`).
* `PartialRolloutProofs`. `TalkInv` is stated per conversation (`Told`): what is in the
  prompt, what is on its way and what was spoken, the mask, and turns by state; an action
  on one conversation leaves the others as they were (`OneConversation`). `CancelInv`
  adds to `CancelMeant` where requests can be in each phase: once all tasks have returned
  only orphans of a failed sample are at an engine, so that resuming a server wrongs
  nobody.
* `CheckpointProofs`. `LineageInv`: every model file on disk holds what its step should
  have seen, the position in `data.pt` is the step modulo the length of an epoch, and a
  tracked checkpoint has its `data.pt`; with lemmas on remainders the solver lacks.
  `SomethingInv`, for `AlwaysSomething`: where ranks and managers are (`AtInv`), that steps
  only grow (`StepInv`), what the save under way has written so far (`DumpInv`), that each
  manager's list of saves ends with the tracked step (`ListInv`), and that the tracked step
  is whole (`TrackInv`) and lies behind (`Onward`), or an SFT process that keeps one
  checkpoint was killed between removing it and tracking the next, and all starts anew
  (`Anew`). A resumed run writes steps again that are there; that this leaves PPO's
  checkpoints as they were is `Lineage`, since its weights are determined by the step.
* `RewardLoopProofs`. `RouterInv` is `NeverUndercounted` with its types. `RateKept` says
  nothing of tokens promised to sleepers; `BucketInv` counts them as taken (`Taken`) and
  says for every time `t` from now on that what was granted together with what falls due
  by `t` stays under `max_tokens + rate_limit * t` (`DueKept`); `CeilEnough` is that a
  sleep is long enough.

Model-checked only: liveness (`Settles`, `CallsReturn`, `RunEnds`, `CancelReturns`, `Ends`),
which is beyond the prover, and the two counterexamples of section 6. Every safety and
action property of the other runs is a theorem.

## 6. Where code and documents disagree

Two are runs that end in a counterexample; `PROJECT.json` quotes the lines.

* `pipeline_text`: with names like `1_14.json`, which `label_semantic_space.py` lists as
  supported, Step 3 looks problem texts up under `int("1_14")`, 114 to Python: problem 1
  is asked about without its text, and problem 114 perhaps with that of problem 1.
* `rollout_calls`: a tool call made before an interruption is never executed: tool calls
  are extracted from the answer after it alone.

Others were met on the way; the models have them where they model the code, and have no
run of their own.

Labelling:

* The guidebook tells the model it was asked because of H1, H2, H5, H6, H10 or H13
  (`semantic_space_guide.md:21`); the code asks at H1, H2, H3, H5, H8, H11, and at the
  first H tag (`utils.py:1095`). The help text of `--without_llm` names H1 to H4 where
  the code has H1 and H2.
* A reply NEW without a definition is recorded as NEW while the memory stays where it
  was.
* Step 2 defaults a chunk to `E` after its tries (`utils.py:765`, `804`), except when an
  annotation has no `code`, which breaks out of them all (`860`, `874`). One by one and
  without the schema, an answer after one without annotations is not looked at. The
  schema's rule that heuristics come first (`schemas.py:60`) is bypassed by a reply it
  refuses.
* An output is opened before it is dumped (`utils.py:892`, `1248`, `1434`), and the next
  run skips any file that exists (`label_semantic_space.py:209`): a kill in between
  leaves a torn file for good.
* Traces cut again by Step 1 keep the labels of the old cut; Steps 2 and 3 do not look.
* "Absolutley no missing sentences" (`preprocessor.py:422`), and a window without a valid
  segment gives one up. `--resume` accepts the fallback of one sentence per chunk like
  any other. One trace that raises leaves the raw file, and with it both later steps,
  without problem texts.

Fully asynchronous training:

* The monitor decides to go on, waits for the lock while pause has it, and clears `paused`
  after pause returned (`fully_async_rollouter.py:655`): generation may go on under the
  transfer.
* The end signal is put into a full queue and pushes a sample out (`586`): the last
  training step may never happen.
* With partial rollout a pause during the final drain sends samples to `cancel_queue`,
  which nobody reads any more (`481`; `fully_async_policy/README.md:246`).
* `update_param_version` counts tasks, interrupted samples and the queue, but not the
  sample in the processor's hand (`229`), and its three reads are of different moments:
  with `staleness_threshold` 0 and partial rollout both sides can be left waiting.
* The last validation is queued on the event loop that waits for it (`param_sync.py:128`)
  when `test_freq` does not cover the last version: training hangs there. The runs take
  a `test_freq` that does.
* `done_tasks` may be unbound when pause empties `active_tasks` in the processor's first
  round (`452`; the model has the exception that follows). A checkpoint stores the data
  loader ahead of the samples in flight (`265`).
* A sample whose one conversation raises leaves the others running
  (`agent_loop.py:137`); pause does not wait for them. After an interruption the user's
  interaction sees only the last segment of the turn (`partial_tool_agent_loop.py:223`).

Checkpoints and rewards:

* With `max_ckpt_to_keep` 1 the old checkpoint is deleted when one manager has saved
  (`checkpoint_manager.py:148`, `159`): a crash before the rest leaves PPO with a tracker
  that names what cannot be loaded, or SFT with a folder that is gone, and it starts from
  scratch without saying so.
* The PPO tracker is opened and then written; cut short, `int("")` stops every later
  start. Retention knows only what this process saved (`checkpoint_manager.py:59`). In SFT
  only rank 0's `data.pt` is ordered with the tracker, so ranks may go on apart.
* Every failing request leaves its server's count too high for good
  (`naive_router.py:156`); a server that failed often is hardly chosen again. A refusal
  with a 4xx becomes a 500 that the client retries.
* A server that accepts a request and never answers it holds up a discriminative item, and
  with it the batch that gathers it, for ever: the comment at `reward_loop.py:129` says that
  it is safer to have a timeout than `None`, "which can hang indefinitely", and the next line
  has `None`, as has the router (`naive_router.py:123`). `Ends` excepts such items.
* The rate limiters are said to be enforced "consistently across multiple workers in
  distributed training" (`limited.py:195`); they belong to the class, and every
  `RewardLoopWorker` is a process of its own (a Ray actor), with a bucket of its own.
  `RateKept` is about one process.
* A timed-out synchronous scoring function goes on in its thread, so that more than
  `max_concurrent` may run (`limited.py:387`, `429`). `compute_rm_score` takes the keys of
  the first item for all (`reward_loop.py:287`).

## 7. What is not modelled

The repository is in the main a numerical framework: models, kernels, losses, optimizers,
sharding, inference engines and their GPU memory, collective communication, with wrappers
that set them up. Nothing of it has a small state to check; its lines are most of the
source, and the share that the models stand for is small for that reason. By component:

* trainers beyond their loop and checkpoints, workers, models, model merger, weight
  transfer, checkpoint engines: numerical, or communication inside libraries;
* transfer queue, one-step-off-policy and vision-language-action training: variants of the
  trainer whose concurrency is inside TransferQueue and Ray;
* assembly of batches, data protocol, single controller: tensor bookkeeping and dispatch;
  `seqlen_balancing.py` is left as a candidate;
* metrics of SHAPE beyond the reader's space ids, notebooks, evaluation, guidebooks and
  shell scripts: arithmetic, plots, a sequential script (which takes a merge that was
  killed for a merged one, `eval_benchmark.py:494`), prompts;
* in modelled components: set-up, metrics, logging and wording; the split of a text into
  sentences; what tools do; the contents of samples, weights and prompts; periodic
  validation by the Rollouter beyond its place in `update_param_version`; checkpoints of
  fully asynchronous training (the source says itself that samples in flight are lost);
  Megatron's asynchronous save and HDFS; managers of the reward loop without control of
  their own.

A generation server that never answers and is never told to stop is outside the model:
`Ends` of `FullyAsync` rests on answers. A reward server that never answers is in the model;
`Ends` of `RewardLoop` says which items it holds up.

Steps that are indivisible in `Checkpoint` and not in the code: removing old steps
(`shutil.rmtree`, `checkpoint_manager.py:142`) and the three files of one rank's save
(`fsdp_checkpoint_manager.py:228-245`). What either leaves when it is cut short is a part of
a step that the tracker does not name: a save under way is not tracked yet, a step that a
resumed run writes again lies behind the tracked one, and what is removed is old. Only when
one checkpoint is kept may it be the tracked step that is removed in part; PPO then cannot
load it, as in the model, while SFT may find a folder that it cannot load where the model
has it gone. No property claims that step for a single checkpoint.

# Formal verification of opd-reproduction

TLA+ specifications of the concurrent cores of this repository, TLC model
checking of small instances, and TLAPS proofs. The repository holds two programs:

* `src/verl_new/` – verl, a reinforcement-learning library whose
  *fully asynchronous* trainer generates samples on one set of machines
  (the rollouter) while it trains on another (the trainer);
* `src/CLightMLLM_new/` – a Lightning trainer for multimodal models whose
  *on-policy distillation* (OPD) method takes its samples from a separate
  vLLM process, to which it sends its weights after every optimizer step.

Both have the same hard problem: samples must come from weights whose version
is known and recent, although generation, training and the transfer of weights
are concurrent, and any of them may fail or be late. verl has two more trainers
of this kind, the asynchronous *V1* trainers (a replay buffer over a shared
queue) and the *one-step-off-policy* trainer; they are modelled with the
checkpoints from which a job that died is resumed.

Paths below: `FA/` is `src/verl_new/verl/experimental/fully_async_policy/`,
`V/` is `src/verl_new/verl/`, `C/` is `src/CLightMLLM_new/`.

## 1. Inventory

| Part | State | Operations | Talks to |
|---|---|---|---|
| Message queue, `FA/message_queue.py` | deque, capacity, counters, asyncio condition | put (drops the oldest when full), get (waits), clear, size | rollouter, trainer (Ray calls) |
| Rollouter, `FA/fully_async_rollouter.py` | `pending_queue`, `active_tasks`, `staleness_samples`, `paused`, `_resume_event`, a lock | feeder, processor, one task per sample, monitor, `reset_staleness` – coroutines of one event loop | queue, rollout servers; called by the trainer |
| Trainer, `FA/fully_async_trainer.py` | batch, `local_trigger_step`, `current_param_version`, `global_steps`, `last_ckpt_version` | collect, step, weight update, reset call, validation, checkpoints, tail of `fit` | queue, rollouter, checkpoint engine |
| Request routing and clients, `V/workers/rollout/llm_server.py` | in-flight counts, sticky sessions (LRU) | acquire, release, add, remove; generate with resumption after an abort | load balancer actor, servers |
| vLLM server, `V/workers/rollout/vllm_rollout/` | engine (running calls, paused, asleep, weights), `global_steps` | generate, abort, resume, sleep, wake, weight update | clients, checkpoint manager |
| Checkpoint engine manager, `V/checkpoint_engine/base.py` | stages of an update over all replicas | abort all, transfer, resume all | servers, trainer workers |
| Bucketed weight transfer, `C/src/method/bucketed_weight_transfer.py` (and verl's copy) | one shared buffer, a REQ/REP socket pair | send handle, pack, flush, send large weights, last bucket; receive, load, acknowledge | two processes and a device |
| Student server, `C/tools/serve_vllm_student.py` | lock, `active_sync_session`, receiver thread, `weight_version`, engine | generate, start / finish / abort of a weight sync | trainer ranks |
| OPD trainer side, `C/src/method/opd.py`, `rollout.py`, `vllm_student.py`, `rpc.py` | `_last_student_rollout_sync_step`, `global_step`, barriers | rollouts on all ranks, sync on rank 0 | student server |
| V1 replay buffer, `V/trainer/ppo/v1/replay_buffer.py`, `agent_loop_tq.py` | prompts and trajectories with their tags in the TransferQueue | put prompts, run a prompt's sessions, put trajectories, poll, sample (drop or wait), clear | V1 trainer, agent loops |
| V1 trainers, `V/trainer/ppo/v1/trainer_*.py` | `global_steps`, position of the dataloader, weights, mode of the servers | fit, step, save, load; switch hybrid servers between rollout and training | replay buffer, servers, checkpoints |
| Batch padding and balancing, `V/utils/seqlen_balancing.py`, `padding_utils.py` | a heap of partial partitions | pad, start, merge two states | V1 trainers |
| Checkpoints, `V/utils/checkpoint/` | parts on disk, `data.pt`, tracker file, list of saved paths | save a part, make room, register, write the tracker, load | trainers |
| One-step-off-policy trainer, `V/experimental/one_step_off_policy/` | the batch in flight, iterator over the epochs | generate the next batch while training on this one, push weights, save, load | servers, checkpoints |
| NCCL checkpoint engine, `V/checkpoint_engine/nccl_checkpoint_engine.py`, `base.py` | two buffers and one broadcast on each side | split into chunks, fill, broadcast, receive, merge, yield | trainer's rank 0, the bucketed transfer |
| Agent loops and tools, rate-limited rewards, synchronous PPO, dispatch, other checkpoint engines, other rollout engines | – | – | *not modelled*, see section 6 |
| Losses, engines, kernels, models, data, teacher server | numerics | – | *not modelled*, see section 6 |

What is hard, and what makes each part correct:

* **Staleness accounting.** Five coroutines of the rollouter and the trainer's
  reset share `staleness_samples`, and every test of it spans an `await` on the
  queue. Correct means: the budget of samples ahead of the trainer is kept, the
  queue (which is as large as the budget) drops next to nothing, no pause
  starves the trainer, and every pause ends.
* **Partial rollout.** Servers are aborted one by one while clients retry on
  the others. Correct means: nothing is generated during a transfer, the
  version labels of a response enclose those of its tokens, the balancer's
  counts stay exact although releases are fire-and-forget, and a request is
  answered however often it is interrupted.
* **Weight sync of the student server.** A receiver thread loads weights
  outside the lock and may outlive its session; clients time out while their
  handlers go on; servers and trainers restart. Correct means: the engine does
  one thing at a time, a reported sync is complete, `weight_version`
  identifies the weights, rollouts are on-policy.
* **Bucketed transfer.** One buffer, asynchronous copies, and an
  acknowledgement as the only ordering; before it, with the NCCL engine, two
  buffers on each side and metadata on a channel of its own. Correct means: the
  engine loads the weights themselves, each once, and all ends terminate.
* **Replay buffer.** Agent loops put trajectories while the trainer polls,
  samples from the metadata of an earlier list and clears; a prompt fails with
  the first of its sessions while the others go on. Correct means: groups in a
  batch are whole, nothing is older than its strategy allows, the polling ends.
* **Crash and resume.** A checkpoint is several parts, a dataloader state and a
  tracker file, written one after the other while old parts are removed.
  Correct means: whenever the job dies, the tracker names a whole checkpoint,
  and a resumed job trains on no prompt twice and skips few.

`PROJECT.json` lists every hazard with its line and the properties that would
catch it going wrong.

## 2. Modules

```
MessageQueue <- Rollouter <- AsyncTrainer <- FullyAsync <- FullyAsync_proofs <- FullyAsync_fresh_proofs
                                              | implements
                                         SampleStream
LoadBalancer <- PartialRollout <- PartialRollout_proofs
StudentServer <- StudentSync <- MCStudentSync, StudentSync_proofs
BucketedTransfer <- BroadcastTransfer <- BroadcastTransfer_proofs
ReplayBuffer, CheckpointStore, BatchBalance <- V1Trainer <- OneStepOff
BatchBalance <- BatchBalance_proofs
V1Trainer, BatchBalance_proofs <- V1Trainer_proofs
OneStepOff, V1Trainer_proofs <- OneStepOff_proofs
```
(`A <- B`: B EXTENDS A.)

### Fully asynchronous pipeline

**`MessageQueue`** is the queue actor. Its methods run under the condition's
lock and do not wait in between (except get on an empty queue), so each is one
step. A sample is represented by the version of the rollout weights when it was
put, `None` is the end signal (as in the code, where it is a `None` element
that is dropped like any other).

**`Rollouter`** is the event loop. *A step is the code between two awaits.* An
awaited call to the queue is a request, the step of the queue's handler, and
the continuation with the answer; `seen`, `monSeen`, `resetSeen` keep answers
that may be stale when they are used. `pc`, `mon`, `reset` are the places of
the three long-lived coroutines. Tasks are interchangeable, so they are
counted: `generating` (no put yet), `replying` (put done, answer on its way),
`finished` and `failed` (done, still in `active_tasks`). The places follow the
processor's loop: the pause test and its wait (`check`, `asking`, `decide`,
`pausing`, `drain`), the pending queue (`get`), the wait at
`max_concurrent_samples`, which keeps the lock across the await
(`limit`, `limitWait`), `submit`, and the end (`finish`, `finishWait`, `exit`,
`stopping`, `stopped`).

**`AsyncTrainer`** is the training coroutine: `collect` one sample at a time, a
training step, after `Trigger` of them the weight push and the reset call, the
checkpoint decision, and the tail of `fit` with its early returns. Validation
and metrics change none of this state and are left out here.

**`FullyAsync`** composes them and holds the properties. **`SampleStream`** is
the abstract promise: a stream in which the rollout is ahead by a budget and at
most one sample more, exactly `PerUpdate` samples are used under each version,
and a sample is lost only when the budget is used up, until a generation fails:
that breaks the stream (`broken`), and samples may then be lost at any time, but
the budget and the versions are kept. `FullyAsync` implements it under a
refinement mapping (`Stream == INSTANCE SampleStream WITH ...`).

### Partial rollout

**`LoadBalancer`** is the balancer actor: least-loaded choice (ties are open),
sticky sessions in an LRU cache, servers that come and go.
**`PartialRollout`** has the clients (`idle`, `sent`, `held` at a paused engine,
`running`, `backoff`, `done`), the servers, and the manager, whose coroutine is
a list of *stages*, each of which reaches its servers one by one in any order.
The same servers are deployed in one of four modes, and a mode is the stages of
a training step (`StepPlan`): *standalone* servers that only generate;
*validating*, where the trainer's own servers join for a validation
(`_trainer_side_validate` of the fully asynchronous trainer); *separate*, the
V1 trainer that lends its servers to the rollout until the first batch and for
validations (`trainer_separate_async.py`); *colocated*, where all servers sleep
while the trainer trains (`trainer_colocate_async.py`). A response is the sequence of the weight
versions of its tokens; `Torn` stands for weights under replacement.
The engine is external (vLLM >= 0.12 as the code uses it): a paused engine
keeps new calls, pausing aborts running ones, and a call that a sleeping one
starts is never answered (`lost`).

### On-policy distillation

**`StudentServer`** is the request handler: a thread per request, one lock, and
the receiver thread of each session (`receiving`, `closing`, `ok`, `failed`,
`gone` with its server). A handler's critical section is entered and left in
two steps, because generation and the join of a receiver take time, and things
happen meanwhile: the receiver needs no lock, callers die.
**`StudentSync`** adds the ranks, the sync after an optimizer step, the
barriers and what may go wrong (`Failing`, at most `MaxFailures`).
`parts[b]` is the version of the weights of bucket b in the engine: a torn
engine has several.

### The way of the weights

**`BucketedTransfer`** is the protocol between a trainer and the workers of an
engine: the buffer cell by cell, copies that the device does later (`pending`),
the socket pair, errors on both sides. `StudentSync` uses it as "buckets arrive
in order, each acknowledged", which is what `LoadsTheWeights` and `AllDelivered`
say of it. **`BroadcastTransfer`** puts the NCCL checkpoint engine in front of
it: the trainer splits its weights into chunks and fills one of two buffers
while the other is broadcast (`PackChunk`, `Broadcast`); the broadcast is a
thread that sends metadata first and then takes part in the collective
(`PublishMetadata` to `CollectiveEnds`); the server's checkpoint worker hands
out views of one buffer while it receives into the other, and merges the chunks
of large weights (`NextBucket`, `Yield`). Its generator is what the sender of
the bucketed transfer draws from, so the two protocols run interleaved. With
`backend` = "naive" the bucketed transfer runs alone.

### V1 trainers, checkpoints, one-step-off-policy

**`ReplayBuffer`** holds the prompts with the tags the queue keeps of them
(`step`, `status`), the sessions still `going`, the trajectories `stored`, and
what went wrong. The poll that ends with enough samples (`List`) and the sample
taken from its metadata (`Sample`) are two steps, with agent loops in between.
**`CheckpointStore`** is the disk: a part is `torn` while the ranks write it and
`whole` when they all have; the tracker file is `Torn` between `open` and
`write`; `kept` is the list of paths, which a new process forgets.
**`BatchBalance`** is the padding to a multiple of the ranks and the
mini-batches, and the Karmarkar-Karp method as the code runs it, one step for
each merge of its heap.
**`V1Trainer`** is `fit` and `step` over these three: warm-up batches, polling,
sampling, balancing, training, the stages of `_save_checkpoint`, and a crash at
any place with `_load_checkpoint` in a new process. The weights are the set of
prompts they were trained with.
**`OneStepOff`** adds the one-step-off trainer over the same checkpoints and
crashes: `future` is the batch in flight with the weights that generate it,
`left` what the iterator over all epochs has still to give. A job is one of the
two trainers, so a run of `OneStepOff` is a run of `V1Trainer` too.

## 3. Runs

| Run | States | Shows |
|---|---|---|
| `async_safety` | 636 000 | threshold 1 and a task that may raise: accounting, budget, freshness, drops, task limit, checkpoint names; the pipeline implements `SampleStream`; the training ends |
| `async_sync` | 151 000 | threshold 0 is synchronous: on-policy, no drops; budget and accounting with a task that raises and an expiring plan |
| `rollouts` | 572 000 | four deployments: quiet transfers, labels, exact counts, limits, the pool awake and in sync, every update ends, every request is answered but a call left behind at a server that left the pool |
| `transfer_failures` | 279 000 | every sequence of four sizes, by broadcasts of 2 cells and through a buffer of 3, or directly, errors on both sides |
| `student_failures` | 1 540 000 | engine exclusive, sync complete, version identifies weights, with three failures of five kinds and the prefix cache on |
| `student_on_policy` | 2 300 | three ranks with gradient accumulation: on-policy; the training ends, or a failure ends it |
| `trainer_jobs` | 219 000 | V1 and one-step-off jobs that crash once, anywhere: tracker, disk, prompts trained once, few skipped, staleness, whole groups, balanced shares, the job ends |
| `async_budget` | violation | finding 1 |
| `async_last_step` | violation | finding 2 |
| `transfer_parallel` | violation | finding 3 |
| `student_resume` | violation | finding 4 |
| `ckpt_keep_one` | violation | finding 5 |

Every property of a passing run has a mutant in `PROJECT.json`: a plausible bug
in one definition, kept in the module beside it and marked `Mutant:`, with which
TLC finds the property violated.

### Findings

1. **One sample over the budget** (`FA/fully_async_rollouter.py:475`).
   `reset_staleness` recounts `len(active_tasks)` plus the queue size. The sample
   that the processor took and has not submitted is in neither. The README
   (`FA/README.md:135-138`) bounds the samples between two updates; the code
   exceeds it by one. `OverBudgetByOneAtMost` says that it is never more, and is
   proved.
2. **The last steps are not saved** (`FA/fully_async_trainer.py:407`). The
   tail of `fit` means to push, validate and save a leftover
   `local_trigger_step`; all three return early in just that case.
3. **Tensor parallelism deadlocks the transfer** (`C/src/method/vllm_student.py:601`).
   All workers of the engine connect a REP socket to the one REQ socket, which
   serves them in turn.
4. **A restarted trainer is off-policy** (`C/src/method/opd.py:98`). Weights are
   sent only at the end of a training batch, so the first rollouts of a
   trainer started again use whatever the server has, and `weight_version`
   is discarded (`C/src/method/rollout.py:213`).
5. **A crash in a save with one checkpoint to keep loses the checkpoint**
   (`V/utils/checkpoint/checkpoint_manager.py:180`). The actor's manager removes
   the old actor when it registers the new one; critic, `data.pt` and the
   tracker come later, and until then the tracker names a checkpoint without an
   actor. With any other number to keep, `TrackerNamesWhole` is proved, and
   `JobNamesWhole` for a job of either trainer.

Met while modelling, and not among the runs:

* with threshold 0 and an answer of the queue delayed until the trainer has
  finished its steps, the rollouter can pause short of the samples the trainer
  needs (reset counts done tasks that are still in `active_tasks`); when the
  threshold leaves room for the tasks, as in `async_safety`, it cannot
  (`NeverStarved`, section 4);
* without `max_tokens` an interrupted response can grow longer than
  `response_length` (`vllm_async_server.py:531`), because the limit is computed
  anew from a prompt that contains the response so far;
* phase 3 of the trainer-side validation aborts hybrid servers before it takes
  them from the pool (`fully_async_trainer.py:588-593`), and the switch of the
  V1 trainer takes them from the pool before it aborts them
  (`trainer_separate_async.py:130`): in both, a call that was routed there and
  arrives late may stay at a sleeping engine. `RequestsEnd` allows for this call
  and no other;
* the *wait* strategy of the replay buffer holds a batch back for prompts that
  *reach* the threshold, and the warm-up leaves more prompts than one batch: the
  age of what is trained on is bounded by
  max(threshold * `parameter_sync_step`, 2) + warm-up - 1 (`WaitBound`), not by
  the threshold that `ppo_trainer.yaml:231-236` describes;
* a batch all of whose trajectories were dropped, or whose sessions failed, is
  empty, is not padded and raises in the partition (`trainer_base.py:1157`);
* a crash between `open` and `write` of the tracker leaves an empty file, and
  every later start raises (`trainer_base.py:737`);
* a one-step-off job that was resumed within an epoch lost the batch in flight;
  its iterator ends one batch early and the last step raises
  (`one_step_off_policy/ray_trainer.py:213`, `:390`). Restarted after its last
  step, it trains one step more. `JobEnds` lists these ends;
* such a job is a batch ahead of its steps, and if it crashes a second time and
  is resumed at an epoch boundary, where the state of the dataloader is not loaded
  (`trainer/ppo/ray_trainer.py:1221-1229`), it starts from its step, at a position
  that it has trained on. `JobPromptsOnce` and the second part of `JobNamesWhole`
  except it (`OneStream`). It takes two crashes, four steps and epochs of two:
  with `TotalSteps` = 4, `MaxCrashes` = 2 and `MaxStep` = 6 TLC finds
  `NoPromptTwice` violated (step 2 was trained on batch 3, and so is step 3);
* a restarted job does not know of the checkpoints of an earlier life, and never
  removes them (`checkpoint_manager.py:57`). `DiskBounded` allows for them, with
  `MaxKeep` for every life: it says that a life keeps its limit while it saves, and
  nothing of what is left behind;
* with the engine's prefix cache on, `OnPolicy` of the student fails with the
  first sync, since the cache is not reset (`vllm_student.py:440`). The default
  is the engine's, so `student_on_policy` has it off; `student_failures` on.

### Bounds, and why they are enough

* *Pipeline.* `Total` = 7 samples give three weight updates of 2 samples and a
  leftover step (`Required` 1, `Trigger` 2; 2 updates of 3 in `async_sync`):
  the budget fills, empties and is reset while it is exceeded by one.
  `PendingCap` = 1 makes the feeder wait; more only delays it. `Slots` = 2
  makes the task limit bind, or not, below the budget. `MaxFailures` = 1 in
  both runs: one failed task ends the processor, at any place of it, and the
  training has to end with what is left. `TestFreq` is -1 (the default, written 0 in a .cfg) in
  `async_sync`; a real 0 divides by zero at the end of `fit` and is excluded.
* *Partial rollout.* Two requests and two servers let one be interrupted while
  the other runs and make the least-loaded choice matter; `CacheSize` = 1
  forces the eviction of a sticky session; responses of 2 tokens can be
  interrupted before, between and after; `MaxVersion` = 2 updates interrupt a
  request twice, and bring a hybrid server back.
* *Student.* Two buckets are the smallest torn state; two trainers and two
  ranks let an old handler race a new trainer; three failures combine, say, a
  timeout, a receiver that outlives it, and a restart. `Accumulate` = 2 with
  five batches gives batches without an optimizer step and a last batch without one.
* *Transfer.* Sizes 1 to 4 against a bucket of 3 give fitting, exactly full,
  overflowing and too large weights in every order of four; against the engine's
  bucket of 2, weights of one and of two chunks that share buckets. Four weights
  fill each of the two buffers more than once.
* *Jobs.* Three steps with one warm-up batch: a batch may be as old as two steps,
  the first checkpoint is removed when the third is saved (`MaxKeep` = 2), and
  a crash (`MaxCrashes` = 1) comes before, between and after the saves. Two
  sessions let one fail while the other goes on (`MaxMishaps` = 1). Six rows in
  a padded batch give each of two ranks three, after two merges of the
  partition, with trajectories of length 1 or 4. Epochs have one or three
  batches.
  With a second crash (`MaxCrashes` = 2, `MaxStep` = 5) there are 1 014 000 states,
  too many for the liveness; the invariants hold in them. For any number of crashes
  they are the theorems about the jobs (section 4).

`CHECK_DEADLOCK FALSE` is set for the transfer and the student, where a dead
rank leaves the others at a barrier and a dead receiver leaves the sender
waiting, and for the jobs, which end, or stop for good when a start raises. The pipeline and the partial rollout have a `Terminated` step and are
checked for deadlock.

### Fairness

* *Rollouter:* weak fairness of feeder, task steps and trainer – the event loop
  serves ready coroutines, Ray delivers calls, a generation ends. Strong fairness
  of processor, monitor and reset, which begin with the asyncio lock: the lock
  is handed over in FIFO order, so nobody who waits is passed for ever. The
  first failure of a generation is not assumed to happen or not to happen.
* *Partial rollout:* weak fairness per client and of the manager. Nothing says
  that a client wins a race against an update; the number of updates is finite.
* *Student:* weak fairness of ranks, of each handler and of the receivers'
  closing. A client's timeout and every failure may happen or not; a join of
  an abort may end at its timeout.
* *Transfer:* weak fairness of all processes, of the broadcast's threads and of
  the device.
* *Jobs:* weak fairness of the trainer and of the agent loops together. A
  session's mishap and a crash may happen or not. In `JobSpec` the trainer that
  the job is not takes no steps.

## 4. Proofs

Eight modules of proofs, for every value of the constants that the named
assumptions allow.

**`FullyAsync_proofs`**: every batch size, trigger, threshold, number of slots,
of samples and of failing tasks (assumptions: the constants are positive
naturals, the threshold is a fraction, and the queue is created with the
rollouter's `max_queue_size`).

* `TypeCorrect`: `Spec => []TypeOK`. More than types: no task counter falls
  below zero and the queue never exceeds its capacity.
* `AccountingCorrect`: `Spec => []AccountingInv`, the inductive invariant.
  `InFlight + Held <= MaxRequired + 1` alone is not inductive: nothing in it
  connects what is outstanding with the counter the processor tests. The
  strengthening says (a) `staleness_samples` counts everything outstanding but
  at most one sample; (b) when the processor is about to take a sample there is
  room for it; (c) while a reset is under way it keeps the lock that `Submit`
  needs, so the tasks that finish after it read `len(active_tasks)` are in the
  queue size it reads next, or are used: it over-counts, never under-counts,
  except for the one sample in the processor's hands; (d) the processor keeps
  that lock while it waits at the task limit, so a reset cannot come between
  that wait and the submission.
* `BudgetKept`: `Spec => []OverBudgetByOneAtMost`, from it.
* `ConcurrencyKept`: `Spec => []ConcurrencyBounded`: only `Submit` adds a task
  and nothing else moves the processor between its test and `Submit`.
* `Implements`, the refinement: `Spec => ImplementsStream`, whichever tasks
  raise. Each action is shown to be a step of `SampleStream` or a stutter. It
  needs, beside the accounting, that
  `trained = version * Trigger + local - 1` (`StepCount`: otherwise an update
  could come early), and that the end signal is in the queue until the trainer
  takes it and stops (`EndOrder`: otherwise a dropped signal would be taken for a
  lost sample). Without a failure the signal is the last element of the queue.
  With one it is put while other tasks are running, and what they put comes after
  it: `FewTasksLeft` and `EndWaits` say that these tasks and the elements behind
  the signal are fewer than the places of the queue (there are no more tasks than
  places, and one of them has raised), so that none of them drops the signal.
* `NothingLost`: `Spec => []SamplesAccounted`, with failing tasks too, from
  `FlowInv`. The invariant adds that a failed task that is still in
  `active_tasks` is one of those that raised (`failed <= failures`), so a
  processor that drops the sample in its hands has seen one, and that the
  trainer never collects again after the end signal. `Conserved` is given up
  when both actors are done (the queue is then cleared), which `DoneStays` shows
  to be for good.
* `FewDropped`: `Spec => []DropsBounded`, from `DropInv`.
  The bound alone is not inductive: a drop needs more than `MaxRequired` samples
  outstanding, and a reset that missed the sample in the processor's hands is
  the only way there. So the drop that is still possible (`OverPossible`) and
  the reset that is still to come (`ResetDue`) count as drops already:
  an update pays for its reset, the reset for the possibility, the possibility
  for the drop. The property is about the time before the first failure: then the
  end signal is put while tasks are running, and what they put may drop more.

**`FullyAsync_fresh_proofs`**: how old a sample is when it is trained on.

* `Fresh`: `Spec => []FreshSamples`, with failing tasks too. That the accounting
  bounds how many samples are outstanding does not bound how long one of them
  waits. `FreshInv` follows each by its place: the element at position `i` of the
  queue was put under a version `v` such that its turn comes within
  `PerVersion * (v + 1) + MaxRequired` samples of the trainer, and what is in the
  batch was taken within that. The place is fixed at the put, where the budget
  bounds what is before it; later elements only move up.
* `Synchronous` and `SynchronousDropsNone`: `Spec => []OnPolicy` and
  `Spec => []SyncNeverDrops`. `SyncInv` says that with a threshold of zero the
  rollouter has taken no more than the samples of the versions up to `Epoch`, the
  version of the last reset; that while a weight update has no reset yet nothing
  is outstanding (the trainer used all of the version before it); and so that
  all that is in the queue carries the present version.
* `NamesTrue`: `Spec => []CheckpointMatchesName`, if every version is saved and
  no checkpoint is forced between two steps of a version by the expiry of the
  plan, or if a version is one step (`WholeVersions`). Otherwise a checkpoint
  holds steps of the version after the one it is named for, and the property is
  false.
* `NeverStarved`: `Spec => []PauseLeavesEnough`, if the budget has room for the
  samples of a version besides the tasks that run at once (`RoomForTasks`).
  `PauseInv` says that the counter exceeds what is outstanding by no more than
  those tasks: a reset counts tasks that are done and whose samples are in the
  queue, or used, as well. A threshold of zero leaves no such room, and there the
  property is false (section 3).

**`PartialRollout_proofs`**: `Types`, `Loads`, `Labels`, `Quiet`, `Limits` and
`InSync`: all the state invariants of the `rollouts` run, for every number of
servers, requests, updates, interruptions and tokens, and for the four
deployments at once. None of them is inductive, because the manager's coroutine
is a list of stages that is not in any of them. `PlanInv` ties the list to a
table: when `n` stages are left, they are `At(n), ..., At(1)` of the deployment.
`CoreInv`, `ValidatingInv` and `SeparateInv` then say at each stage which servers
are paused, asleep, in the pool, and which weights they have, for the servers that
always generate and for those that come and go; `CallInv` says where a call can
be (a call runs only at a server that is awake and not paused). `Quiet` follows:
at a stage that transfers weights every server it reaches is paused or asleep, or
was taken out of the pool and is left with calls that will not start.
`InSync` follows from the last stage of a table; `Labels` needs in addition that a
token is generated by a server whose reported `global_steps` is that of its
weights (`LabelInv`); `Limits` that the tokens already in a prompt count against
the caller's limit (`RoomInv`); `Loads` counts acquired calls and releases on
their way (`CountInv`).

**`BroadcastTransfer_proofs`**: the two protocols in a row, for every number and
size of weights, size of the buffers and number of receivers.

* `Loaded`: `PipelineSpec => []LoadsTheWeights`. The property speaks of the last
  place only; the invariant follows a weight all the way. The chunks in the
  trainer's buffers, in the metadata, in the generator's buffers and in the
  weight that is being merged form one *chain* without gap or repetition, from
  what the generator has yielded to what the trainer splits next (`StreamInv`).
  Which of the two buffers on each side holds them, and what the broadcast thread
  still reads or writes, is `BroadcastInv`; the buffers hold what the chain says
  they hold (`IntactInv`). The generator is ahead of the sender by one weight at
  most, and what it has given away stays where it is until it is copied
  (`GivenInv`, `Held`): the reuse of a buffer by `NextBucket` is safe for that
  reason only. In the second protocol, each entry of `meta` is in the buffer or
  in a pending copy (`BucketInv`); request, answer and the receiver's state
  alternate (`WireInv`); and what a receiver was sent is still in the buffer
  until it has acknowledged (`ServedInv`).
* `Delivered`: with one receiver at a handle (`OneReceiver`),
  `PipelineSpec => []AllDelivered`. With several, finding 3, the sender's
  requests go to them in turn.
* `PipelineTypes`: `PipelineSpec => []PipelineTypeOK`; the engine's metadata is a
  dictionary by name, so it matters that no bucket has two chunks of a weight.

**`StudentSync_proofs`**: every number of ranks, lives, batches, buckets and
failures, from `StudentInv`, the conjunction of three parts.

* `Exclusive`: `Spec => []EngineExclusive`. `Exclusion` says who runs has the
  lock, a receiver that is alive is the session's, and nobody generates in a
  session. The last two are what the code's order of tests buys: generation
  refuses while `active_sync_session` is set, and the session is kept when a join
  times out, though the handler then leaves the lock.
* `SyncLoads` and `VersionNames`: `Spec => []SyncedMeansLoaded` and
  `Spec => []VersionIdentifiesWeights`. `SyncInv` connects the two sides: the
  session's receiver is loading weights of the rank that waits for the answer to
  its start or sends buckets (`Loading`), and has loaded as many as were
  acknowledged; a session that finished has loaded all (`LoadInv`); a
  handler whose caller is dead or has given up can end the session of nobody
  else (`SessionInv`, `LockInv`).
* `StudentTypes`: `Spec => []TypeOK`, with `RoundInv`, which bounds the batches
  and the steps of every rank.
* `SampledOnPolicy`: `Spec => []OnPolicy`, if neither server nor trainer restarts
  and the prefix cache is off (`NothingRestarts`; failures of calls, receivers
  and ranks may happen). `PhaseInv`: the ranks are all sampling, with the weights of the
  policy in every bucket, or all but the first are at the barrier. With a
  restart or the cache it is false: finding 4 and section 3.

**`V1Trainer_proofs`**: every batch size, number of sessions, threshold,
warm-up, save frequency, number of steps, of crashes and of checkpoints to keep.

* `NamesWhole`: with `MaxKeep # 1`, `Spec => []TrackerNamesWhole`: that the
  checkpoint is complete from `StoreInv`, that its dataloader is behind its weights
  from `WeightsInv`. The property alone does not survive
  the removal of old parts: it needs that the paths of a manager are in the
  order they were saved and that none is behind the tracker before the new part
  is registered (`PathsInOrder`), so that what makes room is never what the
  tracker names; and that the parts before the tracker are of this step
  (`SavedSoFar`). The case `MaxKeep = 1` is finding 5.
* `PromptsOnce`: `Spec => []NoPromptTwice` for every `MaxKeep`. It needs that what
  the queue and the list hold and is not sampled is not in the weights
  (`Unseen`), and after a crash that the saved position of the dataloader is
  behind every prompt of the saved weights. `WeightsInv` says that of the parts
  that are there, whether or not they are of a whole checkpoint: a job that finds
  its checkpoint incomplete stops, and trains on nothing.
* `FewSkipped`: `Spec => []SkipsBounded` for every `MaxKeep`, from `SkipInv`: the
  positions on the disk are bounded by the lives that wrote them.
* `GroupsWhole`: `Spec => []WholeGroups`, from `GroupInv`: the sessions that are
  going, have stored or have left nothing are all of a prompt's sessions as long as
  none has raised (`Counted`); what the poll listed is still so when the sample is
  taken from it, unless a session has raised meanwhile (`ListedInv`), and so is a
  batch until it is cleared (`BatchInv`).
* `DiskBound`: `Spec => []DiskBounded`, from `DiskInv`: the folders a manager does
  not know of are those of earlier lives, `MaxKeep` for each crash at most, and it
  knows of no more than `MaxKeep`.
* `BatchDivided`: `Spec => []SharesBalanced`, from `RowsInv`: what is balanced are
  the rows of the batch and its padding, and each step of the partition keeps
  `HeapInv` of `BatchBalance_proofs`.
* `AgesBounded`: `Spec => []StalenessBounded`. That a sample obeys its strategy
  when it is listed says nothing of how long the others wait. `FewUnsampled`
  counts the prompts that are put and not sampled: the warm-up batches and that of
  the step at most. The poll does not end before it has listed all of them that
  reach the threshold (`LateListed`), and a batch is taken from those as long as
  there are any; so with every step a batch less of them is left (`LateFew`), and
  what is sampled is no older than it may be (`BatchYoung`).
* `TypesHold`: `Spec => []TypeOK`, from all of these (`TypeInv`).

**`BatchBalance_proofs`**: every number of ranks, mini-batch size and batch.

* `PaddingFits`: the padded batch is the next multiple of what the ranks and
  the mini-batches need, and less than a multiple larger.
* `MergeNarrows`, a merge of two states of the Karmarkar-Karp heap has a spread no
  larger than the larger of theirs, and `StepNarrows`, no step of the partition
  raises the largest spread.
* `SharesPartition`: when one state is left, its shares are a partition of the
  rows into equally many each, and their work differs by no more than that of two
  rows of one first state, which are neighbours in the order of work. `HeapInv`,
  kept by every merge, says that every row is in one share of the states of the
  heap, that the shares of a state are equally large, and that its spread is no
  larger than that of a first state.

**`OneStepOff_proofs`**: all the state invariants of the `jobs` run, for jobs of
either trainer. `JobInv` says that a job is one of `V1Trainer` with its `TypeInv`
and no batch in flight, or a one-step-off job with an empty queue (`OneQuiet`).

* `AgesOfJob`: `JobSpec => []AgeBounded`. For the one-step-off trainer `OneAges`
  follows the weights of the batch in flight: they are those of the actor or a
  batch behind, and those of the actor themselves whenever the trainer trains,
  because it pushed them before it started the next batch.
* `DividedInJob`, `GroupsOfJob`, `DiskOfJob`: `V1SharesBalanced`, `WholeGroups`
  and `DiskBounded` of a job, without assumption.
* `SkippedInJob`: `JobSpec => []SkipsBounded`, with `Warmup >= 1`. The state of the
  one-step-off dataloader is saved with the batch in flight already drawn, which
  a resume skips (`OneSteps`: a batch ahead, and one more for each crash); the
  property counts skipped batches in warm-up batches, and allows none without.
* `PromptsOnceInJob`: `JobSpec => []JobPromptsOnce`, with any number of crashes.
  `JobPrompts` adds to `JobInv` what a one-step-off job keeps until its second
  crash: the weights are of prompts before the batch in flight (`OneDrawn`), and
  the positions saved so far are those of a first life or of the one that resumed
  (`Early`). Why it is no more than that after the second crash, section 3 says.
* `NamesWholeInJob`: with `MaxKeep # 1`, `JobSpec => []JobNamesWhole`, with any
  number of crashes. That the checkpoint is complete is `StoreInv`, which needs no
  order of the prompts, only that each has a position (`Placed`, `OnePlaced`).
* `TypesOfJob`: with `MaxCrashes <= 1`, `JobSpec => []JobTypeOK`. After more
  crashes the weights of a one-step-off job may be ahead of its dataloader, and
  `trained \subseteq 1 .. cursor` is false.

The proofs have a lemma per group of actions and a case per action.

Every state invariant of every run is stated by a theorem. Model-checked only:
liveness and deadlock freedom (no prover for ENABLED here). The other temporal
property, the refinement of `SampleStream`, is `Implements`. Where a theorem has an
assumption on the constants, its paragraph says which and why.

## 5. Abstractions

* A sample is the weight version at its put; its content, rewards and metrics
  are not modelled. The version a sample is *labelled* with by its server is
  in `PartialRollout`.
* The construction of actors and workers, profiling, LoRA, tensor shapes.
* An error of the engine's abort is swallowed by the code
  (`vllm_async_server.py:1020`); how it could fail is the engine's, so it
  does not.
* Answers of aborted calls return in the abort's own step; the release of a
  server is a message of its own.
* `StartUpdate` waits until no call is under way to a server outside the pool:
  a call travels for less than a training step.
* ZeroMQ's REQ socket (round robin over connected peers), `cachetools.LRUCache`,
  vLLM's pause, sleep and prefix cache and Lightning's `global_step` are
  external and modelled from their use. The PUB/SUB pair of the NCCL engine
  loses nothing: it is connected long before the first transfer. The collective
  writes the receiver's buffer at any time while both sides take part in it, and
  the device is synchronised before a broadcast, so that the copies into the
  trainer's buffer are done at once.
* A restarted OPD trainer begins from the first model or from a checkpoint of the
  last step.
* A V1 session has one trajectory or none; the dataset is longer than a run; every
  operation of the TransferQueue is one step, and the queue dies with the job.
* A batch of the one-step-off trainer is not balanced or validated on; what its
  driver does between two awaits is one step.

## 6. Not modelled

Within the modelled parts: shutdown of the message queue (nothing in the
pipeline calls it); validation and metrics of the rollouter; the elastic replica
registry and fault recovery of replicas; the validation partition, several
outputs of a session and custom samplers of the replay buffer; `critic_warmup`;
`async_save`, deletion after loading and copies of checkpoints to HDFS; the
unequal-size variant of the partition; the collectives of an OPD loss
(`opd.py:275` against `:380`, where a rank without rollouts skips one).

Whole parts, and why:

* *Losses, advantages, training engines, kernels and models* (FSDP, Megatron,
  CLight's losses and the teacher): most of the repository's lines. Their
  state is tensors, their correctness numerical, and the parallelism is inside
  libraries. Nothing in them is a control state a model checker could explore
  that is not in the trainers above.
* *Rate-limited rewards* (`limited.py`): a token bucket in wall-clock seconds and
  floating-point balances. Every property of it is about real time.
* *Agent loops and tools*: one coroutine per trajectory over its own state; the
  calls it shares with others are in `PartialRollout` and `ReplayBuffer`.
* *Synchronous PPO, single controller and dispatch*: one sequential caller; the
  padding and partition of a batch are in `BatchBalance`.
* *HCCL, NIXL, Mooncake and Kimi checkpoint engines; SGLang and TensorRT-LLM
  rollouts*: the same protocols over other libraries.
* *CLight data, model loading, other methods*: data preparation without shared
  state.

The modelled share of the code is therefore small in lines and holds the
concurrency, the failures and the restarts.

## 7. Next

The fault recovery of replicas as a fifth deployment of `PartialRollout`, and the
collectives of an OPD step per rank, where a rank without rollouts leaves the
others waiting. No module declares a RECURSIVE operator, so both can be proved
about as the rest is.

------------------------------ MODULE Rollouter ------------------------------
(***************************************************************************)
(* The rollouter of the fully asynchronous pipeline (FullyAsyncRollouter,  *)
(* verl/experimental/fully_async_policy/fully_async_rollouter.py): one     *)
(* asyncio event loop that runs the feeder, the processor, one task per    *)
(* sample, the monitor and the handler of the reset_staleness call.        *)
(* A step is the code between two awaits; an awaited call to the queue is  *)
(* three steps: the request, the handler in the queue actor, the answer.   *)
(*                                                                         *)
(* The flag `paused' is TRUE exactly when _resume_event is clear: the two   *)
(* are written together, without an await between them, at every place.    *)
(***************************************************************************)
EXTENDS MessageQueue

CONSTANTS Required,       \* required_samples = ppo_mini_batch_size * require_batches
          Trigger,        \* trigger_parameter_sync_step
          ThrNum, ThrDen, \* staleness_threshold = ThrNum / ThrDen
          Slots,          \* 16 for every rollout replica
          Total,          \* total_rollout_steps
          PendingCap,     \* maxsize of pending_queue (128)
          MaxFailures     \* bound on the generation tasks that raise

ASSUME RolloutAssumption ==
    /\ Required \in Nat \ {0}
    /\ Trigger \in Nat \ {0}
    /\ ThrNum \in Nat
    /\ ThrDen \in Nat \ {0}
    /\ Slots \in Nat \ {0}
    /\ Total \in Nat \ {0}
    /\ PendingCap \in Nat \ {0}
    /\ MaxFailures \in Nat

\* The samples the trainer consumes between two weight updates.
PerVersion == Required * Trigger

MaxRequired == (PerVersion * (ThrDen + ThrNum)) \div ThrDen

MaxConcurrent == IF Slots < MaxRequired THEN Slots ELSE MaxRequired

\* The queue actor is created with the rollouter's max_queue_size.
ASSUME CapacityAssumption == MaxQueueSize = MaxRequired

VARIABLES
    fed,         \* elements put in pending_queue: the samples, then the end signal
    taken,       \* elements the processor got from pending_queue
    generating,  \* active tasks whose sample is not in the message queue yet
    replying,    \* active tasks whose put_sample is done but not yet answered
    finished,    \* active tasks that are done
    failed,      \* active tasks that are done with an exception
    failures,    \* tasks that raised so far (bounds Failures only)
    staleness,   \* staleness_samples
    resume,      \* _resume_event
    lock,        \* who keeps the lock across an await
    pc,          \* where the processor is
    seen,        \* queue size in the answer the processor got
    mon,         \* where the monitor is
    monSeen,     \* queue size in the answer the monitor got
    reset,       \* where the reset_staleness call is
    resetActive, \* len(active_tasks) it read
    resetSeen,   \* queue size in the answer it got
    weights      \* version of the weights the rollout replicas serve

feedVars == <<fed, taken>>
taskVars == <<generating, replying, finished, failed, failures>>
procVars == <<pc, seen>>
monVars == <<mon, monSeen>>
resetVars == <<reset, resetActive, resetSeen>>
rolloutVars == <<feedVars, taskVars, staleness, resume, lock,
                 procVars, monVars, resetVars, weights>>

ActiveTasks == generating + replying + finished + failed

\* The processor has a sample in its hands that is in no task yet.
Held == IF pc \in {"limit", "limitWait", "submit"} THEN 1 ELSE 0

paused == resume = "clear"

\* The flag `running' falls when the processor's part of the program ends.
running == pc # "stopped"

ProcPC == {"check", "asking", "decide", "pausing", "drain", "get", "limit",
           "limitWait", "submit", "finish", "finishWait", "exit", "stopping",
           "stopped"}
MonPC == {"sleep", "asking", "decide", "resume", "off"}
ResetPC == {"idle", "called", "asking", "asked", "returned"}

RolloutTypeOK ==
    /\ fed \in 0 .. Total + 1
    /\ taken \in 0 .. Total + 1
    /\ generating \in Nat /\ replying \in Nat /\ finished \in Nat
    /\ failed \in Nat /\ failures \in Nat
    /\ staleness \in Nat
    /\ resume \in {"set", "clear"}
    /\ lock \in {"free", "processor", "reset"}
    /\ pc \in ProcPC /\ seen \in Nat
    /\ mon \in MonPC /\ monSeen \in Nat
    /\ reset \in ResetPC /\ resetActive \in Nat /\ resetSeen \in Nat
    /\ weights \in Nat

RolloutInit ==
    /\ fed = 0 /\ taken = 0
    /\ generating = 0 /\ replying = 0 /\ finished = 0 /\ failed = 0 /\ failures = 0
    /\ staleness = 0
    /\ resume = "set"
    /\ lock = "free"
    /\ pc = "check" /\ seen = 0
    /\ mon = "sleep" /\ monSeen = 0
    /\ reset = "idle" /\ resetActive = 0 /\ resetSeen = 0
    /\ weights = 0

-----------------------------------------------------------------------------
(* The feeder, and the end signal after the last sample. *)

FeedSample ==
    /\ pc \notin {"stopping", "stopped"}   \* the finally clause cancels the feeder
    /\ fed <= Total
    /\ fed - taken < PendingCap
    /\ fed' = fed + 1
    /\ UNCHANGED <<queueVars, taken, taskVars, staleness, resume, lock,
                   procVars, monVars, resetVars, weights>>

-----------------------------------------------------------------------------
(* The generation tasks. *)

\* generate_sequences_single is done and put_sample reached the queue.
TaskPut ==
    /\ generating > 0
    /\ PutSample(weights)
    /\ generating' = generating - 1
    /\ replying' = replying + 1
    /\ UNCHANGED <<feedVars, finished, failed, failures, staleness, resume,
                   lock, procVars, monVars, resetVars, weights>>

\* The answer of put_sample: the task is done, but still in active_tasks.
TaskDone ==
    /\ replying > 0
    /\ replying' = replying - 1
    /\ finished' = finished + 1
    /\ UNCHANGED <<queueVars, feedVars, generating, failed, failures, staleness,
                   resume, lock, procVars, monVars, resetVars, weights>>

TaskFails ==
    /\ generating > 0
    /\ failures < MaxFailures
    /\ generating' = generating - 1
    /\ failed' = failed + 1
    /\ failures' = failures + 1
    /\ UNCHANGED <<queueVars, feedVars, replying, finished, staleness, resume,
                   lock, procVars, monVars, resetVars, weights>>

-----------------------------------------------------------------------------
(* The processor. *)

\* asyncio.wait returned d done tasks and e tasks done with an exception; they
\* leave active_tasks and are awaited, which ends the processor when one of
\* them raises.
Collect(d, e, next) ==
    /\ finished' = finished - d
    /\ failed' = failed - e
    /\ pc' = IF e > 0 THEN "exit" ELSE next
    /\ UNCHANGED <<queueVars, feedVars, generating, replying, failures, staleness,
                   resume, seen, monVars, resetVars, weights>>

Goto(next) ==
    /\ pc' = next
    /\ UNCHANGED <<queueVars, feedVars, taskVars, staleness, resume,
                   seen, monVars, resetVars, weights>>

\* The head of the loop: `paused', or the request of _should_pause_generation.
Check ==
    /\ pc = "check"
    /\ IF paused THEN Goto("pausing") ELSE Goto("asking")
    /\ UNCHANGED lock

\* get_statistics runs in the queue actor ...
ReadSize ==
    /\ pc = "asking"
    /\ seen' = Len(queue)
    /\ pc' = "decide"
    /\ UNCHANGED <<queueVars, feedVars, taskVars, staleness, resume, lock,
                   monVars, resetVars, weights>>

\* Mutant: only a full queue pauses the rollouter.
PauseWhenFull(size) == size >= MaxQueueSize

\* ... and its answer is compared, with staleness_samples as it is by then.
ShouldPause(size) == size >= MaxQueueSize \/ staleness >= MaxRequired

Decide ==
    /\ pc = "decide"
    /\ pc' = IF ShouldPause(seen) THEN "pausing" ELSE "get"
    /\ seen' = 0
    /\ UNCHANGED <<queueVars, feedVars, taskVars, staleness, resume, lock,
                   monVars, resetVars, weights>>

Pause ==
    /\ pc = "pausing"
    /\ lock = "free"
    /\ resume' = "clear"
    /\ pc' = "drain"
    /\ UNCHANGED <<queueVars, feedVars, taskVars, staleness, lock, seen,
                   monVars, resetVars, weights>>

\* The set asyncio.wait returned may be older than the moment the lock is got,
\* and the first task that raises ends the loop over it.
DrainTasks ==
    /\ pc = "drain"
    /\ lock = "free"
    /\ \E d \in 0 .. finished, e \in {0, 1} :
          /\ d + e > 0
          /\ e <= failed
          /\ Collect(d, e, "drain")
    /\ UNCHANGED lock

\* The resume signal ends the drain, or the wait after it.
Resumed ==
    /\ pc = "drain"
    /\ ~paused
    /\ Goto("check")
    /\ UNCHANGED lock

\* staleness_samples grows without the lock, for the end signal as well.
GetPending ==
    /\ pc = "get"
    /\ taken < fed
    /\ taken' = taken + 1
    /\ staleness' = staleness + 1
    /\ pc' = IF taken < Total THEN "limit" ELSE "finish"
    /\ UNCHANGED <<queueVars, fed, taskVars, resume, lock, seen,
                   monVars, resetVars, weights>>

SubmitBelow(limit) ==
    /\ pc = "limit"
    /\ IF ActiveTasks < limit
       THEN Goto("submit") /\ UNCHANGED lock
       ELSE lock = "free" /\ lock' = "processor" /\ Goto("limitWait")

\* Mutant: one task too many.
CheckLimitOffByOne == SubmitBelow(MaxConcurrent + 1)

CheckLimit == SubmitBelow(MaxConcurrent)

\* Some task is done: the ones that are leave active_tasks, the lock is released.
LimitWaitThen(next) ==
    /\ pc = "limitWait"
    /\ finished + failed > 0
    /\ Collect(finished, failed, next)
    /\ lock' = "free"

\* Mutant: the loop starts again and the sample in hand is forgotten.
LimitWaitForgets == LimitWaitThen("check")

LimitWait == LimitWaitThen("limit")

Submit ==
    /\ pc = "submit"
    /\ ~paused
    /\ lock = "free"
    /\ generating' = generating + 1
    /\ pc' = "check"
    /\ UNCHANGED <<queueVars, feedVars, replying, finished, failed, failures,
                   staleness, resume, lock, seen, monVars, resetVars,
                   weights>>

\* The end signal: wait, with the lock, until no task is left.
Finish ==
    /\ pc = "finish"
    /\ IF ActiveTasks = 0
       THEN Goto("exit") /\ UNCHANGED lock
       ELSE lock = "free" /\ lock' = "processor" /\ Goto("finishWait")

FinishWait ==
    /\ pc = "finishWait"
    /\ finished + failed > 0
    /\ Collect(finished, failed, "finish")
    /\ lock' = "free"

\* The finally clause of _streaming_generation_main.
PutEnd ==
    /\ pc = "exit"
    /\ PutSample(None)
    /\ pc' = "stopping"
    /\ UNCHANGED <<feedVars, taskVars, staleness, resume, lock, seen,
                   monVars, resetVars, weights>>

StopRunning ==
    /\ pc = "stopping"
    /\ lock = "free"
    /\ pc' = "stopped"
    /\ UNCHANGED <<queueVars, feedVars, taskVars, staleness, resume, lock, seen,
                   monVars, resetVars, weights>>

-----------------------------------------------------------------------------
(* The monitor, every ten seconds. *)

MonGoto(next) ==
    /\ mon' = next
    /\ UNCHANGED <<queueVars, feedVars, taskVars, staleness, resume, lock,
                   procVars, monSeen, resetVars, weights>>

MonitorWakes ==
    /\ mon = "sleep"
    /\ \/ ~running /\ lock = "free" /\ MonGoto("off")
       \/ paused /\ MonGoto("asking")

MonitorReads ==
    /\ mon = "asking"
    /\ monSeen' = Len(queue)
    /\ mon' = "decide"
    /\ UNCHANGED <<queueVars, feedVars, taskVars, staleness, resume, lock,
                   procVars, resetVars, weights>>

MonitorAnswered(next) ==
    /\ mon = "decide"
    /\ mon' = next
    /\ monSeen' = 0
    /\ UNCHANGED <<queueVars, feedVars, taskVars, staleness, resume, lock,
                   procVars, resetVars, weights>>

\* Mutant: the monitor only logs.
MonitorOnlyLogs == MonitorAnswered("sleep")

MonitorDecides == MonitorAnswered(IF ShouldPause(monSeen) THEN "sleep" ELSE "resume")

MonitorResumes ==
    /\ mon = "resume"
    /\ lock = "free"
    /\ resume' = "set"
    /\ mon' = "sleep"
    /\ UNCHANGED <<queueVars, feedVars, taskVars, staleness, lock,
                   procVars, monSeen, resetVars, weights>>

-----------------------------------------------------------------------------
(* reset_staleness, called by the trainer after it updated the weights.  It *)
(* keeps the lock while it waits for the queue size.                        *)

\* The rest the handler leaves alone.
ResetFrame == UNCHANGED <<queueVars, feedVars, taskVars, procVars,
                          monVars, weights>>

ResetStarts ==
    /\ reset = "called"
    /\ lock = "free"
    /\ lock' = "reset"
    /\ resume' = "set"
    /\ resetActive' = ActiveTasks
    /\ reset' = "asking"
    /\ UNCHANGED <<staleness, resetSeen>>
    /\ ResetFrame

ResetReads ==
    /\ reset = "asking"
    /\ resetSeen' = Len(queue)
    /\ reset' = "asked"
    /\ UNCHANGED <<staleness, resume, lock, resetActive>>
    /\ ResetFrame

ResetTo(count) ==
    /\ reset = "asked"
    /\ staleness' = count
    /\ lock' = "free"
    /\ reset' = "returned"
    /\ resetActive' = 0
    /\ resetSeen' = 0
    /\ UNCHANGED resume
    /\ ResetFrame

\* Mutants: the queue is forgotten; the samples in flight are added to the old
\* count instead of replacing it.
ResetForgetsQueue == ResetTo(resetActive)
ResetAdds == ResetTo(staleness + resetActive + resetSeen)

ResetEnds == ResetTo(resetActive + resetSeen)
=============================================================================

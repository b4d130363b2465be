----------------------------- MODULE FullyAsync -----------------------------
(***************************************************************************)
(* The fully asynchronous pipeline: the rollouter and the trainer run      *)
(* concurrently and meet at the message queue and at the reset_staleness   *)
(* call (fully_async_main.py starts both after a first weight update).     *)
(***************************************************************************)
EXTENDS AsyncTrainer

vars == <<queueVars, rolloutVars, trainVars>>

Init == QueueInit /\ RolloutInit /\ TrainInit

Processor == \/ Check \/ ReadSize \/ Decide \/ Pause \/ DrainTasks \/ Resumed
             \/ GetPending \/ CheckLimit \/ LimitWait \/ Submit
             \/ Finish \/ FinishWait \/ PutEnd \/ StopRunning

Tasks == TaskPut \/ TaskDone \/ TaskFails

Monitor == MonitorWakes \/ MonitorReads \/ MonitorDecides \/ MonitorResumes

Reset == ResetStarts \/ ResetReads \/ ResetEnds

RolloutStep == FeedSample \/ Tasks \/ Processor \/ Monitor \/ Reset

TrainerStep == \/ CollectSample \/ CollectEnd \/ TrainStep
               \/ UpdateWeights \/ CallReset \/ ResetReturned \/ SaveCheckpoint

Done == tpc = "stopped" /\ pc = "stopped" /\ mon = "off" /\ generating = 0 /\ replying = 0

\* The main program clears the queue when both components are done.
Cleanup == /\ Done
           /\ queue # <<>>
           /\ ClearQueue
           /\ UNCHANGED <<rolloutVars, trainVars>>

Terminated == Done /\ queue = <<>> /\ UNCHANGED vars

Next == \/ RolloutStep /\ UNCHANGED trainVars
        \/ TrainerStep
        \/ Cleanup
        \/ Terminated

Spec == Init /\ [][Next]_vars

(* The event loop serves every ready coroutine; the queue actor answers; a *)
(* generation ends.  An asyncio lock is handed over in FIFO order, so a    *)
(* coroutine that waits for it gets it although others take it meanwhile:  *)
(* strong fairness of the steps that begin with the lock.                  *)
Fairness ==
    /\ WF_vars(FeedSample /\ UNCHANGED trainVars)
    /\ WF_vars(TaskPut /\ UNCHANGED trainVars)
    /\ WF_vars(TaskDone /\ UNCHANGED trainVars)
    /\ SF_vars(Processor /\ UNCHANGED trainVars)
    /\ SF_vars(Monitor /\ UNCHANGED trainVars)
    /\ SF_vars(Reset /\ UNCHANGED trainVars)
    /\ WF_vars(TrainerStep)

FairSpec == Spec /\ Fairness

-----------------------------------------------------------------------------
TypeOK == QueueTypeOK /\ RolloutTypeOK /\ TrainTypeOK

EndSent == IF pc \in {"stopping", "stopped"} THEN 1 ELSE 0

\* What was handed to a task and is not yet consumed, dropped or failed; the
\* end signal counts once it is put.
InFlight == Len(queue) + generating

\* The samples the processor got, the end signal aside.
Admitted == IF taken > Total THEN Total ELSE taken

(* No sample disappears between the actors: what the processor took is in  *)
(* its hands, in a task, in the queue, was dropped there, or reached the   *)
(* trainer, which used it or keeps it in a batch.  A raising task ends the *)
(* processor, and may take one more sample with it.                        *)
SamplesAccounted ==
    LET missing == Admitted - Held - generating - failures - (produced - EndSent)
    IN /\ missing \in 0 .. 1
       /\ missing = 1 => pc \in {"exit", "stopping", "stopped"} /\ failures > 0
       /\ consumed = trained * Required + Len(batch) + (IF final THEN 1 ELSE 0)
       /\ ~Done => produced = consumed + dropped + Len(queue)

(* The rollouter never has more than one sample over its budget in hand,   *)
(* whatever the order of its coroutines, the queue's answers and the       *)
(* trainer's resets (staleness accounting of _processor_worker and         *)
(* reset_staleness).                                                       *)
OverBudgetByOneAtMost == InFlight + Held <= MaxRequired + 1 + EndSent

(* What the README promises: at most MaxRequired samples are rolled out    *)
(* ahead of the trainer, those left over from the last update included.    *)
WithinBudget == InFlight <= MaxRequired + EndSent

(* A pause for staleness leaves the trainer the samples it needs to reach  *)
(* the next weight update, which alone ends that pause: reset_staleness    *)
(* counts what is outstanding, _should_pause_generation compares it.       *)
PauseLeavesEnough ==
    paused /\ staleness >= MaxRequired /\ tpc = "collect" /\ failures = 0
        => InFlight + consumed >= PerVersion * (version + 1)

(* Why the budget is kept: staleness_samples counts everything outstanding *)
(* but at most one sample (the one the processor holds when the reset      *)
(* reads active_tasks), and the reset cannot miss a task, because it keeps *)
(* the lock that Submit needs from its first read to its last.             *)
AccountingInv ==
    /\ OverBudgetByOneAtMost
    /\ InFlight + Held <= staleness + 1 + EndSent
    /\ pc = "get" => InFlight <= MaxRequired
    /\ pc \in {"limitWait", "finishWait"} => lock = "processor"
    /\ reset = "asking" => lock = "reset" /\ generating <= resetActive
    /\ reset = "asked" => /\ lock = "reset"
                          /\ InFlight <= resetActive + resetSeen + EndSent

(* The queue loses at most one sample for every weight update, and at most *)
(* one more to the end signal: put_sample drops the oldest one when full.  *)
(* A task that raises has the end signal put while other tasks are running, *)
(* and their samples may drop more.                                        *)
DropsBounded == failures = 0 => dropped <= version + EndSent

(* Never more tasks than max_concurrent_samples.                           *)
ConcurrencyBounded == /\ ActiveTasks <= MaxConcurrent
                      /\ pc = "submit" => ActiveTasks < MaxConcurrent

(* The freshness the staleness threshold buys: a sample is used at most    *)
(* MaxAge weight versions after it was put in the queue.                   *)
MaxAge == 1 + (MaxRequired - 1) \div PerVersion
FreshSamples == \A i \in DOMAIN batch : version - batch[i] <= MaxAge

(* staleness_threshold = 0 is synchronous training: every sample is used   *)
(* under the weights that generated it.                                    *)
OnPolicy == ThrNum = 0 => \A i \in DOMAIN batch : batch[i] = version

(* In that mode the queue always has room: no sample is dropped, not even  *)
(* for the end signal.                                                     *)
SyncNeverDrops == ThrNum = 0 => dropped = 0

(* The checkpoint named global_step_v holds v * Trigger training steps,    *)
(* which is what load_checkpoint of the trainer computes from its name.    *)
CheckpointMatchesName == saved = lastCkpt * Trigger

(* The last training step is saved when saving is on (condition 2 of the   *)
(* comment in _fit_save_checkpoint).                                       *)
LastStepSaved == tpc = "stopped" /\ SaveFreq > 0 => saved = trained

(* The training ends: no pause, stale answer, lost wake-up or task that    *)
(* raises leaves the trainer waiting for samples for ever.  That is so     *)
(* where the budget has room for the tasks besides the samples of a        *)
(* version; with a threshold of zero the rollouter can pause short of them. *)
TrainingEnds == <>(tpc = "stopped")

-----------------------------------------------------------------------------
\* The end signal is in the queue: put, and not yet taken by the trainer.
EndQueued == EndSent = 1 /\ ~final

Stream == INSTANCE SampleStream
          WITH Budget <- MaxRequired,
               PerUpdate <- PerVersion,
               ahead <- InFlight + Held - (IF EndQueued THEN 1 ELSE 0),
               used <- trained * Required + Len(batch),
               current <- version,
               broken <- failures > 0

(* The pipeline implements the stream: between two weight updates exactly  *)
(* PerVersion samples are used, the rollout is admitted only within the    *)
(* budget, and until a task has raised a sample is dropped only when the   *)
(* budget is used up.                                                      *)
ImplementsStream == Stream!StreamSpec
=============================================================================

------------------------------ MODULE OneStepOff ------------------------------
(***************************************************************************)
(* The one-step-off-policy trainer                                         *)
(* (verl/experimental/one_step_off_policy), over the same checkpoints as   *)
(* the V1 trainers: the next batch is generated while the present one is   *)
(* trained on, so that the dataloader is always a batch ahead.  A job is   *)
(* one of the two trainers.                                                *)
(*                                                                         *)
(* The batches of all epochs are one stream.  The driver blocks between    *)
(* its awaits: what it does from one to the next is one step.              *)
(***************************************************************************)
EXTENDS V1Trainer

\* A job that is started again after its last step trains one step more.
ASSUME OneStepAssumption == TotalSteps + MaxCrashes <= MaxStep

VARIABLES
    trainer,    \* "v1" or "one_step_off"
    epochLen,   \* len(train_dataloader), in batches
    left,       \* batches that are left in continuous_iterator
    future,     \* batch_data_future: its prompts and the weights that generate
    made        \* the weights the present batch was generated with

oneStepVars == <<trainer, epochLen, left, future, made>>
jobVars == <<vars, oneStepVars>>

Pending(state, ps, weights) == [state |-> state, prompts |-> ps, weights |-> weights]
NoFuture == Pending("none", {}, {})

JobTypeOK ==
    /\ TypeOK
    /\ trainer \in {"v1", "one_step_off"}
    /\ epochLen \in 1 .. TotalSteps
    /\ left \in 0 .. TotalSteps
    /\ future.state \in {"none", "running", "done", "exhausted"}
    /\ future.prompts \subseteq 1 .. cursor
    /\ future.state \in {"running", "done"} => Cardinality(future.prompts) = BatchSize
    /\ made \subseteq 1 .. cursor

JobInit ==
    /\ Init
    /\ trainer \in {"v1", "one_step_off"}
    /\ epochLen \in {n \in 1 .. TotalSteps : TotalSteps % n = 0}
    /\ trainer = "v1" => epochLen = TotalSteps
    /\ trainer = "one_step_off" => strategy = "wait"
    /\ left = 0 /\ future = NoFuture /\ made = {}

-----------------------------------------------------------------------------
\* _async_gen_next_batch: the next of the n batches after this position, or None
\* when the iterator has no more.
GenNext(position, n, weights) ==
    IF n > 0
    THEN /\ future' = Pending("running", position + 1 .. position + BatchSize, weights)
         /\ cursor' = position + BatchSize
         /\ left' = n - 1
    ELSE /\ future' = Pending("exhausted", {}, {})
         /\ cursor' = position
         /\ left' = 0

\* The batches of its epoch before this position of the dataloader.
InEpoch(position) == ((position \div BatchSize - 1) % epochLen) + 1

\* fit: the weights are loaded and pushed, the first batch is drawn.
Start(step, weights, position, n) ==
    /\ gs' = step /\ trained' = weights
    /\ GenNext(position, n, weights)
    /\ Goto("sample")

\* At an epoch boundary the state of the dataloader is not restored; the iterator
\* goes over total_epochs epochs, the one it is in included.
StartJob ==
    /\ pc = "load"
    /\ IF tracker = Absent
       THEN Start(1, {}, 0, TotalSteps)
       ELSE IF tracker = Torn \/ ~(Whole(tracker, "actor") /\ Whole(tracker, "critic"))
       THEN Goto("stuck") /\ UNCHANGED <<gs, cursor, trained, left, future>>
       ELSE LET weights == saved["actor"][tracker].weights
            IN IF tracker % epochLen = 0
               THEN Start(tracker + 1, weights, tracker * BatchSize, TotalSteps)
               ELSE Start(tracker + 1, weights, data[tracker], TotalSteps - InEpoch(data[tracker]))
    /\ UNCHANGED <<bufferVars, storeVars, balanceVars, toAdd, crashes, trainer, epochLen, made>>

Generates ==
    /\ future.state = "running"
    /\ future' = [future EXCEPT !.state = "done"]
    /\ UNCHANGED <<vars, trainer, epochLen, left, made>>

LastStep == gs >= TotalSteps

\* Mutant: the next batch is started before the weights are pushed.
GenerateThenPush ==
    /\ pc = "sample" /\ future.state = "done"
    /\ batch' = [p \in future.prompts |-> Sessions]
    /\ made' = future.weights
    /\ IF LastStep THEN future' = NoFuture /\ UNCHANGED <<cursor, left>>
       ELSE GenNext(cursor, left, future.weights)
    /\ Goto("train")
    /\ UNCHANGED <<strategy, prompts, listed, mishaps, storeVars, balanceVars, gs, toAdd, trained,
                   crashes, trainer, epochLen>>

\* _fit_generate: the batch is awaited, the weights are pushed to the servers,
\* and the next batch is started with them.
TakeBatch ==
    /\ pc = "sample" /\ future.state = "done"
    /\ batch' = [p \in future.prompts |-> Sessions]
    /\ made' = future.weights
    /\ IF LastStep THEN future' = NoFuture /\ UNCHANGED <<cursor, left>>
       ELSE GenNext(cursor, left, trained)
    /\ Goto("train")
    /\ UNCHANGED <<strategy, prompts, listed, mishaps, storeVars, balanceVars, gs, toAdd, trained,
                   crashes, trainer, epochLen>>

\* None cannot be unpacked.
NoBatch ==
    /\ pc = "sample" /\ future.state = "exhausted"
    /\ Goto("raised")
    /\ UNCHANGED <<bufferVars, storeVars, balanceVars, gs, toAdd, cursor, trained, crashes,
                   oneStepVars>>

\* The rest of fit_step, up to the checkpoint.
Learn ==
    /\ pc = "train"
    /\ trained' = trained \cup DOMAIN batch
    /\ Goto(IF gs % SaveFreq = 0 \/ LastStep THEN "actor" ELSE "clear")
    /\ UNCHANGED <<bufferVars, storeVars, balanceVars, gs, toAdd, cursor, crashes, oneStepVars>>

NextStep ==
    /\ pc = "clear"
    /\ gs' = gs + 1 /\ batch' = <<>>
    /\ Goto(IF LastStep THEN "done" ELSE "sample")
    /\ UNCHANGED <<strategy, prompts, listed, mishaps, storeVars, balanceVars, toAdd, cursor,
                   trained, crashes, oneStepVars>>

CrashJob ==
    /\ Crash
    /\ future' = NoFuture /\ left' = 0 /\ made' = {}
    /\ UNCHANGED <<trainer, epochLen>>

-----------------------------------------------------------------------------
OneStepTrainer ==
    \/ StartJob \/ Generates \/ TakeBatch \/ NoBatch \/ Learn
    \/ Save /\ UNCHANGED oneStepVars
    \/ NextStep

JobNext ==
    \/ trainer = "v1" /\ Next /\ UNCHANGED oneStepVars
    \/ trainer = "one_step_off" /\ (OneStepTrainer \/ CrashJob)

JobSpec ==
    /\ JobInit /\ [][JobNext]_jobVars
    /\ WF_jobVars(trainer = "v1" /\ Trainer /\ UNCHANGED oneStepVars)
    /\ WF_jobVars(trainer = "v1" /\ (\E p \in DOMAIN prompts : Loops(p)) /\ UNCHANGED oneStepVars)
    /\ WF_jobVars(trainer = "one_step_off" /\ OneStepTrainer)

-----------------------------------------------------------------------------
(* What is trained on is as old as its trainer allows: the V1 trainers by   *)
(* their threshold, the one-step-off trainer by one step, whatever crashed. *)
AgeBounded ==
    IF trainer = "v1" THEN StalenessBounded
    ELSE pc = "train" => made \subseteq trained /\ Cardinality(trained \ made) <= BatchSize

(* A one-step-off job that is resumed within an epoch is a batch ahead of   *)
(* its steps; resumed once more, at an epoch boundary, it starts from its   *)
(* step, at a position that it has trained on.  Its batches are one stream  *)
(* until its second crash, those of a V1 trainer for ever.                  *)
OneStream == trainer = "v1" \/ crashes <= 1

(* The weights of a job see no prompt twice, as long as its batches are one *)
(* stream (the load of the checkpoint in fit, _async_gen_next_batch).       *)
JobPromptsOnce == OneStream => NoPromptTwice

(* Whenever a job dies, of either trainer and however often it died before, *)
(* the checkpoint the tracker names is complete; as long as its batches are *)
(* one stream, the dataloader goes on behind the prompts its weights have   *)
(* seen (_save_checkpoint).                                                 *)
JobNamesWhole ==
    tracker \in Steps => Complete(tracker) /\ (OneStream => BehindDataloader(tracker))

(* The V1 trainers balance their batches this way.                          *)
V1SharesBalanced == trainer = "v1" => SharesBalanced

(* The job ends.  The one-step-off trainer raises when it was resumed       *)
(* within an epoch: the batch in flight at the crash is missing at the end. *)
Resumed == crashes > 0 /\ tracker \in Steps

JobEnds ==
    <>(\/ pc = "done"
       \/ pc = "raised" /\ (IF trainer = "v1" THEN Starved ELSE Resumed /\ epochLen > 1)
       \/ pc = "stuck" /\ tracker = Torn)
=============================================================================

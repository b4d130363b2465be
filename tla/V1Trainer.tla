------------------------------ MODULE V1Trainer ------------------------------
(***************************************************************************)
(* The training loop of the asynchronous V1 trainers (fit and step of      *)
(* verl/trainer/ppo/v1/trainer_base.py): prompts are drawn from the        *)
(* dataloader some batches ahead, a batch is sampled from the replay       *)
(* buffer, divided among the ranks and trained, checkpoints are saved, and *)
(* a job that crashed resumes from the last of them.                       *)
(*                                                                         *)
(* The weights are the set of the prompts they were trained with.  The     *)
(* dataset is longer than a run: no prompt comes round a second time.      *)
(***************************************************************************)
EXTENDS ReplayBuffer, CheckpointStore, BatchBalance, SequencesExt

CONSTANTS TotalSteps,  \* total_training_steps
          Warmup,      \* num_warmup_batches
          SaveFreq,    \* save_freq
          Lengths,     \* the lengths a trajectory may have
          MaxCrashes

ASSUME V1Assumption ==
    /\ TotalSteps \in 1 .. MaxStep
    /\ Warmup \in Nat /\ SaveFreq \in Nat \ {0}
    /\ Lengths \subseteq Nat \ {0} /\ MaxCrashes \in Nat

VARIABLES
    pc,          \* where the trainer is
    gs,          \* global_steps
    toAdd,       \* batches still to be drawn before it samples
    cursor,      \* position of the dataloader
    trained,     \* the weights of actor and critic
    crashes

trainerVars == <<pc, gs, toAdd, cursor, trained, crashes>>
vars == <<bufferVars, storeVars, balanceVars, trainerVars>>

\* The stages of _save_checkpoint.
SavePCs == {"actor", "actorEnd", "critic", "criticEnd", "data", "tracker", "trackerEnd"}

TypeOK ==
    /\ BufferTypeOK /\ CheckpointTypeOK
    /\ pc \in SavePCs \cup {"load", "add", "sample", "select", "fill", "balance",
                            "train", "clear", "done", "raised", "stuck"}
    /\ gs \in 0 .. MaxStep + 1
    /\ toAdd \in 0 .. Warmup + 1
    /\ cursor \in Nat
    /\ trained \subseteq 1 .. cursor
    /\ rows \in Seq([prompt : 0 .. cursor, length : Nat])
    /\ crashes \in 0 .. MaxCrashes

Init ==
    /\ BufferInit /\ CheckpointInit /\ BalanceInit
    /\ pc = "load" /\ gs = 0 /\ toAdd = 0 /\ cursor = 0 /\ trained = {}
    /\ crashes = 0

-----------------------------------------------------------------------------
Goto(label) == pc' = label

\* A step begins, or the run is over.
Begin(step, batches, from) ==
    /\ gs' = step
    /\ pc' = IF step > TotalSteps THEN "done" ELSE "add"
    /\ toAdd' = batches
    /\ cursor' = from

\* Mutant: the dataloader starts from the beginning.
LoadWithoutData ==
    /\ pc = "load"
    /\ IF tracker = Absent
       THEN Begin(1, Warmup + 1, 0) /\ trained' = {}
       ELSE IF tracker = Torn \/ ~(Whole(tracker, "actor") /\ Whole(tracker, "critic"))
       THEN Goto("stuck") /\ UNCHANGED <<gs, toAdd, cursor, trained>>
       ELSE /\ Begin(tracker + 1, Warmup + 1, 0)
            /\ trained' = saved["actor"][tracker].weights
    /\ UNCHANGED <<bufferVars, storeVars, balanceVars, crashes>>

\* _load_checkpoint: from scratch without a tracker file; an empty one, or parts
\* that are not there, raise.  The first step draws the warm-up batches too.
Load ==
    /\ pc = "load"
    /\ IF tracker = Absent
       THEN Begin(1, Warmup + 1, 0) /\ trained' = {}
       ELSE IF tracker = Torn \/ ~(Whole(tracker, "actor") /\ Whole(tracker, "critic"))
       THEN Goto("stuck") /\ UNCHANGED <<gs, toAdd, cursor, trained>>
       ELSE /\ Begin(tracker + 1, Warmup + 1,
                     IF data[tracker] = Absent THEN 0 ELSE data[tracker])
            /\ trained' = saved["actor"][tracker].weights
    /\ UNCHANGED <<bufferVars, storeVars, balanceVars, crashes>>

\* _add_batch_to_generate
AddBatch ==
    /\ pc = "add"
    /\ PutPrompts(cursor + 1 .. cursor + BatchSize, gs)
    /\ cursor' = cursor + BatchSize
    /\ toAdd' = toAdd - 1
    /\ pc' = IF toAdd = 1 THEN "sample" ELSE "add"
    /\ UNCHANGED <<storeVars, balanceVars, gs, trained, crashes>>

Poll ==
    /\ pc = "sample" /\ List(gs)
    /\ Goto("select")
    /\ UNCHANGED <<storeVars, balanceVars, gs, toAdd, cursor, trained, crashes>>

\* The batch has its trajectories in the order of the queue.
SampleBatch ==
    /\ pc = "select" /\ Sample(gs)
    /\ Goto("fill")
    /\ UNCHANGED <<storeVars, balanceVars, gs, toAdd, cursor, trained, crashes>>

\* The prompts of the rows of the batch, in the order of the queue.
RowOrders ==
    {order \in BoundedSeq(DOMAIN batch, BatchSize * Sessions) :
        /\ \A i, j \in DOMAIN order : i <= j => order[i] <= order[j]
        /\ \A p \in DOMAIN batch : Cardinality({i \in DOMAIN order : order[i] = p}) = batch[p]}

\* _balance_batch: padding, then the partition; without a row it raises.
FillBatch ==
    /\ pc = "fill"
    /\ \E order \in RowOrders : \E lengths \in [DOMAIN order -> Lengths] :
           Fill([i \in DOMAIN order |-> [prompt |-> order[i], length |-> lengths[i]]])
    /\ Goto(IF DOMAIN batch = {} THEN "raised" ELSE "balance")
    /\ UNCHANGED <<bufferVars, storeVars, gs, toAdd, cursor, trained, crashes>>

BalanceBatch ==
    /\ pc = "balance"
    /\ StartPartition \/ MergeStates
    /\ pc' = IF Cardinality(heap') = 1 THEN "train" ELSE pc
    /\ UNCHANGED <<bufferVars, storeVars, gs, toAdd, cursor, trained, crashes>>

Saves == gs % SaveFreq = 0 \/ gs = TotalSteps

\* Critic and actor are updated with the rows of all ranks.
Train ==
    /\ pc = "train"
    /\ trained' = trained \cup {p \in DOMAIN batch :
                       \E r \in 1 .. Ranks : \E i \in Shares[r] : rows[i].prompt = p}
    /\ rows' = <<>> /\ heap' = {}
    /\ Goto(IF Saves THEN "actor" ELSE "clear")
    /\ UNCHANGED <<bufferVars, storeVars, gs, toAdd, cursor, crashes>>

SaveStage(from, to) ==
    /\ pc = from
    /\ Goto(to)
    /\ UNCHANGED <<bufferVars, balanceVars, gs, toAdd, cursor, trained, crashes>>

\* Mutant: the tracker names the checkpoint before the critic is saved.
SaveTrackerFirst ==
    \/ SaveStage("actor", "actorEnd") /\ BeginPart("actor", gs)
    \/ SaveStage("actorEnd", "tracker") /\ EndPart("actor", gs, trained)
    \/ SaveStage("tracker", "trackerEnd") /\ OpenTracker
    \/ SaveStage("trackerEnd", "critic") /\ WriteTracker(gs)
    \/ SaveStage("critic", "criticEnd") /\ BeginPart("critic", gs)
    \/ SaveStage("criticEnd", "data") /\ EndPart("critic", gs, trained)
    \/ SaveStage("data", "clear") /\ SaveData(gs, cursor)

\* _save_checkpoint
Save ==
    \/ SaveStage("actor", "actorEnd") /\ BeginPart("actor", gs)
    \/ SaveStage("actorEnd", "critic") /\ EndPart("actor", gs, trained)
    \/ SaveStage("critic", "criticEnd") /\ BeginPart("critic", gs)
    \/ SaveStage("criticEnd", "data") /\ EndPart("critic", gs, trained)
    \/ SaveStage("data", "tracker") /\ SaveData(gs, cursor)
    \/ SaveStage("tracker", "trackerEnd") /\ OpenTracker
    \/ SaveStage("trackerEnd", "clear") /\ WriteTracker(gs)

\* Mutant: every step draws the warm-up batches again.
EndStepWarm ==
    /\ pc = "clear"
    /\ ClearBatch
    /\ Begin(gs + 1, Warmup + 1, cursor)
    /\ UNCHANGED <<storeVars, balanceVars, trained, crashes>>

\* The end of a step.
EndStep ==
    /\ pc = "clear"
    /\ ClearBatch
    /\ Begin(gs + 1, 1, cursor)
    /\ UNCHANGED <<storeVars, balanceVars, trained, crashes>>

\* The job dies, in one of the ways nobody foresaw, or because it raised, and is
\* started again.
Crash ==
    /\ pc \notin {"load", "done", "stuck"}
    /\ crashes < MaxCrashes
    /\ crashes' = crashes + 1
    /\ Goto("load")
    /\ LoseQueue /\ ForgetPaths
    /\ trained' = {} /\ rows' = <<>> /\ heap' = {}
    /\ gs' = 0 /\ toAdd' = 0 /\ cursor' = 0

-----------------------------------------------------------------------------
Trainer ==
    \/ Load \/ AddBatch \/ Poll \/ SampleBatch \/ FillBatch \/ BalanceBatch \/ Train \/ Save \/ EndStep

Running == pc \notin {"load", "done", "raised", "stuck"}

\* The agent loops live as long as the job.
Loops(p) == Running /\ AgentLoop(p) /\ UNCHANGED <<storeVars, balanceVars, trainerVars>>

Mishap(p) == Running /\ SessionMishap(p) /\ UNCHANGED <<storeVars, balanceVars, trainerVars>>

Next == \/ Trainer
        \/ \E p \in DOMAIN prompts : Loops(p) \/ Mishap(p)
        \/ Crash

Spec == Init /\ [][Next]_vars

(* The trainer goes on, and so does every agent loop.                       *)
Fairness == WF_vars(Trainer) /\ WF_vars(\E p \in DOMAIN prompts : Loops(p))

FairSpec == Spec /\ Fairness

-----------------------------------------------------------------------------
\* The checkpoint of this step has both parts, of the same training step, and the
\* state of the dataloader.
Complete(step) ==
    /\ \A p \in Parts : Whole(step, p)
    /\ saved["actor"][step] = saved["critic"][step]
    /\ data[step] \in Nat

\* Its dataloader goes on behind every prompt its weights have seen.
BehindDataloader(step) == \A q \in saved["actor"][step].weights : q <= data[step]

(* Whenever a V1 trainer dies, the checkpoint the tracker names is complete *)
(* and its dataloader skips every prompt its weights have seen, however     *)
(* often it died before (_save_checkpoint).                                 *)
TrackerNamesWhole == tracker \in Steps => Complete(tracker) /\ BehindDataloader(tracker)

(* Each life of the job leaves no more checkpoints than asked for on the    *)
(* disk, not even while one is being saved; those of an earlier life stay.  *)
DiskBounded ==
    MaxKeep > 1 =>
        \A p \in Parts :
            Cardinality({s \in Steps : saved[p][s].state # "absent"}) <= MaxKeep * (crashes + 1)

(* The weights of a V1 trainer see no prompt twice, however often it        *)
(* crashed and was resumed (_load_checkpoint, the dataloader's state).      *)
NoPromptTwice == pc = "train" => DOMAIN batch \cap trained = {}

(* A resumed job skips the prompts that were in flight when its checkpoint  *)
(* was saved, Warmup batches, and no others.                                *)
SkipsBounded ==
    pc # "load" => cursor <= BatchSize * (gs + Warmup * (crashes + 1))

(* The age of what is trained on: with the drop strategy the threshold;     *)
(* the wait strategy waits for what reaches the threshold but cannot use it *)
(* all at once.                                                             *)
WaitBound == (IF Threshold * SyncStep > 2 THEN Threshold * SyncStep ELSE 2) + Warmup - 1

StalenessBounded ==
    pc = "train" => \A p \in DOMAIN batch :
        Age(gs, prompts[p].step) <= IF strategy = "drop" THEN Threshold * SyncStep ELSE WaitBound

(* A prompt in the batch has the trajectories of all its sessions, and none *)
(* is left in the queue behind it, unless one of them failed.               *)
WholeGroups ==
    \A p \in DOMAIN prompts :
        /\ p \in DOMAIN batch =>
               batch[p] + prompts[p].empty = Sessions \/ prompts[p].raised
        /\ prompts[p].status = "sampled" /\ p \notin DOMAIN batch => prompts[p].raised

(* The ranks train on the rows of the batch and padding, each row once, in  *)
(* equal and balanced shares; the padding is less than a multiple.          *)
SharesBalanced ==
    /\ Balanced
    /\ pc = "train" => /\ Len(rows) % RequiredMultiple = 0
                       /\ {rows[i].prompt : i \in DOMAIN rows} \ {0} = DOMAIN batch
                       /\ Cardinality({i \in DOMAIN rows : rows[i].prompt = 0}) < RequiredMultiple

(* The training ends: the polling is not for ever, the trainer raises only  *)
(* when the drop strategy or failed sessions may have left it an empty      *)
(* batch, and a restart fails only when the crash left an empty tracker.    *)
Starved == strategy = "drop" \/ mishaps > 0

TrainingEnds ==
    <>(\/ pc = "done"
       \/ pc = "raised" /\ Starved
       \/ pc = "stuck" /\ tracker = Torn)
=============================================================================

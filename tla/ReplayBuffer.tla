---------------------------- MODULE ReplayBuffer ----------------------------
(***************************************************************************)
(* The prompts and trajectories between the agent loops and a V1 trainer   *)
(* (verl/trainer/ppo/v1): the trainer registers its prompts in the         *)
(* TransferQueue, the agent loop workers run the sessions of each, put     *)
(* their trajectories and the prompt's status into the queue, and the      *)
(* ReplayBuffer of the trainer polls the queue for a batch.                *)
(*                                                                         *)
(* A prompt is its position in the dataset.  A session has one output      *)
(* trajectory, or none.  Every operation of the queue is one step.         *)
(***************************************************************************)
EXTENDS Integers, Sequences, FiniteSets

CONSTANTS BatchSize,     \* train_batch_size, in prompts
          Sessions,      \* rollout.n
          Threshold,     \* max_off_policy_threshold
          SyncStep,      \* parameter_sync_step
          MaxMishaps     \* sessions that may fail or return no output

ASSUME BufferAssumption ==
    /\ {BatchSize, Sessions, Threshold, SyncStep} \subseteq Nat \ {0}
    /\ MaxMishaps \in Nat

VARIABLES
    strategy,  \* max_off_policy_strategy: "wait" or "drop"
    prompts,   \* the prompts with something left in the queue or an agent loop
    listed,    \* the sampleable prompts of the last kv_list
    batch,     \* the batch sampled: how many trajectories of each prompt
    mishaps

bufferVars == <<strategy, prompts, listed, batch, mishaps>>

BufferTypeOK ==
    /\ strategy \in {"wait", "drop"}
    /\ \A p \in DOMAIN prompts :
          prompts[p] \in [step : Nat,
                          status : {"pending", "running", "finished", "failure", "sampled"},
                          going : 0 .. Sessions, stored : 0 .. Sessions,
                          raised : BOOLEAN, empty : 0 .. Sessions]
    /\ DOMAIN listed \subseteq DOMAIN prompts
    /\ \A p \in DOMAIN batch : batch[p] \in 1 .. Sessions
    /\ mishaps \in 0 .. MaxMishaps

BufferInit ==
    /\ strategy \in {"wait", "drop"}
    /\ prompts = <<>> /\ listed = <<>> /\ batch = <<>>
    /\ mishaps = 0

Restricted(f, S) == [x \in DOMAIN f \cap S |-> f[x]]

\* A sampled prompt of which nothing is left is forgotten.
Live(ps) == Restricted(ps, {p \in DOMAIN ps : \/ ps[p].status # "sampled"
                                               \/ ps[p].going + ps[p].stored > 0})

-----------------------------------------------------------------------------
(* The agent loops. *)

\* kv_batch_put of _add_batch_to_generate, which then starts the tasks.
PutPrompts(new, step) ==
    /\ prompts' = [p \in DOMAIN prompts \cup new |->
                     IF p \in new
                     THEN [step |-> step, status |-> "pending", going |-> 0, stored |-> 0,
                           raised |-> FALSE, empty |-> 0]
                     ELSE prompts[p]]
    /\ UNCHANGED <<strategy, listed, batch, mishaps>>

Set(p, record) == /\ prompts' = Live([prompts EXCEPT ![p] = record])
                  /\ UNCHANGED <<strategy, listed, batch>>

\* _run_prompt starts the sessions.
RunPrompt(p) ==
    /\ prompts[p].status = "pending"
    /\ Set(p, [prompts[p] EXCEPT !.status = "running", !.going = Sessions])
    /\ UNCHANGED mishaps

\* Mutant: the trajectory is put twice.
PutsTwice(p) ==
    /\ prompts[p].going > 0
    /\ Set(p, [prompts[p] EXCEPT !.going = @ - 1, !.stored = @ + 2])
    /\ UNCHANGED mishaps

\* _agent_loop_postprocess puts the trajectory ...
SessionPuts(p) ==
    /\ prompts[p].going > 0
    /\ Set(p, [prompts[p] EXCEPT !.going = @ - 1, !.stored = @ + 1])
    /\ UNCHANGED mishaps

\* ... or has none to put; or the session raises.
SessionMishap(p) ==
    /\ prompts[p].going > 0 /\ mishaps < MaxMishaps
    /\ mishaps' = mishaps + 1
    /\ \/ Set(p, [prompts[p] EXCEPT !.going = @ - 1, !.empty = @ + 1])
       \/ Set(p, [prompts[p] EXCEPT !.going = @ - 1, !.raised = TRUE])

\* Mutant: the prompt is finished with its first session.
FinishedEarly(p) ==
    /\ prompts[p].status = "running" /\ ~prompts[p].raised /\ prompts[p].going < Sessions
    /\ Set(p, [prompts[p] EXCEPT !.status = "finished"])
    /\ UNCHANGED mishaps

\* gather returns when every session has, and raises with the first that does:
\* the others go on.
PromptFinished(p) ==
    /\ prompts[p].status = "running" /\ ~prompts[p].raised /\ prompts[p].going = 0
    /\ Set(p, [prompts[p] EXCEPT !.status = "finished"])
    /\ UNCHANGED mishaps

\* Mutant: the exception is only logged.
PromptStays(p) ==
    /\ prompts[p].status = "running" /\ prompts[p].raised
    /\ UNCHANGED bufferVars

PromptFails(p) ==
    /\ prompts[p].status = "running" /\ prompts[p].raised
    /\ Set(p, [prompts[p] EXCEPT !.status = "failure"])
    /\ UNCHANGED mishaps

AgentLoop(p) == RunPrompt(p) \/ SessionPuts(p) \/ PromptFinished(p) \/ PromptFails(p)

-----------------------------------------------------------------------------
(* The replay buffer, called at global step gs. *)

\* The model versions a prompt of this step spans: more than n of them / n or more.
Age(gs, step) == gs - step + 1
Exceeds(gs, step) == Age(gs, step) > Threshold * SyncStep
Reaches(gs, step) == Age(gs, step) >= Threshold * SyncStep

Unfinished(ps) == {p \in DOMAIN ps : ps[p].status \in {"pending", "running"}}
Sampleable(ps) == {p \in DOMAIN ps : ps[p].status \in {"finished", "failure"}}

\* Mutant: the wait strategy does not wait.
EnoughAtOnce(gs) == Cardinality(Sampleable(prompts)) >= BatchSize

HasEnoughSamples(gs) ==
    /\ strategy = "wait" => ~ \E p \in Unfinished(prompts) : Reaches(gs, prompts[p].step)
    /\ Cardinality(Sampleable(prompts)) >= BatchSize

\* The kv_list that ends the polling.
List(gs) ==
    /\ HasEnoughSamples(gs)
    /\ listed' = Restricted(prompts, Sampleable(prompts))
    /\ UNCHANGED <<strategy, prompts, batch, mishaps>>

\* Mutant: any of the sampleable prompts.
AnyOf(all) == {S \in SUBSET all : Cardinality(S) = BatchSize}

\* BatchSize of the sampleable prompts, the oldest first.
OldestOf(all) ==
    {S \in SUBSET all : /\ Cardinality(S) = BatchSize
                        /\ \A p \in S, q \in all \ S : listed[p].step <= listed[q].step}

\* The keys of the prompts are cleared, and with the drop strategy their
\* trajectories when they are too old; the batch is what the list showed.
Sample(gs) ==
    \E chosen \in OldestOf(Sampleable(listed)) :
        LET tooOld == {p \in chosen : strategy = "drop" /\ Exceeds(gs, listed[p].step)}
        IN /\ prompts' = Live([p \in DOMAIN prompts |->
                                 IF p \notin chosen THEN prompts[p]
                                 ELSE [prompts[p] EXCEPT
                                         !.status = "sampled",
                                         !.stored = IF p \in tooOld THEN @ - listed[p].stored
                                                    ELSE @]])
           /\ batch' = [p \in {q \in chosen \ tooOld : listed[q].stored > 0}
                          |-> listed[p].stored]
           /\ listed' = <<>>
           /\ UNCHANGED <<strategy, mishaps>>

\* The trajectories of the batch are cleared at the end of the training step.
ClearBatch ==
    /\ prompts' = Live([p \in DOMAIN prompts |->
                          IF p \in DOMAIN batch
                          THEN [prompts[p] EXCEPT !.stored = @ - batch[p]] ELSE prompts[p]])
    /\ batch' = <<>>
    /\ UNCHANGED <<strategy, listed, mishaps>>

\* The queue is in memory: it is lost with the job.
LoseQueue ==
    /\ prompts' = <<>> /\ listed' = <<>> /\ batch' = <<>>
    /\ UNCHANGED <<strategy, mishaps>>
=============================================================================

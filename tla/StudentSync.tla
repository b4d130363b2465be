----------------------------- MODULE StudentSync -----------------------------
(***************************************************************************)
(* On-policy distillation with a separate rollout server                   *)
(* (CLightMLLM_new/src/method/opd.py, rollout.py, vllm_student.py): the    *)
(* ranks of the trainer ask the server for rollouts, train together, and   *)
(* rank 0 sends the new weights while the others wait at a barrier.  A     *)
(* rank that gets an error or no answer raises, and is dead; the operator  *)
(* may start a new trainer, or a new server.                               *)
(***************************************************************************)
EXTENDS StudentServer

CONSTANTS Ranks, Lead,      \* Lead is rank 0
          MaxLife,          \* trainers that may be started
          MaxBatch,         \* batches of one trainer
          Accumulate,       \* accumulate_grad_batches
          Failing,          \* what may fail
          MaxFailures

ASSUME TrainerAssumption ==
    /\ Lead \in Ranks
    /\ Calls = Ranks \X (1 .. MaxLife)
    /\ {MaxLife, MaxBatch, Accumulate} \subseteq Nat \ {0}
    /\ Failing \subseteq {"timeout", "sender", "receiver", "server", "trainer"}
    /\ MaxFailures \in Nat

VARIABLES
    life,        \* the number of the trainer
    pc,          \* where each rank is
    batch,       \* batches trained
    policy,      \* the version of the trainer's weights
    fresh,       \* the last version any trainer made
    globalStep,  \* trainer.global_step
    lastSync,    \* _last_student_rollout_sync_step
    sent,        \* buckets the server has acknowledged
    generated,   \* the versions each rank's rollout comes from
    failures

trainerVars == <<life, pc, batch, policy, fresh, globalStep, lastSync, sent,
                 generated, failures>>
vars == <<serverVars, trainerVars>>

TypeOK ==
    /\ ServerTypeOK
    /\ life \in 1 .. MaxLife
    /\ pc \in [Ranks -> {"rollout", "waiting", "train", "sync", "sending",
                         "synced", "barrier", "done", "dead"}]
    /\ batch \in 0 .. MaxBatch
    /\ {policy, globalStep} \subseteq 0 .. fresh /\ fresh \in Nat
    /\ lastSync \in -1 .. globalStep
    /\ sent \in 0 .. Buckets
    /\ generated \in [Ranks -> SUBSET Nat]
    /\ failures \in 0 .. MaxFailures

Init ==
    /\ ServerInit
    /\ life = 1 /\ pc = [r \in Ranks |-> "rollout"]
    /\ batch = 0 /\ policy = 0 /\ fresh = 0 /\ globalStep = 0
    /\ lastSync = -1 /\ sent = 0
    /\ generated = [r \in Ranks |-> {}]
    /\ failures = 0

-----------------------------------------------------------------------------
Mine(r) == call[<<r, life>>]

Ask(r, op, s) ==
    /\ Request(<<r, life>>, op, s)
    /\ pc' = [pc EXCEPT ![r] = "waiting"]
    /\ UNCHANGED <<lock, session, receiver, engineVars>>

\* rpc_call returns; _checked_response lets only an "ok" through.
Got(r, op) == pc[r] = "waiting" /\ Mine(r).op = op /\ Mine(r).state = "ok"

Goto(r, label) == pc' = [pc EXCEPT ![r] = label] /\ UNCHANGED serverVars

AskRollout(r) ==
    /\ pc[r] = "rollout"
    /\ Ask(r, "generate", 0)
    /\ UNCHANGED <<life, batch, policy, fresh, globalStep, lastSync, sent, generated, failures>>

GotRollout(r) ==
    /\ Got(r, "generate")
    /\ Goto(r, "train")
    /\ generated' = [generated EXCEPT ![r] = Mine(r).used]
    /\ UNCHANGED <<life, batch, policy, fresh, globalStep, lastSync, sent, failures>>

AfterBatch == IF batch = MaxBatch THEN "done" ELSE "rollout"

\* Mutant: the sync is skipped for the first optimizer step.
SyncsLate(step) == step > lastSync + 1

\* on_train_batch_end
Syncs(step) == step > lastSync

\* The ranks train on the batch together.
Train ==
    /\ \A r \in Ranks : pc[r] = "train"
    /\ batch' = batch + 1
    /\ IF batch' % Accumulate = 0
       THEN /\ fresh' = fresh + 1 /\ policy' = fresh + 1
            /\ globalStep' = globalStep + 1
       ELSE UNCHANGED <<fresh, policy, globalStep>>
    /\ pc' = [r \in Ranks |-> IF Syncs(globalStep')
                              THEN IF r = Lead THEN "sync" ELSE "barrier"
                              ELSE AfterBatch']
    /\ UNCHANGED <<serverVars, life, lastSync, sent, generated, failures>>

AskStart ==
    /\ pc[Lead] = "sync"
    /\ Ask(Lead, "start", 0)
    /\ sent' = 0
    /\ UNCHANGED <<life, batch, policy, fresh, globalStep, lastSync, generated, failures>>

GotStart ==
    /\ Got(Lead, "start")
    /\ Goto(Lead, "sending")
    /\ UNCHANGED <<life, batch, policy, fresh, globalStep, lastSync, sent, generated, failures>>

\* Mutant: the first bucket goes out as the last.
SendLastOnly ==
    /\ pc[Lead] = "sending" /\ sent < Buckets
    /\ LoadBucket(Mine(Lead).session, Buckets, policy)
    /\ sent' = Buckets
    /\ UNCHANGED <<life, pc, batch, policy, fresh, globalStep, lastSync, generated, failures>>

\* A bucket is sent, loaded and acknowledged.
SendBucket ==
    /\ pc[Lead] = "sending" /\ sent < Buckets
    /\ LoadBucket(Mine(Lead).session, sent + 1, policy)
    /\ sent' = sent + 1
    /\ UNCHANGED <<life, pc, batch, policy, fresh, globalStep, lastSync, generated, failures>>

AskFinish ==
    /\ pc[Lead] = "sending" /\ sent = Buckets
    /\ Ask(Lead, "finish", Mine(Lead).session)
    /\ UNCHANGED <<life, batch, policy, fresh, globalStep, lastSync, sent, generated, failures>>

GotFinish ==
    /\ Got(Lead, "finish")
    /\ Goto(Lead, "synced")
    /\ UNCHANGED <<life, batch, policy, fresh, globalStep, lastSync, sent, generated, failures>>

\* _dist_barrier: the ranks go on together.
Barrier ==
    /\ \A r \in Ranks : pc[r] = IF r = Lead THEN "synced" ELSE "barrier"
    /\ pc' = [r \in Ranks |-> AfterBatch]
    /\ lastSync' = globalStep
    /\ UNCHANGED <<serverVars, life, batch, policy, fresh, globalStep, sent, generated, failures>>

-----------------------------------------------------------------------------
(* What may go wrong. *)

Fail(kind) == /\ kind \in Failing /\ failures < MaxFailures
              /\ failures' = failures + 1

\* An error answer, or the answer to an abort: the exception is raised (again).
Raises(r) ==
    /\ pc[r] = "waiting"
    /\ Mine(r).state = "error" \/ Got(r, "abort")
    /\ Goto(r, "dead")
    /\ UNCHANGED <<life, batch, policy, fresh, globalStep, lastSync, sent, generated, failures>>

\* The client's socket times out; the server's handler knows nothing of it.
TimesOut(r) ==
    /\ Fail("timeout")
    /\ pc[r] = "waiting" /\ Mine(r).state \in {"queued", "running"}
    /\ Goto(r, "dead")
    /\ UNCHANGED <<life, batch, policy, fresh, globalStep, lastSync, sent, generated>>

FinishTimesOut(c) ==
    /\ Fail("timeout") /\ call[c].op = "finish"
    /\ JoinTimesOut(c)
    /\ UNCHANGED <<life, pc, batch, policy, fresh, globalStep, lastSync, sent, generated>>

\* An abort is given up when its time is over; nobody stops the receiver.
AbortTimesOut(c) ==
    /\ call[c].op = "abort"
    /\ JoinTimesOut(c)
    /\ UNCHANGED trainerVars

SenderFails ==
    /\ Fail("sender")
    /\ pc[Lead] = "sending" /\ sent < Buckets
    /\ Ask(Lead, "abort", Mine(Lead).session)
    /\ UNCHANGED <<life, batch, policy, fresh, globalStep, lastSync, sent, generated>>

ReceiverFails(s) ==
    /\ Fail("receiver")
    /\ ReceiverRaises(s)
    /\ UNCHANGED <<life, pc, batch, policy, fresh, globalStep, lastSync, sent, generated>>

\* Mutant: the step of the last sync survives the trainer.
RestartKeepsSync ==
    /\ Fail("trainer") /\ life < MaxLife
    /\ life' = life + 1
    /\ pc' = [r \in Ranks |-> "rollout"]
    /\ policy' = 0 /\ globalStep' = 0
    /\ batch' = 0 /\ sent' = 0
    /\ generated' = [r \in Ranks |-> {}]
    /\ UNCHANGED <<serverVars, fresh, lastSync>>

\* From the first model, or from the checkpoint of the last step.
TrainerRestarts ==
    /\ Fail("trainer") /\ life < MaxLife
    /\ life' = life + 1
    /\ pc' = [r \in Ranks |-> "rollout"]
    /\ \/ policy' = 0 /\ globalStep' = 0
       \/ UNCHANGED <<policy, globalStep>>
    /\ batch' = 0 /\ lastSync' = -1 /\ sent' = 0
    /\ generated' = [r \in Ranks |-> {}]
    /\ UNCHANGED <<serverVars, fresh>>

RestartServer ==
    /\ Fail("server")
    /\ ServerRestarts
    /\ UNCHANGED <<life, pc, batch, policy, fresh, globalStep, lastSync, sent, generated>>

-----------------------------------------------------------------------------
Rank(r) == AskRollout(r) \/ GotRollout(r) \/ Raises(r)

Together == Train \/ Barrier

Sync == AskStart \/ GotStart \/ SendBucket \/ AskFinish \/ GotFinish

Serve(c) == Handler(c) /\ UNCHANGED trainerVars

Close(s) == ReceiverEnds(s) /\ UNCHANGED trainerVars

Failure ==
    \/ \E r \in Ranks : TimesOut(r)
    \/ \E c \in Calls : FinishTimesOut(c)
    \/ SenderFails \/ \E s \in Sessions : ReceiverFails(s)
    \/ TrainerRestarts \/ RestartServer

Next ==
    \/ \E r \in Ranks : Rank(r)
    \/ Together \/ Sync
    \/ \E c \in Calls : Serve(c) \/ AbortTimesOut(c)
    \/ \E s \in Sessions : Close(s)
    \/ Failure

Spec == Init /\ [][Next]_vars

(* Processes and threads go on, the lock is handed over, a join ends at    *)
(* its timeout.                                                            *)
Fairness ==
    /\ WF_vars(\E r \in Ranks : Rank(r)) /\ WF_vars(Together) /\ WF_vars(Sync)
    /\ \A c \in Calls : WF_vars(Serve(c)) /\ WF_vars(AbortTimesOut(c))
    /\ WF_vars(\E s \in Sessions : Close(s))

FairSpec == Spec /\ Fairness

-----------------------------------------------------------------------------
(* The engine does one thing at a time: it is never given a generation     *)
(* while a receiver thread loads weights into it, and never two receivers, *)
(* although the receivers run outside the lock and outlive their callers.  *)
EngineExclusive ==
    Cardinality({c \in Calls : call[c].op = "generate" /\ call[c].state = "running"})
      + Cardinality({s \in Sessions : Alive(s)}) <= 1

(* When rank 0 goes to the barrier the engine has all of the new weights,  *)
(* unless the server has been started again since (weight_version is 0).   *)
SyncedMeansLoaded ==
    pc[Lead] = "synced" /\ weightVersion > 0 => parts = [b \in 1 .. Buckets |-> policy]

(* Whenever the server generates, weight_version identifies the weights it *)
(* generates with: a sync that did not finish has left no trace in them,   *)
(* as long as no receiver has failed in the middle of one.                 *)
VersionIdentifiesWeights ==
    session = 0 /\ (\A s \in Sessions : receiver[s] # "failed") => parts = released

(* The README: the student samples its completions from the current        *)
(* policy.                                                                 *)
OnPolicy == \A r \in Ranks : pc[r] = "train" => generated[r] = {policy}

(* The training ends, or a failure ends it for good; even then rank 0 waits *)
(* for ever in a transfer only when the receiver is dead.                   *)
TrainingEnds ==
    <>[](\/ \A r \in Ranks : pc[r] = "done"
         \/ /\ failures > 0
            /\ pc[Lead] = "sending" => receiver[Mine(Lead).session] \in {"failed", "gone"})
=============================================================================

---------------------------- MODULE AsyncTrainer ----------------------------
(***************************************************************************)
(* The trainer of the fully asynchronous pipeline (FullyAsyncTrainer,      *)
(* verl/experimental/fully_async_policy/fully_async_trainer.py): it takes  *)
(* required_samples samples off the queue, trains on them, and after       *)
(* trigger_parameter_sync_step such steps pushes the weights to the        *)
(* rollout replicas and calls reset_staleness of the rollouter.            *)
(***************************************************************************)
EXTENDS Rollouter

CONSTANTS SaveFreq,  \* trainer.save_freq, 0 for -1 (never)
          TestFreq,  \* trainer.test_freq, 0 for -1 (never)
          MayExpire  \* whether the ESI plan may be close to expiration

ASSUME TrainerAssumption == /\ SaveFreq \in Nat
                            /\ TestFreq \in Nat
                            /\ MayExpire \in BOOLEAN

VARIABLES tpc,       \* where fit is
          batch,     \* the samples collected for the next step
          local,     \* local_trigger_step
          version,   \* current_param_version
          trained,   \* training steps done (global_steps - 1)
          phase,     \* whether the loop of fit is over (final)
          lastCkpt,  \* last_ckpt_version
          saved      \* training steps the last checkpoint holds

trainVars == <<tpc, batch, local, version, trained, phase, lastCkpt, saved>>

final == phase = "final"

TrainPC == {"collect", "sync", "reset", "resetting", "post", "stopped"}

TrainTypeOK ==
    /\ tpc \in TrainPC
    /\ batch \in Seq(Nat) /\ Len(batch) <= Required
    /\ local \in 1 .. Trigger
    /\ version \in Nat /\ trained \in Nat
    /\ phase \in {"loop", "final"}
    /\ lastCkpt \in Nat /\ saved \in Nat

TrainInit ==
    /\ tpc = "collect" /\ batch = <<>>
    /\ local = 1 /\ version = 0 /\ trained = 0
    /\ phase = "loop" /\ lastCkpt = 0 /\ saved = 0

-----------------------------------------------------------------------------
\* One more sample of the batch.
CollectSample ==
    /\ tpc = "collect"
    /\ Len(batch) < Required
    /\ TakeSample
    /\ Head(queue) # None
    /\ batch' = Append(batch, Head(queue))
    /\ UNCHANGED <<rolloutVars, tpc, local, version, trained, phase, lastCkpt, saved>>

\* current_param_version % test_freq; it is 0 for -1
PastTest == IF TestFreq = 0 THEN 0 ELSE version % TestFreq

\* The end signal stops the training: the samples of a partial batch stay unused,
\* and the tail of fit follows.
CollectEnd ==
    /\ tpc = "collect"
    /\ Len(batch) < Required
    /\ TakeSample
    /\ Head(queue) = None
    /\ phase' = "final"
    /\ tpc' = IF (PastTest # 0 \/ local > 1) /\ local = 1 THEN "sync" ELSE "post"
    /\ UNCHANGED <<rolloutVars, batch, local, version, trained, lastCkpt, saved>>

\* fit_step on a full batch, with _fit_update_local_step.
TrainStep ==
    /\ tpc = "collect"
    /\ Len(batch) = Required
    /\ batch' = <<>>
    /\ trained' = trained + 1
    /\ IF local < Trigger
       THEN /\ local' = local + 1
            /\ version' = version
            /\ tpc' = "post"
       ELSE /\ local' = 1
            /\ version' = version + 1
            /\ tpc' = "sync"
    /\ UNCHANGED <<queueVars, rolloutVars, phase, lastCkpt, saved>>

\* _fit_update_weights: the replicas get the weights, the calls in flight go on
\* with them ...
PushWeights(v) ==
    /\ tpc = "sync"
    /\ weights' = v
    /\ tpc' = "reset"
    /\ UNCHANGED <<queueVars, feedVars, taskVars, staleness, resume, lock,
                   procVars, monVars, resetVars, batch, local, version, trained,
                   phase, lastCkpt, saved>>

\* Mutant: the replicas keep their weights.
UpdateMissesReplicas == PushWeights(weights)

UpdateWeights == PushWeights(version)

\* ... then reset_staleness is called, and its answer awaited.
CallReset ==
    /\ tpc = "reset"
    /\ reset' = "called"
    /\ tpc' = "resetting"
    /\ UNCHANGED <<queueVars, feedVars, taskVars, staleness, resume, lock,
                   procVars, monVars, resetActive, resetSeen, weights, batch, local,
                   version, trained, phase, lastCkpt, saved>>

ResetReturned ==
    /\ tpc = "resetting"
    /\ reset = "returned"
    /\ reset' = "idle"
    /\ tpc' = "post"
    /\ UNCHANGED <<queueVars, feedVars, taskVars, staleness, resume, lock,
                   procVars, monVars, resetActive, resetSeen, weights, batch, local,
                   version, trained, phase, lastCkpt, saved>>

\* Mutant: the version saved last is not looked at.
SavesAgain(force, expires) ==
    /\ SaveFreq > 0
    /\ force \/ version % SaveFreq = 0 \/ expires

\* _fit_save_checkpoint(force): whether it saves.
Saves(force, expires) ==
    /\ version # lastCkpt
    /\ SaveFreq > 0
    /\ force \/ version % SaveFreq = 0 \/ expires

SaveCheckpoint ==
    /\ tpc = "post"
    /\ \E expires \in {FALSE, MayExpire} :
          IF Saves(final, expires)
          THEN lastCkpt' = version /\ saved' = trained
          ELSE UNCHANGED <<lastCkpt, saved>>
    /\ tpc' = IF final THEN "stopped" ELSE "collect"
    /\ UNCHANGED <<queueVars, rolloutVars, batch, local, version, trained, phase>>
=============================================================================

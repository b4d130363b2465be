-------------------------- MODULE OneStepOff_proofs --------------------------
(***************************************************************************)
(* Proofs about a job of either trainer, the V1 trainer or the one-step-   *)
(* off-policy trainer, over the same checkpoints: of the former all that   *)
(* V1Trainer_proofs shows, of the latter that it trains with weights one   *)
(* step old and keeps the invariants of the dataloader and of the          *)
(* checkpoints.                                                            *)
(***************************************************************************)
EXTENDS OneStepOff, V1Trainer_proofs

USE DEF bufferVars, storeVars, balanceVars, trainerVars, oneStepVars

LEMMA JobSizes == /\ TotalSteps \in Nat \ {0} /\ MaxCrashes \in Nat /\ MaxStep \in Nat
                  /\ TotalSteps + MaxCrashes <= MaxStep
                  /\ BatchSize \in Nat \ {0} /\ Sessions \in Nat \ {0}
                  /\ Absent # Torn /\ Absent \notin Nat /\ Torn \notin Nat
BY Sizes, V1Assumption, OneStepAssumption DEF Steps

-----------------------------------------------------------------------------
(* What the one-step-off-policy trainer keeps.                             *)

Generating == future.state \in {"running", "done"}

\* These weights are at most a batch behind those of the actor.
Behind(w) == /\ w \subseteq trained
             /\ IsFiniteSet(trained \ w) /\ Cardinality(trained \ w) <= BatchSize

\* Nothing is in the queue of the V1 trainers, or in their partition.
OneQuiet ==
    /\ prompts = <<>> /\ listed = <<>> /\ rows = <<>> /\ heap = {}
    /\ strategy = "wait" /\ mishaps \in 0 .. MaxMishaps /\ toAdd \in 0 .. Warmup + 1
    /\ pc \in SavePCs \cup {"load", "sample", "train", "clear", "done", "raised", "stuck"}
    /\ \A p \in DOMAIN batch : batch[p] = Sessions

\* The batch in flight is generated with the weights before the present step.
OneAges ==
    /\ future = Pending(future.state, future.prompts, future.weights)
    /\ future.state \in {"none", "running", "done", "exhausted"}
    /\ ~Generating => future = Pending(future.state, {}, {})
    /\ Generating => IsFiniteSet(future.prompts) /\ Cardinality(future.prompts) = BatchSize
    /\ pc = "load" => ~Generating
    /\ Generating => Behind(future.weights)
    /\ pc = "train" => /\ IsFiniteSet(DOMAIN batch) /\ Cardinality(DOMAIN batch) = BatchSize
                       /\ Behind(made) /\ (Generating => future.weights = trained)

\* The dataloader is a batch ahead, and a batch more for every crash.
OneSteps ==
    /\ gs \in Nat /\ cursor \in Nat /\ crashes \in 0 .. MaxCrashes
    /\ epochLen \in 1 .. TotalSteps /\ left \in 0 .. TotalSteps
    /\ data \in [Steps -> Nat \cup {Absent}]
    /\ tracker \in {Absent, Torn} \cup Steps
    /\ tracker \in Steps => data[tracker] \in Nat /\ tracker <= TotalSteps + Life
    /\ pc \in {"tracker", "trackerEnd"} => data[gs] \in Nat
    /\ pc \notin {"load", "done", "stuck"} => gs \in Steps /\ gs <= TotalSteps + crashes
    /\ gs <= TotalSteps + crashes + 1
    /\ pc \in {"load", "stuck"} => gs = 0 /\ cursor = 0
    /\ pc = "load" /\ crashes = 0 => tracker = Absent
    /\ \A s \in Steps : data[s] \in Nat => data[s] <= Room(s + 1 + Life)
    /\ pc = "sample" => cursor <= Room(gs + crashes)
    /\ pc # "load" => cursor <= Room(gs + crashes + 1)

OneInv == OneQuiet /\ OneAges /\ OneSteps

-----------------------------------------------------------------------------
(* The steps of the one-step-off-policy trainer.                           *)

LEMMA Ahead ==
    ASSUME NEW position \in Nat
    PROVE  /\ IsFiniteSet(position + 1 .. position + BatchSize)
           /\ Cardinality(position + 1 .. position + BatchSize) = BatchSize
           /\ (position + 1 .. position + BatchSize) \cap (1 .. position) = {}
           /\ position + 1 .. position + BatchSize \subseteq 1 .. position + BatchSize
           /\ 1 .. position \subseteq 1 .. position + BatchSize
           /\ position + BatchSize \in Nat
<1> DEFINE lo == position + 1
           hi == position + BatchSize
<1>1. lo \in Int /\ hi \in Int /\ hi - lo + 1 = BatchSize /\ ~(lo > hi) BY Sizes
<1>2. IsFiniteSet(lo .. hi) /\ Cardinality(lo .. hi) = IF lo > hi THEN 0 ELSE hi - lo + 1
  BY <1>1, FS_Interval
<1>3. IsFiniteSet(lo .. hi) /\ Cardinality(lo .. hi) = BatchSize BY <1>1, <1>2
<1>4. (position + 1 .. position + BatchSize) \cap (1 .. position) = {} OBVIOUS
<1>5. QED BY <1>3, <1>4, Sizes

\* The next batch is started, or there is none.
LEMMA NextBatch ==
    ASSUME NEW position \in Nat, NEW n \in 0 .. TotalSteps, NEW w, GenNext(position, n, w)
    PROVE  /\ \/ /\ future' = Pending("running", position + 1 .. position + BatchSize, w)
                 /\ cursor' = position + BatchSize
              \/ future' = Pending("exhausted", {}, {}) /\ cursor' = position
           /\ left' \in 0 .. TotalSteps
BY JobSizes DEF GenNext

\* A job starts from scratch, or behind the step of its checkpoint.
LEMMA Started ==
    ASSUME OneSteps, StartJob
    PROVE  /\ pc = "load"
           /\ UNCHANGED <<bufferVars, storeVars, balanceVars, toAdd, crashes, trainer, epochLen, made>>
           /\ \/ pc' = "stuck" /\ UNCHANGED <<gs, cursor, trained, left, future>>
              \/ \E position \in Nat, n \in 0 .. TotalSteps : \E w :
                    /\ pc' = "sample" /\ trained' = w /\ GenNext(position, n, w)
                    /\ \/ tracker = Absent /\ gs' = 1 /\ position = 0 /\ w = {}
                       \/ /\ tracker \in Steps /\ gs' = tracker + 1
                          /\ w = saved["actor"][tracker].weights
                          /\ position = Room(tracker) \/ position = data[tracker]
<1>1. pc = "load" /\ UNCHANGED <<bufferVars, storeVars, balanceVars, toAdd, crashes, trainer, epochLen, made>>
  BY DEF StartJob
<1>2. CASE tracker = Absent
  <2>1. Start(1, {}, 0, TotalSteps) BY <1>2 DEF StartJob
  <2>2. pc' = "sample" /\ trained' = {} /\ GenNext(0, TotalSteps, {}) /\ gs' = 1
    BY <2>1 DEF Start, Goto
  <2>3. 0 \in Nat /\ TotalSteps \in 0 .. TotalSteps BY JobSizes
  <2>4. QED BY <1>1, <1>2, <2>2, <2>3
<1>3. CASE tracker # Absent
  <2>1. CASE tracker = Torn \/ ~(Whole(tracker, "actor") /\ Whole(tracker, "critic"))
    BY <1>1, <1>3, <2>1 DEF StartJob, Goto
  <2>2. CASE ~(tracker = Torn \/ ~(Whole(tracker, "actor") /\ Whole(tracker, "critic")))
    <3> DEFINE w == saved["actor"][tracker].weights
    <3>1. tracker \in Steps /\ data[tracker] \in Nat BY <1>3, <2>2 DEF OneSteps
    <3>2. \/ Start(tracker + 1, w, tracker * BatchSize, TotalSteps)
          \/ Start(tracker + 1, w, data[tracker], TotalSteps - InEpoch(data[tracker]))
      BY <1>3, <2>2 DEF StartJob
    <3> HIDE DEF w
    <3>3. CASE Start(tracker + 1, w, tracker * BatchSize, TotalSteps)
      <4>1. /\ pc' = "sample" /\ trained' = w /\ gs' = tracker + 1
            /\ GenNext(tracker * BatchSize, TotalSteps, w)
        BY <3>3 DEF Start, Goto
      <4>2. tracker * BatchSize = Room(tracker) /\ Room(tracker) \in Nat
        BY <3>1, JobSizes DEF Room, Steps
      <4>3. TotalSteps \in 0 .. TotalSteps BY JobSizes
      <4>4. QED BY <1>1, <3>1, <4>1, <4>2, <4>3 DEF w
    <3>4. CASE Start(tracker + 1, w, data[tracker], TotalSteps - InEpoch(data[tracker]))
      <4> DEFINE n == TotalSteps - InEpoch(data[tracker])
      <4>1. /\ pc' = "sample" /\ trained' = w /\ gs' = tracker + 1
            /\ GenNext(data[tracker], n, w)
        BY <3>4 DEF Start, Goto
      <4>2. n \in 0 .. TotalSteps
        <5>1. data[tracker] \div BatchSize - 1 \in Int BY <3>1, JobSizes
        <5>2. (data[tracker] \div BatchSize - 1) % epochLen \in 0 .. epochLen - 1
          BY <5>1, JobSizes DEF OneSteps
        <5>3. InEpoch(data[tracker]) \in 1 .. TotalSteps BY <5>2, JobSizes DEF InEpoch, OneSteps
        <5>4. QED BY <5>3, JobSizes
      <4> HIDE DEF n
      <4>3. QED BY <1>1, <3>1, <4>1, <4>2 DEF w
    <3>5. QED BY <3>2, <3>3, <3>4
  <2>3. QED BY <2>1, <2>2
<1>4. QED BY <1>2, <1>3

LEMMA OneQuietKept ==
    ASSUME OneQuiet, OneStepTrainer \/ CrashJob \/ UNCHANGED jobVars PROVE OneQuiet'
<1> USE DEF OneQuiet
<1>1. CASE StartJob BY <1>1 DEF StartJob, Start, Goto
<1>2. CASE Generates \/ UNCHANGED jobVars BY <1>2 DEF Generates, vars, jobVars
<1>3. CASE TakeBatch
  <2>1. /\ UNCHANGED <<strategy, prompts, listed, mishaps, rows, heap, toAdd>>
        /\ batch' = [p \in future.prompts |-> Sessions] /\ pc' = "train"
    BY <1>3 DEF TakeBatch, Goto
  <2>2. \A p \in DOMAIN batch' : batch'[p] = Sessions BY <2>1
  <2>3. QED BY <2>1, <2>2
<1>4. CASE NoBatch BY <1>4 DEF NoBatch, Goto
<1>5. CASE Learn BY <1>5 DEF Learn, Goto, SavePCs
<1>6. CASE Save
  <2>1. UNCHANGED <<bufferVars, balanceVars, toAdd>> /\ pc' \in SavePCs \cup {"clear"}
    BY <1>6 DEF Save, SaveStage, Goto, SavePCs
  <2>2. QED BY <2>1
<1>7. CASE NextStep
  <2>1. /\ UNCHANGED <<strategy, prompts, listed, mishaps, rows, heap, toAdd>>
        /\ batch' = <<>> /\ pc' \in {"done", "sample"}
    BY <1>7 DEF NextStep, Goto
  <2>2. DOMAIN batch' = {} BY <2>1
  <2>3. QED BY <2>1, <2>2
<1>8. CASE CrashJob
  <2>1. /\ prompts' = <<>> /\ listed' = <<>> /\ batch' = <<>> /\ rows' = <<>> /\ heap' = {}
        /\ UNCHANGED <<strategy, mishaps>> /\ toAdd' = 0 /\ pc' = "load"
    BY <1>8 DEF CrashJob, Crash, LoseQueue, Goto
  <2>2. DOMAIN batch' = {} BY <2>1
  <2>3. QED BY <2>1, <2>2, Sizes
<1>9. QED BY <1>1, <1>2, <1>3, <1>4, <1>5, <1>6, <1>7, <1>8 DEF OneStepTrainer

\* The steps that leave the weights and the batch in flight.
LEMMA JobQuiet ==
    ASSUME NoBatch \/ (Save /\ UNCHANGED oneStepVars) \/ NextStep \/ UNCHANGED jobVars
    PROVE  /\ UNCHANGED <<trained, cursor, oneStepVars, crashes>>
           /\ pc' \notin {"load", "train", "stuck"} \/ (pc' = pc /\ batch' = batch)
<1>1. CASE NoBatch BY <1>1 DEF NoBatch, Goto
<1>2. CASE Save /\ UNCHANGED oneStepVars BY <1>2 DEF Save, SaveStage, Goto
<1>3. CASE NextStep BY <1>3 DEF NextStep, Goto
<1>4. CASE UNCHANGED jobVars BY <1>4 DEF jobVars, vars
<1>5. QED BY <1>1, <1>2, <1>3, <1>4

LEMMA OneAgesKept ==
    ASSUME OneInv, OneStepTrainer \/ CrashJob \/ UNCHANGED jobVars PROVE OneAges'
<1> USE DEF OneInv, OneAges
<1> DEFINE Run(P, w) == Pending("running", P, w)
<1>r. ASSUME NEW P, NEW w
      PROVE  /\ Run(P, w).state = "running" /\ Run(P, w).prompts = P /\ Run(P, w).weights = w
             /\ NoFuture = Pending("none", {}, {}) /\ NoFuture.state = "none"
             /\ Pending("exhausted", {}, {}).state = "exhausted"
             /\ Pending("exhausted", {}, {}).prompts = {}
             /\ Pending("exhausted", {}, {}).weights = {}
             /\ NoFuture.prompts = {} /\ NoFuture.weights = {}
  BY DEF Pending, NoFuture
<1>n. ASSUME future' = NoFuture \/ future' = Pending("exhausted", {}, {})
      PROVE  /\ ~Generating' /\ future' = Pending(future'.state, {}, {})
             /\ future' = Pending(future'.state, future'.prompts, future'.weights)
             /\ future'.state \in {"none", "exhausted"}
  BY <1>n, <1>r DEF Generating
<1>1. CASE StartJob
  <2>1. \/ pc = "load" /\ pc' = "stuck" /\ UNCHANGED <<trained, future>>
        \/ \E position \in Nat, n \in 0 .. TotalSteps : \E w :
              pc' = "sample" /\ trained' = w /\ GenNext(position, n, w)
    BY <1>1, Started
  <2>2. CASE pc = "load" /\ pc' = "stuck" /\ UNCHANGED <<trained, future>>
    BY <2>2 DEF Generating
  <2>3. ASSUME NEW position \in Nat, NEW n \in 0 .. TotalSteps, NEW w,
               pc' = "sample", trained' = w, GenNext(position, n, w)
        PROVE  OneAges'
    <3>1. CASE future' = Pending("exhausted", {}, {}) BY <1>n, <2>3, <3>1
    <3>2. CASE future' = Run(position + 1 .. position + BatchSize, w)
      <4> DEFINE P == position + 1 .. position + BatchSize
      <4>1. IsFiniteSet(P) /\ Cardinality(P) = BatchSize BY Ahead
      <4> HIDE DEF P
      <4>2. future' = Run(P, w) BY <3>2 DEF P
      <4>3. future'.state = "running" /\ future'.prompts = P /\ future'.weights = w
        BY <4>2, <1>r
      <4>4. Behind(future.weights)'
        <5>1. w \ w = {} OBVIOUS
        <5>2. IsFiniteSet(w \ w) /\ Cardinality(w \ w) <= BatchSize BY <5>1, FS_EmptySet, Sizes
        <5>3. QED BY <2>3, <4>3, <5>2 DEF Behind
      <4>5. Generating' BY <4>3 DEF Generating
      <4>6. QED BY <2>3, <4>1, <4>2, <4>3, <4>4, <4>5
    <3>3. QED BY <2>3, <3>1, <3>2, NextBatch
  <2>4. QED BY <2>1, <2>2, <2>3
<1>2. CASE Generates
  <2>1. future.state = "running" /\ future' = [future EXCEPT !.state = "done"]
        /\ UNCHANGED <<pc, batch, trained, made>>
    BY <1>2 DEF Generates, vars
  <2>2. future' = Pending("done", future.prompts, future.weights) BY <2>1 DEF Pending
  <2>3. future'.state = "done" /\ future'.prompts = future.prompts
        /\ future'.weights = future.weights
    BY <2>2 DEF Pending
  <2>4. Generating /\ Generating' BY <2>1, <2>3 DEF Generating
  <2>5. \A w : Behind(w)' <=> Behind(w) BY <2>1 DEF Behind
  <2>6. QED BY <2>1, <2>2, <2>3, <2>4, <2>5 DEF Behind
<1>3. CASE TakeBatch
  <2>1. /\ Generating /\ pc' = "train" /\ made' = future.weights /\ trained' = trained
        /\ batch' = [p \in future.prompts |-> Sessions]
        /\ future' = NoFuture \/ GenNext(cursor, left, trained)
    BY <1>3 DEF TakeBatch, Goto, Generating
  <2>2. DOMAIN batch' = future.prompts BY <2>1
  <2>3. Behind(made)' BY <2>1 DEF Behind
  <2>4. CASE future' = NoFuture \/ future' = Pending("exhausted", {}, {})
    BY <1>n, <2>1, <2>2, <2>3, <2>4
  <2>5. CASE future' = Run(cursor + 1 .. cursor + BatchSize, trained)
    <3> DEFINE P == cursor + 1 .. cursor + BatchSize
    <3>1. IsFiniteSet(P) /\ Cardinality(P) = BatchSize BY Ahead DEF OneSteps
    <3> HIDE DEF P
    <3>2. future' = Run(P, trained) BY <2>5 DEF P
    <3>3. future'.state = "running" /\ future'.prompts = P /\ future'.weights = trained
      BY <3>2, <1>r
    <3>4. Behind(future.weights)'
      <4>1. trained \ trained = {} OBVIOUS
      <4>2. IsFiniteSet(trained \ trained) /\ Cardinality(trained \ trained) <= BatchSize
        BY <4>1, FS_EmptySet, Sizes
      <4>3. QED BY <2>1, <3>3, <4>2 DEF Behind
    <3>5. Generating' BY <3>3 DEF Generating
    <3>6. QED BY <2>1, <2>2, <2>3, <3>1, <3>2, <3>3, <3>4, <3>5
  <2>6. QED BY <2>1, <2>4, <2>5, NextBatch DEF OneSteps
<1>4. CASE Learn
  <2>1. /\ pc = "train" /\ pc' \in {"actor", "clear"} /\ trained' = trained \cup DOMAIN batch
        /\ UNCHANGED <<future, made>>
    BY <1>4 DEF Learn, Goto
  <2>2. Generating => Behind(future.weights)'
    <3> SUFFICES ASSUME Generating PROVE Behind(future.weights)'
      OBVIOUS
    <3>1. future.weights = trained BY <2>1
    <3>2. trained' \ trained \subseteq DOMAIN batch BY <2>1
    <3>3. IsFiniteSet(trained' \ trained) /\ Cardinality(trained' \ trained) <= BatchSize
      <4>1. IsFiniteSet(DOMAIN batch) /\ Cardinality(DOMAIN batch) = BatchSize BY <2>1
      <4>2. QED BY <3>2, <4>1, FS_Subset
    <3>4. QED BY <2>1, <3>1, <3>3 DEF Behind
  <2>3. Generating' <=> Generating BY <2>1 DEF Generating
  <2>4. QED BY <2>1, <2>2, <2>3
<1>5. CASE NoBatch \/ (Save /\ UNCHANGED oneStepVars) \/ NextStep \/ UNCHANGED jobVars
  <2>1. UNCHANGED <<trained, future>>
    BY <1>5, JobQuiet
  <2>2. Generating' <=> Generating BY <2>1 DEF Generating
  <2>3. \A w : Behind(w)' <=> Behind(w) BY <2>1 DEF Behind
  <2>4. (pc' \notin {"load", "train"}) \/ (pc' = pc /\ UNCHANGED <<batch, made>>)
    BY <1>5, JobQuiet
  <2>5. QED BY <2>1, <2>2, <2>3, <2>4 DEF Behind
<1>6. CASE CrashJob
  <2>1. future' = NoFuture /\ pc' = "load" BY <1>6 DEF CrashJob, Crash, Goto
  <2>2. QED BY <1>n, <2>1
<1>7. QED
  BY <1>1, <1>2, <1>3, <1>4, <1>5, <1>6 DEF OneStepTrainer

LEMMA RoomGrows ==
    ASSUME NEW m \in Int, NEW n \in Int, n <= m
    PROVE  /\ Room(n) <= Room(m) /\ Room(n) \in Int /\ Room(m) \in Int
           /\ Room(n + 1) = Room(n) + BatchSize
<1>1. Room(n - m) <= 0 /\ Room(n) \in Int /\ Room(m) \in Int BY RoomFacts
<1>2. BatchSize * (n - m) = BatchSize * n - BatchSize * m BY Sizes
<1>3. QED BY <1>1, <1>2, RoomFacts DEF Room

\* The stages of a save, and what they leave of the dataloader's state.
LEMMA Stages ==
    ASSUME Save
    PROVE  /\ UNCHANGED <<bufferVars, balanceVars, gs, toAdd, cursor, trained, crashes>>
           /\ \/ /\ pc \in {"actor", "actorEnd", "critic", "criticEnd"}
                 /\ pc' \in {"actorEnd", "critic", "criticEnd", "data"}
                 /\ UNCHANGED <<data, tracker>>
              \/ /\ pc = "data" /\ pc' = "tracker" /\ tracker' = tracker
                 /\ data' = [data EXCEPT ![gs] = cursor]
              \/ pc = "tracker" /\ pc' = "trackerEnd" /\ data' = data /\ tracker' = Torn
              \/ pc = "trackerEnd" /\ pc' = "clear" /\ data' = data /\ tracker' = gs
BY DEF Save, SaveStage, Goto, BeginPart, EndPart, SaveData, OpenTracker, WriteTracker

\* A restart: from scratch, or behind the checkpoint of an earlier life.
LEMMA StartSteps ==
    ASSUME OneSteps, StartJob PROVE OneSteps'
<1> USE DEF OneSteps
<1>0. /\ pc = "load" /\ UNCHANGED <<storeVars, crashes, epochLen>>
      /\ Life' = crashes /\ Life = crashes - 1 /\ pc' \in {"stuck", "sample"}
      /\ crashes \in Nat
  BY Started, JobSizes DEF Life
<1>1. \A s \in Steps : data'[s] \in Nat => data'[s] <= Room(s + 1 + Life')
  <2> SUFFICES ASSUME NEW s \in Steps, data[s] \in Nat PROVE data[s] <= Room(s + 1 + Life')
    BY <1>0
  <2>1. s + 1 + Life <= s + 1 + Life' /\ s + 1 + Life \in Int /\ s + 1 + Life' \in Int
    BY <1>0 DEF Steps
  <2>2. data[s] <= Room(s + 1 + Life) OBVIOUS
  <2>3. QED BY <2>1, <2>2, RoomGrows
<1>2. tracker' \in Steps => data'[tracker'] \in Nat /\ tracker' <= TotalSteps + Life'
  <2>1. tracker \in Steps => tracker <= TotalSteps + Life OBVIOUS
  <2>2. QED BY <1>0, <2>1, JobSizes DEF Steps
<1>3. CASE pc' = "stuck" /\ UNCHANGED <<gs, cursor, left>>
  <2>1. gs' = 0 /\ cursor' = 0 BY <1>0, <1>3
  <2>2. 0 <= gs' + crashes' + 1 /\ gs' + crashes' + 1 \in Int /\ Room(0) = 0
    BY <1>0, <2>1, RoomFacts
  <2>3. cursor' <= Room(gs' + crashes' + 1) BY <2>1, <2>2, RoomGrows
  <2>4. gs' <= TotalSteps + crashes' + 1 BY <1>0, <2>1, JobSizes
  <2>5. QED BY <1>0, <1>1, <1>2, <1>3, <2>1, <2>3, <2>4
<1>4. ASSUME NEW position \in Nat, NEW n \in 0 .. TotalSteps, NEW w, pc' = "sample",
             GenNext(position, n, w),
             \/ tracker = Absent /\ gs' = 1 /\ position = 0
             \/ /\ tracker \in Steps /\ gs' = tracker + 1
                /\ position = Room(tracker) \/ position = data[tracker]
      PROVE  OneSteps'
  <2>1. cursor' \in {position, position + BatchSize} /\ left' \in 0 .. TotalSteps
    BY <1>4, NextBatch
  <2>2. gs' \in Steps /\ gs' <= TotalSteps + crashes /\ gs' \in Nat
    <3>1. CASE tracker = Absent /\ gs' = 1 BY <1>0, <3>1, JobSizes DEF Steps
    <3>2. CASE tracker \in Steps /\ gs' = tracker + 1
      <4>1. tracker <= TotalSteps + (crashes - 1) /\ tracker \in 1 .. MaxStep
        BY <1>0, <3>2 DEF Steps
      <4>2. crashes <= MaxCrashes BY JobSizes
      <4>3. QED BY <1>0, <3>2, <4>1, <4>2, JobSizes DEF Steps
    <3>3. QED BY <1>4, <3>1, <3>2
  <2>3. position + BatchSize <= Room(gs' + crashes) /\ Room(gs' + crashes) \in Int
    <3> DEFINE m == gs' + crashes - 1
    <3>0. m \in Int /\ m + 1 = gs' + crashes BY <1>0, <2>2
    <3>1. position <= Room(m)
      <4>1. CASE tracker = Absent /\ gs' = 1 /\ position = 0
        <5>1. 0 <= m BY <1>0, <4>1
        <5>2. Room(0) = 0 BY RoomFacts
        <5> HIDE DEF m
        <5>3. QED BY <3>0, <4>1, <5>1, <5>2, RoomGrows
      <4>2. CASE tracker \in Steps /\ gs' = tracker + 1
        <5>1. tracker \in Int /\ tracker # Absent BY <4>2, JobSizes DEF Steps
        <5>2. crashes # 0 BY <1>0, <5>1
        <5>3. tracker <= m /\ tracker + 1 + Life = m BY <1>0, <4>2, <5>1, <5>2
        <5> HIDE DEF m
        <5>4. Room(tracker) <= Room(m) BY <3>0, <5>1, <5>3, RoomGrows
        <5>5. data[tracker] \in Nat /\ data[tracker] <= Room(tracker + 1 + Life) BY <4>2
        <5>6. position = Room(tracker) \/ position = data[tracker]
          BY <1>4, <4>2, <5>1
        <5>7. QED BY <5>3, <5>4, <5>5, <5>6
      <4>3. QED BY <1>4, <4>1, <4>2
    <3> HIDE DEF m
    <3>2. Room(m + 1) = Room(m) + BatchSize /\ Room(m) \in Int BY <3>0, RoomFacts
    <3>3. QED BY <3>0, <3>1, <3>2, JobSizes
  <2>4. cursor' \in Nat /\ cursor' <= Room(gs' + crashes) BY <2>1, <2>3, JobSizes
  <2>5. cursor' <= Room(gs' + crashes + 1)
    <3>1. Room(gs' + crashes + 1) = Room(gs' + crashes) + BatchSize
      BY <1>0, <2>2, RoomFacts
    <3>2. QED BY <2>3, <2>4, <3>1, JobSizes
  <2>6. gs' <= TotalSteps + crashes' + 1 BY <1>0, <2>2, JobSizes
  <2>7. QED BY <1>0, <1>1, <1>2, <1>4, <2>1, <2>2, <2>4, <2>5, <2>6
<1>5. QED BY <1>3, <1>4, Started

LEMMA SaveSteps ==
    ASSUME OneSteps, Save, UNCHANGED oneStepVars PROVE OneSteps'
<1> USE DEF OneSteps
<1>0. /\ UNCHANGED <<gs, cursor, crashes, epochLen, left>> /\ gs \in Steps
      /\ gs <= TotalSteps + crashes
      /\ pc \notin {"load", "stuck", "done", "sample"}
      /\ pc' \notin {"load", "stuck", "done", "sample"}
      /\ Life' = Life /\ Life = crashes /\ cursor <= Room(gs + crashes + 1)
  BY Stages DEF Life
<1>1. CASE UNCHANGED <<data, tracker>> /\ pc' \notin {"tracker", "trackerEnd"}
  BY <1>0, <1>1
<1>2. CASE pc' = "tracker" /\ tracker' = tracker /\ data' = [data EXCEPT ![gs] = cursor]
  <2>1. /\ data' \in [Steps -> Nat \cup {Absent}] /\ data'[gs] = cursor
        /\ \A s \in Steps : s # gs => data'[s] = data[s]
    BY <1>0, <1>2
  <2>2. gs + crashes + 1 = gs + 1 + Life BY <1>0 DEF Steps
  <2>3. \A s \in Steps : data'[s] \in Nat => data'[s] <= Room(s + 1 + Life)
    BY <1>0, <2>1, <2>2
  <2>4. tracker \in Steps => data'[tracker] \in Nat BY <2>1
  <2>5. QED BY <1>0, <1>2, <2>1, <2>3, <2>4
<1>3. CASE pc = "tracker" /\ pc' = "trackerEnd" /\ data' = data /\ tracker' = Torn
  <2>1. Torn \notin Steps BY JobSizes DEF Steps
  <2>2. QED BY <1>0, <1>3, <2>1
<1>4. CASE pc = "trackerEnd" /\ pc' = "clear" /\ data' = data /\ tracker' = gs
  BY <1>0, <1>4
<1>5. QED BY <1>1, <1>2, <1>3, <1>4, Stages

LEMMA OneStepsKept ==
    ASSUME OneInv, OneStepTrainer \/ CrashJob \/ UNCHANGED jobVars PROVE OneSteps'
<1> USE DEF OneInv, OneSteps
<1>1. CASE StartJob BY <1>1, StartSteps
<1>2. CASE Generates \/ UNCHANGED jobVars
  <2>1. UNCHANGED <<pc, gs, cursor, crashes, epochLen, left, data, tracker>>
    BY <1>2 DEF Generates, jobVars, vars
  <2>2. QED BY <2>1 DEF Life
<1>3. CASE TakeBatch
  <2>1. /\ pc = "sample" /\ pc' = "train" /\ UNCHANGED <<gs, crashes, epochLen, data, tracker>>
        /\ UNCHANGED <<cursor, left>> \/ GenNext(cursor, left, trained)
    BY <1>3 DEF TakeBatch, Goto
  <2>2. left' \in 0 .. TotalSteps /\ cursor' \in {cursor, cursor + BatchSize}
    BY <2>1, NextBatch
  <2>3. gs + crashes \in Int BY JobSizes
  <2>4. Room(gs + crashes + 1) = Room(gs + crashes) + BatchSize /\ Room(gs + crashes) \in Int
    BY <2>3, RoomFacts
  <2>5. cursor' \in Nat /\ cursor' <= Room(gs' + crashes' + 1) BY <2>1, <2>2, <2>4, JobSizes
  <2>6. QED BY <2>1, <2>2, <2>5 DEF Life
<1>4. CASE NoBatch \/ Learn
  <2>1. /\ pc \in {"sample", "train"} /\ pc' \in {"raised", "actor", "clear"}
        /\ UNCHANGED <<gs, cursor, crashes, epochLen, left, data, tracker>>
    BY <1>4 DEF NoBatch, Learn, Goto
  <2>2. QED BY <2>1 DEF Life
<1>5. CASE Save /\ UNCHANGED oneStepVars BY <1>5, SaveSteps
<1>6. CASE NextStep
  <2>1. /\ pc = "clear" /\ gs' = gs + 1
        /\ pc' = IF gs >= TotalSteps THEN "done" ELSE "sample"
        /\ UNCHANGED <<cursor, crashes, epochLen, left, data, tracker>>
    BY <1>6 DEF NextStep, Goto, LastStep
  <2>2. /\ gs' \in Nat /\ gs' <= TotalSteps + crashes + 1
        /\ pc' = "sample" => gs' \in Steps /\ gs' <= TotalSteps + crashes
    BY <2>1, JobSizes DEF Steps
  <2>3. gs' + crashes = gs + crashes + 1 /\ gs' + crashes \in Int BY <2>1, JobSizes
  <2>4. cursor' <= Room(gs' + crashes) /\ Room(gs' + crashes) \in Int
    BY <2>1, <2>3, RoomFacts
  <2>5. Room(gs' + crashes + 1) = Room(gs' + crashes) + BatchSize BY <2>3, RoomFacts
  <2>6. cursor' <= Room(gs' + crashes' + 1) BY <2>1, <2>4, <2>5, JobSizes
  <2>7. QED BY <2>1, <2>2, <2>4, <2>6 DEF Life
<1>7. CASE CrashJob
  <2>1. /\ pc \notin {"load", "done", "stuck"} /\ crashes < MaxCrashes /\ crashes' = crashes + 1
        /\ pc' = "load" /\ gs' = 0 /\ cursor' = 0 /\ left' = 0 /\ epochLen' = epochLen
        /\ UNCHANGED <<data, tracker>>
    BY <1>7 DEF CrashJob, Crash, Goto, ForgetPaths
  <2>2. Life' = Life /\ crashes' \in 0 .. MaxCrashes /\ crashes' # 0 /\ crashes' \in Nat
    BY <2>1, JobSizes DEF Life
  <2>3. QED BY <2>1, <2>2, JobSizes
<1>8. QED BY <1>1, <1>2, <1>3, <1>4, <1>5, <1>6, <1>7 DEF OneStepTrainer

LEMMA OneKept ==
    ASSUME OneInv, OneStepTrainer \/ CrashJob \/ UNCHANGED jobVars PROVE OneInv'
BY OneQuietKept, OneAgesKept, OneStepsKept DEF OneInv

LEMMA InitOne == ASSUME JobInit, trainer = "one_step_off" PROVE OneInv
<1> USE DEF OneInv
<1>1. /\ Init /\ strategy = "wait" /\ left = 0 /\ made = {}
      /\ future = Pending("none", {}, {}) /\ epochLen \in 1 .. TotalSteps
  BY DEF JobInit, NoFuture
<1>2. /\ prompts = <<>> /\ listed = <<>> /\ batch = <<>> /\ mishaps = 0
      /\ rows = <<>> /\ heap = {} /\ pc = "load" /\ gs = 0 /\ toAdd = 0 /\ cursor = 0
      /\ trained = {} /\ crashes = 0 /\ tracker = Absent /\ data = [s \in Steps |-> Absent]
  BY <1>1 DEF Init, BufferInit, CheckpointInit, BalanceInit
<1>3. OneQuiet
  <2>1. 0 \in 0 .. MaxMishaps /\ 0 \in 0 .. Warmup + 1 BY Sizes, BufferAssumption
  <2>2. DOMAIN batch = {} BY <1>2
  <2>3. QED BY <1>1, <1>2, <2>1, <2>2 DEF OneQuiet
<1>4. OneAges
  <2>1. future.state = "none" /\ future.prompts = {} /\ future.weights = {}
    BY <1>1 DEF Pending
  <2>2. QED BY <1>1, <1>2, <2>1 DEF OneAges, Generating
<1>5. OneSteps
  <2>1. Absent \notin Steps /\ Absent \notin Nat BY JobSizes DEF Steps
  <2>2. \A s \in Steps : data[s] \notin Nat BY <1>2, <2>1
  <2>3. data \in [Steps -> Nat \cup {Absent}] BY <1>2
  <2>4. QED BY <1>1, <1>2, <2>1, <2>2, <2>3, JobSizes DEF OneSteps
<1>6. QED BY <1>3, <1>4, <1>5

-----------------------------------------------------------------------------
(* A job of either trainer.                                                *)

\* What the V1 trainers keep; they have no batch in flight.
V1Inv == /\ TypeInv /\ AgeInv
         /\ future = NoFuture /\ left = 0 /\ made = {} /\ epochLen \in 1 .. TotalSteps

JobInv ==
    /\ trainer \in {"v1", "one_step_off"}
    /\ trainer = "v1" => V1Inv
    /\ trainer = "one_step_off" => OneInv

LEMMA InitJob == JobInit => JobInv
<1> SUFFICES ASSUME JobInit PROVE JobInv
  OBVIOUS
<1>1. Init => TypeInv /\ AgeInv
  BY InitPrompts, InitWeights, InitQueue, InitRows, InitCounts, InitAges DEF TypeInv
<1>2. QED BY <1>1, InitOne DEF JobInit, JobInv, V1Inv

\* A job is of one trainer for ever.
LEMMA JobMoves ==
    ASSUME trainer \in {"v1", "one_step_off"}, [JobNext]_jobVars
    PROVE  /\ trainer' = trainer
           /\ trainer = "v1" => [Next]_vars /\ UNCHANGED oneStepVars
           /\ trainer = "one_step_off" => OneStepTrainer \/ CrashJob \/ UNCHANGED jobVars
<1>1. CASE trainer = "v1" /\ Next /\ UNCHANGED oneStepVars BY <1>1
<1>2. CASE trainer = "one_step_off" /\ (OneStepTrainer \/ CrashJob)
  BY <1>2
  DEF OneStepTrainer, StartJob, Generates, TakeBatch, NoBatch, Learn, NextStep, CrashJob
<1>3. CASE UNCHANGED jobVars BY <1>3 DEF jobVars
<1>4. QED BY <1>1, <1>2, <1>3 DEF JobNext

LEMMA StepJob == ASSUME JobInv, [JobNext]_jobVars PROVE JobInv'
<1>1. /\ trainer' = trainer /\ trainer \in {"v1", "one_step_off"}
      /\ trainer = "v1" => [Next]_vars /\ UNCHANGED oneStepVars
      /\ trainer = "one_step_off" => OneStepTrainer \/ CrashJob \/ UNCHANGED jobVars
  BY JobMoves DEF JobInv
<1>2. CASE trainer = "v1"
  <2>1. TypeInv /\ AgeInv /\ QueueInv BY <1>2 DEF JobInv, V1Inv, TypeInv
  <2>2. TypeInv' BY <1>1, <1>2, <2>1, StepTyped
  <2>3. AgeInv' BY <1>1, <1>2, <2>1, StepAges
  <2>4. QED BY <1>1, <1>2, <2>2, <2>3 DEF JobInv, V1Inv, NoFuture, Pending
<1>3. CASE trainer = "one_step_off"
  <2>1. OneInv' BY <1>1, <1>3, OneKept DEF JobInv
  <2>2. QED BY <1>1, <1>3, <2>1 DEF JobInv
<1>4. QED BY <1>1, <1>2, <1>3

(* What is trained on is as old as its trainer allows, whatever crashed:    *)
(* the one-step-off trainer pushes the weights before it starts the next    *)
(* batch (_fit_generate), so that it is one step behind, and the V1         *)
(* trainers keep to their threshold.                                        *)
THEOREM AgesOfJob == JobSpec => []AgeBounded
<1>1. JobInv => AgeBounded
  <2>1. V1Inv => StalenessBounded BY DEF V1Inv, AgeInv, BatchYoung, StalenessBounded
  <2>2. OneInv => (pc = "train" => made \subseteq trained
                                   /\ Cardinality(trained \ made) <= BatchSize)
    BY DEF OneInv, OneAges, Behind
  <2>3. QED BY <2>1, <2>2 DEF JobInv, AgeBounded
<1>2. QED BY <1>1, InitJob, StepJob, PTL DEF JobSpec

(* The ranks of a V1 trainer train on the rows of the batch and padding,    *)
(* each once, in equal and balanced shares (_balance_batch), also when the  *)
(* job shares its checkpoints with the other trainer.                       *)
THEOREM DividedInJob == JobSpec => []V1SharesBalanced
<1>1. JobInv => V1SharesBalanced
  <2>1. V1Inv => SharesBalanced BY RowsBalanced DEF V1Inv, TypeInv
  <2>2. QED BY <2>1 DEF JobInv, V1SharesBalanced
<1>2. QED BY <1>1, InitJob, StepJob, PTL DEF JobSpec

(* A prompt in the batch of a V1 trainer has the trajectories of all its    *)
(* sessions (kv_list and the sample of ReplayBuffer); the other trainer has *)
(* no queue.                                                                *)
THEOREM GroupsOfJob == JobSpec => []WholeGroups
<1>1. JobInv => WholeGroups
  <2>1. V1Inv => WholeGroups BY Grouped DEF V1Inv, TypeInv, QueueInv
  <2>2. OneInv => WholeGroups
    <3>1. OneInv => DOMAIN prompts = {} BY DEF OneInv, OneQuiet
    <3>2. QED BY <3>1 DEF WholeGroups
  <2>3. QED BY <2>1, <2>2 DEF JobInv
<1>2. QED BY <1>1, InitJob, StepJob, PTL DEF JobSpec

(* A resumed job skips the prompts that were in flight when its checkpoint  *)
(* was saved, and no others: of the V1 trainers the warm-up batches, of the *)
(* one-step-off trainer one batch (the state of the dataloader is saved     *)
(* with the next batch drawn), which is no more where there is a warm-up    *)
(* batch to compare it with.                                                *)
THEOREM SkippedInJob ==
    ASSUME Warmup >= 1 PROVE JobSpec => []SkipsBounded
<1>1. ASSUME OneInv PROVE SkipsBounded
  <2> SUFFICES ASSUME pc # "load" PROVE cursor <= BatchSize * (gs + Warmup * (crashes + 1))
    BY DEF SkipsBounded
  <2>1. gs \in Nat /\ cursor \in Nat /\ crashes \in Nat /\ cursor <= Room(gs + crashes + 1)
    BY <1>1 DEF OneInv, OneSteps
  <2>2. Warmup \in Nat /\ Warmup - 1 \in Nat BY Sizes
  <2>3. crashes + 1 <= Warmup * (crashes + 1) /\ Warmup * (crashes + 1) \in Nat
    <3> DEFINE w == Warmup - 1
    <3>1. w \in Nat /\ Warmup = w + 1 BY <2>2
    <3> HIDE DEF w
    <3>2. w * (crashes + 1) \in Nat BY <2>1, <3>1
    <3>3. (w + 1) * (crashes + 1) = w * (crashes + 1) + (crashes + 1) BY <2>1, <3>1
    <3>4. QED BY <2>1, <3>1, <3>2, <3>3
  <2>4. /\ gs + crashes + 1 <= gs + Warmup * (crashes + 1)
        /\ gs + crashes + 1 \in Int /\ gs + Warmup * (crashes + 1) \in Int
    BY <2>1, <2>3
  <2>5. Room(gs + crashes + 1) <= Room(gs + Warmup * (crashes + 1))
        /\ Room(gs + crashes + 1) \in Int /\ Room(gs + Warmup * (crashes + 1)) \in Int
    BY <2>4, RoomGrows
  <2>6. cursor <= Room(gs + Warmup * (crashes + 1)) BY <2>1, <2>5
  <2>7. QED BY <2>6 DEF Room
<1>2. V1Inv => SkipsBounded
  BY DEF V1Inv, TypeInv, QueueInv, SkipInv, SkipsBounded, Reach
<1>3. JobInv => SkipsBounded BY <1>1, <1>2 DEF JobInv
<1>4. QED BY <1>3, InitJob, StepJob, PTL DEF JobSpec

-----------------------------------------------------------------------------
(* The prompts and the checkpoints of the one-step-off-policy trainer.  A   *)
(* job that is resumed at an epoch boundary starts the epoch behind its     *)
(* checkpoint from the beginning: its batches are one stream, and a prompt  *)
(* is known by its position, in the first two lives of a job.               *)

\* In the first life the dataloader is not ahead of the weights.
Early == /\ Life = 0 /\ pc # "load" => trained \cup DOMAIN batch \subseteq 1 .. Room(gs)
         /\ Life <= 0 /\ tracker \in Steps =>
                saved["actor"][tracker].weights \subseteq 1 .. Room(tracker)

\* What was drawn, the batch in flight included, and that it was drawn once.
OneDrawn ==
    /\ trained \subseteq 1 .. cursor /\ DOMAIN batch \subseteq 1 .. cursor
    /\ future.prompts \subseteq 1 .. cursor /\ made \subseteq 1 .. cursor
    /\ future.prompts \cap trained = {}
    /\ pc = "train" => DOMAIN batch \cap trained = {} /\ future.prompts \cap DOMAIN batch = {}
    /\ pc \in {"load", "sample"} => DOMAIN batch = {}
    /\ pc = "load" => trained = {} /\ made = {}

OneBoth == OneInv /\ OneDrawn /\ Early /\ WeightsInv

\* This is all that the V1 trainers keep of their prompts.
LEMMA OnePrompts == ASSUME OneInv, OneDrawn PROVE PromptInv
<1> USE DEF OneInv, OneQuiet
<1>1. DOMAIN prompts = {} /\ DOMAIN listed = {} OBVIOUS
<1>2. BufferType
  <2>1. \A p \in DOMAIN batch : batch[p] \in Int BY Sizes
  <2>2. QED BY <1>1, <2>1 DEF BufferType, Entries
<1>3. LoopType BY DEF LoopType, PCs, OneSteps
<1>4. Drawn BY <1>1 DEF Drawn, OneDrawn
<1>5. Unseen BY <1>1 DEF Unseen, OneDrawn, SavePCs
<1>6. QED BY <1>2, <1>3, <1>4, <1>5 DEF PromptInv

\* A save leaves the weights the tracker names, or has it name these.
LEMMA SaveNames ==
    ASSUME PromptInv, WeightsInv, Save, tracker' \in Steps
    PROVE  \/ /\ tracker' = tracker
              /\ saved'["actor"][tracker].weights \subseteq saved["actor"][tracker].weights
           \/ tracker' = gs /\ saved'["actor"][gs].weights = trained
<1>0. saved \in [Parts -> [Steps -> FolderSet]] /\ "actor" \in Parts /\ "critic" \in Parts
  BY DEF WeightsInv, StoreType, Parts
<1>1. pc \in SavePCs /\ pc \notin {"load", "stuck", "clear"} BY DEF Save, SaveStage, SavePCs
<1>2. gs \in Steps /\ (tracker \in Steps => tracker # gs)
  BY <1>1 DEF PromptInv, LoopType, WeightsInv, TrackerBehind, Steps, SavePCs
<1>3. ASSUME NEW paths, NEW n, NEW folder, tracker' = tracker,
             saved' = [saved EXCEPT !["actor"] = Files("actor", paths, n, gs, folder)]
      PROVE  saved'["actor"][tracker].weights \subseteq saved["actor"][tracker].weights
  <2> DEFINE folders == Files("actor", paths, n, gs, folder)
  <2>1. folders[tracker] \in {NoFolder, saved["actor"][tracker]} BY <1>2, <1>3 DEF Files
  <2> HIDE DEF folders
  <2>2. saved'["actor"] = folders BY <1>0, <1>3 DEF folders
  <2>3. NoFolder.weights = {} BY DEF NoFolder, Folder
  <2>4. QED BY <2>1, <2>2, <2>3
<1>4. ASSUME NEW folders, tracker' = tracker, saved' = [saved EXCEPT !["critic"] = folders]
      PROVE  saved'["actor"] = saved["actor"]
  BY <1>0, <1>4
<1>5. CASE \/ SaveStage("actor", "actorEnd") /\ BeginPart("actor", gs)
           \/ SaveStage("actorEnd", "critic") /\ EndPart("actor", gs, trained)
  BY <1>3, <1>5 DEF BeginPart, EndPart
<1>6. CASE \/ SaveStage("critic", "criticEnd") /\ BeginPart("critic", gs)
           \/ SaveStage("criticEnd", "data") /\ EndPart("critic", gs, trained)
  <2>1. tracker' = tracker /\ \E folders : saved' = [saved EXCEPT !["critic"] = folders]
    BY <1>6 DEF BeginPart, EndPart
  <2>2. QED BY <1>4, <2>1
<1>7. CASE SaveStage("data", "tracker") /\ SaveData(gs, cursor) BY <1>7 DEF SaveData
<1>8. CASE SaveStage("tracker", "trackerEnd") /\ OpenTracker
  BY <1>8, Sizes DEF OpenTracker, Steps
<1>9. CASE SaveStage("trackerEnd", "clear") /\ WriteTracker(gs)
  BY <1>9 DEF SaveStage, WriteTracker, WeightsInv, SavedWeights, After
<1>10. QED BY <1>5, <1>6, <1>7, <1>8, <1>9 DEF Save

\* The weights of a checkpoint are of prompts before those that are drawn next.
LEMMA WeightsBefore ==
    ASSUME crashes <= 1, OneBoth, pc = "load", tracker \in Steps,
           NEW position \in Nat, position = Room(tracker) \/ position = data[tracker]
    PROVE  saved["actor"][tracker].weights \subseteq 1 .. position
<1> DEFINE w == saved["actor"][tracker].weights
<1>1. CASE position = Room(tracker)
  <2>1. crashes \in 0 .. MaxCrashes BY DEF OneBoth, OneInv, OneSteps
  <2>2. Life <= 0 BY <2>1, JobSizes DEF Life
  <2>3. QED BY <1>1, <2>2 DEF OneBoth, Early
<1>2. CASE position = data[tracker]
  <2>1. \A q \in w : q <= data[tracker] BY DEF OneBoth, WeightsInv, WeightsBehind
  <2>2. w \subseteq Nat \ {0}
    <3>1. saved["actor"][tracker] \in FolderSet
      BY DEF OneBoth, WeightsInv, StoreType, Parts
    <3>2. QED BY <3>1 DEF FolderSet
  <2> HIDE DEF w
  <2>3. w \subseteq 1 .. position BY <1>2, <2>1, <2>2
  <2>4. QED BY <2>3 DEF w
<1>3. QED BY <1>1, <1>2

\* What is drawn next was not drawn before.
LEMMA DrawsNew ==
    ASSUME NEW position \in Nat, NEW n \in 0 .. TotalSteps, NEW w, GenNext(position, n, w)
    PROVE  /\ cursor' \in Nat /\ 1 .. position \subseteq 1 .. cursor'
           /\ future'.prompts \subseteq 1 .. cursor'
           /\ future'.prompts \cap (1 .. position) = {}
<1>1. CASE future' = Pending("running", position + 1 .. position + BatchSize, w)
           /\ cursor' = position + BatchSize
  <2>1. future'.prompts = position + 1 .. position + BatchSize BY <1>1 DEF Pending
  <2>2. QED BY <1>1, <2>1, Ahead
<1>2. CASE future' = Pending("exhausted", {}, {}) /\ cursor' = position
  <2>1. future'.prompts = {} BY <1>2 DEF Pending
  <2>2. QED BY <1>2, <2>1
<1>3. QED BY <1>1, <1>2, NextBatch

LEMMA DrawnKept ==
    ASSUME crashes' <= 1, OneBoth, OneStepTrainer \/ CrashJob \/ UNCHANGED jobVars PROVE OneDrawn'
<1> USE DEF OneBoth, OneDrawn
<1>0. cursor \in Nat /\ left \in 0 .. TotalSteps BY DEF OneInv, OneSteps
<1>1. CASE StartJob
  <2>1. /\ pc = "load" /\ batch' = batch /\ made' = made /\ DOMAIN batch = {} /\ made = {}
        /\ crashes' = crashes
    BY <1>1, Started DEF OneInv
  <2>2. CASE pc' = "stuck" /\ UNCHANGED <<cursor, trained, future>>
    BY <2>1, <2>2
  <2>3. ASSUME NEW position \in Nat, NEW n \in 0 .. TotalSteps, NEW w,
               pc' = "sample", trained' = w, GenNext(position, n, w),
               \/ w = {}
               \/ /\ tracker \in Steps /\ w = saved["actor"][tracker].weights
                  /\ position = Room(tracker) \/ position = data[tracker]
        PROVE  OneDrawn'
    <3>1. w \subseteq 1 .. position
      <4>1. CASE w = {} BY <4>1
      <4>2. CASE w # {} BY <2>1, <2>3, <4>2, WeightsBefore
      <4>3. QED BY <4>1, <4>2
    <3>2. QED BY <2>1, <2>3, <3>1, DrawsNew
  <2>4. QED BY <1>1, <2>2, <2>3, Started DEF OneInv
<1>2. CASE Generates
  <2>1. future' = [future EXCEPT !.state = "done"] /\ UNCHANGED <<pc, cursor, batch, trained, made>>
    BY <1>2 DEF Generates, vars
  <2>2. future'.prompts = future.prompts
    <3>1. future = Pending(future.state, future.prompts, future.weights) BY DEF OneInv, OneAges
    <3>2. future' = Pending("done", future.prompts, future.weights) BY <2>1, <3>1 DEF Pending
    <3>3. QED BY <3>2 DEF Pending
  <2>3. QED BY <2>1, <2>2
<1>3. CASE TakeBatch
  <2>1. /\ pc = "sample" /\ Generating /\ pc' = "train" /\ made' = future.weights
        /\ trained' = trained /\ batch' = [p \in future.prompts |-> Sessions]
        /\ \/ future' = NoFuture /\ cursor' = cursor
           \/ GenNext(cursor, left, trained)
    BY <1>3 DEF TakeBatch, Goto, Generating
  <2>2. DOMAIN batch' = future.prompts BY <2>1
  <2>3. future.weights \subseteq trained BY <2>1 DEF OneInv, OneAges, Behind
  <2>4. CASE future' = NoFuture /\ cursor' = cursor
    <3>1. future'.prompts = {} BY <2>4 DEF NoFuture, Pending
    <3>2. QED BY <2>1, <2>2, <2>3, <2>4, <3>1
  <2>5. CASE GenNext(cursor, left, trained)
    <3>1. /\ 1 .. cursor \subseteq 1 .. cursor' /\ future'.prompts \subseteq 1 .. cursor'
          /\ future'.prompts \cap (1 .. cursor) = {}
      BY <1>0, <2>5, DrawsNew
    <3>2. QED BY <2>1, <2>2, <2>3, <3>1
  <2>6. QED BY <2>1, <2>4, <2>5
<1>4. CASE Learn
  <2>1. /\ pc = "train" /\ pc' \in {"actor", "clear"} /\ trained' = trained \cup DOMAIN batch
        /\ UNCHANGED <<batch, cursor, future, made>>
    BY <1>4 DEF Learn, Goto
  <2>2. QED BY <2>1
<1>5. CASE NoBatch \/ (Save /\ UNCHANGED oneStepVars) \/ NextStep \/ UNCHANGED jobVars
  <2>1. /\ UNCHANGED <<trained, cursor, future, made>>
        /\ pc' \notin {"load", "train"} \/ (pc' = pc /\ batch' = batch)
    BY <1>5, JobQuiet
  <2>2. \/ batch' = batch /\ (pc' = "sample" => pc = "sample")
        \/ batch' = <<>> /\ pc' \in {"done", "sample"}
    <3>1. CASE NoBatch BY <3>1 DEF NoBatch, Goto
    <3>2. CASE Save BY <3>2 DEF Save, SaveStage, Goto
    <3>3. CASE NextStep BY <3>3 DEF NextStep, Goto
    <3>4. CASE UNCHANGED jobVars BY <3>4 DEF jobVars, vars
    <3>5. QED BY <1>5, <3>1, <3>2, <3>3, <3>4
  <2>3. CASE batch' = <<>> /\ pc' \in {"done", "sample"}
    <3>1. DOMAIN batch' = {} BY <2>3
    <3>2. QED BY <2>1, <2>3, <3>1
  <2>4. CASE batch' = batch /\ (pc' = "sample" => pc = "sample") BY <2>1, <2>4
  <2>5. QED BY <2>2, <2>3, <2>4
<1>6. CASE CrashJob
  <2>1. /\ pc' = "load" /\ batch' = <<>> /\ trained' = {} /\ made' = {} /\ future' = NoFuture
    BY <1>6 DEF CrashJob, Crash, Goto, LoseQueue
  <2>2. DOMAIN batch' = {} /\ future'.prompts = {} BY <2>1 DEF NoFuture, Pending
  <2>3. QED BY <2>1, <2>2
<1>7. QED BY <1>1, <1>2, <1>3, <1>4, <1>5, <1>6 DEF OneStepTrainer

LEMMA EarlyKept ==
    ASSUME crashes' <= 1, OneBoth, OneStepTrainer \/ CrashJob \/ UNCHANGED jobVars PROVE Early'
<1> USE DEF OneBoth, OneDrawn, Early
<1>0. /\ cursor \in Nat /\ gs \in Nat /\ crashes \in 0 .. MaxCrashes
      /\ pc = "load" /\ crashes = 0 => tracker = Absent
      /\ pc = "sample" => cursor <= Room(gs + crashes)
  BY DEF OneInv, OneSteps
<1>1. CASE StartJob
  <2>1. /\ pc = "load" /\ DOMAIN batch = {} /\ trained = {} /\ pc' \in {"stuck", "sample"}
        /\ UNCHANGED <<saved, tracker, crashes, batch>>
        /\ crashes = 0 => trained' = {}
    <3>1. /\ pc = "load" /\ UNCHANGED <<saved, tracker, crashes, batch>>
          /\ \/ pc' = "stuck" /\ trained' = trained
             \/ pc' = "sample" /\ (tracker = Absent => trained' = {})
      BY <1>1, Started, JobSizes DEF OneInv, Steps
    <3>2. QED BY <1>0, <3>1
  <2>2. Life' = crashes /\ (crashes = 0 => tracker' \notin Steps)
    BY <1>0, <2>1, JobSizes DEF Life, Steps
  <2>3. Life' = 0 => trained' \cup DOMAIN batch' = {} BY <2>1, <2>2
  <2>4. Life' <= 0 => crashes = 0 BY <1>0, <2>2, JobSizes
  <2>5. QED BY <2>2, <2>3, <2>4
<1>2. CASE Generates \/ NoBatch \/ UNCHANGED jobVars
  <2>1. /\ UNCHANGED <<saved, tracker, crashes, batch, trained, gs>>
        /\ pc' = pc \/ (pc = "sample" /\ pc' = "raised")
    BY <1>2 DEF Generates, NoBatch, Goto, jobVars, vars
  <2>2. QED BY <2>1 DEF Life
<1>3. CASE TakeBatch
  <2>1. /\ pc = "sample" /\ pc' = "train" /\ UNCHANGED <<saved, tracker, crashes, trained, gs>>
        /\ batch' = [p \in future.prompts |-> Sessions]
    BY <1>3 DEF TakeBatch, Goto
  <2>2. DOMAIN batch' \subseteq 1 .. cursor BY <2>1
  <2>3. Life' = Life /\ Life = crashes BY <2>1 DEF Life
  <2>4. crashes = 0 => cursor <= Room(gs) /\ Room(gs) \in Int BY <1>0, <2>1, RoomFacts
  <2>5. Life' = 0 => trained' \cup DOMAIN batch' \subseteq 1 .. Room(gs')
    <3> SUFFICES ASSUME Life' = 0 PROVE trained \cup DOMAIN batch' \subseteq 1 .. Room(gs)
      BY <2>1
    <3>1. trained \subseteq 1 .. Room(gs) BY <2>1, <2>3
    <3>2. 1 .. cursor \subseteq 1 .. Room(gs) BY <1>0, <2>3, <2>4
    <3>3. QED BY <2>2, <3>1, <3>2
  <2>6. QED BY <2>1, <2>3, <2>5
<1>4. CASE Learn
  <2>1. /\ pc = "train" /\ pc' \in {"actor", "clear"} /\ trained' = trained \cup DOMAIN batch
        /\ UNCHANGED <<saved, tracker, crashes, batch, gs>>
    BY <1>4 DEF Learn, Goto
  <2>2. Life' = Life BY <2>1 DEF Life
  <2>3. QED BY <2>1, <2>2
<1>5. CASE Save
  <2>1. /\ UNCHANGED <<crashes, batch, trained, gs>>
        /\ pc \notin {"load"} /\ pc' \notin {"load"}
    BY <1>5, Stages
  <2>2. Life' = Life /\ Life = crashes BY <2>1 DEF Life
  <2>3. ASSUME Life' <= 0, tracker' \in Steps
        PROVE  saved'["actor"][tracker'].weights \subseteq 1 .. Room(tracker')
    <3>1. PromptInv BY OnePrompts
    <3>2. CASE /\ tracker' = tracker
               /\ saved'["actor"][tracker].weights \subseteq saved["actor"][tracker].weights
      BY <2>2, <2>3, <3>2
    <3>3. CASE tracker' = gs /\ saved'["actor"][gs].weights = trained
      <4>1. Life = 0 BY <1>0, <2>2, <2>3, JobSizes
      <4>2. QED BY <2>1, <3>3, <4>1
    <3>4. QED BY <1>5, <2>3, <3>1, <3>2, <3>3, SaveNames
  <2>4. QED BY <2>1, <2>2, <2>3
<1>6. CASE NextStep
  <2>1. /\ pc = "clear" /\ pc' \in {"done", "sample"} /\ batch' = <<>> /\ gs' = gs + 1
        /\ UNCHANGED <<saved, tracker, crashes, trained>>
    BY <1>6 DEF NextStep, Goto
  <2>2. Life' = Life /\ DOMAIN batch' = {} BY <2>1 DEF Life
  <2>3. gs \in Int /\ gs + 1 \in Int /\ gs <= gs + 1 BY <1>0
  <2>4. Room(gs) <= Room(gs + 1) /\ Room(gs) \in Int /\ Room(gs + 1) \in Int BY <2>3, RoomGrows
  <2>5. 1 .. Room(gs) \subseteq 1 .. Room(gs + 1) BY <2>4
  <2>6. QED BY <2>1, <2>2, <2>5
<1>7. CASE CrashJob
  <2>1. /\ pc # "load" /\ pc' = "load" /\ crashes' = crashes + 1 /\ UNCHANGED <<saved, tracker>>
    BY <1>7 DEF CrashJob, Crash, Goto, ForgetPaths
  <2>2. Life' = Life BY <1>0, <2>1, JobSizes DEF Life
  <2>3. QED BY <2>1, <2>2
<1>8. QED BY <1>1, <1>2, <1>3, <1>4, <1>5, <1>6, <1>7 DEF OneStepTrainer

\* Outside of a save the checkpoints are left alone.
LEMMA OneFiles ==
    ASSUME OneInv, StartJob \/ TakeBatch \/ NoBatch \/ Learn \/ NextStep
    PROVE  /\ UNCHANGED <<storeVars, crashes>>
           /\ pc \notin SavePCs \ {"actor"} /\ pc' \notin SavePCs \ {"actor"}
           /\ TrackerBehind => TrackerBehind'
<1>0. /\ gs \in Nat /\ crashes \in 0 .. MaxCrashes
      /\ tracker \in {Absent, Torn} \cup Steps
      /\ pc \in SavePCs \cup {"load", "sample", "train", "clear", "done", "raised", "stuck"}
  BY DEF OneInv, OneSteps, OneQuiet
<1>1. CASE StartJob
  <2>1. /\ pc = "load" /\ UNCHANGED <<storeVars, crashes>> /\ pc' \in {"stuck", "sample"}
        /\ tracker \in Steps => pc' = "stuck" \/ gs' = tracker + 1
    BY <1>1, Started, JobSizes DEF OneInv, Steps
  <2>2. QED BY <2>1 DEF TrackerBehind, Steps, SavePCs
<1>2. CASE TakeBatch \/ NoBatch \/ Learn
  <2>1. /\ UNCHANGED <<storeVars, crashes, gs>> /\ pc \in {"sample", "train"}
        /\ pc' \in {"train", "raised", "actor", "clear"}
    BY <1>2 DEF TakeBatch, NoBatch, Learn, Goto
  <2>2. QED BY <2>1 DEF TrackerBehind, SavePCs
<1>3. CASE NextStep
  <2>1. /\ UNCHANGED <<storeVars, crashes>> /\ pc = "clear" /\ pc' \in {"done", "sample"}
        /\ gs' = gs + 1
    BY <1>3 DEF NextStep, Goto
  <2>2. QED BY <1>0, <2>1 DEF TrackerBehind, Steps, SavePCs
<1>4. QED BY <1>1, <1>2, <1>3

LEMMA OneBothKept ==
    ASSUME crashes' <= 1, OneBoth, OneStepTrainer \/ CrashJob \/ UNCHANGED jobVars PROVE OneBoth'
<1> USE DEF OneBoth
<1>1. PromptInv BY OnePrompts
<1>2. WeightsInv'
  <2>1. CASE StartJob \/ TakeBatch \/ NoBatch \/ Learn \/ NextStep
    <3>1. TrackerBehind' BY <2>1, OneFiles DEF WeightsInv
    <3>2. QED BY <2>1, <3>1, OneFiles, WeightsUntouched
  <2>2. CASE Generates \/ UNCHANGED jobVars
    <3>1. UNCHANGED <<storeVars, pc, gs, cursor, trained>> BY <2>2 DEF Generates, vars, jobVars
    <3>2. QED
      BY <3>1 DEF WeightsInv, StoreType, TrackerBehind, SavedWeights, WeightsBehind
  <2>3. CASE Save BY <1>1, <2>3, SaveWeights
  <2>4. CASE CrashJob BY <2>4, CrashWeights DEF CrashJob
  <2>5. QED BY <2>1, <2>2, <2>3, <2>4 DEF OneStepTrainer
<1>3. QED BY <1>2, OneKept, DrawnKept, EarlyKept

LEMMA InitBoth == ASSUME JobInit, trainer = "one_step_off" PROVE OneBoth
<1>1. Init /\ future = Pending("none", {}, {}) /\ made = {} BY DEF JobInit, NoFuture
<1>2. /\ trained = {} /\ batch = <<>> /\ pc = "load" /\ tracker = Absent
  BY <1>1 DEF Init, BufferInit, CheckpointInit
<1>3. OneDrawn
  <2>1. DOMAIN batch = {} /\ future.prompts = {} BY <1>1, <1>2 DEF Pending
  <2>2. QED BY <1>1, <1>2, <2>1 DEF OneDrawn
<1>4. Early BY <1>2, JobSizes DEF Early, Steps
<1>5. QED BY <1>1, <1>3, <1>4, InitOne, InitWeights DEF OneBoth

-----------------------------------------------------------------------------
(* The prompts and the types of a job of either trainer.                   *)

JobPrompts == JobInv /\ (trainer = "one_step_off" /\ crashes <= 1 => OneBoth)

\* A job has no fewer crashes behind it than before.
LEMMA MoreCrashes ==
    ASSUME JobInv, [JobNext]_jobVars PROVE crashes \in Nat /\ crashes' \in Nat /\ crashes <= crashes'
<1>1. crashes \in 0 .. MaxCrashes
  BY DEF JobInv, V1Inv, TypeInv, CountInv, OneInv, OneSteps
<1>2. crashes' \in {crashes, crashes + 1}
  <2>1. CASE Next
    BY <2>1
    DEF Next, Trainer, Load, AddBatch, Poll, SampleBatch, FillBatch, BalanceBatch, Train, Save,
        SaveStage, EndStep, Loops, Mishap, Crash
  <2>2. CASE OneStepTrainer \/ CrashJob
    BY <2>2
    DEF OneStepTrainer, StartJob, Generates, TakeBatch, NoBatch, Learn, Save, SaveStage, NextStep,
        CrashJob, Crash, vars
  <2>3. CASE UNCHANGED jobVars BY <2>3 DEF jobVars, vars
  <2>4. QED BY <2>1, <2>2, <2>3 DEF JobNext
<1>3. QED BY <1>1, <1>2, JobSizes

LEMMA InitJobPrompts == JobInit => JobPrompts
BY InitJob, InitBoth DEF JobPrompts

LEMMA StepJobPrompts ==
    ASSUME JobPrompts, [JobNext]_jobVars PROVE JobPrompts'
<1>1. JobInv' BY StepJob DEF JobPrompts
<1>2. /\ trainer' = trainer
      /\ trainer = "one_step_off" => OneStepTrainer \/ CrashJob \/ UNCHANGED jobVars
  BY JobMoves DEF JobPrompts, JobInv
<1>3. trainer = "one_step_off" /\ crashes' <= 1 => OneBoth'
  <2>1. crashes' <= 1 => crashes <= 1 BY MoreCrashes DEF JobPrompts
  <2>2. QED BY <1>2, <2>1, OneBothKept DEF JobPrompts
<1>4. QED BY <1>1, <1>2, <1>3 DEF JobPrompts

\* Both trainers keep to what is known of the prompts and of the weights.
LEMMA BothPrompts == ASSUME JobPrompts, OneStream PROVE PromptInv /\ WeightsInv
<1>1. CASE trainer = "v1" BY <1>1 DEF JobPrompts, JobInv, V1Inv, TypeInv
<1>2. CASE trainer = "one_step_off" /\ crashes <= 1
  BY <1>2, OnePrompts DEF JobPrompts, OneBoth
<1>3. QED BY <1>1, <1>2 DEF JobPrompts, JobInv, OneStream

(* The weights see no prompt twice, as long as the batches of the job are   *)
(* one stream, with any number of crashes: a V1 trainer resumes the         *)
(* dataloader behind the prompts of its checkpoint, the one-step-off        *)
(* trainer behind the batch in flight or at an epoch boundary (the load of  *)
(* the checkpoint in fit, _async_gen_next_batch).                           *)
THEOREM PromptsOnceInJob == JobSpec => []JobPromptsOnce
<1>1. JobPrompts => JobPromptsOnce
  BY BothPrompts DEF PromptInv, Unseen, NoPromptTwice, JobPromptsOnce
<1>2. QED BY <1>1, InitJobPrompts, StepJobPrompts, PTL DEF JobSpec

LEMMA OneTyped == ASSUME OneBoth PROVE TypeOK
<1> USE DEF OneBoth, OneInv
<1>1. BufferTypeOK
  <2>1. DOMAIN prompts = {} /\ DOMAIN listed = {} BY DEF OneQuiet
  <2>2. \A p \in DOMAIN batch : batch[p] \in 1 .. Sessions BY Sizes DEF OneQuiet
  <2>3. strategy \in {"wait", "drop"} /\ mishaps \in 0 .. MaxMishaps BY DEF OneQuiet
  <2>4. QED BY <2>1, <2>2, <2>3 DEF BufferTypeOK
<1>2. CheckpointTypeOK BY FilesTyped DEF WeightsInv
<1>3. gs \in 0 .. MaxStep + 1 /\ crashes \in 0 .. MaxCrashes /\ cursor \in Nat
  <2>1. gs \in Nat /\ crashes \in 0 .. MaxCrashes /\ gs <= TotalSteps + crashes + 1
        /\ cursor \in Nat
    BY DEF OneSteps
  <2>2. QED BY <2>1, JobSizes
<1>4. rows \in Seq([prompt : 0 .. cursor, length : Nat]) BY DEF OneQuiet
<1>5. pc \in SavePCs \cup {"load", "add", "sample", "select", "fill", "balance",
                           "train", "clear", "done", "raised", "stuck"}
  BY DEF OneQuiet
<1>6. toAdd \in 0 .. Warmup + 1 /\ trained \subseteq 1 .. cursor BY DEF OneQuiet, OneDrawn
<1>7. QED BY <1>1, <1>2, <1>3, <1>4, <1>5, <1>6 DEF TypeOK

(* The state of a job that crashes at most once is of its type, and the     *)
(* batch in flight is a batch of drawn prompts; the weights of a job that   *)
(* crashes more often may be ahead of its dataloader.                       *)
THEOREM TypesOfJob ==
    ASSUME MaxCrashes <= 1 PROVE JobSpec => []JobTypeOK
<1>1. ASSUME JobPrompts PROVE JobTypeOK
  <2>1. CASE trainer = "v1"
    <3>1. V1Inv BY <1>1, <2>1 DEF JobPrompts, JobInv
    <3>2. TypeOK BY <3>1, Typed DEF V1Inv
    <3>3. future.state = "none" /\ future.prompts = {} BY <3>1 DEF V1Inv, NoFuture, Pending
    <3>4. left = 0 /\ made = {} /\ epochLen \in 1 .. TotalSteps BY <3>1 DEF V1Inv
    <3>5. 0 \in 0 .. TotalSteps BY JobSizes
    <3>6. QED BY <2>1, <3>2, <3>3, <3>4, <3>5 DEF JobTypeOK
  <2>2. CASE trainer = "one_step_off"
    <3>1. OneBoth
      <4>1. crashes <= MaxCrashes BY <1>1, <2>2 DEF JobPrompts, JobInv, OneInv, OneSteps
      <4>2. crashes <= 1 BY <1>1, <2>2, <4>1, JobSizes DEF JobPrompts, JobInv, OneInv, OneSteps
      <4>3. QED BY <1>1, <2>2, <4>2 DEF JobPrompts
    <3>2. TypeOK BY <3>1, OneTyped
    <3>3. QED
      BY <2>2, <3>1, <3>2
      DEF JobTypeOK, OneBoth, OneInv, OneSteps, OneAges, OneDrawn, Generating
  <2>3. QED BY <1>1, <2>1, <2>2 DEF JobPrompts, JobInv
<1>2. QED BY <1>1, InitJobPrompts, StepJobPrompts, PTL DEF JobSpec

-----------------------------------------------------------------------------
(* The checkpoints of a job of either trainer.                             *)

LEMMA OneDiskKept ==
    ASSUME MaxKeep > 1, OneInv, DiskInv, OneStepTrainer \/ CrashJob \/ UNCHANGED jobVars
    PROVE  DiskInv'
<1>1. Saving BY DEF OneInv, OneSteps, Saving, SavePCs
<1>2. CASE StartJob \/ TakeBatch \/ NoBatch \/ Learn \/ NextStep
  <2>1. /\ UNCHANGED <<storeVars, crashes>>
        /\ pc \notin SavePCs \ {"actor"} /\ pc' \notin SavePCs \ {"actor"}
    BY <1>2, OneFiles
  <2>2. \A p \in Parts : pc # EndOf(p) /\ pc' # EndOf(p) BY <2>1 DEF EndOf, SavePCs
  <2>3. QED BY <2>1, <2>2, OtherDisk
<1>3. CASE Generates \/ UNCHANGED jobVars
  <2>1. UNCHANGED <<saved, kept, crashes, pc, gs>> BY <1>3 DEF Generates, vars, jobVars
  <2>2. QED BY <2>1, OtherDisk
<1>4. CASE Save BY <1>1, <1>4, SaveDisk
<1>5. CASE CrashJob BY <1>1, <1>5, CrashDisk DEF CrashJob
<1>6. QED BY <1>2, <1>3, <1>4, <1>5 DEF OneStepTrainer

(* Each life of the job leaves no more checkpoints than asked for on the    *)
(* disk, whichever trainer saves them (ensure_checkpoint_capacity,          *)
(* register_checkpoint).                                                    *)
THEOREM DiskOfJob == JobSpec => []DiskBounded
<1>1. CASE MaxKeep > 1
  <2> DEFINE Inv == JobInv /\ DiskInv
  <2>1. JobInit => Inv BY InitJob, InitDisk DEF JobInit
  <2>2. JobInv => Saving
    BY DEF JobInv, V1Inv, TypeInv, QueueInv, SkipInv, SkipType, OneInv, OneSteps, Saving, SavePCs
  <2>3. ASSUME Inv, [JobNext]_jobVars PROVE Inv'
    <3>1. JobInv' BY <2>3, StepJob
    <3>2. /\ trainer = "v1" => [Next]_vars
          /\ trainer = "one_step_off" => OneStepTrainer \/ CrashJob \/ UNCHANGED jobVars
      BY <2>3, JobMoves DEF JobInv
    <3>3. ASSUME trainer = "v1" PROVE DiskInv'
      BY <1>1, <2>2, <2>3, <3>2, <3>3, StepDisk
    <3>4. ASSUME trainer = "one_step_off" PROVE DiskInv'
      BY <1>1, <2>3, <3>2, <3>4, OneDiskKept DEF JobInv
    <3>5. DiskInv' BY <2>3, <3>3, <3>4 DEF JobInv
    <3>6. QED BY <3>1, <3>5
  <2>4. Inv => DiskBounded BY <1>1, <2>2, PresentBounded DEF DiskBounded, Present
  <2>5. QED BY <2>1, <2>3, <2>4, PTL DEF JobSpec
<1>2. CASE ~(MaxKeep > 1)
  <2>1. DiskBounded BY <1>2 DEF DiskBounded
  <2>2. QED BY <2>1, PTL
<1>3. QED BY <1>1, <1>2

\* Every prompt has a position, however often the job crashed.
OnePlaced ==
    /\ trained \subseteq Nat \ {0} /\ DOMAIN batch \subseteq Nat \ {0}
    /\ future.prompts \subseteq Nat \ {0}

LEMMA NextPlaced ==
    ASSUME NEW position \in Nat, NEW n \in 0 .. TotalSteps, NEW w, GenNext(position, n, w)
    PROVE  future'.prompts \subseteq Nat \ {0}
<1>1. cursor' \in Nat /\ future'.prompts \subseteq 1 .. cursor' BY DrawsNew
<1>2. QED BY <1>1

LEMMA OnePlacedKept ==
    ASSUME OneInv, StoreType, OnePlaced, OneStepTrainer \/ CrashJob \/ UNCHANGED jobVars
    PROVE  OnePlaced'
<1> USE DEF OnePlaced
<1>0. cursor \in Nat /\ left \in 0 .. TotalSteps BY DEF OneInv, OneSteps
<1>1. CASE StartJob
  <2>1. batch' = batch BY <1>1, Started DEF OneInv
  <2>2. CASE UNCHANGED <<trained, future>> BY <2>1, <2>2
  <2>3. ASSUME NEW position \in Nat, NEW n \in 0 .. TotalSteps, NEW w,
               pc' = "sample", trained' = w, GenNext(position, n, w),
               \/ w = {}
               \/ /\ tracker \in Steps /\ w = saved["actor"][tracker].weights
                  /\ position = Room(tracker) \/ position = data[tracker]
        PROVE  OnePlaced'
    <3>1. tracker \in Steps => saved["actor"][tracker] \in FolderSet BY DEF StoreType, Parts
    <3>2. w \subseteq Nat \ {0} BY <2>3, <3>1 DEF FolderSet
    <3>3. QED BY <2>1, <2>3, <3>2, NextPlaced
  <2>4. QED BY <1>1, <2>2, <2>3, Started DEF OneInv
<1>2. CASE Generates
  <2>1. future' = [future EXCEPT !.state = "done"] /\ UNCHANGED <<batch, trained>>
    BY <1>2 DEF Generates, vars
  <2>2. future'.prompts = future.prompts
    <3>1. future = Pending(future.state, future.prompts, future.weights) BY DEF OneInv, OneAges
    <3>2. QED BY <2>1, <3>1 DEF Pending
  <2>3. QED BY <2>1, <2>2
<1>3. CASE TakeBatch
  <2>1. /\ trained' = trained /\ batch' = [p \in future.prompts |-> Sessions]
        /\ future' = NoFuture \/ GenNext(cursor, left, trained)
    BY <1>3 DEF TakeBatch
  <2>2. DOMAIN batch' = future.prompts BY <2>1
  <2>3. NoFuture.prompts = {} BY DEF NoFuture, Pending
  <2>4. future'.prompts \subseteq Nat \ {0} BY <1>0, <2>1, <2>3, NextPlaced
  <2>5. QED BY <2>1, <2>2, <2>4
<1>4. CASE Learn BY <1>4 DEF Learn
<1>5. CASE NoBatch \/ UNCHANGED jobVars BY <1>5 DEF NoBatch, jobVars, vars
<1>6. CASE Save /\ UNCHANGED oneStepVars BY <1>6, Stages
<1>7. CASE NextStep
  <2>1. UNCHANGED <<trained, future>> /\ batch' = <<>> BY <1>7 DEF NextStep
  <2>2. DOMAIN batch' = {} BY <2>1
  <2>3. QED BY <2>1, <2>2
<1>8. CASE CrashJob
  <2>1. batch' = <<>> /\ trained' = {} /\ future' = NoFuture
    BY <1>8 DEF CrashJob, Crash, LoseQueue
  <2>2. DOMAIN batch' = {} /\ future'.prompts = {} BY <2>1 DEF NoFuture, Pending
  <2>3. QED BY <2>1, <2>2
<1>9. QED BY <1>1, <1>2, <1>3, <1>4, <1>5, <1>6, <1>7, <1>8 DEF OneStepTrainer

LEMMA OneStoreKept ==
    ASSUME MaxKeep # 1, StoreInv, OneInv, OnePlaced,
           OneStepTrainer \/ CrashJob \/ UNCHANGED jobVars
    PROVE  StoreInv'
<1>1. CASE StartJob \/ TakeBatch \/ NoBatch \/ Learn \/ NextStep
  <2>1. TrackerBehind' BY <1>1, OneFiles DEF StoreInv
  <2>2. QED BY <1>1, <2>1, OneFiles, StoreUntouched
<1>2. CASE Generates \/ UNCHANGED jobVars
  <2>1. UNCHANGED <<storeVars, pc, gs, cursor, trained>> BY <1>2 DEF Generates, vars, jobVars
  <2>2. QED
    BY <2>1
    DEF StoreInv, StoreType, PathsInOrder, TrackerBehind, SavedSoFar, NamesComplete, Complete,
        Whole
<1>3. CASE Save
  <2>1. Placed BY DEF OnePlaced, OneInv, OneSteps, Placed
  <2>2. QED BY <1>3, <2>1, SaveStore
<1>4. CASE CrashJob BY <1>4, CrashStore DEF CrashJob
<1>5. QED BY <1>1, <1>2, <1>3, <1>4 DEF OneStepTrainer

(* Whenever a job dies, of either trainer and however often it died before, *)
(* the checkpoint the tracker names is complete, of one step; as long as    *)
(* its batches are one stream, its dataloader goes on behind the prompts    *)
(* its weights have seen (_save_checkpoint).                                *)
THEOREM NamesWholeInJob ==
    ASSUME MaxKeep # 1 PROVE JobSpec => []JobNamesWhole
<1> DEFINE Inv == JobPrompts /\ StoreInv /\ (trainer = "one_step_off" => OnePlaced)
<1>1. JobInit => Inv
  <2>1. JobInit => OnePlaced
    <3>1. JobInit => trained = {} /\ batch = <<>> /\ future.prompts = {}
      BY DEF JobInit, Init, BufferInit, NoFuture, Pending
    <3>2. batch = <<>> => DOMAIN batch = {} OBVIOUS
    <3>3. QED BY <3>1, <3>2 DEF OnePlaced
  <2>2. QED BY <2>1, InitJobPrompts, InitStore DEF JobInit
<1>2. ASSUME Inv, [JobNext]_jobVars PROVE Inv'
  <2>1. JobPrompts' BY <1>2, StepJobPrompts
  <2>2. /\ trainer' = trainer /\ trainer \in {"v1", "one_step_off"}
        /\ trainer = "v1" => [Next]_vars
        /\ trainer = "one_step_off" => OneStepTrainer \/ CrashJob \/ UNCHANGED jobVars
    BY <1>2, JobMoves DEF JobPrompts, JobInv
  <2>3. ASSUME trainer = "v1" PROVE StoreInv'
    <3>1. PromptInv BY <1>2, <2>3 DEF JobPrompts, JobInv, V1Inv, TypeInv
    <3>2. QED BY <1>2, <2>2, <2>3, <3>1, StepKeeps
  <2>4. ASSUME trainer = "one_step_off" PROVE StoreInv' /\ OnePlaced'
    <3>1. OneInv BY <1>2, <2>4 DEF JobPrompts, JobInv
    <3>2. StoreType BY <1>2 DEF StoreInv
    <3>3. QED BY <1>2, <2>2, <2>4, <3>1, <3>2, OneStoreKept, OnePlacedKept
  <2>5. QED BY <2>1, <2>2, <2>3, <2>4
<1>3. ASSUME Inv PROVE JobNamesWhole
  <2>1. tracker \in Steps => Complete(tracker) BY <1>3 DEF StoreInv, NamesComplete
  <2>2. tracker \in Steps /\ OneStream => BehindDataloader(tracker)
    BY <1>3, BothPrompts DEF WeightsInv, WeightsBehind, BehindDataloader
  <2>3. QED BY <2>1, <2>2 DEF JobNamesWhole
<1>4. QED BY <1>1, <1>2, <1>3, PTL DEF JobSpec
=============================================================================

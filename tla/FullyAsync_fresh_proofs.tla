----------------------- MODULE FullyAsync_fresh_proofs -----------------------
(***************************************************************************)
(* Proofs about the age of the samples of the fully asynchronous pipeline: *)
(* how old they may be when they are used, that a threshold of zero is     *)
(* synchronous training, that a pause does not starve the trainer, and     *)
(* that a checkpoint is what its name says.                                *)
(***************************************************************************)
EXTENDS FullyAsync_proofs

USE DEF queueVars, feedVars, taskVars, procVars, monVars, resetVars,
        rolloutVars, trainVars

-----------------------------------------------------------------------------
(* Sums and products of naturals, for the provers.                         *)

LEMMA ProductType == ASSUME NEW a \in Nat, NEW b \in Nat PROVE a * b \in Nat
OBVIOUS

LEMMA ProductMonotone ==
    ASSUME NEW a \in Nat, NEW b \in Nat, NEW c \in Nat, a <= b
    PROVE  a * c <= b * c /\ c * a <= c * b
OBVIOUS

LEMMA ProductOfSum ==
    ASSUME NEW a \in Nat, NEW b \in Nat
    PROVE  a * (b + 1) = a * b + a /\ (b + 1) * a = b * a + a
OBVIOUS

LEMMA NextMultiple ==
    ASSUME NEW a \in Nat, NEW b \in Nat, NEW c \in Nat, b <= c
    PROVE  /\ a * b \in Nat /\ a * (b + 1) \in Nat /\ a * c \in Nat /\ a * (c + 1) \in Nat
           /\ a * b <= a * c /\ a * (b + 1) <= a * (c + 1) /\ a * (b + 1) = a * b + a
<1>1. b + 1 \in Nat /\ c + 1 \in Nat /\ b + 1 <= c + 1 OBVIOUS
<1>2. a * (b + 1) <= a * (c + 1) BY <1>1, ProductMonotone
<1>3. a * b <= a * c BY ProductMonotone
<1>4. QED BY <1>1, <1>2, <1>3

LEMMA OneOnly ==
    ASSUME NEW a \in Nat, NEW b \in Nat, NEW c \in Nat, a + b + c <= 1, a >= 1
    PROVE  a = 1 /\ b = 0
OBVIOUS

(* A quotient is the largest multiple that fits.                            *)
LEMMA QuotientBound ==
    ASSUME NEW a \in Nat, NEW b \in Nat \ {0}, NEW k \in Nat, b * k <= a
    PROVE  k <= a \div b
<1> DEFINE q == a \div b
<1>1. q \in Nat /\ a < b * (q + 1) OBVIOUS
<1> HIDE DEF q
<1>2. ASSUME k > q PROVE FALSE
  <2>1. q + 1 <= k BY <1>1, <1>2
  <2>2. b * (q + 1) <= b * k BY <1>1, <2>1, ProductMonotone
  <2>3. b * (q + 1) \in Nat /\ b * k \in Nat BY <1>1
  <2>4. QED BY <1>1, <2>2, <2>3
<1>3. QED BY <1>1, <1>2 DEF q

LEMMA PerVersionPositive == PerVersion \in Nat \ {0} /\ PerVersion = Required * Trigger
BY SizesPositive DEF PerVersion

-----------------------------------------------------------------------------
(* How far the trainer is.                                                 *)

LEMMA NextSteps == TypeOK /\ StepCount /\ [Next]_vars => StepCount'
<1> SUFFICES ASSUME TypeOK, StepCount, [Next]_vars PROVE StepCount' OBVIOUS
<1>1. CASE UNCHANGED <<trained, version, local>> BY <1>1 DEF StepCount
<1>2. CASE TrainStep
  <2>1. /\ trained' = trained + 1 /\ version \in Nat /\ local \in 1 .. Trigger /\ Trigger \in Nat \ {0}
        /\ trained \in Nat
    BY <1>2, Counts DEF TrainStep
  <2>2. CASE local < Trigger
    <3>1. local' = local + 1 /\ version' = version BY <1>2, <2>2 DEF TrainStep
    <3>2. version * Trigger \in Nat BY <2>1
    <3>3. version' * Trigger = version * Trigger BY <3>1
    <3>4. QED BY <2>1, <3>1, <3>2, <3>3 DEF StepCount
  <2>3. CASE local = Trigger
    <3>1. local' = 1 /\ version' = version + 1 BY <1>2, <2>1, <2>3 DEF TrainStep
    <3>2. version * Trigger \in Nat /\ (version + 1) * Trigger = version * Trigger + Trigger
      BY <2>1, ProductOfSum
    <3>3. version' * Trigger = version * Trigger + Trigger BY <3>1, <3>2
    <3>4. QED BY <2>1, <2>3, <3>1, <3>2, <3>3 DEF StepCount
  <2>4. QED BY <2>1, <2>2, <2>3
<1>3. CASE TrainerStep /\ ~TrainStep
  BY <1>1, <1>3 DEF TrainerStep, CollectSample, CollectEnd, UpdateWeights, PushWeights, CallReset,
     ResetReturned, SaveCheckpoint
<1>4. CASE Cleanup \/ UNCHANGED vars BY <1>1, <1>4 DEF Cleanup, vars
<1>5. QED BY <1>1, <1>2, <1>3, <1>4 DEF Next, Terminated

(* Under version v the trainer uses the samples from v * PerVersion to      *)
(* (v + 1) * PerVersion.                                                    *)
LEMMA UsedBounds ==
    ASSUME TypeOK, StepCount, TakenOK
    PROVE  /\ PerVersion * version <= consumed
           /\ ~final => consumed <= PerVersion * (version + 1)
           /\ ~final /\ Len(batch) < Required => consumed < PerVersion * (version + 1)
           /\ local = 1 /\ batch = <<>> /\ ~final => consumed = PerVersion * version
           /\ local = Trigger /\ Len(batch) = Required /\ ~final
                => consumed = PerVersion * (version + 1)
           /\ final => consumed >= PerVersion * version + 1
<1> DEFINE r == Required  n == Trigger  v == version  l == local  b == Len(batch)
           c == consumed - (IF final THEN 1 ELSE 0)
<1>1. /\ r \in Nat \ {0} /\ n \in Nat \ {0} /\ v \in Nat /\ l \in 1 .. n /\ b \in Nat /\ b <= r
      /\ trained = v * n + l - 1
  BY Counts DEF TypeOK, TrainTypeOK, StepCount
<1>2. c = trained * r + b
  <2>1. trained * r \in Nat BY <1>1, Counts
  <2>2. QED BY <1>1, <2>1 DEF TakenOK
<1> HIDE DEF r, n, v, l, b, c
<1>3. v * n \in Nat /\ (r * n) * v = r * (v * n) /\ (r * n) * (v + 1) = r * (v * n + n)
  BY <1>1
<1> DEFINE w == v * n
<1>4. w \in Nat /\ (r * n) * v = r * w /\ (r * n) * (v + 1) = r * (w + n) /\ c = (w + l - 1) * r + b
  BY <1>1, <1>2, <1>3
<1> HIDE DEF w
<1>5. r * w \in Nat /\ r * w <= (w + l - 1) * r /\ (w + l - 1) * r \in Nat
  <2>1. w + l - 1 \in Nat /\ w <= w + l - 1 BY <1>1, <1>4
  <2>2. QED BY <1>1, <1>4, <2>1, ProductMonotone, ProductType
<1>6. (w + l) * r <= r * (w + n) /\ (w + l) * r = (w + l - 1) * r + r /\ r * (w + n) \in Nat
  <2>1. w + l \in Nat /\ w + n \in Nat /\ w + l <= w + n /\ w + l - 1 \in Nat
        /\ (w + l - 1) + 1 = w + l
    BY <1>1, <1>4
  <2>2. (w + l) * r <= (w + n) * r /\ (w + n) * r = r * (w + n) /\ r * (w + n) \in Nat
    BY <1>1, <2>1, ProductMonotone
  <2>3. (w + l) * r = (w + l - 1) * r + r BY <1>1, <2>1, ProductOfSum
  <2>4. QED BY <2>2, <2>3
<1>7. r * w <= c /\ c <= r * (w + n) /\ (b < r => c < r * (w + n)) /\ c \in Nat
  BY <1>1, <1>4, <1>5, <1>6
<1>8. l = 1 /\ b = 0 => c = r * w
  <2> SUFFICES ASSUME l = 1, b = 0 PROVE c = r * w OBVIOUS
  <2>1. w + l - 1 = w BY <1>4
  <2>2. c = w * r + 0 BY <1>4, <2>1
  <2>3. QED BY <1>1, <1>4, <2>2
<1>9. l = n /\ b = r => c = r * (w + n)
  <2> SUFFICES ASSUME l = n, b = r PROVE c = r * (w + n) OBVIOUS
  <2>1. c = (w + l) * r BY <1>1, <1>4, <1>5, <1>6
  <2>2. QED BY <1>1, <1>4, <2>1
<1>10. /\ PerVersion * version = r * w /\ PerVersion * (version + 1) = r * (w + n)
  BY <1>4 DEF PerVersion, r, n, v
<1>11. consumed \in Nat /\ (final => consumed = c + 1) /\ (~final => consumed = c)
  BY FlowTypes DEF c
<1>12. batch = <<>> => b = 0 BY DEF b
<1>13. QED BY <1>1, <1>5, <1>7, <1>8, <1>9, <1>10, <1>11, <1>12 DEF r, n, v, l, b
-----------------------------------------------------------------------------
(* The rollouter's steps and the queue.                                    *)

LEMMA OnlyPutsMove ==
    ASSUME RolloutStep, ~TaskPut, ~PutEnd
    PROVE  UNCHANGED queueVars
BY DEF RolloutStep, FeedSample, Tasks, TaskDone, TaskFails, Processor, Check, Resumed, Goto,
   ReadSize, Decide, Pause, DrainTasks, GetPending, CheckLimit, SubmitBelow, LimitWait,
   LimitWaitThen, Collect, Submit, Finish, FinishWait, StopRunning, Monitor, MonitorWakes,
   MonGoto, MonitorReads, MonitorDecides, MonitorAnswered, MonitorResumes, Reset, ResetStarts,
   ResetReads, ResetEnds, ResetTo, ResetFrame

LEMMA RolloutKeepsWeights == RolloutStep => UNCHANGED weights
BY DEF RolloutStep, FeedSample, Tasks, TaskPut, TaskDone, TaskFails, Processor, Check, Resumed,
   Goto, ReadSize, Decide, Pause, DrainTasks, GetPending, CheckLimit, SubmitBelow, LimitWait,
   LimitWaitThen, Collect, Submit, Finish, FinishWait, PutEnd, StopRunning, Monitor, MonitorWakes,
   MonGoto, MonitorReads, MonitorDecides, MonitorAnswered, MonitorResumes, Reset, ResetStarts,
   ResetReads, ResetEnds, ResetTo, ResetFrame

\* What a put does to the elements: the last one is new, the others move up
\* by one when the queue was full.
LEMMA PutElements ==
    ASSUME QueueTypeOK, NEW s \in Nat \cup {None}, PutSample(s)
    PROVE  /\ queue' \in Seq(Nat \cup {None}) /\ Len(queue') \in 1 .. MaxRequired
           /\ queue'[Len(queue')] = s
           /\ \A i \in DOMAIN queue' : i # Len(queue') =>
                 \E j \in DOMAIN queue : i <= j /\ queue'[i] = queue[j]
           /\ ~Full => \A i \in DOMAIN queue : i \in DOMAIN queue' /\ queue'[i] = queue[i]
           /\ consumed' = consumed
<1> DEFINE base == IF Full THEN Tail(queue) ELSE queue
<1>1. queue \in Seq(Nat \cup {None}) /\ Len(queue) \in Nat /\ Len(queue) <= MaxRequired
      /\ (Full <=> Len(queue) >= MaxRequired) /\ MaxRequired \in Nat \ {0}
  BY SizesPositive, CapacityAssumption DEF QueueTypeOK, Full
<1>2. /\ base \in Seq(Nat \cup {None}) /\ Len(base) \in Nat /\ Len(base) + 1 <= MaxRequired
      /\ \A i \in DOMAIN base : \E j \in DOMAIN queue : i <= j /\ base[i] = queue[j]
      /\ ~Full => base = queue
  <2>1. CASE ~Full BY <1>1, <2>1
  <2>2. CASE Full
    <3>1. queue # <<>> BY <1>1, <2>2
    <3>2. /\ Tail(queue) \in Seq(Nat \cup {None}) /\ Len(Tail(queue)) = Len(queue) - 1
          /\ \A i \in DOMAIN Tail(queue) : i + 1 \in DOMAIN queue /\ Tail(queue)[i] = queue[i + 1]
                                           /\ i \in Nat
      BY <1>1, <3>1
    <3>3. \A i \in DOMAIN Tail(queue) : \E j \in DOMAIN queue : i <= j /\ Tail(queue)[i] = queue[j]
      <4> TAKE i \in DOMAIN Tail(queue)
      <4>1. i + 1 \in DOMAIN queue /\ i <= i + 1 /\ Tail(queue)[i] = queue[i + 1] BY <3>2
      <4>2. QED BY <4>1
    <3>4. QED BY <1>1, <2>2, <3>2, <3>3
  <2>3. QED BY <2>1, <2>2
<1>3. queue' = Append(base, s) /\ consumed' = consumed BY DEF PutSample
<1> HIDE DEF base
<1>4. /\ queue' \in Seq(Nat \cup {None}) /\ Len(queue') = Len(base) + 1
      /\ queue'[Len(base) + 1] = s
      /\ \A i \in DOMAIN queue' : i # Len(base) + 1 => i \in DOMAIN base /\ queue'[i] = base[i]
      /\ \A i \in DOMAIN base : i \in DOMAIN queue' /\ queue'[i] = base[i]
  BY <1>2, <1>3
<1>5. QED BY <1>1, <1>2, <1>3, <1>4

LEMMA TakeElements ==
    ASSUME QueueTypeOK, TakeSample
    PROVE  /\ queue' \in Seq(Nat \cup {None}) /\ consumed' = consumed + 1
           /\ 1 \in DOMAIN queue /\ Head(queue) = queue[1]
           /\ \A i \in DOMAIN queue' : i \in Nat /\ i + 1 \in DOMAIN queue /\ queue'[i] = queue[i + 1]
           /\ \A i \in DOMAIN queue : i # 1 => i - 1 \in DOMAIN queue' /\ queue'[i - 1] = queue[i]
<1>1. queue \in Seq(Nat \cup {None}) /\ queue # <<>> /\ queue' = Tail(queue)
      /\ consumed' = consumed + 1
  BY DEF QueueTypeOK, TakeSample
<1>2. QED BY <1>1

-----------------------------------------------------------------------------
(* Freshness.  The queue is read in its order, so what is put at position i *)
(* is used i - 1 samples later at the latest; a dropped sample only brings  *)
(* the others forward.                                                      *)

InTime(i) == queue[i] # None => consumed + i <= PerVersion * (queue[i] + 1) + MaxRequired

FreshInv ==
    /\ IF tpc = "sync" /\ ~final THEN batch = <<>> /\ local = 1 /\ version = weights + 1
                                 ELSE version = weights
    /\ ~final => \A i \in DOMAIN queue : InTime(i)
    /\ FreshSamples

LEMMA InitFresh == Init => FreshInv
<1> SUFFICES ASSUME Init PROVE FreshInv OBVIOUS
<1>1. DOMAIN queue = {} /\ DOMAIN batch = {} /\ tpc = "collect" /\ version = weights
  BY DEF Init, QueueInit, TrainInit, RolloutInit
<1>2. QED BY <1>1 DEF FreshInv, FreshSamples

(* A sample that is put now is in time: what was used so far is of the      *)
(* version of the weights.                                                  *)
LEMMA WeightsInTime ==
    ASSUME TypeOK, StepCount, TakenOK, FreshInv, ~final
    PROVE  weights \in Nat /\ consumed <= PerVersion * (weights + 1)
<1>1. weights \in Nat BY DEF TypeOK, RolloutTypeOK
<1>2. CASE tpc = "sync" BY <1>1, <1>2, UsedBounds, FlowTypes DEF FreshInv
<1>3. CASE tpc # "sync" BY <1>1, <1>3, UsedBounds, FlowTypes DEF FreshInv
<1>4. QED BY <1>2, <1>3

LEMMA PutsFresh ==
    ASSUME TypeOK, StepCount, TakenOK, FreshInv, RolloutStep, UNCHANGED trainVars
    PROVE  FreshInv'
<1>1. /\ UNCHANGED <<tpc, batch, local, version, phase, weights>> /\ (final' <=> final)
      /\ MaxAge' = MaxAge
  BY RolloutKeepsWeights DEF final, MaxAge
<1>2. FreshSamples' BY <1>1 DEF FreshInv, FreshSamples
<1>3. ASSUME ~final PROVE \A i \in DOMAIN queue' : InTime(i)'
  <2>1. CASE UNCHANGED queueVars BY <1>3, <2>1 DEF FreshInv, InTime
  <2>2. CASE \E s \in Nat \cup {None} : PutSample(s) /\ (s = None \/ s = weights)
    <3>1. PICK s \in Nat \cup {None} : PutSample(s) /\ (s = None \/ s = weights) BY <2>2
    <3>2. QueueTypeOK /\ consumed \in Nat /\ MaxRequired \in Nat
      BY FlowTypes, Counts DEF TypeOK
    <3>3. /\ Len(queue') \in 1 .. MaxRequired
          /\ queue'[Len(queue')] = s
          /\ \A i \in DOMAIN queue' : i # Len(queue') =>
                \E j \in DOMAIN queue : i <= j /\ queue'[i] = queue[j]
          /\ consumed' = consumed /\ queue' \in Seq(Nat \cup {None})
      BY <3>1, <3>2, PutElements
    <3> SUFFICES ASSUME NEW i \in DOMAIN queue', queue'[i] # None
                 PROVE  consumed + i <= PerVersion * (queue'[i] + 1) + MaxRequired
      BY <3>3 DEF InTime
    <3>4. i \in Nat /\ i <= MaxRequired
      <4>1. DOMAIN queue' = 1 .. Len(queue') BY <3>3
      <4>2. QED BY <3>2, <3>3, <4>1
    <3>5. CASE i = Len(queue')
      <4>1. queue'[i] = weights BY <3>1, <3>3, <3>5
      <4>2. weights \in Nat /\ consumed <= PerVersion * (weights + 1) BY <1>3, WeightsInTime
      <4>3. PerVersion * (weights + 1) \in Nat BY <4>2, PerVersionPositive
      <4>4. QED BY <3>2, <3>4, <4>1, <4>2, <4>3
    <3>6. CASE i # Len(queue')
      <4>1. PICK j \in DOMAIN queue : i <= j /\ queue'[i] = queue[j] BY <3>3, <3>6
      <4>2. consumed + j <= PerVersion * (queue[j] + 1) + MaxRequired
        BY <1>3, <4>1 DEF FreshInv, InTime
      <4>3. j \in Nat /\ queue[j] \in Nat BY <3>2, <4>1 DEF QueueTypeOK
      <4>4. PerVersion * (queue[j] + 1) \in Nat BY <4>3, PerVersionPositive
      <4>5. QED BY <3>2, <3>4, <4>1, <4>2, <4>3, <4>4
    <3>7. QED BY <3>5, <3>6
  <2>3. TaskPut => PutSample(weights) /\ weights \in Nat
    BY DEF TaskPut, TypeOK, RolloutTypeOK
  <2>4. PutEnd => PutSample(None) BY DEF PutEnd
  <2>5. QED BY <2>1, <2>2, <2>3, <2>4, OnlyPutsMove
<1>4. QED BY <1>1, <1>2, <1>3 DEF FreshInv

LEMMA CollectFresh ==
    ASSUME TypeOK, StepCount, TakenOK, FreshInv, CollectSample
    PROVE  FreshInv'
<1>1. /\ tpc = "collect" /\ ~final /\ Len(batch) < Required /\ TakeSample /\ Head(queue) # None
      /\ batch' = Append(batch, Head(queue)) /\ batch \in Seq(Nat) /\ QueueTypeOK
      /\ UNCHANGED <<tpc, local, version, phase, weights>> /\ (final' <=> final)
  BY DEF CollectSample, TakenOK, TypeOK, TrainTypeOK, final
<1>2. /\ queue' \in Seq(Nat \cup {None}) /\ consumed' = consumed + 1
      /\ 1 \in DOMAIN queue /\ Head(queue) = queue[1]
      /\ \A i \in DOMAIN queue' : i \in Nat /\ i + 1 \in DOMAIN queue /\ queue'[i] = queue[i + 1]
  BY <1>1, TakeElements
<1>3. consumed \in Nat /\ version \in Nat /\ MaxRequired \in Nat \ {0} BY FlowTypes, Counts
<1>4. \A i \in DOMAIN queue' : InTime(i)'
  <2> SUFFICES ASSUME NEW i \in DOMAIN queue', queue'[i] # None
               PROVE  consumed' + i <= PerVersion * (queue'[i] + 1) + MaxRequired
    BY DEF InTime
  <2>1. i \in Nat /\ i + 1 \in DOMAIN queue /\ queue'[i] = queue[i + 1] BY <1>2
  <2>2. consumed + (i + 1) <= PerVersion * (queue[i + 1] + 1) + MaxRequired
    BY <1>1, <2>1 DEF FreshInv, InTime
  <2>3. consumed' + i = consumed + (i + 1) BY <1>2, <1>3, <2>1
  <2>4. QED BY <2>1, <2>2, <2>3
<1>5. FreshSamples'
  <2> DEFINE h == Head(queue)
  <2>1. h \in Nat /\ consumed + 1 <= PerVersion * (h + 1) + MaxRequired
    BY <1>1, <1>2 DEF FreshInv, InTime, QueueTypeOK
  <2>2. PerVersion * version <= consumed BY UsedBounds
  <2>3. version - h <= MaxAge
    <3> DEFINE q == (MaxRequired - 1) \div PerVersion
    <3>1. q \in Nat BY <1>3, PerVersionPositive
    <3>2. CASE version <= h + 1 BY <1>3, <2>1, <3>1, <3>2 DEF MaxAge
    <3>3. CASE version > h + 1
      <4> DEFINE k == version - (h + 1)
                 p == PerVersion
      <4>1. k \in Nat /\ version = (h + 1) + k BY <1>3, <2>1, <3>3
      <4>2. p \in Nat \ {0} BY PerVersionPositive
      <4> HIDE DEF k, p
      <4>3. p * version = p * (h + 1) + p * k BY <2>1, <4>1, <4>2
      <4>4. p * (h + 1) \in Nat /\ p * k \in Nat /\ p * version \in Nat
        BY <1>3, <2>1, <4>1, <4>2
      <4>5. p * k <= MaxRequired - 1
        <5>1. p * version <= consumed /\ consumed + 1 <= p * (h + 1) + MaxRequired
          BY <2>1, <2>2 DEF p
        <5>2. QED BY <1>3, <4>3, <4>4, <5>1
      <4>6. k <= q
        <5>1. MaxRequired - 1 \in Nat BY <1>3
        <5>2. k <= (MaxRequired - 1) \div p BY <4>1, <4>2, <4>5, <5>1, QuotientBound
        <5>3. QED BY <5>2 DEF p
      <4>7. QED BY <1>3, <2>1, <3>1, <4>1, <4>6 DEF MaxAge
    <3>4. QED BY <1>3, <2>1, <3>2, <3>3
  <2>4. \A i \in DOMAIN batch' : (i \in DOMAIN batch /\ batch'[i] = batch[i]) \/ batch'[i] = h
    BY <1>1, <2>1
  <2>5. MaxAge' = MaxAge /\ version' = version BY <1>1 DEF MaxAge
  <2>6. QED BY <2>3, <2>4, <2>5 DEF FreshInv, FreshSamples
<1>6. QED BY <1>1, <1>4, <1>5 DEF FreshInv

LEMMA NextFresh ==
    ASSUME TypeOK, StepCount, TakenOK, FreshInv, [Next]_vars
    PROVE  FreshInv'
<1>0. MaxAge' = MaxAge /\ version \in Nat /\ local \in 1 .. Trigger /\ Trigger \in Nat
  BY Counts DEF MaxAge
<1>1. CASE RolloutStep /\ UNCHANGED trainVars BY <1>1, PutsFresh
<1>2. CASE CollectSample BY <1>2, CollectFresh
<1>3. CASE CollectEnd
  <2>1. /\ final' /\ tpc = "collect" /\ UNCHANGED <<batch, local, version, weights>>
    BY <1>3 DEF CollectEnd, final
  <2>2. QED BY <1>0, <2>1 DEF FreshInv, FreshSamples
<1>4. CASE TrainStep
  <2>1. /\ batch' = <<>> /\ UNCHANGED <<queue, consumed, phase, weights>> /\ tpc = "collect"
        /\ ~final /\ (final' <=> final)
        /\ \/ version' = version /\ tpc' = "post"
           \/ version' = version + 1 /\ tpc' = "sync" /\ local' = 1
    BY <1>4 DEF TrainStep, TakenOK, final
  <2>2. FreshSamples' BY <2>1 DEF FreshSamples
  <2>3. \A i \in DOMAIN queue' : InTime(i)' BY <2>1 DEF FreshInv, InTime
  <2>4. QED BY <2>1, <2>2, <2>3 DEF FreshInv
<1>5. CASE UpdateWeights
  <2>1. /\ weights' = version /\ tpc' = "reset" /\ UNCHANGED <<queue, consumed, batch, version, phase>>
    BY <1>5 DEF UpdateWeights, PushWeights
  <2>2. QED BY <1>0, <2>1 DEF FreshInv, FreshSamples, InTime, final
<1>6. CASE CallReset \/ ResetReturned \/ SaveCheckpoint
  <2>1. /\ tpc # "sync" /\ tpc' # "sync"
        /\ UNCHANGED <<queue, consumed, batch, version, phase, weights>>
    BY <1>6 DEF CallReset, ResetReturned, SaveCheckpoint
  <2>2. QED BY <1>0, <2>1 DEF FreshInv, FreshSamples, InTime, final
<1>7. CASE Cleanup
  <2>1. DOMAIN queue' = {} /\ UNCHANGED <<tpc, batch, local, version, phase, weights>>
    BY <1>7 DEF Cleanup, ClearQueue
  <2>2. QED BY <1>0, <2>1 DEF FreshInv, FreshSamples, final
<1>8. CASE UNCHANGED vars
  BY <1>0, <1>8 DEF vars, FreshInv, FreshSamples, InTime, final
<1>9. QED
  BY <1>1, <1>2, <1>3, <1>4, <1>5, <1>6, <1>7, <1>8 DEF Next, TrainerStep, Terminated

LEMMA InitSteps == Init => StepCount
BY SizesPositive DEF Init, TrainInit, StepCount

LEMMA FlowCorrect == Spec => [](TypeOK /\ FlowInv /\ StepCount)
<1>1. TypeOK /\ FlowInv /\ [Next]_vars => FlowInv'
  <2> SUFFICES ASSUME TypeOK, FlowInv, [Next]_vars PROVE FlowInv' OBVIOUS
  <2>1. MissingOK'
    BY TasksMissing, ProcessorMissing, OthersMissing DEF FlowInv, Next, RolloutStep, Terminated
  <2>2. QED BY <2>1, NextTaken, NextConserved DEF FlowInv
<1>2. QED BY <1>1, InitFlow, InitSteps, NextSteps, TypeCorrect, PTL DEF Spec

(* Whatever the order of puts, resets and updates, and whichever tasks      *)
(* raise, a sample is used at most MaxAge versions after it was put         *)
(* (staleness_threshold bounds the queue, fit collects in its order).       *)
THEOREM Fresh == Spec => []FreshSamples
<1>1. Init => FreshInv BY InitFresh
<1>2. TypeOK /\ FlowInv /\ StepCount /\ FreshInv /\ [Next]_vars => FreshInv'
  BY NextFresh DEF FlowInv
<1>3. FreshInv => FreshSamples BY DEF FreshInv
<1>4. QED BY <1>1, <1>2, <1>3, FlowCorrect, PTL DEF Spec
-----------------------------------------------------------------------------
(* The names of checkpoints.                                               *)

\* When every version is saved, and not between two of its steps, or when a
\* version has one step only.
WholeVersions == Trigger = 1 \/ (SaveFreq \in {0, 1} /\ ~MayExpire)

CheckpointInv ==
    /\ CheckpointMatchesName
    /\ SaveFreq > 0 /\ version # lastCkpt => local = 1 /\ (Trigger = 1 \/ tpc # "collect")

LEMMA InitCheckpoint == Init => CheckpointInv
<1> SUFFICES ASSUME Init PROVE CheckpointInv OBVIOUS
<1>1. saved = 0 /\ lastCkpt = 0 /\ version = 0 /\ Trigger \in Nat
  BY SizesPositive DEF Init, TrainInit
<1>2. lastCkpt * Trigger = 0 BY <1>1
<1>3. QED BY <1>1, <1>2 DEF CheckpointInv, CheckpointMatchesName

LEMMA NextCheckpoint ==
    ASSUME WholeVersions, TypeOK, StepCount, CheckpointInv, [Next]_vars
    PROVE  CheckpointInv'
<1>0. version \in Nat /\ local \in 1 .. Trigger /\ Trigger \in Nat \ {0} BY Counts
<1>1. CASE UNCHANGED <<local, version, lastCkpt, saved>> /\ (tpc' = "collect" => tpc = "collect")
  BY <1>1 DEF CheckpointInv, CheckpointMatchesName
<1>2. CASE TrainStep
  <2>1. /\ UNCHANGED <<lastCkpt, saved>> /\ tpc = "collect" /\ tpc' # "collect"
        /\ \/ local < Trigger /\ version' = version
           \/ local' = 1
    BY <1>2 DEF TrainStep
  <2>2. CASE Trigger = 1
    <3>1. local' = 1 BY <1>0, <2>1, <2>2
    <3>2. QED BY <2>1, <2>2, <3>1 DEF CheckpointInv, CheckpointMatchesName
  <2>3. CASE Trigger # 1
    <3>1. SaveFreq > 0 => version = lastCkpt BY <2>1, <2>3 DEF CheckpointInv
    <3>2. QED BY <2>1, <3>1 DEF CheckpointInv, CheckpointMatchesName
  <2>4. QED BY <2>2, <2>3
<1>3. CASE SaveCheckpoint
  <2>1. /\ UNCHANGED <<local, version>> /\ tpc = "post"
    BY <1>3 DEF SaveCheckpoint
  <2>2. PICK expires \in {FALSE, MayExpire} :
          IF Saves(final, expires) THEN lastCkpt' = version /\ saved' = trained
                                   ELSE UNCHANGED <<lastCkpt, saved>>
    BY <1>3 DEF SaveCheckpoint
  <2>3. CASE Saves(final, expires)
    <3>1. lastCkpt' = version /\ saved' = trained BY <2>2, <2>3
    <3>2. local = 1 BY <2>3 DEF Saves, CheckpointInv
    <3>3. version * Trigger \in Nat BY <1>0
    <3>4. trained = version * Trigger BY <3>2, <3>3 DEF StepCount
    <3>5. QED BY <2>1, <3>1, <3>4 DEF CheckpointInv, CheckpointMatchesName
  <2>4. CASE ~Saves(final, expires)
    <3>1. UNCHANGED <<lastCkpt, saved>> BY <2>2, <2>4
    <3>2. SaveFreq > 0 /\ version # lastCkpt => Trigger = 1
      <4> SUFFICES ASSUME SaveFreq > 0, version # lastCkpt, Trigger # 1 PROVE FALSE
        OBVIOUS
      <4>1. SaveFreq = 1 BY TrainerAssumption DEF WholeVersions
      <4>2. version % SaveFreq = 0 BY <1>0, <4>1
      <4>3. QED BY <2>4, <4>2 DEF Saves
    <3>3. QED BY <2>1, <3>1, <3>2 DEF CheckpointInv, CheckpointMatchesName
  <2>5. QED BY <2>3, <2>4
<1>4. CASE CollectSample \/ CollectEnd \/ UpdateWeights \/ CallReset \/ ResetReturned
  BY <1>1, <1>4 DEF CollectSample, CollectEnd, UpdateWeights, PushWeights, CallReset, ResetReturned
<1>5. CASE Cleanup \/ UNCHANGED vars BY <1>1, <1>5 DEF Cleanup, vars
<1>6. CASE UNCHANGED trainVars BY <1>1, <1>6
<1>7. QED BY <1>2, <1>3, <1>4, <1>5, <1>6 DEF Next, TrainerStep, Terminated

(* The checkpoint named global_step_v holds v * Trigger steps, which is     *)
(* what load_checkpoint computes from the name: whenever every version is   *)
(* saved and the plan does not expire, or a version is one step.  The       *)
(* assumption is needed: a checkpoint that is forced or expires between two *)
(* steps of a version holds more of them than its name says.                *)
THEOREM NamesTrue == ASSUME WholeVersions PROVE Spec => []CheckpointMatchesName
<1>1. TypeOK /\ StepCount /\ CheckpointInv /\ [Next]_vars => CheckpointInv'
  BY NextCheckpoint
<1>2. CheckpointInv => CheckpointMatchesName BY DEF CheckpointInv
<1>3. QED BY <1>1, <1>2, InitCheckpoint, FlowCorrect, PTL DEF Spec
-----------------------------------------------------------------------------
(* A threshold of zero.  The budget is what one version uses, so the        *)
(* samples that were taken are those of the versions whose reset is done,   *)
(* and of the current one.                                                  *)

\* The updates whose reset has been answered.
Epoch == IF ResetDue /\ ~final THEN version - 1 ELSE version

\* The end signal is not there before it is put, and then until the trainer
\* takes it.
EndThere == /\ EndSent = 0 => ~final /\ NoEnd(queue)
            /\ EndSent = 1 /\ ~final /\ dropped = 0 => \E i \in DOMAIN queue : queue[i] = None
            /\ tpc = "stopped" => final

\* The processor ends with the end signal, or by a task that raised.
EndReason == /\ pc \in {"finish", "finishWait"} => taken = Total + 1
             /\ pc \in {"exit", "stopping", "stopped"} => taken = Total + 1 \/ failures > 0

ResetPlace == reset # "idle" => tpc = "resetting"

UpdatePlace == ResetDue /\ ~final => local = 1 /\ batch = <<>> /\ version > 0

TakenInv ==
    /\ EndSent = 0 => taken <= staleness + PerVersion * Epoch
    /\ taken <= PerVersion * (Epoch + 1)
    /\ pc = "get" => taken < PerVersion * (Epoch + 1)

PlaceInv == EndThere /\ EndReason /\ ResetPlace /\ UpdatePlace

LabelInv == /\ dropped = 0
            /\ \A i \in DOMAIN queue : queue[i] \in {None, version}
            /\ OnPolicy

LEMMA InitPlace == Init => PlaceInv
<1> SUFFICES ASSUME Init PROVE PlaceInv OBVIOUS
<1>1. pc = "check" /\ tpc = "collect" /\ reset = "idle" /\ ~final /\ DOMAIN queue = {}
  BY DEF Init, QueueInit, RolloutInit, TrainInit, final
<1>2. QED
  BY <1>1 DEF PlaceInv, EndThere, NoEnd, EndReason, ResetPlace, UpdatePlace, ResetDue, EndSent

LEMMA RolloutPlace ==
    ASSUME TypeOK, MissingOK, PlaceInv, RolloutStep, UNCHANGED trainVars
    PROVE  PlaceInv'
<1>0. (final' <=> final) /\ QueueTypeOK /\ failed \in Nat /\ failures \in Nat /\ Total \in Nat
      /\ taken \in 0 .. Total + 1 /\ fed \in 0 .. Total + 1 /\ dropped \in Nat
  BY FlowTypes, SizesPositive DEF final, TypeOK, RolloutTypeOK
<1>1. ResetPlace' /\ UpdatePlace'
  <2>1. \/ reset' = reset
        \/ reset # "idle" /\ reset' # "idle" /\ reset # "returned"
    BY DEF RolloutStep, FeedSample, Tasks, TaskPut, TaskDone, TaskFails, Processor, Check, Resumed,
       Goto, ReadSize, Decide, Pause, DrainTasks, GetPending, CheckLimit, SubmitBelow, LimitWait,
       LimitWaitThen, Collect, Submit, Finish, FinishWait, PutEnd, StopRunning, Monitor,
       MonitorWakes, MonGoto, MonitorReads, MonitorDecides, MonitorAnswered, MonitorResumes, Reset,
       ResetStarts, ResetReads, ResetEnds, ResetTo, ResetFrame
  <2>2. ResetPlace' BY <2>1 DEF PlaceInv, ResetPlace
  <2>3. ResetDue' => ResetDue BY <2>1 DEF ResetDue, PlaceInv, ResetPlace
  <2>4. UpdatePlace' BY <1>0, <2>3 DEF PlaceInv, UpdatePlace
  <2>5. QED BY <2>2, <2>4
<1>2. EndReason'
  <2>1. CASE UNCHANGED <<taken, pc>> /\ failures' \in {failures, failures + 1}
    BY <1>0, <2>1 DEF PlaceInv, EndReason
  <2>2. CASE FeedSample \/ Tasks \/ Monitor \/ Reset
    BY <2>1, <2>2 DEF FeedSample, Tasks, TaskPut, TaskDone, TaskFails, Monitor, MonitorWakes,
       MonGoto, MonitorReads, MonitorDecides, MonitorAnswered, MonitorResumes, Reset, ResetStarts,
       ResetReads, ResetEnds, ResetTo, ResetFrame
  <2>3. CASE DrainTasks \/ LimitWait \/ FinishWait
    <3>1. /\ UNCHANGED <<taken, failures>>
          /\ \/ pc' = "exit" /\ failed > 0
             \/ pc' \in {"drain", "limit"}
             \/ pc = "finishWait" /\ pc' = "finish"
      BY <1>0, <2>3 DEF DrainTasks, LimitWait, LimitWaitThen, FinishWait, Collect
    <3>2. failed > 0 => failures > 0 BY <1>0 DEF MissingOK
    <3>3. QED BY <3>1, <3>2 DEF PlaceInv, EndReason
  <2>4. CASE GetPending
    <3>1. /\ taken' = taken + 1 /\ taken < fed /\ (pc' = "limit" \/ (pc' = "finish" /\ taken >= Total))
      BY <1>0, <2>4 DEF GetPending
    <3>2. QED BY <1>0, <3>1 DEF EndReason
  <2>5. CASE Finish \/ PutEnd \/ StopRunning
    <3>1. /\ UNCHANGED <<taken, failures>>
          /\ \/ pc = "finish" /\ pc' \in {"exit", "finishWait"}
             \/ pc = "exit" /\ pc' = "stopping"
             \/ pc = "stopping" /\ pc' = "stopped"
      BY <2>5 DEF Finish, Goto, PutEnd, StopRunning
    <3>2. QED BY <3>1 DEF PlaceInv, EndReason
  <2>6. CASE Check \/ Resumed \/ ReadSize \/ Decide \/ Pause \/ CheckLimit \/ Submit
    <3>1. pc' \in {"pausing", "asking", "check", "decide", "get", "drain", "submit", "limitWait"}
      BY <2>6 DEF Check, Resumed, Goto, ReadSize, Decide, Pause, CheckLimit, SubmitBelow, Submit
    <3>2. QED BY <3>1 DEF EndReason
  <2>7. QED BY <2>2, <2>3, <2>4, <2>5, <2>6 DEF RolloutStep, Processor
<1>3. EndThere'
  <2>1. CASE PutEnd
    <3>1. PutSample(None) /\ EndSent = 0 /\ EndSent' = 1 BY <2>1 DEF PutEnd, EndSent
    <3>2. queue' \in Seq(Nat \cup {None}) /\ Len(queue') \in 1 .. MaxRequired
          /\ queue'[Len(queue')] = None
      BY <1>0, <3>1, PutElements
    <3>3. Len(queue') \in DOMAIN queue' BY <3>2
    <3>4. QED BY <1>0, <3>1, <3>2, <3>3 DEF PlaceInv, EndThere
  <2>2. CASE TaskPut
    <3>1. EndSent' = EndSent /\ PutSample(weights) /\ weights \in Nat
      BY <2>2 DEF TaskPut, EndSent, TypeOK, RolloutTypeOK
    <3>2. dropped' = 0 => ~Full /\ dropped = 0 BY <1>0, <3>1 DEF PutSample
    <3>3. ~Full => \A i \in DOMAIN queue : i \in DOMAIN queue' /\ queue'[i] = queue[i]
      BY <1>0, <3>1, PutElements
    <3>4. NoEnd(queue) => NoEnd(queue')
      <4>1. weights # None BY <3>1, QueueAssumption
      <4>2. QED BY <1>0, <3>1, <4>1, PutSampleEnds
    <3>5. QED BY <1>0, <3>1, <3>2, <3>3, <3>4 DEF PlaceInv, EndThere
  <2>3. CASE ~PutEnd /\ ~TaskPut
    <3>1. UNCHANGED queueVars BY <2>3, OnlyPutsMove
    <3>2. EndSent' = EndSent
      <4>1. (pc' \in {"stopping", "stopped"}) <=> (pc \in {"stopping", "stopped"})
        BY <2>3 DEF RolloutStep, FeedSample, Tasks, TaskDone, TaskFails, Processor, Check,
           Resumed, Goto, ReadSize, Decide, Pause, DrainTasks, GetPending, CheckLimit, SubmitBelow,
           LimitWait, LimitWaitThen, Collect, Submit, Finish, FinishWait, StopRunning, Monitor,
           MonitorWakes, MonGoto, MonitorReads, MonitorDecides, MonitorAnswered, MonitorResumes,
           Reset, ResetStarts, ResetReads, ResetEnds, ResetTo, ResetFrame
      <4>2. QED BY <4>1 DEF EndSent
    <3>3. QED BY <1>0, <3>1, <3>2 DEF PlaceInv, EndThere, NoEnd
  <2>4. QED BY <2>1, <2>2, <2>3
<1>4. QED BY <1>1, <1>2, <1>3 DEF PlaceInv
LEMMA TrainerPlace ==
    ASSUME TypeOK, PlaceInv, TrainerStep
    PROVE  PlaceInv'
<1>0. QueueTypeOK /\ version \in Nat /\ local \in 1 .. Trigger /\ Trigger \in Nat \ {0}
  BY Counts DEF TypeOK
<1>1. UNCHANGED <<pc, taken, failures, dropped>> /\ EndSent' = EndSent
  <2>1. UNCHANGED <<pc, taken, failures, dropped>>
    BY DEF TrainerStep, CollectSample, CollectEnd, TakeSample, TrainStep, UpdateWeights, PushWeights,
       CallReset, ResetReturned, SaveCheckpoint
  <2>2. QED BY <2>1 DEF EndSent
<1>2. EndReason' BY <1>1 DEF PlaceInv, EndReason
<1>3. CASE CollectSample
  <2>1. /\ TakeSample /\ Head(queue) # None /\ tpc = "collect" /\ tpc' = "collect"
        /\ UNCHANGED <<reset, phase>>
    BY <1>3 DEF CollectSample
  <2>2. /\ Head(queue) = queue[1]
        /\ \A i \in DOMAIN queue : i # 1 => i - 1 \in DOMAIN queue' /\ queue'[i - 1] = queue[i]
    BY <1>0, <2>1, TakeElements
  <2>3. ResetPlace' /\ UpdatePlace'
    BY <2>1 DEF PlaceInv, ResetPlace, UpdatePlace, ResetDue
  <2>4. (\E i \in DOMAIN queue : queue[i] = None) => \E i \in DOMAIN queue' : queue'[i] = None
    <3> SUFFICES ASSUME NEW i \in DOMAIN queue, queue[i] = None
                 PROVE  \E j \in DOMAIN queue' : queue'[j] = None
      OBVIOUS
    <3>1. i # 1 BY <2>1, <2>2
    <3>2. QED BY <2>2, <3>1
  <2>5. NoEnd(queue) => NoEnd(queue') BY <1>0, <2>1, TakeEnds
  <2>6. EndThere' BY <1>1, <2>1, <2>4, <2>5 DEF PlaceInv, EndThere, final
  <2>7. QED BY <1>2, <2>3, <2>6 DEF PlaceInv
<1>4. CASE CollectEnd
  <2>1. TakeSample /\ Head(queue) = None /\ tpc = "collect" /\ final' /\ UNCHANGED reset
    BY <1>4 DEF CollectEnd, final
  <2>2. ~NoEnd(queue) BY <1>0, <2>1, TakeEnds
  <2>3. EndThere' BY <1>1, <2>1, <2>2 DEF PlaceInv, EndThere
  <2>4. QED BY <1>2, <2>1, <2>3 DEF PlaceInv, ResetPlace, UpdatePlace
<1>5. CASE TrainStep
  <2>1. /\ tpc = "collect" /\ batch' = <<>> /\ UNCHANGED <<queue, reset, phase>>
        /\ \/ tpc' = "post"
           \/ tpc' = "sync" /\ local' = 1 /\ version' = version + 1
    BY <1>5 DEF TrainStep
  <2>2. EndThere' BY <1>1, <2>1 DEF PlaceInv, EndThere, NoEnd, final
  <2>3. ResetPlace' BY <2>1 DEF PlaceInv, ResetPlace
  <2>4. UpdatePlace' BY <1>0, <2>1 DEF UpdatePlace, ResetDue
  <2>5. QED BY <1>2, <2>2, <2>3, <2>4 DEF PlaceInv
<1>6. CASE UpdateWeights \/ CallReset \/ ResetReturned \/ SaveCheckpoint
  <2>1. /\ UNCHANGED <<queue, batch, local, version, phase>>
        /\ \/ tpc = "sync" /\ tpc' = "reset" /\ reset' = reset
           \/ tpc = "reset" /\ tpc' = "resetting" /\ reset' = "called"
           \/ tpc = "resetting" /\ reset = "returned" /\ reset' = "idle" /\ tpc' = "post"
           \/ tpc = "post" /\ tpc' \in {"collect", "stopped"} /\ reset' = reset
    BY <1>6 DEF UpdateWeights, PushWeights, CallReset, ResetReturned, SaveCheckpoint
  <2>2. tpc' = "stopped" => final
    BY <1>6 DEF UpdateWeights, PushWeights, CallReset, ResetReturned, SaveCheckpoint, PlaceInv, EndThere
  <2>6. EndThere' BY <1>1, <2>1, <2>2 DEF PlaceInv, EndThere, NoEnd, final
  <2>3. ResetPlace' BY <2>1 DEF PlaceInv, ResetPlace
  <2>4. UpdatePlace' BY <2>1 DEF PlaceInv, UpdatePlace, ResetDue, final
  <2>5. QED BY <1>2, <2>3, <2>4, <2>6 DEF PlaceInv
<1>7. QED BY <1>3, <1>4, <1>5, <1>6 DEF TrainerStep

(* The clearing of the queue comes after the end.                           *)
LEMMA NextPlace ==
    ASSUME TypeOK, MissingOK, TakenOK, PlaceInv, [Next]_vars
    PROVE  PlaceInv'
<1>1. CASE RolloutStep /\ UNCHANGED trainVars BY <1>1, RolloutPlace
<1>2. CASE TrainerStep BY <1>2, TrainerPlace
<1>3. CASE Cleanup
  <2>1. tpc = "stopped" /\ pc = "stopped" /\ DOMAIN queue' = {} /\ UNCHANGED <<rolloutVars, trainVars>>
        /\ UNCHANGED dropped
    BY <1>3 DEF Cleanup, Done, ClearQueue
  <2>2. QED
    BY <2>1 DEF PlaceInv, EndThere, EndReason, ResetPlace, UpdatePlace, ResetDue, EndSent, NoEnd, final
<1>4. CASE UNCHANGED vars
  BY <1>4 DEF vars, PlaceInv, EndThere, EndReason, ResetPlace, UpdatePlace, ResetDue, EndSent, NoEnd,
     final
<1>5. QED BY <1>1, <1>2, <1>3, <1>4 DEF Next, Terminated
LEMMA BudgetOfOneVersion == ASSUME ThrNum = 0 PROVE MaxRequired = PerVersion
<1> DEFINE p == PerVersion  d == ThrDen
<1>1. p \in Nat \ {0} /\ d \in Nat \ {0} /\ MaxRequired = (p * d) \div d
  BY PerVersionPositive, RolloutAssumption DEF MaxRequired
<1> HIDE DEF p, d
<1>2. p * d \in Nat /\ d * p = p * d BY <1>1
<1>3. p <= (p * d) \div d BY <1>1, <1>2, QuotientBound
<1>4. (p * d) \div d <= p
  <2> DEFINE q == (p * d) \div d
  <2>1. q \in Nat /\ d * q <= p * d BY <1>1, <1>2
  <2> HIDE DEF q
  <2>2. ASSUME q > p PROVE FALSE
    <3>1. p + 1 <= q /\ p + 1 \in Nat BY <1>1, <2>1, <2>2
    <3>2. d * (p + 1) <= d * q /\ d * (p + 1) = d * p + d /\ d * q \in Nat
      BY <1>1, <2>1, <3>1, ProductMonotone
    <3>3. QED BY <1>1, <1>2, <2>1, <3>2
  <2>3. QED BY <1>1, <2>1, <2>2 DEF q
<1>5. (p * d) \div d \in Nat BY <1>1, <1>2
<1>6. QED BY <1>1, <1>3, <1>4, <1>5 DEF p

(* The answer of a reset is what begins the next epoch.                     *)
LEMMA EpochGrows ==
    ASSUME TypeOK, TakenOK, PlaceInv, [Next]_vars
    PROVE  /\ Epoch \in Nat /\ Epoch' \in Nat /\ Epoch <= Epoch'
           /\ ResetEnds /\ ~final /\ UNCHANGED trainVars => Epoch' = Epoch + 1
<1>0. version \in Nat /\ (ResetDue /\ ~final => version > 0) /\ Epoch \in Nat
      /\ (final => tpc # "collect")
  BY Counts DEF PlaceInv, UpdatePlace, Epoch, TakenOK
<1>1. CASE RolloutStep /\ UNCHANGED trainVars
  <2>1. version' = version /\ (final' <=> final) /\ tpc' = tpc BY <1>1 DEF final
  <2>2. \/ reset' = reset
        \/ reset # "idle" /\ reset' # "idle" /\ reset # "returned"
    BY <1>1 DEF RolloutStep, FeedSample, Tasks, TaskPut, TaskDone, TaskFails, Processor, Check,
       Resumed, Goto, ReadSize, Decide, Pause, DrainTasks, GetPending, CheckLimit, SubmitBelow,
       LimitWait, LimitWaitThen, Collect, Submit, Finish, FinishWait, PutEnd, StopRunning, Monitor,
       MonitorWakes, MonGoto, MonitorReads, MonitorDecides, MonitorAnswered, MonitorResumes, Reset,
       ResetStarts, ResetReads, ResetEnds, ResetTo, ResetFrame
  <2>3. ResetDue' => ResetDue BY <2>1, <2>2 DEF ResetDue
  <2>4. ResetEnds => ResetDue /\ ~ResetDue'
    BY <2>1 DEF ResetEnds, ResetTo, ResetDue, PlaceInv, ResetPlace
  <2>5. QED BY <1>0, <2>1, <2>3, <2>4 DEF Epoch
<1>2. CASE TrainerStep
  <2>1. CASE CollectSample
    <3>1. UNCHANGED <<tpc, reset, version, phase>> BY <2>1 DEF CollectSample
    <3>2. QED BY <1>0, <2>1, <3>1 DEF Epoch, ResetDue, final, ResetEnds, ResetTo, CollectSample
  <2>2. CASE CollectEnd
    <3>1. tpc = "collect" /\ final' /\ UNCHANGED <<version, reset>>
      BY <2>2 DEF CollectEnd, final
    <3>2. QED BY <1>0, <2>2, <3>1 DEF Epoch, ResetDue, ResetEnds, ResetTo
  <2>3. CASE TrainStep
    <3>1. /\ tpc = "collect" /\ ~final /\ ~final' /\ UNCHANGED reset
          /\ \/ tpc' = "post" /\ version' = version
             \/ tpc' = "sync" /\ version' = version + 1
      BY <1>0, <2>3 DEF TrainStep, final
    <3>2. QED BY <1>0, <3>1 DEF Epoch, ResetDue, ResetEnds, ResetTo
  <2>4. CASE UpdateWeights \/ CallReset \/ ResetReturned \/ SaveCheckpoint
    <3>1. /\ UNCHANGED <<version, phase>> /\ tpc' # tpc
          /\ \/ tpc = "sync" /\ tpc' = "reset" /\ reset' = reset
             \/ tpc = "reset" /\ tpc' = "resetting" /\ reset' = "called"
             \/ tpc = "resetting" /\ reset = "returned" /\ reset' = "idle" /\ tpc' = "post"
             \/ tpc = "post" /\ tpc' \in {"collect", "stopped"} /\ reset' = reset
      BY <2>4 DEF UpdateWeights, PushWeights, CallReset, ResetReturned, SaveCheckpoint
    <3>2. QED BY <1>0, <3>1 DEF Epoch, ResetDue, final
  <2>5. QED BY <1>2, <2>1, <2>2, <2>3, <2>4 DEF TrainerStep
<1>3. CASE Cleanup \/ UNCHANGED vars
  <2>1. UNCHANGED <<reset, trainVars>> BY <1>3 DEF Cleanup, vars
  <2>2. QED BY <1>0, <2>1 DEF Epoch, ResetDue, final, ResetEnds, ResetTo
<1>4. QED BY <1>1, <1>2, <1>3 DEF Next, Terminated

LEMMA InitTaken == Init => TakenInv
<1> SUFFICES ASSUME Init PROVE TakenInv OBVIOUS
<1>1. taken = 0 /\ staleness = 0 /\ pc = "check" /\ version = 0 /\ tpc = "collect"
  BY DEF Init, RolloutInit, TrainInit
<1>2. Epoch = 0 BY <1>1 DEF Epoch, ResetDue
<1>3. PerVersion * Epoch = 0 /\ PerVersion * (Epoch + 1) = PerVersion BY <1>2, PerVersionPositive
<1>4. QED BY <1>1, <1>3, PerVersionPositive DEF TakenInv

LEMMA NextTakenInv ==
    ASSUME ThrNum = 0, TypeOK, TakenOK, PlaceInv, TakenInv, [Next]_vars
    PROVE  TakenInv'
<1> DEFINE low == PerVersion * Epoch
           high == PerVersion * (Epoch + 1)
<1>0. /\ taken \in Nat /\ staleness \in Nat /\ low \in Nat /\ high \in Nat
      /\ low' \in Nat /\ high' \in Nat /\ low <= low' /\ high <= high'
      /\ high = low + MaxRequired /\ MaxRequired \in Nat \ {0}
  <2>1. taken \in Nat /\ staleness \in Nat BY FlowTypes DEF TypeOK, RolloutTypeOK
  <2>2. Epoch \in Nat /\ Epoch' \in Nat /\ Epoch <= Epoch' BY EpochGrows
  <2>3. PerVersion \in Nat \ {0} /\ PerVersion = MaxRequired /\ PerVersion' = PerVersion
    BY PerVersionPositive, BudgetOfOneVersion DEF PerVersion
  <2>4. /\ PerVersion * Epoch \in Nat /\ PerVersion * (Epoch + 1) \in Nat
        /\ PerVersion * Epoch' \in Nat /\ PerVersion * (Epoch' + 1) \in Nat
        /\ PerVersion * Epoch <= PerVersion * Epoch'
        /\ PerVersion * (Epoch + 1) <= PerVersion * (Epoch' + 1)
        /\ PerVersion * (Epoch + 1) = PerVersion * Epoch + PerVersion
    BY <2>2, <2>3, NextMultiple
  <2>5. QED BY <2>1, <2>3, <2>4
<1>1. CASE UNCHANGED <<taken, staleness>> /\ (pc' = "get" => pc = "get") /\ (EndSent' = 0 => EndSent = 0)
  BY <1>0, <1>1 DEF TakenInv
<1>2. CASE GetPending
  <2>1. /\ pc = "get" /\ pc' # "get" /\ taken' = taken + 1 /\ staleness' = staleness + 1
        /\ EndSent = 0
    BY <1>2 DEF GetPending, EndSent
  <2>2. QED BY <1>0, <2>1 DEF TakenInv
<1>3. CASE Decide
  <2>1. /\ UNCHANGED <<taken, staleness>> /\ EndSent = 0
        /\ pc' = "get" => staleness < MaxRequired
    BY <1>0, <1>3 DEF Decide, ShouldPause, EndSent, TypeOK, RolloutTypeOK
  <2>2. QED BY <1>0, <2>1 DEF TakenInv
<1>4. CASE ResetEnds /\ UNCHANGED trainVars
  <2>1. UNCHANGED <<taken, pc>> /\ staleness' \in Nat /\ EndSent' = EndSent
    BY <1>4 DEF ResetEnds, ResetTo, ResetFrame, TypeOK, RolloutTypeOK, EndSent
  <2>2. EndSent = 0 => low' = high
    BY <1>4, EpochGrows DEF PlaceInv, EndThere, PerVersion
  <2>3. QED BY <1>0, <2>1, <2>2 DEF TakenInv
<1>5. CASE RolloutStep /\ UNCHANGED trainVars /\ ~GetPending /\ ~Decide /\ ~ResetEnds
  <2>1. /\ UNCHANGED <<taken, staleness>> /\ (pc' = "get" => pc = "get")
        /\ pc \in {"stopping", "stopped"} => pc' \in {"stopping", "stopped"}
    BY <1>5 DEF RolloutStep, FeedSample, Tasks, TaskPut, TaskDone, TaskFails, Processor, Check,
       Resumed, Goto, ReadSize, Pause, DrainTasks, CheckLimit, SubmitBelow,
       LimitWait, LimitWaitThen, Collect, Submit, Finish, FinishWait, PutEnd, StopRunning, Monitor,
       MonitorWakes, MonGoto, MonitorReads, MonitorDecides, MonitorAnswered, MonitorResumes, Reset,
       ResetStarts, ResetReads, ResetFrame
  <2>2. QED BY <1>1, <2>1 DEF EndSent
<1>6. CASE TrainerStep \/ Cleanup \/ UNCHANGED vars
  <2>1. UNCHANGED <<taken, staleness, pc>>
    BY <1>6 DEF TrainerStep, CollectSample, CollectEnd, TrainStep, UpdateWeights,
       PushWeights, CallReset, ResetReturned, SaveCheckpoint, Cleanup, vars
  <2>2. QED BY <1>1, <2>1 DEF EndSent
<1>7. QED BY <1>2, <1>3, <1>4, <1>5, <1>6 DEF Next, Terminated
(* What is outstanding was taken, or is the end signal.                     *)
LEMMA Outstanding0 ==
    ASSUME ThrNum = 0, TypeOK, FlowInv, TakenInv, PlaceInv, dropped = 0, ~Done
    PROVE  /\ consumed + Len(queue) + generating + failures <= PerVersion * (Epoch + 1) + EndSent
           /\ pc \in {"exit", "stopping", "stopped"} =>
                 consumed + Len(queue) + generating < PerVersion * (Epoch + 1) + EndSent
<1> DEFINE high == PerVersion * (Epoch + 1)
<1>1. /\ consumed \in Nat /\ Len(queue) \in Nat /\ generating \in Nat /\ failures \in Nat
      /\ produced \in Nat /\ Admitted \in Nat /\ Held \in {0, 1} /\ EndSent \in {0, 1}
      /\ taken \in Nat /\ Total \in Nat
  BY FlowTypes
<1>2. high \in Nat
  <2>1. Epoch \in Nat BY Counts DEF PlaceInv, UpdatePlace, Epoch
  <2>2. QED BY <2>1, PerVersionPositive
<1>3. /\ Admitted - Held - generating - failures - (produced - EndSent) >= 0
      /\ produced = consumed + Len(queue)
      /\ taken <= high
  BY <1>1 DEF FlowInv, MissingOK, Missing, Conserved, TakenInv
<1>4. Admitted <= taken /\ (taken = Total + 1 => Admitted < taken) BY <1>1 DEF Admitted
<1>5. consumed + Len(queue) + generating + failures <= Admitted + EndSent BY <1>1, <1>3
<1>6. pc \in {"exit", "stopping", "stopped"} => taken = Total + 1 \/ failures > 0
  BY DEF PlaceInv, EndReason
<1> HIDE DEF high
<1>7. consumed + Len(queue) + generating + failures <= high + EndSent BY <1>1, <1>2, <1>3, <1>4, <1>5
<1>8. ASSUME taken = Total + 1 \/ failures > 0
      PROVE  consumed + Len(queue) + generating < high + EndSent
  BY <1>1, <1>2, <1>3, <1>4, <1>5, <1>8
<1>9. QED BY <1>6, <1>7, <1>8 DEF high

(* A put finds room.                                                        *)
LEMMA PutsHaveRoom ==
    ASSUME ThrNum = 0, TypeOK, FlowInv, StepCount, TakenInv, PlaceInv, dropped = 0,
           TaskPut \/ PutEnd
    PROVE  ~Full
<1> SUFFICES ASSUME Full PROVE FALSE OBVIOUS
<1> DEFINE p == PerVersion
           high == PerVersion * (Epoch + 1)
<1>1. p \in Nat \ {0} /\ Len(queue) = p
  BY PerVersionPositive, BudgetOfOneVersion, Counts DEF Full, TypeOK, QueueTypeOK
<1>2. ~Done BY DEF Done, TaskPut, PutEnd
<1>3. /\ consumed \in Nat /\ generating \in Nat /\ failures \in Nat /\ EndSent \in {0, 1}
  BY FlowTypes
<1>4. high \in Nat /\ high <= consumed + p /\ (final => high < consumed + p)
  <2>1. Epoch \in Nat /\ Epoch <= version /\ version \in Nat
    BY Counts DEF PlaceInv, UpdatePlace, Epoch
  <2>2. p * Epoch <= p * version /\ p * (Epoch + 1) = p * Epoch + p /\ p * Epoch \in Nat
        /\ p * version \in Nat
    BY <1>1, <2>1, NextMultiple
  <2>3. p * version <= consumed /\ (final => p * version + 1 <= consumed)
    BY UsedBounds, <1>3, <2>2 DEF FlowInv
  <2> HIDE DEF p
  <2>4. QED BY <1>1, <1>3, <2>2, <2>3 DEF p
<1> HIDE DEF p, high
<1>5. consumed + p + generating + failures <= high + EndSent
      /\ (pc \in {"exit", "stopping", "stopped"} => consumed + p + generating < high + EndSent)
  BY <1>1, <1>2, Outstanding0 DEF high
<1>6. CASE PutEnd
  <2>1. EndSent = 0 /\ pc = "exit" BY <1>6 DEF PutEnd, EndSent
  <2>2. QED BY <1>1, <1>3, <1>4, <1>5, <2>1
<1>7. CASE TaskPut
  <2>1. generating > 0 BY <1>7 DEF TaskPut
  <2>2. EndSent = 1 => pc \in {"exit", "stopping", "stopped"} BY DEF EndSent
  <2>3. QED BY <1>1, <1>3, <1>4, <1>5, <2>1, <2>2
<1>8. QED BY <1>6, <1>7

(* When the samples of a version are used, there is nothing left but the    *)
(* end signal.                                                              *)
LEMMA NothingAhead ==
    ASSUME ThrNum = 0, TypeOK, FlowInv, TakenInv, PlaceInv, dropped = 0, ~Done,
           ~final, consumed = PerVersion * (Epoch + 1)
    PROVE  /\ generating = 0
           /\ \A i \in DOMAIN queue : queue[i] = None
<1>1. /\ consumed \in Nat /\ Len(queue) \in Nat /\ generating \in Nat /\ failures \in Nat
      /\ EndSent \in {0, 1} /\ queue \in Seq(Nat \cup {None})
  BY FlowTypes DEF TypeOK, QueueTypeOK
<1>2. Len(queue) + generating + failures <= EndSent BY <1>1, Outstanding0
<1>3. EndSent = 1 => \E i \in DOMAIN queue : queue[i] = None BY DEF PlaceInv, EndThere
<1>4. DOMAIN queue = 1 .. Len(queue) BY <1>1
<1>5. CASE EndSent = 0 BY <1>1, <1>2, <1>4, <1>5
<1>6. CASE EndSent = 1
  <2>1. PICK i \in DOMAIN queue : queue[i] = None BY <1>3, <1>6
  <2>2. Len(queue) >= 1 BY <1>4, <2>1, <1>1
  <2>3. Len(queue) + generating + failures <= 1 BY <1>2, <1>6
  <2>4. Len(queue) \in Nat /\ generating \in Nat /\ failures \in Nat BY <1>1
  <2>5. Len(queue) = 1 /\ generating = 0 BY <2>2, <2>3, <2>4, OneOnly
  <2>6. QED BY <1>4, <2>1, <2>5
<1>7. QED BY <1>1, <1>5, <1>6

SyncInv == PlaceInv /\ TakenInv /\ LabelInv /\ FreshInv

LEMMA RolloutLabels ==
    ASSUME ThrNum = 0, TypeOK, FlowInv, StepCount, SyncInv, RolloutStep, UNCHANGED trainVars
    PROVE  LabelInv'
<1>0. /\ dropped = 0 /\ OnPolicy' /\ QueueTypeOK /\ version' = version
      /\ \A i \in DOMAIN queue : queue[i] \in {None, version}
  BY DEF SyncInv, LabelInv, OnPolicy, TypeOK
<1>1. CASE UNCHANGED queueVars BY <1>0, <1>1 DEF LabelInv
<1>2. CASE \E s \in Nat \cup {None} : PutSample(s) /\ s \in {None, version} /\ ~Full
  <2>1. PICK s \in Nat \cup {None} : PutSample(s) /\ s \in {None, version} /\ ~Full BY <1>2
  <2>2. dropped' = dropped BY <2>1 DEF PutSample
  <2>3. /\ queue'[Len(queue')] = s
        /\ \A i \in DOMAIN queue' : i # Len(queue') => \E j \in DOMAIN queue : queue'[i] = queue[j]
    BY <1>0, <2>1, PutElements
  <2>4. \A i \in DOMAIN queue' : queue'[i] \in {None, version}
    BY <1>0, <2>1, <2>3
  <2>5. QED BY <1>0, <2>2, <2>4 DEF LabelInv
<1>3. CASE PutEnd
  <2>1. PutSample(None) /\ ~Full BY <1>0, <1>3, PutsHaveRoom DEF PutEnd, SyncInv
  <2>2. QED BY <1>2, <2>1
<1>4. CASE TaskPut
  <2>1. PutSample(weights) /\ weights \in Nat /\ generating > 0
    BY <1>4 DEF TaskPut, TypeOK, RolloutTypeOK
  <2>2. ~Full BY <1>0, <1>4, PutsHaveRoom DEF SyncInv
  <2>3. weights = version
    <3>1. CASE ~(tpc = "sync" /\ ~final) BY <3>1 DEF SyncInv, FreshInv
    <3>2. CASE tpc = "sync" /\ ~final
      <4>1. ResetDue /\ version \in Nat /\ version > 0 /\ Epoch + 1 = version
        BY <3>2, Counts DEF ResetDue, SyncInv, PlaceInv, UpdatePlace, Epoch
      <4>2. local = 1 /\ batch = <<>> BY <3>2, <4>1 DEF SyncInv, PlaceInv, UpdatePlace
      <4>3. consumed = PerVersion * (Epoch + 1) BY <3>2, <4>1, <4>2, UsedBounds DEF FlowInv
      <4>4. ~Done BY <2>1 DEF Done
      <4>5. generating = 0 BY <1>0, <3>2, <4>3, <4>4, NothingAhead DEF SyncInv
      <4>6. QED BY <2>1, <4>5
    <3>3. QED BY <3>1, <3>2
  <2>4. QED BY <1>2, <2>1, <2>2, <2>3
<1>5. QED BY <1>1, <1>3, <1>4, OnlyPutsMove

LEMMA NextLabels ==
    ASSUME ThrNum = 0, TypeOK, FlowInv, StepCount, SyncInv, [Next]_vars
    PROVE  LabelInv'
<1>0. /\ dropped = 0 /\ QueueTypeOK /\ version \in Nat /\ batch \in Seq(Nat)
      /\ \A i \in DOMAIN queue : queue[i] \in {None, version}
      /\ \A i \in DOMAIN batch : batch[i] = version
  BY Counts DEF SyncInv, LabelInv, OnPolicy, TypeOK, TrainTypeOK
<1>1. CASE RolloutStep /\ UNCHANGED trainVars BY <1>1, RolloutLabels
<1>2. CASE CollectSample \/ CollectEnd
  <2>1. /\ TakeSample /\ version' = version /\ dropped' = dropped
        /\ \/ batch' = batch
           \/ batch' = Append(batch, Head(queue)) /\ Head(queue) # None
    BY <1>2 DEF CollectSample, CollectEnd, TakeSample
  <2>2. /\ 1 \in DOMAIN queue /\ Head(queue) = queue[1]
        /\ \A i \in DOMAIN queue' : i + 1 \in DOMAIN queue /\ queue'[i] = queue[i + 1]
    BY <1>0, <2>1, TakeElements
  <2>3. \A i \in DOMAIN queue' : queue'[i] \in {None, version} BY <1>0, <2>2
  <2>4. \A i \in DOMAIN batch' : batch'[i] = version
    <3>1. CASE batch' = batch BY <1>0, <3>1
    <3>2. CASE batch' = Append(batch, Head(queue)) /\ Head(queue) # None
      <4>1. Head(queue) = version BY <1>0, <2>2, <3>2
      <4>2. QED BY <1>0, <3>2, <4>1
    <3>3. QED BY <2>1, <3>1, <3>2
  <2>5. QED BY <1>0, <2>1, <2>3, <2>4 DEF LabelInv, OnPolicy
<1>3. CASE TrainStep
  <2>1. /\ batch' = <<>> /\ UNCHANGED <<queue, dropped>> /\ tpc = "collect" /\ ~final
        /\ \/ version' = version
           \/ version' = version + 1 /\ ~(local < Trigger) /\ Len(batch) = Required
    BY <1>3 DEF TrainStep, FlowInv, TakenOK
  <2>2. CASE version' = version BY <1>0, <2>1, <2>2 DEF LabelInv, OnPolicy
  <2>3. CASE ~(local < Trigger) /\ Len(batch) = Required
    <3>1. local = Trigger /\ Epoch = version /\ ~Done
      BY <2>1, <2>3, Counts DEF Epoch, ResetDue, Done
    <3>2. consumed = PerVersion * (Epoch + 1)
      BY <2>1, <2>3, <3>1, UsedBounds DEF FlowInv
    <3>3. \A i \in DOMAIN queue : queue[i] = None
      BY <1>0, <2>1, <3>1, <3>2, NothingAhead DEF SyncInv
    <3>4. QED BY <1>0, <2>1, <3>3 DEF LabelInv, OnPolicy
  <2>4. QED BY <2>1, <2>2, <2>3
<1>4. CASE UpdateWeights \/ CallReset \/ ResetReturned \/ SaveCheckpoint \/ UNCHANGED vars
  <2>1. UNCHANGED <<queue, dropped, batch, version>>
    BY <1>4 DEF UpdateWeights, PushWeights, CallReset, ResetReturned, SaveCheckpoint, vars
  <2>2. QED BY <1>0, <2>1 DEF LabelInv, OnPolicy
<1>5. CASE Cleanup
  <2>1. DOMAIN queue' = {} /\ UNCHANGED <<dropped, batch, version>>
    BY <1>5 DEF Cleanup, ClearQueue
  <2>2. QED BY <1>0, <2>1 DEF LabelInv, OnPolicy
<1>6. QED BY <1>1, <1>2, <1>3, <1>4, <1>5 DEF Next, TrainerStep, Terminated

LEMMA SyncCorrect == ASSUME ThrNum = 0 PROVE Spec => []LabelInv
<1>1. Init => SyncInv
  <2>1. Init => LabelInv
    <3> SUFFICES ASSUME Init PROVE LabelInv OBVIOUS
    <3>1. DOMAIN queue = {} /\ DOMAIN batch = {} /\ dropped = 0 BY DEF Init, QueueInit, TrainInit
    <3>2. QED BY <3>1 DEF LabelInv, OnPolicy
  <2>2. QED BY <2>1, InitPlace, InitTaken, InitFresh DEF SyncInv
<1>2. TypeOK /\ FlowInv /\ StepCount /\ SyncInv /\ [Next]_vars => SyncInv'
  <2> SUFFICES ASSUME TypeOK, FlowInv, StepCount, SyncInv, [Next]_vars PROVE SyncInv' OBVIOUS
  <2>1. LabelInv' BY NextLabels
  <2>2. PlaceInv' /\ TakenInv' /\ FreshInv'
    BY NextPlace, NextTakenInv, NextFresh DEF SyncInv, FlowInv
  <2>3. QED BY <2>1, <2>2 DEF SyncInv
<1>3. SyncInv => LabelInv BY DEF SyncInv
<1>4. QED BY <1>1, <1>2, <1>3, FlowCorrect, PTL DEF Spec

(* staleness_threshold = 0 is synchronous training, as the README says of   *)
(* it: whatever the interleaving, and whichever tasks raise, a sample is    *)
(* used under the weights that generated it ...                             *)
THEOREM Synchronous == Spec => []OnPolicy
<1>1. CASE ThrNum = 0
  <2>1. LabelInv => OnPolicy BY DEF LabelInv
  <2>2. QED BY <1>1, <2>1, SyncCorrect, PTL
<1>2. CASE ThrNum # 0
  <2>1. OnPolicy BY <1>2 DEF OnPolicy
  <2>2. QED BY <2>1, PTL
<1>3. QED BY <1>1, <1>2

(* ... and the queue never drops one, nor the end signal.                   *)
THEOREM SynchronousDropsNone == Spec => []SyncNeverDrops
<1>1. CASE ThrNum = 0
  <2>1. LabelInv => SyncNeverDrops BY DEF LabelInv, SyncNeverDrops
  <2>2. QED BY <1>1, <2>1, SyncCorrect, PTL
<1>2. CASE ThrNum # 0
  <2>1. SyncNeverDrops BY <1>2 DEF SyncNeverDrops
  <2>2. QED BY <2>1, PTL
<1>3. QED BY <1>1, <1>2
-----------------------------------------------------------------------------
(* A pause leaves the trainer enough.  What staleness_samples counts is     *)
(* outstanding or was used under the current version, but for the tasks     *)
(* that are done when a reset counts the active ones, at most as many as    *)
(* run at once; unless the queue was full and dropped one.                  *)

Counted == \/ staleness + PerVersion * version <= InFlight + Held + consumed + MaxConcurrent
           \/ MaxRequired + PerVersion * version <= InFlight + consumed

PauseInv ==
    /\ paused => pc = "drain" \/ failures > 0
    /\ reset \in {"asking", "asked"} => resetActive <= MaxConcurrent
    /\ reset = "asked" => resetSeen <= Len(queue)
    /\ failures = 0 /\ taken <= Total /\ ~ResetDue => Counted
    /\ taken > Total => pc \in {"finish", "finishWait", "exit", "stopping", "stopped"}
LEMMA CountTypes ==
    ASSUME TypeOK
    PROVE  /\ staleness \in Nat /\ InFlight \in Nat /\ Held \in {0, 1} /\ consumed \in Nat
           /\ PerVersion * version \in Nat /\ PerVersion * version' = PerVersion * version'
           /\ MaxRequired \in Nat \ {0} /\ MaxConcurrent \in Nat /\ Len(queue) \in Nat
           /\ generating \in Nat /\ failed \in Nat /\ failures \in Nat
           /\ taken \in Nat /\ Total \in Nat
<1>1. staleness \in Nat BY DEF TypeOK, RolloutTypeOK
<1>2. InFlight \in Nat BY Counts DEF InFlight
<1>3. version \in Nat BY Counts
<1>4. PerVersion * version \in Nat BY <1>3, PerVersionPositive
<1>5. QED BY <1>1, <1>2, <1>4, Counts, FlowTypes, SlotsPositive

(* What is counted grows by what is handed out only: by what the processor  *)
(* takes, until it is used.                                                 *)
LEMMA CountedStays ==
    ASSUME TypeOK, Counted, version' = version,
           NEW s2 \in Nat, NEW f2 \in Nat, NEW h2 \in {0, 1}, NEW c2 \in Nat,
           staleness' = s2, InFlight' = f2, Held' = h2, consumed' = c2,
           s2 + InFlight + Held + consumed <= staleness + f2 + h2 + c2,
           InFlight + consumed <= f2 + c2
    PROVE  Counted'
<1> DEFINE pv == PerVersion * version
<1>1. pv \in Nat BY CountTypes
<1>2. /\ staleness \in Nat /\ InFlight \in Nat /\ Held \in {0, 1} /\ consumed \in Nat
      /\ MaxRequired \in Nat /\ MaxConcurrent \in Nat
  BY CountTypes
<1>3. \/ staleness + pv <= InFlight + Held + consumed + MaxConcurrent
      \/ MaxRequired + pv <= InFlight + consumed
  BY DEF Counted
<1>4. pv' = pv /\ MaxRequired' = MaxRequired /\ MaxConcurrent' = MaxConcurrent
  BY DEF PerVersion, MaxRequired, MaxConcurrent
<1> HIDE DEF pv
<1>5. \/ s2 + pv <= f2 + h2 + c2 + MaxConcurrent
      \/ MaxRequired + pv <= f2 + c2
  BY <1>1, <1>2, <1>3
<1>6. QED BY <1>4, <1>5 DEF Counted, pv

LEMMA RolloutCounted ==
    ASSUME TypeOK, TypeOK', MissingOK, StepCount, TakenOK, PlaceInv, PauseInv, RolloutStep,
           UNCHANGED trainVars, failures' = 0, taken' <= Total, ~ResetDue'
    PROVE  Counted'
<1>0. /\ UNCHANGED <<version, batch, local, phase, tpc>> /\ staleness \in Nat /\ InFlight \in Nat
      /\ Held \in {0, 1} /\ consumed \in Nat /\ generating \in Nat /\ Len(queue) \in Nat
      /\ failed \in Nat /\ failures \in Nat /\ taken \in Nat /\ Total \in Nat /\ QueueTypeOK
      /\ (failed > 0 => failures > 0)
  BY CountTypes DEF TypeOK, MissingOK
<1>1. CASE ResetEnds
  <2>1. /\ reset = "asked" /\ staleness' = resetActive + resetSeen /\ tpc = "resetting"
        /\ UNCHANGED <<queueVars, feedVars, taskVars, pc>>
    BY <1>1 DEF ResetEnds, ResetTo, ResetFrame, PlaceInv, ResetPlace
  <2>2. resetActive <= MaxConcurrent /\ resetSeen <= Len(queue)
    BY <2>1 DEF PauseInv
  <2>3. ~final
    <3>1. pc \notin {"exit", "stopping", "stopped"}
      BY <1>0, <2>1 DEF PlaceInv, EndReason
    <3>2. EndSent = 0 BY <3>1 DEF EndSent
    <3>3. QED BY <3>2 DEF PlaceInv, EndThere
  <2>4. consumed = PerVersion * version
    BY <2>1, <2>3, UsedBounds DEF PlaceInv, UpdatePlace, ResetDue
  <2>5. /\ InFlight' = InFlight /\ consumed' = consumed /\ Held' = Held
        /\ PerVersion * version' = consumed /\ MaxConcurrent' = MaxConcurrent
    BY <1>0, <2>1, <2>4 DEF InFlight, Held, MaxConcurrent, MaxRequired, PerVersion
  <2>6. Len(queue) <= InFlight BY <1>0 DEF InFlight
  <2>7. resetActive \in Nat /\ resetSeen \in Nat /\ MaxConcurrent \in Nat
    BY SlotsPositive DEF TypeOK, RolloutTypeOK
  <2>8. staleness' + consumed <= InFlight + Held + consumed + MaxConcurrent
    BY <1>0, <2>1, <2>2, <2>6, <2>7
  <2>9. staleness' + PerVersion * version' <= InFlight' + Held' + consumed' + MaxConcurrent'
    BY <2>5, <2>8
  <2>10. QED BY <2>9 DEF Counted, PerVersion
<1>2. CASE ~ResetEnds
  <2>1. ~ResetDue
    <3>1. \/ reset' = reset
          \/ reset' # "returned"
      BY <1>2 DEF RolloutStep, FeedSample, Tasks, TaskPut, TaskDone, TaskFails, Processor, Check,
         Resumed, Goto, ReadSize, Decide, Pause, DrainTasks, GetPending, CheckLimit, SubmitBelow,
         LimitWait, LimitWaitThen, Collect, Submit, Finish, FinishWait, PutEnd, StopRunning,
         Monitor, MonitorWakes, MonGoto, MonitorReads, MonitorDecides, MonitorAnswered,
         MonitorResumes, Reset, ResetStarts, ResetReads, ResetFrame
    <3>2. QED BY <1>0, <3>1 DEF ResetDue
  <2>2. failures = 0 /\ taken <= Total /\ failed = 0
    <3>1. failures' \in {failures, failures + 1} /\ taken' \in {taken, taken + 1}
      BY DEF RolloutStep, FeedSample, Tasks, TaskPut, TaskDone, TaskFails, Processor, Check,
         Resumed, Goto, ReadSize, Decide, Pause, DrainTasks, GetPending, CheckLimit, SubmitBelow,
         LimitWait, LimitWaitThen, Collect, Submit, Finish, FinishWait, PutEnd, StopRunning,
         Monitor, MonitorWakes, MonGoto, MonitorReads, MonitorDecides, MonitorAnswered,
         MonitorResumes, Reset, ResetStarts, ResetReads, ResetEnds, ResetTo, ResetFrame
    <3>2. QED BY <1>0, <3>1
  <2>3. Counted BY <2>1, <2>2 DEF PauseInv
  <2>4. ASSUME NEW s2 \in Nat, NEW f2 \in Nat, NEW h2 \in {0, 1},
               staleness' = s2, InFlight' = f2, Held' = h2, consumed' = consumed,
               s2 + InFlight + Held <= staleness + f2 + h2, InFlight <= f2
        PROVE  Counted'
    <3>1. s2 + InFlight + Held + consumed <= staleness + f2 + h2 + consumed
          /\ InFlight + consumed <= f2 + consumed
      BY <1>0, <2>4
    <3>2. QED BY <1>0, <2>3, <2>4, <3>1, CountedStays
  <2>5. CASE staleness' = staleness /\ consumed' = consumed /\ InFlight' = InFlight /\ Held' = Held
    <3>1. staleness + InFlight + Held <= staleness + InFlight + Held /\ InFlight <= InFlight
      BY <1>0
    <3>2. QED BY <1>0, <2>4, <2>5, <3>1
  <2>6. CASE TaskPut
    <3>1. /\ PutSample(weights) /\ generating' = generating - 1 /\ weights \in Nat
          /\ UNCHANGED <<staleness, pc>> /\ generating > 0 /\ consumed' = consumed
      BY <2>6 DEF TaskPut, PutSample, TypeOK, RolloutTypeOK
    <3>2. Held' = Held BY <3>1 DEF Held
    <3>3. queue \in Seq(Nat \cup {None}) /\ (Full => queue # <<>> /\ Len(queue) >= MaxRequired)
      BY <1>0, Counts DEF Full, QueueTypeOK
    <3>4. CASE ~Full
      <4>1. Len(queue') = Len(queue) + 1 BY <3>1, <3>3, <3>4 DEF PutSample
      <4>2. InFlight' = InFlight BY <1>0, <3>1, <4>1 DEF InFlight
      <4>3. QED BY <2>5, <3>1, <3>2, <4>2
    <3>5. CASE Full
      <4>1. Len(queue') = Len(queue) BY <3>1, <3>3, <3>5 DEF PutSample
      <4>2. InFlight' >= MaxRequired BY <1>0, <3>1, <3>3, <3>5, <4>1, CountTypes DEF InFlight
      <4>3. PerVersion * version <= consumed BY UsedBounds
      <4>4. InFlight' \in Nat BY <1>0, <3>1, <4>1 DEF InFlight
      <4>5. MaxRequired + PerVersion * version <= InFlight' + consumed
        BY <1>0, <4>2, <4>3, <4>4, CountTypes
      <4>6. MaxRequired' + PerVersion * version' <= InFlight' + consumed'
        BY <1>0, <3>1, <4>5 DEF MaxRequired, PerVersion
      <4>7. QED BY <4>6 DEF Counted, PerVersion
    <3>6. QED BY <3>4, <3>5
  <2>7. CASE GetPending
    <3>1. /\ pc = "get" /\ pc' = "limit" /\ staleness' = staleness + 1
          /\ UNCHANGED <<queue, generating, consumed>>
      BY <1>0, <2>7 DEF GetPending
    <3>2. Held = 0 /\ Held' = 1 /\ InFlight' = InFlight BY <3>1 DEF Held, InFlight
    <3>3. QED BY <1>0, <2>4, <3>1, <3>2
  <2>8. CASE Submit
    <3>1. /\ pc = "submit" /\ pc' = "check" /\ generating' = generating + 1
          /\ UNCHANGED <<queue, consumed, staleness>>
      BY <2>8 DEF Submit
    <3>2. Held = 1 /\ Held' = 0 /\ InFlight' = InFlight + 1 BY <1>0, <3>1 DEF Held, InFlight
    <3>3. QED BY <1>0, <2>4, <3>1, <3>2
  <2>9. CASE PutEnd
    BY <1>0, <2>2, <2>9 DEF PutEnd, PlaceInv, EndReason
  <2>10. CASE TaskFails BY <1>0, <2>10 DEF TaskFails
  <2>11. CASE LimitWait \/ DrainTasks \/ FinishWait
    <3>1. /\ UNCHANGED <<staleness, queue, generating, consumed>>
          /\ \/ pc = "limitWait" /\ pc' = "limit"
             \/ pc \in {"drain", "finishWait"} /\ pc' \in {"drain", "finish", "exit"}
      BY <1>0, <2>2, <2>11 DEF LimitWait, LimitWaitThen, DrainTasks, FinishWait, Collect
    <3>2. QED BY <2>5, <3>1 DEF Held, InFlight
  <2>12. CASE CheckLimit \/ Check \/ Resumed \/ ReadSize \/ Decide \/ Pause \/ Finish \/ StopRunning
    <3>1. /\ UNCHANGED <<staleness, queue, generating, consumed>> /\ Held' = Held
      BY <2>12 DEF CheckLimit, SubmitBelow, Check, Resumed, Goto, ReadSize, Decide, Pause, Finish,
         StopRunning, Held
    <3>2. QED BY <2>5, <3>1 DEF InFlight
  <2>13. CASE FeedSample \/ TaskDone \/ Monitor \/ ResetStarts \/ ResetReads
    <3>1. UNCHANGED <<staleness, queue, generating, consumed, pc>>
      BY <2>13 DEF FeedSample, TaskDone, Monitor, MonitorWakes, MonGoto, MonitorReads,
         MonitorDecides, MonitorAnswered, MonitorResumes, ResetStarts, ResetReads, ResetFrame
    <3>2. QED BY <2>5, <3>1 DEF Held, InFlight
  <2>14. QED
    BY <1>2, <2>6, <2>7, <2>8, <2>9, <2>10, <2>11, <2>12, <2>13
    DEF RolloutStep, Tasks, Processor, Reset
<1>3. QED BY <1>1, <1>2
LEMMA TrainerCounted ==
    ASSUME TypeOK, MissingOK, PlaceInv, PauseInv,
           TrainerStep, failures' = 0, taken' <= Total, ~ResetDue'
    PROVE  Counted'
<1>0. /\ UNCHANGED <<staleness, generating, failures, taken, pc>> /\ failures = 0 /\ taken <= Total
      /\ pc \notin {"exit", "stopping", "stopped"}
  <2>1. UNCHANGED <<staleness, generating, failures, taken, pc>>
    BY DEF TrainerStep, CollectSample, CollectEnd, TrainStep, UpdateWeights,
       PushWeights, CallReset, ResetReturned, SaveCheckpoint
  <2>2. QED BY <2>1, CountTypes DEF PlaceInv, EndReason
<1>1. EndSent = 0 /\ ~final /\ NoEnd(queue) BY <1>0 DEF EndSent, PlaceInv, EndThere
<1>2. CASE CollectSample
  <2>1. /\ consumed' = consumed + 1 /\ Len(queue') = Len(queue) - 1 /\ version' = version
        /\ tpc = "collect"
    BY <1>2, TakeKeepsType DEF CollectSample, TakeSample, TypeOK
  <2>2. Counted BY <1>0, <2>1 DEF PauseInv, ResetDue
  <2>3. InFlight' = InFlight - 1 /\ Held' = Held /\ InFlight - 1 \in Nat
    <3>1. Len(queue') \in Nat
      BY <1>2, TakeKeepsType DEF CollectSample, TypeOK, QueueTypeOK
    <3>2. Len(queue) \in Nat /\ generating \in Nat /\ generating' = generating BY <1>0, CountTypes
    <3>3. InFlight' = InFlight - 1 /\ InFlight - 1 \in Nat BY <2>1, <3>1, <3>2 DEF InFlight
    <3>4. QED BY <1>0, <3>3 DEF Held
  <2>4. /\ staleness + InFlight + Held + consumed <= staleness + (InFlight - 1) + Held + (consumed + 1)
        /\ InFlight + consumed <= (InFlight - 1) + (consumed + 1)
        /\ consumed + 1 \in Nat
    <3>1. staleness \in Nat /\ InFlight \in Nat /\ Held \in {0, 1} /\ consumed \in Nat BY CountTypes
    <3>2. QED BY <3>1
  <2>5. QED BY <1>0, <2>1, <2>2, <2>3, <2>4, CountTypes, CountedStays
<1>3. CASE CollectEnd
  <2>1. TakeSample /\ Head(queue) = None BY <1>3 DEF CollectEnd
  <2>2. QED BY <1>1, <2>1, TakeEnds DEF TypeOK
<1>4. CASE UNCHANGED <<queue, consumed, version>> /\ ~ResetDue
  <2>1. Counted BY <1>0, <1>4 DEF PauseInv
  <2>2. QED
    BY <1>0, <1>4, <2>1 DEF Counted, InFlight, Held, MaxRequired, MaxConcurrent, PerVersion
<1>5. CASE TrainStep \/ UpdateWeights \/ CallReset \/ ResetReturned \/ SaveCheckpoint
  <2>1. UNCHANGED <<queue, consumed, version>> /\ ~ResetDue
    BY <1>5 DEF TrainStep, UpdateWeights, PushWeights, CallReset, ResetReturned, SaveCheckpoint,
       ResetDue
  <2>2. QED BY <1>4, <2>1
<1>6. QED BY <1>2, <1>3, <1>5 DEF TrainerStep

LEMMA NextPause ==
    ASSUME TypeOK, TypeOK', MissingOK, StepCount, TakenOK, ConcurrencyBounded, PlaceInv, PauseInv,
           [Next]_vars
    PROVE  PauseInv'
<1>0. /\ failures \in Nat /\ failed \in Nat /\ (failed > 0 => failures > 0) /\ QueueTypeOK
  BY CountTypes DEF MissingOK, TypeOK
<1>1. paused' => pc' = "drain" \/ failures' > 0
  <2>1. CASE UNCHANGED pc /\ (resume' = resume \/ resume' = "set") /\ failures' \in {failures, failures + 1}
    BY <1>0, <2>1 DEF PauseInv, paused
  <2>2. CASE FeedSample \/ Tasks \/ Monitor \/ Reset
    BY <2>1, <2>2 DEF FeedSample, Tasks, TaskPut, TaskDone, TaskFails, Monitor, MonitorWakes,
       MonGoto, MonitorReads, MonitorDecides, MonitorAnswered, MonitorResumes, Reset, ResetStarts,
       ResetReads, ResetEnds, ResetTo, ResetFrame
  <2>3. CASE TrainerStep \/ Cleanup \/ UNCHANGED vars
    BY <2>1, <2>3 DEF TrainerStep, CollectSample, CollectEnd, TrainStep, UpdateWeights,
       PushWeights, CallReset, ResetReturned, SaveCheckpoint, Cleanup, vars
  <2>4. CASE Pause BY <2>4 DEF Pause
  <2>5. CASE DrainTasks
    <3>1. failures' = failures /\ (pc' = "drain" \/ failed > 0)
      BY <1>0, <2>5 DEF DrainTasks, Collect
    <3>2. QED BY <1>0, <3>1
  <2>6. CASE Resumed BY <2>6 DEF Resumed, Goto, paused
  <2>7. CASE Processor /\ ~Pause /\ ~DrainTasks /\ ~Resumed
    <3>1. pc # "drain" /\ UNCHANGED <<resume, failures>>
      BY <2>7 DEF Processor, Check, Goto, ReadSize, Decide, GetPending, CheckLimit, SubmitBelow,
         LimitWait, LimitWaitThen, Collect, Submit, Finish, FinishWait, PutEnd, StopRunning
    <3>2. QED BY <3>1 DEF PauseInv, paused
  <2>8. QED BY <2>2, <2>3, <2>4, <2>5, <2>6, <2>7 DEF Next, RolloutStep, Terminated
<1>2. /\ reset' \in {"asking", "asked"} => resetActive' <= MaxConcurrent
      /\ reset' = "asked" => resetSeen' <= Len(queue')
  <2>1. CASE UNCHANGED <<reset, resetActive, resetSeen>> /\ Len(queue') >= Len(queue)
    <3>1. Len(queue) \in Nat /\ Len(queue') \in Nat /\ resetSeen \in Nat
      <4>1. queue \in Seq(Nat \cup {None}) /\ queue' \in Seq(Nat \cup {None}) /\ resetSeen \in Nat
        BY DEF TypeOK, QueueTypeOK, RolloutTypeOK
      <4>2. QED BY <4>1
    <3>2. QED BY <2>1, <3>1 DEF PauseInv
  <2>2. CASE TaskPut \/ PutEnd
    <3>1. PICK s \in Nat \cup {None} : PutSample(s)
      BY <2>2 DEF TaskPut, PutEnd, TypeOK, RolloutTypeOK
    <3>2. queue \in Seq(Nat \cup {None}) /\ (Full => queue # <<>>)
      BY <1>0, SizesPositive DEF QueueTypeOK, Full
    <3>3. Len(queue') >= Len(queue) BY <3>1, <3>2 DEF PutSample
    <3>4. QED BY <2>1, <2>2, <3>3 DEF TaskPut, PutEnd
  <2>3. CASE FeedSample \/ TaskDone \/ TaskFails \/ Monitor \/ (Processor /\ ~PutEnd)
    <3>1. UNCHANGED <<reset, resetActive, resetSeen, queue>>
      BY <2>3 DEF FeedSample, TaskDone, TaskFails, Processor, Check,
         Resumed, Goto, ReadSize, Decide, Pause, DrainTasks, GetPending, CheckLimit, SubmitBelow,
         LimitWait, LimitWaitThen, Collect, Submit, Finish, FinishWait, StopRunning,
         Monitor, MonitorWakes, MonGoto, MonitorReads, MonitorDecides, MonitorAnswered,
         MonitorResumes
    <3>2. QED BY <2>1, <3>1, CountTypes
  <2>4. CASE ResetStarts
    BY <2>4 DEF ResetStarts, ConcurrencyBounded, ActiveTasks, MaxConcurrent, MaxRequired, PerVersion
  <2>5. CASE ResetReads
    <3>1. /\ reset = "asking" /\ reset' = "asked" /\ resetActive' = resetActive
          /\ resetSeen' = Len(queue) /\ queue' = queue
      BY <2>5 DEF ResetReads, ResetFrame
    <3>2. QED BY <3>1, CountTypes DEF PauseInv
  <2>6. CASE ResetEnds BY <2>6 DEF ResetEnds, ResetTo
  <2>7. CASE TrainerStep
    <3>1. CASE tpc # "resetting"
      <4>1. reset = "idle" BY <3>1 DEF PlaceInv, ResetPlace
      <4>2. reset' \in {"idle", "called"}
        BY <2>7, <3>1, <4>1 DEF TrainerStep, CollectSample, CollectEnd, TrainStep, UpdateWeights,
           PushWeights, CallReset, ResetReturned, SaveCheckpoint
      <4>3. QED BY <4>2
    <3>2. CASE tpc = "resetting"
      BY <2>7, <3>2 DEF TrainerStep, CollectSample, CollectEnd, TrainStep, UpdateWeights,
         PushWeights, CallReset, ResetReturned, SaveCheckpoint
    <3>3. QED BY <3>1, <3>2
  <2>8. CASE Cleanup
    <3>1. tpc = "stopped" /\ reset' = reset BY <2>8 DEF Cleanup, Done
    <3>2. QED BY <3>1 DEF PlaceInv, ResetPlace
  <2>9. CASE UNCHANGED vars BY <2>1, <2>9, CountTypes DEF vars
  <2>10. QED
    BY <2>2, <2>3, <2>4, <2>5, <2>6, <2>7, <2>8, <2>9
    DEF Next, RolloutStep, Tasks, Reset, Terminated
<1>3. failures' = 0 /\ taken' <= Total /\ ~ResetDue' => Counted'
  <2> SUFFICES ASSUME failures' = 0, taken' <= Total, ~ResetDue' PROVE Counted' OBVIOUS
  <2>1. CASE RolloutStep /\ UNCHANGED trainVars BY <2>1, RolloutCounted
  <2>2. CASE TrainerStep BY <2>2, TrainerCounted
  <2>3. CASE Cleanup
    <3>1. /\ pc = "stopped" /\ UNCHANGED <<taken, failures>>
      BY <2>3 DEF Cleanup, Done
    <3>2. QED BY <1>0, <3>1, CountTypes DEF PlaceInv, EndReason
  <2>4. CASE UNCHANGED vars
    <3>1. ~ResetDue /\ failures = 0 /\ taken <= Total /\ UNCHANGED <<queue, generating, staleness, pc,
             consumed, version>>
      BY <2>4 DEF vars, ResetDue
    <3>2. QED
      BY <3>1 DEF PauseInv, Counted, InFlight, Held, MaxRequired, MaxConcurrent, PerVersion
  <2>5. QED BY <2>1, <2>2, <2>3, <2>4 DEF Next, Terminated
<1>4. taken' > Total => pc' \in {"finish", "finishWait", "exit", "stopping", "stopped"}
  <2>1. CASE UNCHANGED <<taken, pc>> BY <2>1 DEF PauseInv
  <2>2. CASE FeedSample \/ Tasks \/ Monitor \/ Reset
    BY <2>1, <2>2 DEF FeedSample, Tasks, TaskPut, TaskDone, TaskFails, Monitor, MonitorWakes,
       MonGoto, MonitorReads, MonitorDecides, MonitorAnswered, MonitorResumes, Reset, ResetStarts,
       ResetReads, ResetEnds, ResetTo, ResetFrame
  <2>3. CASE TrainerStep \/ Cleanup \/ UNCHANGED vars
    BY <2>1, <2>3 DEF TrainerStep, CollectSample, CollectEnd, TrainStep, UpdateWeights,
       PushWeights, CallReset, ResetReturned, SaveCheckpoint, Cleanup, vars
  <2>4. CASE GetPending BY <2>4, CountTypes DEF GetPending
  <2>5. CASE Finish \/ FinishWait \/ PutEnd \/ StopRunning
    BY <2>5 DEF Finish, Goto, FinishWait, Collect, PutEnd, StopRunning
  <2>6. CASE Processor /\ ~GetPending /\ ~Finish /\ ~FinishWait /\ ~PutEnd /\ ~StopRunning
    <3>1. taken' = taken /\ pc \notin {"finish", "finishWait", "exit", "stopping", "stopped"}
      BY <2>6 DEF Processor, Check, Resumed, Goto, ReadSize, Decide, Pause, DrainTasks, CheckLimit,
         SubmitBelow, LimitWait, LimitWaitThen, Collect, Submit
    <3>2. QED BY <3>1 DEF PauseInv
  <2>7. QED BY <2>2, <2>3, <2>4, <2>5, <2>6 DEF Next, RolloutStep, Terminated
<1>5. QED
  BY <1>1, <1>2, <1>3, <1>4 DEF PauseInv, MaxConcurrent, MaxRequired, PerVersion

LEMMA InitPause == Init => PauseInv
<1> SUFFICES ASSUME Init PROVE PauseInv OBVIOUS
<1>1. /\ resume = "set" /\ reset = "idle" /\ staleness = 0 /\ Len(queue) = 0 /\ generating = 0
      /\ version = 0 /\ consumed = 0 /\ pc = "check"
  BY DEF Init, QueueInit, RolloutInit, TrainInit
<1>2. PerVersion * version = 0 /\ InFlight = 0 /\ Held = 0
  BY <1>1, PerVersionPositive DEF InFlight, Held
<1>3. Counted BY <1>1, <1>2, SlotsPositive DEF Counted
<1>4. ~(taken > Total) BY SizesPositive DEF Init, RolloutInit
<1>5. QED BY <1>1, <1>3, <1>4 DEF PauseInv, paused

\* The budget has room for the samples of a version besides the tasks that
\* run at once.
RoomForTasks == MaxConcurrent + PerVersion <= MaxRequired

(* A pause for staleness leaves the trainer the samples it needs to reach   *)
(* the next weight update, which ends the pause (reset_staleness,           *)
(* _should_pause_generation), when the threshold leaves room for the tasks. *)
(* A threshold of zero does not, and there the property fails: a reset that *)
(* counts tasks which are done makes the rollouter pause too early.         *)
THEOREM NeverStarved == ASSUME RoomForTasks PROVE Spec => []PauseLeavesEnough
<1>1. TypeOK /\ PlaceInv /\ PauseInv => PauseLeavesEnough
  <2> SUFFICES ASSUME TypeOK, PlaceInv, PauseInv, paused, staleness >= MaxRequired,
                      tpc = "collect", failures = 0
               PROVE  InFlight + consumed >= PerVersion * (version + 1)
    BY DEF PauseLeavesEnough
  <2>1. pc = "drain" BY DEF PauseInv
  <2>2. CASE taken <= Total
    <3>1. Counted /\ Held = 0 BY <2>1, <2>2 DEF PauseInv, ResetDue, Held
    <3>2. PerVersion * (version + 1) = PerVersion * version + PerVersion
      BY Counts, PerVersionPositive, ProductOfSum
    <3>3. /\ staleness \in Nat /\ InFlight \in Nat /\ consumed \in Nat /\ PerVersion \in Nat
          /\ PerVersion * version \in Nat /\ MaxRequired \in Nat /\ MaxConcurrent \in Nat
      BY CountTypes, PerVersionPositive
    <3>4. \/ MaxRequired + PerVersion * version <= InFlight + consumed + MaxConcurrent
          \/ MaxRequired + PerVersion * version <= InFlight + consumed
      BY <3>1, <3>3 DEF Counted
    <3>5. PerVersion * version + PerVersion <= InFlight + consumed
      BY <3>3, <3>4 DEF RoomForTasks
    <3>6. QED BY <3>2, <3>3, <3>5
  <2>3. CASE taken > Total BY <2>1, <2>3 DEF PauseInv
  <2>4. QED BY <2>2, <2>3, CountTypes
<1>2. /\ TypeOK /\ TypeOK' /\ FlowInv /\ StepCount /\ ConcurrencyBounded /\ PlaceInv /\ PauseInv
      /\ [Next]_vars
      => PlaceInv' /\ PauseInv'
  BY NextPlace, NextPause DEF FlowInv
<1>3. QED
  BY <1>1, <1>2, InitPlace, InitPause, FlowCorrect, ConcurrencyKept, PTL DEF Spec
=============================================================================

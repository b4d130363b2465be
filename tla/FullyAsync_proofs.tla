-------------------------- MODULE FullyAsync_proofs --------------------------
(***************************************************************************)
(* Proofs about the fully asynchronous pipeline, for every batch size,     *)
(* trigger, staleness threshold, number of rollout slots, of samples and   *)
(* of failing tasks: its types and bounds, that it implements the stream   *)
(* of samples, and what becomes of the samples: none disappears between    *)
(* the actors, and the queue drops few.                                    *)
(***************************************************************************)
EXTENDS FullyAsync, TLAPS

USE DEF queueVars, feedVars, taskVars, procVars, monVars, resetVars,
        rolloutVars, trainVars

LEMMA SizesPositive == /\ MaxRequired \in Nat \ {0}
                       /\ MaxQueueSize \in Nat \ {0}
                       /\ Required \in Nat \ {0}
                       /\ Trigger \in Nat \ {0}
                       /\ Total \in Nat \ {0}
                       /\ None \notin Nat
BY QueueAssumption, RolloutAssumption, CapacityAssumption

(* A put keeps the queue within its capacity: it drops the oldest element   *)
(* of a full one (put_sample).                                              *)
LEMMA PutKeepsType ==
    ASSUME QueueTypeOK, NEW s \in Nat \cup {None}, PutSample(s)
    PROVE  /\ QueueTypeOK'
           /\ Len(queue') <= Len(queue) + 1
BY SizesPositive DEF QueueTypeOK, PutSample, Full

LEMMA TakeKeepsType ==
    ASSUME QueueTypeOK, TakeSample
    PROVE  /\ QueueTypeOK'
           /\ Len(queue') = Len(queue) - 1
           /\ Head(queue) \in Nat \cup {None}
BY SizesPositive DEF QueueTypeOK, TakeSample

-----------------------------------------------------------------------------
(* Type correctness.  The steps are grouped by the actor that takes them.  *)

LEMMA InitType == Init => TypeOK
<1> SUFFICES ASSUME Init PROVE TypeOK OBVIOUS
<1> USE SizesPositive DEF Init
<1>1. QueueTypeOK BY DEF QueueInit, QueueTypeOK
<1>2. RolloutTypeOK BY DEF RolloutInit, RolloutTypeOK, ProcPC, MonPC, ResetPC
<1>3. TrainTypeOK BY DEF TrainInit, TrainTypeOK, TrainPC
<1>4. QED BY <1>1, <1>2, <1>3 DEF TypeOK

LEMMA FeedTasksType ==
    ASSUME TypeOK, FeedSample \/ Tasks, UNCHANGED trainVars
    PROVE  TypeOK'
<1>1. CASE FeedSample
  BY <1>1, SizesPositive DEF TypeOK, QueueTypeOK, RolloutTypeOK, TrainTypeOK, FeedSample
<1>2. CASE TaskPut
  <2>1. QueueTypeOK' BY <1>2, PutKeepsType DEF TypeOK, TaskPut, RolloutTypeOK
  <2>2. QED BY <1>2, <2>1 DEF TypeOK, RolloutTypeOK, TrainTypeOK, TaskPut
<1>3. CASE TaskDone
  BY <1>3 DEF TypeOK, QueueTypeOK, RolloutTypeOK, TrainTypeOK, TaskDone
<1>4. CASE TaskFails
  BY <1>4 DEF TypeOK, QueueTypeOK, RolloutTypeOK, TrainTypeOK, TaskFails
<1>5. QED BY <1>1, <1>2, <1>3, <1>4 DEF Tasks

LEMMA ProcessorType ==
    ASSUME TypeOK, Processor, UNCHANGED trainVars
    PROVE  TypeOK'
<1> USE DEF TypeOK, QueueTypeOK, RolloutTypeOK, TrainTypeOK, ProcPC
<1>1. CASE Check \/ Resumed
  BY <1>1 DEF Check, Resumed, Goto
<1>9. CASE Pause \/ StopRunning
  BY <1>9 DEF Pause, StopRunning
<1>12. CASE Decide
  BY <1>12 DEF Decide
<1>10. CASE ReadSize
  BY <1>10 DEF ReadSize
<1>2. CASE DrainTasks
  BY <1>2 DEF DrainTasks, Collect
<1>3. CASE GetPending
  BY <1>3, SizesPositive DEF GetPending
<1>4. CASE CheckLimit \/ Finish
  BY <1>4 DEF CheckLimit, SubmitBelow, Finish, Goto
<1>5. CASE LimitWait
  BY <1>5 DEF LimitWait, LimitWaitThen, Collect
<1>11. CASE FinishWait
  BY <1>11 DEF FinishWait, Collect
<1>6. CASE Submit
  BY <1>6 DEF Submit
<1>7. CASE PutEnd
  <2>1. QueueTypeOK' BY <1>7, PutKeepsType DEF PutEnd
  <2>2. QED BY <1>7, <2>1 DEF PutEnd
<1>8. QED BY <1>1, <1>2, <1>3, <1>4, <1>5, <1>6, <1>7, <1>9, <1>10, <1>11, <1>12 DEF Processor

LEMMA MonitorResetType ==
    ASSUME TypeOK, Monitor \/ Reset, UNCHANGED trainVars
    PROVE  TypeOK'
<1> USE DEF TypeOK, QueueTypeOK, RolloutTypeOK, TrainTypeOK, MonPC, ResetPC
<1>1. CASE MonitorWakes \/ MonitorResumes
  BY <1>1 DEF MonitorWakes, MonitorResumes, MonGoto
<1>2. CASE MonitorReads
  BY <1>2 DEF MonitorReads
<1>3. CASE MonitorDecides
  BY <1>3 DEF MonitorDecides, MonitorAnswered
<1>4. CASE ResetStarts
  BY <1>4 DEF ResetStarts, ResetFrame, ActiveTasks
<1>5. CASE ResetReads
  BY <1>5 DEF ResetReads, ResetFrame
<1>6. CASE ResetEnds
  BY <1>6 DEF ResetEnds, ResetTo, ResetFrame
<1>7. QED BY <1>1, <1>2, <1>3, <1>4, <1>5, <1>6 DEF Monitor, Reset

LEMMA TrainerType ==
    ASSUME TypeOK, TrainerStep
    PROVE  TypeOK'
<1> USE SizesPositive
<1>1. CASE CollectSample
  <2>1. /\ QueueTypeOK'
        /\ Head(queue) \in Nat
    BY <1>1, TakeKeepsType DEF TypeOK, CollectSample
  <2>2. batch' \in Seq(Nat) /\ Len(batch') <= Required
    BY <1>1, <2>1 DEF TypeOK, TrainTypeOK, CollectSample
  <2>3. QED BY <1>1, <2>1, <2>2 DEF TypeOK, RolloutTypeOK, TrainTypeOK, CollectSample
<1>2. CASE CollectEnd
  <2>1. QueueTypeOK' BY <1>2, TakeKeepsType DEF TypeOK, CollectEnd
  <2>2. QED BY <1>2, <2>1 DEF TypeOK, RolloutTypeOK, TrainTypeOK, TrainPC, CollectEnd
<1>3. CASE TrainStep
  BY <1>3 DEF TypeOK, QueueTypeOK, RolloutTypeOK, TrainTypeOK, TrainPC, TrainStep
<1>4. CASE UpdateWeights \/ CallReset \/ ResetReturned
  BY <1>4 DEF TypeOK, QueueTypeOK, RolloutTypeOK, ResetPC, TrainTypeOK, TrainPC,
     UpdateWeights, PushWeights, CallReset, ResetReturned
<1>5. CASE SaveCheckpoint
  BY <1>5 DEF TypeOK, QueueTypeOK, RolloutTypeOK, TrainTypeOK, TrainPC, SaveCheckpoint
<1>6. QED BY <1>1, <1>2, <1>3, <1>4, <1>5 DEF TrainerStep

(* The state of the queue, the rollouter and the trainer stays what the     *)
(* code declares, in particular no counter of active_tasks goes below zero  *)
(* and the queue never exceeds its maxlen.                                  *)
THEOREM TypeCorrect == Spec => []TypeOK
<1>1. Init => TypeOK BY InitType
<1>2. TypeOK /\ [Next]_vars => TypeOK'
  <2> SUFFICES ASSUME TypeOK, [Next]_vars PROVE TypeOK' OBVIOUS
  <2>1. CASE RolloutStep /\ UNCHANGED trainVars
    BY <2>1, FeedTasksType, ProcessorType, MonitorResetType DEF RolloutStep
  <2>2. CASE TrainerStep BY <2>2, TrainerType
  <2>3. CASE Cleanup
    BY <2>3, SizesPositive DEF Cleanup, ClearQueue, TypeOK, QueueTypeOK, RolloutTypeOK, TrainTypeOK
  <2>4. CASE UNCHANGED vars
    BY <2>4 DEF vars, TypeOK, QueueTypeOK, RolloutTypeOK, TrainTypeOK
  <2>5. QED BY <2>1, <2>2, <2>3, <2>4 DEF Next, Terminated
<1>3. QED BY <1>1, <1>2, PTL DEF Spec

-----------------------------------------------------------------------------
(* The staleness accounting.                                               *)

LEMMA PutCounts ==
    ASSUME QueueTypeOK, NEW s \in Nat \cup {None}, PutSample(s)
    PROVE  Len(queue') \in Nat /\ Len(queue) \in Nat /\ Len(queue') <= Len(queue) + 1
BY PutKeepsType, SizesPositive DEF QueueTypeOK

LEMMA LengthIsNat == ASSUME QueueTypeOK PROVE Len(queue) \in Nat
BY DEF QueueTypeOK

LEMMA InitAccounting == Init => AccountingInv
BY SizesPositive DEF Init, QueueInit, RolloutInit, AccountingInv, OverBudgetByOneAtMost,
   InFlight, Held, EndSent

LEMMA FeedTasksAccounting ==
    ASSUME TypeOK, AccountingInv, FeedSample \/ Tasks
    PROVE  AccountingInv'
<1> USE DEF AccountingInv, OverBudgetByOneAtMost, InFlight, Held, EndSent
<1>0. /\ Len(queue) \in Nat /\ generating \in Nat /\ staleness \in Nat
      /\ resetActive \in Nat /\ resetSeen \in Nat /\ MaxRequired \in Nat
  BY LengthIsNat, SizesPositive DEF TypeOK, RolloutTypeOK
<1>1. CASE FeedSample
  BY <1>0, <1>1 DEF FeedSample
<1>2. CASE TaskPut
  <2>1. Len(queue') \in Nat /\ Len(queue') <= Len(queue) + 1
    BY <1>2, PutCounts DEF TypeOK, RolloutTypeOK, TaskPut
  <2>2. QED BY <1>0, <1>2, <2>1 DEF TaskPut
<1>3. CASE TaskDone
  BY <1>0, <1>3 DEF TaskDone
<1>4. CASE TaskFails
  BY <1>0, <1>4 DEF TaskFails
<1>5. QED BY <1>1, <1>2, <1>3, <1>4 DEF Tasks

LEMMA ProcessorAccounting ==
    ASSUME TypeOK, AccountingInv, Processor
    PROVE  AccountingInv'
<1> USE DEF AccountingInv, OverBudgetByOneAtMost, InFlight, Held, EndSent
<1>0. /\ Len(queue) \in Nat /\ generating \in Nat /\ staleness \in Nat
      /\ resetActive \in Nat /\ resetSeen \in Nat /\ MaxRequired \in Nat
  BY LengthIsNat, SizesPositive DEF TypeOK, RolloutTypeOK
<1>1. CASE Check \/ Resumed
  BY <1>0, <1>1 DEF Check, Resumed, Goto
<1>2. CASE ReadSize
  BY <1>0, <1>2 DEF ReadSize
<1>3. CASE Decide
  BY <1>0, <1>3 DEF Decide, ShouldPause
<1>4. CASE Pause \/ StopRunning
  BY <1>0, <1>4 DEF Pause, StopRunning
<1>5. CASE DrainTasks
  BY <1>0, <1>5 DEF DrainTasks, Collect
<1>6. CASE GetPending
  BY <1>0, <1>6 DEF GetPending
<1>7. CASE CheckLimit
  BY <1>0, <1>7 DEF CheckLimit, SubmitBelow, Goto
<1>8. CASE LimitWait
  BY <1>0, <1>8 DEF LimitWait, LimitWaitThen, Collect
<1>9. CASE Submit
  BY <1>0, <1>9 DEF Submit
<1>10. CASE Finish
  BY <1>0, <1>10 DEF Finish, Goto
<1>11. CASE FinishWait
  BY <1>0, <1>11 DEF FinishWait, Collect
<1>12. CASE PutEnd
  <2>1. Len(queue') \in Nat /\ Len(queue') <= Len(queue) + 1
    BY <1>12, PutCounts DEF TypeOK, PutEnd
  <2>2. QED BY <1>0, <1>12, <2>1 DEF PutEnd
<1>13. QED
  BY <1>1, <1>2, <1>3, <1>4, <1>5, <1>6, <1>7, <1>8, <1>9, <1>10, <1>11, <1>12
     DEF Processor

LEMMA MonitorResetAccounting ==
    ASSUME TypeOK, AccountingInv, Monitor \/ Reset
    PROVE  AccountingInv'
<1> USE DEF AccountingInv, OverBudgetByOneAtMost, InFlight, Held, EndSent
<1>0. /\ Len(queue) \in Nat /\ generating \in Nat /\ staleness \in Nat
      /\ replying \in Nat /\ finished \in Nat /\ failed \in Nat
      /\ resetActive \in Nat /\ resetSeen \in Nat /\ MaxRequired \in Nat
  BY LengthIsNat, SizesPositive DEF TypeOK, RolloutTypeOK
<1>1. CASE MonitorWakes \/ MonitorResumes
  BY <1>0, <1>1 DEF MonitorWakes, MonitorResumes, MonGoto
<1>2. CASE MonitorReads \/ MonitorDecides
  BY <1>0, <1>2 DEF MonitorReads, MonitorDecides, MonitorAnswered
<1>3. CASE ResetStarts
  BY <1>0, <1>3 DEF ResetStarts, ResetFrame, ActiveTasks
<1>4. CASE ResetReads
  BY <1>0, <1>4 DEF ResetReads, ResetFrame
<1>5. CASE ResetEnds
  BY <1>0, <1>5 DEF ResetEnds, ResetTo, ResetFrame
<1>6. QED BY <1>1, <1>2, <1>3, <1>4, <1>5 DEF Monitor, Reset

LEMMA TrainerAccounting ==
    ASSUME TypeOK, AccountingInv, TrainerStep
    PROVE  AccountingInv'
<1> USE DEF AccountingInv, OverBudgetByOneAtMost, InFlight, Held, EndSent
<1>0. /\ Len(queue) \in Nat /\ generating \in Nat /\ staleness \in Nat
      /\ resetActive \in Nat /\ resetSeen \in Nat /\ MaxRequired \in Nat
  BY LengthIsNat, SizesPositive DEF TypeOK, RolloutTypeOK
<1>1. CASE CollectSample \/ CollectEnd
  <2>1. Len(queue') \in Nat /\ Len(queue') <= Len(queue)
    BY <1>0, <1>1, TakeKeepsType DEF TypeOK, CollectSample, CollectEnd
  <2>2. UNCHANGED <<generating, staleness, pc, lock, reset, resetActive, resetSeen>>
    BY <1>1 DEF CollectSample, CollectEnd
  <2>3. QED BY <1>0, <2>1, <2>2
<1>2. CASE TrainStep \/ SaveCheckpoint
  BY <1>0, <1>2 DEF TrainStep, SaveCheckpoint
<1>3. CASE UpdateWeights \/ CallReset \/ ResetReturned
  BY <1>0, <1>3 DEF UpdateWeights, PushWeights, CallReset, ResetReturned
<1>4. QED BY <1>1, <1>2, <1>3 DEF TrainerStep

LEMMA NextAccounting == TypeOK /\ AccountingInv /\ [Next]_vars => AccountingInv'
<1> SUFFICES ASSUME TypeOK, AccountingInv, [Next]_vars PROVE AccountingInv' OBVIOUS
<1> USE DEF AccountingInv, OverBudgetByOneAtMost, InFlight, Held, EndSent
<1>1. CASE RolloutStep
  BY <1>1, FeedTasksAccounting, ProcessorAccounting, MonitorResetAccounting DEF RolloutStep
<1>2. CASE TrainerStep BY <1>2, TrainerAccounting
<1>3. CASE Cleanup
  BY <1>3, LengthIsNat, SizesPositive DEF Cleanup, ClearQueue, TypeOK, RolloutTypeOK
<1>4. CASE UNCHANGED vars
  BY <1>4 DEF vars
<1>5. QED BY <1>1, <1>2, <1>3, <1>4 DEF Next, Terminated

(* reset_staleness cannot miss more than the one sample the processor       *)
(* holds, and staleness_samples counts everything else that is outstanding. *)
THEOREM AccountingCorrect == Spec => []AccountingInv
<1>1. Init => AccountingInv BY InitAccounting
<1>2. TypeOK /\ AccountingInv /\ [Next]_vars => AccountingInv' BY NextAccounting
<1>3. QED BY <1>1, <1>2, TypeCorrect, PTL DEF Spec

(* The rollouter is never more than one sample over its budget.             *)
THEOREM BudgetKept == Spec => []OverBudgetByOneAtMost
<1>1. AccountingInv => OverBudgetByOneAtMost BY DEF AccountingInv
<1>2. QED BY <1>1, AccountingCorrect, PTL

-----------------------------------------------------------------------------
(* The number of tasks.  Only Submit adds one, and nothing but the          *)
(* processor changes its place between the test of the limit and Submit.    *)

LEMMA SlotsPositive == MaxConcurrent \in Nat \ {0}
BY SizesPositive, RolloutAssumption DEF MaxConcurrent

LEMMA NextConcurrency == TypeOK /\ ConcurrencyBounded /\ [Next]_vars => ConcurrencyBounded'
<1> SUFFICES ASSUME TypeOK, ConcurrencyBounded, [Next]_vars PROVE ConcurrencyBounded' OBVIOUS
<1> USE DEF ConcurrencyBounded, ActiveTasks
<1>0. /\ generating \in Nat /\ replying \in Nat /\ finished \in Nat /\ failed \in Nat
      /\ MaxConcurrent \in Nat
  BY SlotsPositive DEF TypeOK, RolloutTypeOK
<1>1. CASE FeedSample
  BY <1>0, <1>1 DEF FeedSample
<1>2. CASE Tasks
  <2>1. CASE TaskPut BY <1>0, <2>1 DEF TaskPut
  <2>2. CASE TaskDone BY <1>0, <2>2 DEF TaskDone
  <2>3. CASE TaskFails BY <1>0, <2>3 DEF TaskFails
  <2>4. QED BY <1>2, <2>1, <2>2, <2>3 DEF Tasks
<1>3. CASE Processor
  <2>1. CASE Check \/ Resumed \/ Finish BY <1>0, <2>1 DEF Check, Resumed, Finish, Goto
  <2>2. CASE ReadSize \/ Decide BY <1>0, <2>2 DEF ReadSize, Decide
  <2>3. CASE Pause \/ StopRunning BY <1>0, <2>3 DEF Pause, StopRunning
  <2>4. CASE GetPending \/ PutEnd BY <1>0, <2>4 DEF GetPending, PutEnd
  <2>5. CASE DrainTasks BY <1>0, <2>5 DEF DrainTasks, Collect
  <2>6. CASE LimitWait BY <1>0, <2>6 DEF LimitWait, LimitWaitThen, Collect
  <2>7. CASE FinishWait BY <1>0, <2>7 DEF FinishWait, Collect
  <2>8. CASE CheckLimit BY <1>0, <2>8 DEF CheckLimit, SubmitBelow, Goto, ActiveTasks
  <2>9. CASE Submit BY <1>0, <2>9 DEF Submit
  <2>10. QED
    BY <1>3, <2>1, <2>2, <2>3, <2>4, <2>5, <2>6, <2>7, <2>8, <2>9 DEF Processor
<1>4. CASE Monitor \/ Reset
  <2>1. UNCHANGED <<generating, replying, finished, failed, pc>>
    BY <1>4 DEF Monitor, MonitorWakes, MonitorReads, MonitorDecides, MonitorAnswered, MonitorResumes,
       MonGoto, Reset, ResetStarts, ResetReads, ResetEnds, ResetTo, ResetFrame
  <2>2. QED BY <1>0, <2>1
<1>5. CASE TrainerStep \/ Cleanup \/ UNCHANGED vars
  <2>1. UNCHANGED <<generating, replying, finished, failed, pc>>
    BY <1>5 DEF TrainerStep, CollectSample, CollectEnd, TrainStep, UpdateWeights, PushWeights, CallReset,
       ResetReturned, SaveCheckpoint, Cleanup, vars
  <2>2. QED BY <1>0, <2>1
<1>6. QED BY <1>1, <1>2, <1>3, <1>4, <1>5 DEF Next, Terminated, RolloutStep

(* There are never more than max_concurrent_samples tasks.                  *)
THEOREM ConcurrencyKept == Spec => []ConcurrencyBounded
<1>1. Init => ConcurrencyBounded
  BY SlotsPositive DEF Init, RolloutInit, ConcurrencyBounded, ActiveTasks
<1>2. TypeOK /\ ConcurrencyBounded /\ [Next]_vars => ConcurrencyBounded'
  BY NextConcurrency
<1>3. QED BY <1>1, <1>2, TypeCorrect, PTL DEF Spec
-----------------------------------------------------------------------------
(* The stream of samples of SampleStream, which the pipeline implements:    *)
(* what the actors do with their queue, tasks and signals is to admit, use  *)
(* or lose a sample, to update the weights, or nothing; a task that raises  *)
(* breaks the stream, and from then on samples may be abandoned.            *)

NoEnd(q) == \A i \in DOMAIN q : q[i] # None

EndAt(q, k) == /\ k \in DOMAIN q
               /\ q[k] = None
               /\ \A i \in DOMAIN q : i # k => q[i] # None

Ending == pc \in {"exit", "stopping", "stopped"}

\* What is left of the tasks when the end signal is sent: none, unless one
\* raised; and then fewer than the queue has places.
FewTasksLeft == /\ failed <= failures
                /\ Ending => /\ generating < MaxRequired
                             /\ failures = 0 => generating = 0

\* The tasks that are left cannot drop the end signal off a full queue.
EndWaits == \E k \in DOMAIN queue :
                /\ EndAt(queue, k)
                /\ Len(queue) - k + generating < MaxRequired
                /\ failures = 0 => k = Len(queue)

\* The end signal reaches the trainer, which stops at it.
EndOrder == /\ EndSent = 0 => NoEnd(queue) /\ ~final
            /\ EndQueued => EndWaits
            /\ final => tpc # "collect" /\ (failures = 0 => queue = <<>>)
            /\ tpc = "stopped" => final

StepCount == trained = version * Trigger + local - 1

StreamInv == FewTasksLeft /\ EndOrder /\ StepCount

LEMMA InitStream == Init => StreamInv
<1> SUFFICES ASSUME Init PROVE StreamInv OBVIOUS
<1>1. FewTasksLeft BY DEF Init, RolloutInit, FewTasksLeft, Ending
<1>2. EndOrder
  BY DEF Init, QueueInit, RolloutInit, TrainInit, EndOrder, EndSent, EndQueued, NoEnd, final
<1>3. StepCount BY SizesPositive DEF Init, TrainInit, StepCount
<1>4. QED BY <1>1, <1>2, <1>3 DEF StreamInv

LEMMA Counts ==
    ASSUME TypeOK
    PROVE  /\ Len(queue) \in Nat /\ Len(batch) \in Nat /\ generating \in Nat
           /\ failed \in Nat /\ failures \in Nat
           /\ version \in Nat /\ trained \in Nat /\ local \in 1 .. Trigger
           /\ MaxRequired \in Nat \ {0} /\ Required \in Nat \ {0} /\ Trigger \in Nat \ {0}
           /\ MaxQueueSize = MaxRequired
           /\ EndSent \in {0, 1} /\ Held \in {0, 1}
BY LengthIsNat, SizesPositive, CapacityAssumption
   DEF TypeOK, RolloutTypeOK, TrainTypeOK, EndSent, Held

-----------------------------------------------------------------------------
(* The queue.                                                              *)

(* What a put does to the length of the queue, and where it leaves what was *)
(* there: one place further to the front when the queue was full.           *)
LEMMA PutShifts ==
    ASSUME QueueTypeOK, NEW s \in Nat \cup {None}, PutSample(s)
    PROVE  /\ Len(queue) \in Nat /\ Len(queue') \in Nat \ {0}
           /\ Len(queue') = IF Full THEN Len(queue) ELSE Len(queue) + 1
           /\ Full => Len(queue) = MaxRequired
           /\ queue'[Len(queue')] = s
           /\ \A i \in DOMAIN queue' : i # Len(queue') =>
                  LET j == IF Full THEN i + 1 ELSE i
                  IN  j \in DOMAIN queue /\ queue'[i] = queue[j]
           /\ DOMAIN queue' = 1 .. Len(queue') /\ DOMAIN queue = 1 .. Len(queue)
<1> DEFINE base == IF Full THEN Tail(queue) ELSE queue
<1>1. /\ queue \in Seq(Nat \cup {None}) /\ Len(queue) <= MaxRequired
      /\ Full => Len(queue) >= MaxRequired
      /\ MaxRequired \in Nat \ {0}
  BY SizesPositive, CapacityAssumption DEF QueueTypeOK, Full
<1>2. Full => queue # <<>> /\ Len(queue) = MaxRequired BY <1>1
<1>3. /\ base \in Seq(Nat \cup {None})
      /\ Len(base) = IF Full THEN Len(queue) - 1 ELSE Len(queue)
      /\ \A i \in DOMAIN base : LET j == IF Full THEN i + 1 ELSE i
                                IN  j \in DOMAIN queue /\ base[i] = queue[j]
  <2>1. CASE ~Full BY <1>1, <2>1
  <2>2. CASE Full
    <3>1. /\ Tail(queue) \in Seq(Nat \cup {None}) /\ Len(Tail(queue)) = Len(queue) - 1
          /\ \A i \in DOMAIN Tail(queue) : i + 1 \in DOMAIN queue /\ Tail(queue)[i] = queue[i + 1]
      BY <1>1, <1>2, <2>2
    <3>2. QED BY <2>2, <3>1
  <2>3. QED BY <2>1, <2>2
<1>4. queue' = Append(base, s) BY DEF PutSample
<1> HIDE DEF base
<1>5. /\ queue' \in Seq(Nat \cup {None}) /\ Len(queue') = Len(base) + 1
      /\ Len(base) \in Nat
      /\ queue'[Len(base) + 1] = s
      /\ \A i \in DOMAIN queue' : i # Len(base) + 1 => i \in DOMAIN base /\ queue'[i] = base[i]
  BY <1>3, <1>4
<1>6. /\ DOMAIN queue' = 1 .. Len(queue') /\ DOMAIN queue = 1 .. Len(queue)
      /\ Len(queue) \in Nat /\ Len(queue') \in Nat \ {0}
  BY <1>1, <1>5
<1>7. Len(queue') = IF Full THEN Len(queue) ELSE Len(queue) + 1
  <2>1. CASE Full
    <3>1. Len(base) = Len(queue) - 1 /\ Len(queue') = Len(base) + 1 BY <1>3, <1>5, <2>1
    <3>2. QED BY <1>6, <2>1, <3>1
  <2>2. CASE ~Full BY <1>3, <1>5, <2>2
  <2>3. QED BY <2>1, <2>2
<1>8. \A i \in DOMAIN queue' : i # Len(queue') =>
          LET j == IF Full THEN i + 1 ELSE i
          IN  j \in DOMAIN queue /\ queue'[i] = queue[j]
  BY <1>3, <1>5
<1>9. QED BY <1>2, <1>5, <1>6, <1>7, <1>8

(* A sample joins the queue: none drops the end signal, because fewer tasks *)
(* than places are left when it is put.                                     *)
LEMMA PutKeepsEnd ==
    ASSUME QueueTypeOK, NEW s \in Nat, PutSample(s), generating \in Nat, generating > 0,
           generating' = generating - 1, failures' = failures, EndWaits, failures # 0
    PROVE  EndWaits'
<1>1. PICK k \in DOMAIN queue :
          /\ EndAt(queue, k)
          /\ Len(queue) - k + generating < MaxRequired
  BY DEF EndWaits
<1>2. /\ Len(queue) \in Nat /\ Len(queue') \in Nat \ {0}
      /\ Len(queue') = IF Full THEN Len(queue) ELSE Len(queue) + 1
      /\ Full => Len(queue) = MaxRequired
      /\ queue'[Len(queue')] = s
      /\ \A i \in DOMAIN queue' : i # Len(queue') =>
             LET j == IF Full THEN i + 1 ELSE i
             IN  j \in DOMAIN queue /\ queue'[i] = queue[j]
      /\ DOMAIN queue' = 1 .. Len(queue') /\ DOMAIN queue = 1 .. Len(queue)
  BY PutShifts
<1>3. s # None BY SizesPositive
<1>4. CASE ~Full
  <2>1. EndAt(queue', k) BY <1>1, <1>2, <1>3, <1>4 DEF EndAt
  <2>2. Len(queue') - k + generating' < MaxRequired
    <3>1. k \in 1 .. Len(queue) /\ Len(queue) \in Nat BY <1>2
    <3>2. Len(queue') = Len(queue) + 1 BY <1>2, <1>4
    <3>3. MaxRequired \in Nat /\ k \in Nat BY <3>1, SizesPositive
    <3>4. QED BY <1>1, <3>1, <3>2, <3>3
  <2>3. QED BY <2>1, <2>2 DEF EndWaits, EndAt
<1>5. CASE Full
  <2>1. k > 1 /\ k - 1 \in DOMAIN queue' /\ k - 1 # Len(queue')
    BY <1>1, <1>2, <1>5, SizesPositive
  <2>2. EndAt(queue', k - 1)
    <3>1. queue'[k - 1] = None BY <1>1, <1>2, <1>5, <2>1 DEF EndAt
    <3>2. ASSUME NEW i \in DOMAIN queue', i # k - 1 PROVE queue'[i] # None
      <4>1. CASE i = Len(queue') BY <1>2, <1>3, <4>1
      <4>2. CASE i # Len(queue')
        <5>1. i + 1 \in DOMAIN queue /\ queue'[i] = queue[i + 1] BY <1>2, <1>5, <4>2
        <5>2. i + 1 # k BY <1>2, <3>2, <2>1
        <5>3. QED BY <1>1, <5>1, <5>2 DEF EndAt
      <4>3. QED BY <4>1, <4>2
    <3>3. QED BY <2>1, <3>1, <3>2 DEF EndAt
  <2>3. Len(queue') - (k - 1) + generating' < MaxRequired
    BY <1>1, <1>2, <1>5, <2>1, SizesPositive
  <2>4. QED BY <2>1, <2>2, <2>3 DEF EndWaits
<1>6. QED BY <1>4, <1>5

LEMMA PutSampleEnds ==
    ASSUME QueueTypeOK, NEW s \in Nat \cup {None}, PutSample(s), NoEnd(queue)
    PROVE  /\ s # None => NoEnd(queue')
           /\ s = None => EndAt(queue', Len(queue'))
<1>1. /\ Len(queue') \in Nat \ {0} /\ queue'[Len(queue')] = s
      /\ \A i \in DOMAIN queue' : i # Len(queue') => \E j \in DOMAIN queue : queue'[i] = queue[j]
      /\ DOMAIN queue' = 1 .. Len(queue')
  BY PutShifts
<1>2. \A i \in DOMAIN queue' : i # Len(queue') => queue'[i] # None BY <1>1 DEF NoEnd
<1>3. QED BY <1>1, <1>2 DEF NoEnd, EndAt

LEMMA TakeEnds ==
    ASSUME QueueTypeOK, TakeSample
    PROVE  /\ NoEnd(queue) => Head(queue) # None /\ NoEnd(queue')
           /\ \A k \in DOMAIN queue : EndAt(queue, k) =>
                  /\ Head(queue) = None => k = 1 /\ (k = Len(queue) => queue' = <<>>)
                  /\ Head(queue) # None =>
                         k > 1 /\ k - 1 \in DOMAIN queue' /\ EndAt(queue', k - 1)
<1>1. queue \in Seq(Nat \cup {None}) /\ queue # <<>> /\ queue' = Tail(queue)
  BY DEF QueueTypeOK, TakeSample
<1>2. /\ queue' \in Seq(Nat \cup {None}) /\ Len(queue') = Len(queue) - 1
      /\ Len(queue) \in Nat /\ Len(queue) > 0 /\ Head(queue) = queue[1]
      /\ \A i \in DOMAIN queue' : i + 1 \in DOMAIN queue /\ queue'[i] = queue[i + 1]
      /\ DOMAIN queue' = 1 .. Len(queue') /\ DOMAIN queue = 1 .. Len(queue)
  BY <1>1
<1>3. NoEnd(queue) => Head(queue) # None /\ NoEnd(queue') BY <1>2 DEF NoEnd
<1>4. ASSUME NEW k \in DOMAIN queue, EndAt(queue, k), Head(queue) = None
      PROVE  k = 1 /\ (k = Len(queue) => queue' = <<>>)
  <2>1. k = 1 BY <1>2, <1>4 DEF EndAt
  <2>2. k = Len(queue) => Len(queue') = 0 BY <1>2, <2>1
  <2>3. QED BY <1>2, <2>1, <2>2
<1>5. ASSUME NEW k \in DOMAIN queue, EndAt(queue, k), Head(queue) # None
      PROVE  k > 1 /\ k - 1 \in DOMAIN queue' /\ EndAt(queue', k - 1)
  <2>1. k > 1 /\ k - 1 \in DOMAIN queue' BY <1>2, <1>5 DEF EndAt
  <2>2. queue'[k - 1] = None BY <1>2, <1>5, <2>1 DEF EndAt
  <2>3. ASSUME NEW i \in DOMAIN queue', i # k - 1 PROVE queue'[i] # None
    <3>1. i + 1 \in DOMAIN queue /\ i + 1 # k /\ queue'[i] = queue[i + 1]
      BY <1>2, <2>1, <2>3
    <3>2. QED BY <1>5, <3>1 DEF EndAt
  <2>4. QED BY <2>1, <2>2, <2>3 DEF EndAt
<1>6. QED BY <1>3, <1>4, <1>5

-----------------------------------------------------------------------------
(* Every step keeps StreamInv and maps to a step of the stream.            *)

EndCount == IF EndQueued THEN 1 ELSE 0
ahead == InFlight + Held - EndCount
used == trained * Required + Len(batch)
broken == failures > 0

\* What a step does to the stream.
Maps == \/ ahead <= MaxRequired /\ ahead' = ahead + 1 /\ UNCHANGED <<used, version, broken>>
        \/ /\ ahead > 0 /\ used < PerVersion * (version + 1)
           /\ ahead' = ahead - 1 /\ used' = used + 1 /\ UNCHANGED <<version, broken>>
        \/ /\ ahead >= MaxRequired /\ ahead > 0
           /\ ahead' = ahead - 1 /\ UNCHANGED <<used, version, broken>>
        \/ /\ ahead > 0 /\ ahead' = ahead - 1 /\ broken' = TRUE /\ UNCHANGED <<used, version>>
        \/ /\ broken /\ ahead' \in 0 .. ahead /\ UNCHANGED <<used, version, broken>>
        \/ /\ used = PerVersion * (version + 1)
           /\ version' = version + 1 /\ UNCHANGED <<ahead, used, broken>>
        \/ UNCHANGED <<ahead, used, version, broken>>

StepOK == StreamInv' /\ Maps

(* The end signal is an element of the queue it is counted in.              *)
LEMMA AheadOf ==
    ASSUME TypeOK, StreamInv
    PROVE  /\ EndCount \in {0, 1} /\ (EndCount = 1 => EndQueued /\ EndWaits /\ Len(queue) > 0)
           /\ ahead = Len(queue) + generating + Held - EndCount
           /\ ahead \in Nat
<1>1. EndCount \in {0, 1} /\ (EndCount = 1 => EndQueued) BY DEF EndCount
<1>2. ASSUME EndQueued PROVE EndWaits /\ Len(queue) > 0
  <2>1. EndWaits BY <1>2 DEF StreamInv, EndOrder
  <2>2. PICK k \in DOMAIN queue : EndAt(queue, k) BY <2>1 DEF EndWaits
  <2>3. queue \in Seq(Nat \cup {None}) BY DEF TypeOK, QueueTypeOK
  <2>4. QED BY <2>1, <2>2, <2>3
<1>3. ahead = Len(queue) + generating + Held - EndCount BY DEF ahead, InFlight
<1>4. ahead \in Nat
  <2>1. /\ Len(queue) \in Nat /\ generating \in Nat /\ Held \in Nat
    BY Counts
  <2>2. EndCount = 1 => Len(queue) > 0 BY <1>1, <1>2
  <2>3. QED BY <1>1, <1>3, <2>1, <2>2
<1>5. QED BY <1>1, <1>2, <1>3, <1>4

(* The steps that leave the stream alone.                                   *)
LEMMA Stutters ==
    ASSUME StreamInv, UNCHANGED <<queue, generating, failures, batch, trained, local, version,
                                  phase>>,
           Held' = Held, EndSent' = EndSent, failed' <= failures,
           phase = "final" /\ tpc # "collect" => tpc' # "collect",
           tpc' = "stopped" => tpc = "stopped" \/ final,
           Ending' => generating < MaxRequired /\ (failures = 0 => generating = 0)
    PROVE  StepOK
<1>1. FewTasksLeft' BY DEF FewTasksLeft
<1>2. (EndQueued' <=> EndQueued) /\ (final' <=> final) BY DEF EndQueued, final
<1>3. EndWaits' <=> EndWaits BY DEF EndWaits, EndAt
<1>4. EndOrder' BY <1>2, <1>3 DEF StreamInv, EndOrder, NoEnd, final
<1>5. StepCount' BY DEF StreamInv, StepCount
<1>6. ahead' = ahead /\ used' = used /\ broken' = broken
  BY <1>2 DEF ahead, InFlight, EndCount, used, broken
<1>7. QED BY <1>1, <1>4, <1>5, <1>6 DEF StepOK, StreamInv, Maps

LEMMA TaskSteps ==
    ASSUME TypeOK, AccountingInv, StreamInv, FeedSample \/ Tasks, UNCHANGED trainVars
    PROVE  StepOK
<1>0. FewTasksLeft /\ EndOrder /\ StepCount /\ QueueTypeOK BY DEF StreamInv, TypeOK
<1>1. CASE FeedSample \/ TaskDone
  BY <1>0, <1>1, Stutters DEF FeedSample, TaskDone, Held, EndSent, FewTasksLeft, Ending
<1>2. CASE TaskFails
  <2>1. /\ generating > 0 /\ generating' = generating - 1
        /\ failed' = failed + 1 /\ failures' = failures + 1
        /\ UNCHANGED <<queue, pc, batch, trained, local, version, phase, tpc>>
    BY <1>2 DEF TaskFails
  <2>2. /\ EndSent' = EndSent /\ Held' = Held /\ (final' <=> final)
        /\ (EndQueued' <=> EndQueued) /\ (Ending' <=> Ending) /\ failures' # 0
        /\ generating \in Nat /\ failed \in Nat /\ failures \in Nat
        /\ MaxRequired \in Nat /\ Len(queue) \in Nat
    BY <2>1, Counts DEF EndSent, Held, final, EndQueued, Ending
  <2>3. FewTasksLeft' BY <1>0, <2>1, <2>2 DEF FewTasksLeft
  <2>4. EndQueued => EndWaits'
    <3> SUFFICES ASSUME EndQueued PROVE EndWaits' OBVIOUS
    <3>1. PICK k \in DOMAIN queue :
             EndAt(queue, k) /\ Len(queue) - k + generating < MaxRequired
      BY <1>0 DEF EndOrder, EndWaits
    <3>2. k \in Nat BY <1>0 DEF QueueTypeOK
    <3>3. Len(queue) - k + generating' < MaxRequired BY <2>1, <2>2, <3>1, <3>2
    <3>4. QED BY <2>1, <2>2, <3>1, <3>3 DEF EndWaits, EndAt
  <2>5. EndOrder' BY <1>0, <2>1, <2>2, <2>4 DEF EndOrder, NoEnd
  <2>6. StreamInv' BY <1>0, <2>1, <2>3, <2>5 DEF StreamInv, StepCount
  <2>7. ahead > 0 /\ ahead' = ahead - 1
    <3>1. ahead' = Len(queue) + generating' + Held - EndCount
      BY <2>1, <2>2 DEF ahead, InFlight, EndCount
    <3>2. /\ EndCount \in {0, 1} /\ (EndCount = 1 => Len(queue) > 0)
          /\ ahead = Len(queue) + generating + Held - EndCount
      BY AheadOf
    <3>3. Held \in Nat BY Counts
    <3>4. QED BY <2>1, <2>2, <3>1, <3>2, <3>3
  <2>8. broken' = TRUE /\ used' = used BY <2>1, <2>2 DEF broken, used
  <2>9. QED BY <2>1, <2>6, <2>7, <2>8 DEF StepOK, Maps
<1>3. CASE TaskPut
  <2>1. /\ UNCHANGED <<pc, failed, failures, batch, trained, local, version, phase, tpc>>
        /\ generating > 0 /\ generating' = generating - 1
        /\ weights \in Nat /\ PutSample(weights)
    BY <1>3 DEF TaskPut, TypeOK, RolloutTypeOK
  <2>2. /\ EndSent' = EndSent /\ Held' = Held /\ (final' <=> final)
        /\ (EndQueued' <=> EndQueued) /\ (Ending' <=> Ending)
        /\ generating \in Nat /\ failures \in Nat
        /\ MaxRequired \in Nat /\ Len(queue) \in Nat
    BY <2>1, Counts DEF EndSent, Held, final, EndQueued, Ending
  <2>3. FewTasksLeft' BY <1>0, <2>1, <2>2 DEF FewTasksLeft
  <2>4. ASSUME failures = 0 PROVE ~Ending /\ EndSent = 0 /\ ~final /\ ~EndQueued
    <3>1. ~Ending BY <1>0, <2>1, <2>4 DEF FewTasksLeft
    <3>2. EndSent = 0 BY <3>1 DEF EndSent, Ending
    <3>3. QED BY <1>0, <3>1, <3>2 DEF EndOrder, EndQueued
  <2>5. EndQueued => EndWaits' BY <1>0, <2>1, <2>2, <2>4, PutKeepsEnd DEF EndOrder
  <2>6. EndSent = 0 => NoEnd(queue') BY <1>0, <2>1, PutSampleEnds, SizesPositive DEF EndOrder
  <2>7. EndOrder' BY <1>0, <2>1, <2>2, <2>4, <2>5, <2>6 DEF EndOrder
  <2>8. StreamInv' BY <1>0, <2>1, <2>3, <2>7 DEF StreamInv, StepCount
  <2>9. /\ ahead = Len(queue) + generating + Held - EndCount
        /\ ahead' = Len(queue') + generating' + Held - EndCount
        /\ EndCount \in {0, 1} /\ Held \in {0, 1}
        /\ used' = used /\ broken' = broken
    BY <2>1, <2>2, Counts, AheadOf DEF ahead, InFlight, EndCount, used, broken
  <2>10. /\ Len(queue') = IF Full THEN Len(queue) ELSE Len(queue) + 1
         /\ Full => Len(queue) = MaxRequired
    BY <1>0, <2>1, PutShifts
  <2>11. Maps
    <3>1. CASE Full
      <4>1. ahead' = ahead - 1 /\ ahead >= MaxRequired /\ ahead > 0
        BY <2>1, <2>2, <2>9, <2>10, <3>1, Counts
      <4>2. QED BY <2>1, <2>9, <4>1 DEF Maps
    <3>2. CASE ~Full
      <4>1. ahead' = ahead BY <2>1, <2>2, <2>9, <2>10, <3>2
      <4>2. QED BY <2>1, <2>9, <4>1 DEF Maps
    <3>3. QED BY <3>1, <3>2
  <2>12. QED BY <2>8, <2>11 DEF StepOK
<1>4. QED BY <1>1, <1>2, <1>3 DEF Tasks

(* A task that raised, or the end of the tasks, ends the processor: fewer   *)
(* tasks are left than the queue has places.                                *)
LEMMA LeavesFew ==
    ASSUME TypeOK, ConcurrencyBounded
    PROVE  /\ failed > 0 => generating < MaxRequired
           /\ ActiveTasks = 0 => generating = 0
<1>1. MaxConcurrent \in Nat /\ MaxConcurrent <= MaxRequired
  BY SlotsPositive, SizesPositive, RolloutAssumption DEF MaxConcurrent
<1>2. generating \in Nat /\ replying \in Nat /\ finished \in Nat /\ failed \in Nat
  BY DEF TypeOK, RolloutTypeOK
<1>3. QED BY <1>1, <1>2, SizesPositive DEF ConcurrencyBounded, ActiveTasks

LEMMA ProcessorSteps ==
    ASSUME TypeOK, AccountingInv, ConcurrencyBounded, StreamInv, Processor, UNCHANGED trainVars
    PROVE  StepOK
<1>0. /\ FewTasksLeft /\ EndOrder /\ StepCount /\ QueueTypeOK /\ failed <= failures
      /\ failed \in Nat /\ failures \in Nat
      /\ Ending => generating < MaxRequired /\ (failures = 0 => generating = 0)
      /\ UNCHANGED <<batch, trained, local, version, phase, tpc>>
  BY Counts DEF StreamInv, FewTasksLeft, TypeOK
<1>1. CASE Check \/ Resumed \/ ReadSize \/ Decide \/ Pause
  BY <1>0, <1>1, Stutters DEF Check, Resumed, Goto, ReadSize, Decide, Pause, Held, EndSent, Ending
<1>2. CASE DrainTasks \/ FinishWait \/ (LimitWait /\ failed = 0)
  <2>1. /\ UNCHANGED <<queue, generating, failures>> /\ failed' \in Nat /\ failed' <= failed
        /\ \/ pc = "drain" /\ pc' \in {"drain", "exit"}
           \/ pc = "finishWait" /\ pc' \in {"finish", "exit"}
           \/ pc = "limitWait" /\ pc' = "limit"
        /\ pc' = "exit" => failed > 0
    <3>1. CASE DrainTasks
      <4>1. PICK d \in 0 .. finished, e \in {0, 1} : e <= failed /\ Collect(d, e, "drain")
        BY <3>1 DEF DrainTasks
      <4>2. QED BY <1>0, <3>1, <4>1 DEF DrainTasks, Collect
    <3>2. CASE FinishWait BY <1>0, <3>2 DEF FinishWait, Collect
    <3>3. CASE LimitWait /\ failed = 0 BY <1>0, <3>3 DEF LimitWait, LimitWaitThen, Collect
    <3>4. QED BY <1>2, <3>1, <3>2, <3>3
  <2>2. Held' = Held /\ EndSent' = EndSent /\ failed' <= failures
    BY <1>0, <2>1 DEF Held, EndSent
  <2>3. Ending' => generating < MaxRequired /\ (failures = 0 => generating = 0)
    BY <1>0, <2>1, LeavesFew DEF Ending
  <2>4. QED BY <1>0, <2>1, <2>2, <2>3, Stutters
<1>8. CASE LimitWait /\ failed > 0
  <2>1. /\ pc = "limitWait" /\ pc' = "exit" /\ failed' = 0
        /\ UNCHANGED <<queue, generating, failures>>
    BY <1>0, <1>8 DEF LimitWait, LimitWaitThen, Collect
  <2>2. /\ EndSent = 0 /\ EndSent' = 0 /\ (final' <=> final) /\ ~EndQueued /\ ~EndQueued'
        /\ Held = 1 /\ Held' = 0 /\ failures > 0
    BY <1>0, <1>8, <2>1 DEF EndSent, final, EndQueued, Held
  <2>3. FewTasksLeft' BY <1>0, <1>8, <2>1, <2>2, LeavesFew DEF FewTasksLeft
  <2>4. EndOrder' BY <1>0, <2>1, <2>2 DEF EndOrder, NoEnd
  <2>5. StreamInv' BY <1>0, <2>3, <2>4 DEF StreamInv, StepCount
  <2>6. ahead' = ahead - 1 /\ ahead > 0
    <3>1. ahead = Len(queue) + generating + 1 - 0 BY <2>2 DEF ahead, InFlight, EndCount
    <3>2. ahead' = Len(queue) + generating + 0 - 0 BY <2>1, <2>2 DEF ahead, InFlight, EndCount
    <3>3. QED BY <3>1, <3>2, Counts
  <2>7. used' = used /\ broken /\ broken' = broken BY <1>0, <2>1, <2>2 DEF used, broken
  <2>8. ahead' \in 0 .. ahead BY <2>6, AheadOf
  <2>9. QED BY <1>0, <2>5, <2>7, <2>8 DEF StepOK, Maps
<1>3. CASE CheckLimit \/ StopRunning
  BY <1>0, <1>3, Stutters DEF CheckLimit, SubmitBelow, Goto, StopRunning, Held, EndSent, Ending
<1>4. CASE Finish
  <2>1. /\ UNCHANGED <<queue, generating, failed, failures>> /\ pc = "finish"
        /\ pc' \in {"exit", "finishWait"} /\ (pc' = "exit" => ActiveTasks = 0)
    BY <1>4 DEF Finish, Goto
  <2>2. Ending' => generating < MaxRequired /\ (failures = 0 => generating = 0)
    BY <2>1, LeavesFew, SizesPositive DEF Ending
  <2>3. Held' = Held /\ EndSent' = EndSent BY <2>1 DEF Held, EndSent
  <2>4. QED BY <1>0, <2>1, <2>2, <2>3, Stutters
<1>5. CASE GetPending
  <2>1. /\ pc = "get" /\ pc' \in {"limit", "finish"}
        /\ UNCHANGED <<queue, generating, failed, failures>>
    BY <1>5 DEF GetPending
  <2>2. /\ EndSent = 0 /\ EndSent' = 0 /\ ~EndQueued /\ ~EndQueued' /\ (final' <=> final)
        /\ ~Ending'
    BY <1>0, <2>1 DEF EndSent, EndQueued, final, Ending
  <2>3. StreamInv'
    BY <1>0, <2>1, <2>2 DEF StreamInv, FewTasksLeft, EndOrder, StepCount, NoEnd
  <2>4. /\ InFlight <= MaxRequired /\ InFlight' = InFlight /\ InFlight \in Nat
        /\ Held = 0 /\ Held' \in {0, 1} /\ EndCount = 0 /\ EndCount' = 0 /\ used' = used
        /\ broken' = broken
    <3>1. InFlight <= MaxRequired BY <2>1 DEF AccountingInv
    <3>2. InFlight' = InFlight /\ InFlight \in Nat BY <2>1, Counts DEF InFlight
    <3>3. Held = 0 /\ Held' \in {0, 1} BY <2>1 DEF Held
    <3>4. EndCount = 0 /\ EndCount' = 0 BY <2>2 DEF EndCount
    <3>5. used' = used /\ broken' = broken BY <1>0, <2>1 DEF used, broken
    <3>6. QED BY <3>1, <3>2, <3>3, <3>4, <3>5
  <2>5. ahead = InFlight /\ ahead' \in {InFlight, InFlight + 1}
    <3>1. ahead = InFlight + 0 - 0 BY <2>4 DEF ahead
    <3>2. ahead' = InFlight + Held' - 0 BY <2>4 DEF ahead
    <3>3. CASE Held' = 0 BY <2>4, <3>1, <3>2, <3>3
    <3>4. CASE Held' = 1 BY <2>4, <3>1, <3>2, <3>4
    <3>5. QED BY <2>4, <3>3, <3>4
  <2>6. QED BY <1>0, <2>3, <2>4, <2>5 DEF StepOK, Maps
<1>6. CASE Submit
  <2>1. /\ pc = "submit" /\ pc' = "check" /\ generating' = generating + 1
        /\ UNCHANGED <<queue, failed, failures>>
    BY <1>6 DEF Submit
  <2>2. /\ EndSent = 0 /\ EndSent' = 0 /\ ~EndQueued /\ ~EndQueued' /\ (final' <=> final)
        /\ ~Ending'
    BY <1>0, <2>1 DEF EndSent, EndQueued, final, Ending
  <2>3. StreamInv'
    BY <1>0, <2>1, <2>2 DEF StreamInv, FewTasksLeft, EndOrder, StepCount, NoEnd
  <2>4. ahead' = ahead /\ used' = used /\ broken' = broken
    BY <1>0, <2>1, <2>2, Counts DEF ahead, InFlight, Held, EndCount, used, broken
  <2>5. QED BY <1>0, <2>3, <2>4 DEF StepOK, Maps
<1>7. CASE PutEnd
  <2>1. /\ pc = "exit" /\ pc' = "stopping" /\ Ending /\ Ending'
        /\ UNCHANGED <<generating, failed, failures>>
        /\ PutSample(None)
    BY <1>0, <1>7 DEF PutEnd, Ending
  <2>2. EndSent = 0 /\ EndSent' = 1 /\ ~final /\ ~final' /\ NoEnd(queue)
    BY <1>0, <2>1 DEF EndSent, EndOrder, final
  <2>3. /\ Len(queue) \in Nat /\ Len(queue') \in Nat \ {0}
        /\ Len(queue') = IF Full THEN Len(queue) ELSE Len(queue) + 1
        /\ Full => Len(queue) = MaxRequired
    BY <1>0, <2>1, PutShifts
  <2>4. EndWaits'
    <3>1. EndAt(queue', Len(queue')) BY <1>0, <2>1, <2>2, PutSampleEnds
    <3>2. Len(queue') - Len(queue') + generating' < MaxRequired
      BY <1>0, <2>1, <2>3, Counts DEF FewTasksLeft
    <3>3. QED BY <3>1, <3>2 DEF EndWaits, EndAt
  <2>5. StreamInv'
    <3>1. FewTasksLeft' BY <1>0, <2>1 DEF FewTasksLeft
    <3>2. EndOrder' BY <1>0, <2>2, <2>4 DEF EndOrder
    <3>3. QED BY <1>0, <3>1, <3>2 DEF StreamInv, StepCount
  <2>6. /\ ahead = Len(queue) + generating /\ ahead' = Len(queue') + generating - 1
        /\ used' = used /\ broken' = broken
    <3>1. EndCount = 0 /\ EndCount' = 1 BY <2>2 DEF EndCount, EndQueued
    <3>2. Held = 0 /\ Held' = 0 BY <2>1 DEF Held
    <3>3. ahead = Len(queue) + generating + 0 - 0 /\ ahead' = Len(queue') + generating + 0 - 1
      BY <2>1, <3>1, <3>2 DEF ahead, InFlight
    <3>4. used' = used /\ broken' = broken BY <1>0, <2>1 DEF used, broken
    <3>5. generating \in Nat BY Counts
    <3>6. QED BY <2>3, <3>3, <3>4, <3>5
  <2>7. Maps
    <3>1. CASE Full
      <4>1. ahead' = ahead - 1 /\ ahead >= MaxRequired /\ ahead > 0
        BY <2>3, <2>6, <3>1, Counts
      <4>2. QED BY <1>0, <2>6, <4>1 DEF Maps
    <3>2. CASE ~Full
      <4>1. ahead' = ahead BY <2>3, <2>6, <3>2, Counts
      <4>2. QED BY <1>0, <2>6, <4>1 DEF Maps
    <3>3. QED BY <3>1, <3>2
  <2>8. QED BY <2>5, <2>7 DEF StepOK
<1>9. LimitWait => failed = 0 \/ failed > 0 BY <1>0
<1>10. QED BY <1>1, <1>2, <1>3, <1>4, <1>5, <1>6, <1>7, <1>8, <1>9 DEF Processor

LEMMA TrainerSteps ==
    ASSUME TypeOK, AccountingInv, StreamInv, TrainerStep
    PROVE  StepOK
<1>0. FewTasksLeft /\ EndOrder /\ StepCount /\ QueueTypeOK BY DEF StreamInv, TypeOK
<1>1. CASE CollectSample
  <2>1. /\ tpc = "collect" /\ tpc' = "collect" /\ ~final
        /\ TakeSample /\ Head(queue) # None /\ Len(batch) < Required
        /\ batch' = Append(batch, Head(queue))
        /\ UNCHANGED <<generating, failed, failures, pc, local, version, trained, phase>>
    BY <1>0, <1>1 DEF CollectSample, EndOrder
  <2>2. EndSent \in {0, 1} /\ EndSent' = EndSent /\ final' = final /\ EndQueued' = EndQueued
        /\ Ending' = Ending
    BY <2>1 DEF EndSent, final, EndQueued, Ending
  <2>3. Len(queue') = Len(queue) - 1 /\ Len(queue) > 0
    BY <1>0, <2>1, TakeKeepsType DEF TakeSample, QueueTypeOK
  <2>4. EndSent = 0 => NoEnd(queue') BY <1>0, <2>1, TakeEnds DEF EndOrder
  <2>5. EndQueued => EndWaits' /\ Len(queue) > 1
    <3> SUFFICES ASSUME EndQueued PROVE EndWaits' /\ Len(queue) > 1 OBVIOUS
    <3>1. PICK k \in DOMAIN queue :
             /\ EndAt(queue, k)
             /\ Len(queue) - k + generating < MaxRequired
             /\ failures = 0 => k = Len(queue)
      BY <1>0 DEF EndOrder, EndWaits
    <3>2. /\ k > 1 /\ k \in 1 .. Len(queue) /\ Len(queue) \in Nat
          /\ k - 1 \in DOMAIN queue' /\ EndAt(queue', k - 1)
      BY <1>0, <2>1, <3>1, TakeEnds DEF QueueTypeOK
    <3>3. Len(queue') - (k - 1) + generating' < MaxRequired
      BY <2>1, <2>3, <3>1, <3>2, Counts
    <3>4. failures' = 0 => k - 1 = Len(queue') BY <2>1, <2>3, <3>1, <3>2
    <3>5. QED BY <3>2, <3>3, <3>4 DEF EndWaits
  <2>6. StreamInv'
    <3>1. FewTasksLeft' BY <1>0, <2>1, <2>2 DEF FewTasksLeft
    <3>2. EndOrder' BY <1>0, <2>1, <2>2, <2>4, <2>5 DEF EndOrder
    <3>3. QED BY <1>0, <2>1, <3>1, <3>2 DEF StreamInv, StepCount
  <2>7. Len(batch') = Len(batch) + 1 BY <2>1 DEF TypeOK, TrainTypeOK
  <2>8. ahead > 0 /\ ahead' = ahead - 1
    <3>1. Held' = Held /\ Held \in Nat /\ EndCount' = EndCount /\ EndCount \in {0, 1}
          /\ (EndCount = 1 => Len(queue) > 1)
      BY <2>1, <2>2, <2>5 DEF Held, EndCount
    <3>2. ahead = Len(queue) + generating + Held - EndCount
          /\ ahead' = Len(queue') + generating + Held - EndCount
      BY <2>1, <3>1 DEF ahead, InFlight
    <3>3. Len(queue) \in Nat /\ generating \in Nat BY Counts
    <3>4. QED BY <2>3, <3>1, <3>2, <3>3
  <2>9. used' = used + 1 /\ broken' = broken
    <3>1. trained * Required \in Nat /\ (trained * Required)' = trained * Required
      BY <2>1, Counts
    <3>2. QED BY <2>1, <2>7, <3>1, Counts DEF used, broken
  <2>10. used < PerVersion * (version + 1)
    <3> DEFINE r == Required  n == Trigger  v == version  l == local  b == Len(batch)
    <3>1. /\ r \in Nat /\ n \in Nat /\ v \in Nat /\ l \in Nat /\ b \in Nat
          /\ b < r /\ l <= n /\ 1 <= l /\ trained = v * n + l - 1
      BY <1>0, <2>1, Counts DEF StepCount
    <3> HIDE DEF r, n, v, l, b
    <3>2. (v * n + l - 1) * r + b < (r * n) * (v + 1)
      <4>1. (v * n + l - 1) + 1 <= n * (v + 1)
        <5>1. n * (v + 1) = v * n + n /\ v * n \in Nat BY <3>1
        <5>2. QED BY <3>1, <5>1
      <4>2. DEFINE k == v * n + l - 1
                   m == n * (v + 1)
      <4>3. k \in Nat /\ m \in Nat /\ k + 1 <= m
        <5>1. v * n \in Nat /\ n * (v + 1) \in Nat BY <3>1
        <5>2. QED BY <3>1, <4>1, <5>1
      <4>4. (r * n) * (v + 1) = r * m BY <3>1
      <4> HIDE DEF k, m
      <4>5. (k + 1) * r = k * r + r /\ (k + 1) * r <= r * m /\ k * r \in Nat BY <3>1, <4>3
      <4>6. k * r + b < r * m BY <3>1, <4>3, <4>5
      <4>7. QED BY <4>4, <4>6 DEF k
    <3>3. QED BY <3>1, <3>2 DEF used, PerVersion, r, n, v, l, b
  <2>11. QED BY <2>1, <2>6, <2>8, <2>9, <2>10 DEF StepOK, Maps
<1>2. CASE CollectEnd
  <2>1. /\ tpc = "collect" /\ tpc' \notin {"collect", "stopped"} /\ ~final /\ final'
        /\ TakeSample /\ Head(queue) = None
        /\ UNCHANGED <<generating, failed, failures, pc, batch, local, version, trained>>
    BY <1>0, <1>2 DEF CollectEnd, EndOrder, final
  <2>2. EndSent = 1 /\ EndSent' = 1 /\ EndQueued /\ ~EndQueued' /\ Ending' = Ending
    <3>1. EndSent \in {0, 1} /\ EndSent' = EndSent /\ Ending' = Ending
      BY <2>1 DEF EndSent, Ending
    <3>2. QED BY <1>0, <2>1, <3>1, TakeEnds DEF EndOrder, EndQueued
  <2>3. failures' = 0 => queue' = <<>>
    <3>1. PICK k \in DOMAIN queue : EndAt(queue, k) /\ (failures = 0 => k = Len(queue))
      BY <1>0, <2>2 DEF EndOrder, EndWaits
    <3>2. QED BY <1>0, <2>1, <3>1, TakeEnds
  <2>4. StreamInv'
    <3>1. FewTasksLeft' BY <1>0, <2>1, <2>2 DEF FewTasksLeft
    <3>2. EndOrder' BY <2>1, <2>2, <2>3 DEF EndOrder
    <3>3. QED BY <1>0, <2>1, <3>1, <3>2 DEF StreamInv, StepCount
  <2>5. Len(queue') = Len(queue) - 1 BY <1>0, <2>1, TakeKeepsType
  <2>6. EndCount = 1 /\ EndCount' = 0 /\ Held' = Held /\ Held \in Nat
    BY <2>1, <2>2 DEF EndCount, Held
  <2>7. ahead' = ahead
    <3>1. ahead = Len(queue) + generating + Held - 1
      BY <2>6 DEF ahead, InFlight
    <3>2. ahead' = Len(queue') + generating + Held - 0
      BY <2>1, <2>6 DEF ahead, InFlight
    <3>3. Len(queue) \in Nat /\ generating \in Nat BY Counts
    <3>4. QED BY <2>5, <2>6, <3>1, <3>2, <3>3
  <2>8. used' = used /\ broken' = broken BY <2>1 DEF used, broken
  <2>9. QED BY <2>1, <2>4, <2>7, <2>8 DEF StepOK, Maps
<1>3. CASE TrainStep
  <2>1. /\ tpc = "collect" /\ Len(batch) = Required /\ batch' = <<>> /\ trained' = trained + 1
        /\ \/ local < Trigger /\ local' = local + 1 /\ version' = version
           \/ local >= Trigger /\ local' = 1 /\ version' = version + 1
        /\ tpc' # "stopped"
        /\ UNCHANGED <<queue, generating, failed, failures, pc, phase>>
    BY <1>3, Counts DEF TrainStep
  <2>2. /\ ahead' = ahead /\ EndSent' = EndSent /\ final' = final /\ ~final
        /\ EndQueued' = EndQueued /\ Ending' = Ending /\ broken' = broken
    BY <1>0, <2>1 DEF ahead, InFlight, Held, EndCount, EndQueued, EndSent, final, EndOrder,
       Ending, broken
  <2>3. used' = used
    <3>1. (trained + 1) * Required = trained * Required + Required BY Counts
    <3>2. Len(batch') = 0 BY <2>1
    <3>3. QED BY <2>1, <3>1, <3>2, Counts DEF used
  <2>4. trained = version * Trigger + local - 1 BY <1>0 DEF StepCount
  <2>5. StepCount'
    <3>1. CASE local < Trigger
      <4>1. local' = local + 1 /\ version' = version BY <2>1, <3>1, Counts
      <4> DEFINE k == version * Trigger
      <4>2. k \in Nat /\ version' * Trigger = k /\ local \in Nat BY <4>1, Counts
      <4>3. trained = k + local - 1 /\ trained' = trained + 1 BY <2>1, <2>4
      <4> HIDE DEF k
      <4>4. trained' = k + (local + 1) - 1 BY <4>2, <4>3
      <4>5. QED BY <4>1, <4>2, <4>4 DEF StepCount
    <3>2. CASE local >= Trigger
      <4>1. local' = 1 /\ version' = version + 1 /\ local = Trigger BY <2>1, <3>2, Counts
      <4> DEFINE k == version * Trigger
      <4>2. k \in Nat /\ version' * Trigger = k + Trigger /\ Trigger \in Nat
        <5>1. version \in Nat /\ Trigger \in Nat BY Counts
        <5>2. QED BY <4>1, <5>1
      <4>3. trained = k + Trigger - 1 /\ trained' = trained + 1 BY <2>1, <2>4, <4>1
      <4> HIDE DEF k
      <4>4. trained' = (k + Trigger) + 1 - 1 BY <4>2, <4>3
      <4>5. QED BY <4>1, <4>2, <4>4 DEF StepCount
    <3>3. QED BY <3>1, <3>2, Counts
  <2>6. StreamInv'
    <3>1. FewTasksLeft' BY <1>0, <2>1, <2>2 DEF FewTasksLeft
    <3>2. EndWaits' = EndWaits BY <2>1 DEF EndWaits, EndAt
    <3>3. EndOrder' BY <1>0, <2>1, <2>2, <3>2 DEF EndOrder, NoEnd
    <3>4. QED BY <2>5, <3>1, <3>3 DEF StreamInv
  <2>7. CASE version' = version BY <2>2, <2>3, <2>6, <2>7 DEF StepOK, Maps
  <2>8. CASE version' = version + 1
    <3>1. local = Trigger BY <2>1, <2>8, Counts
    <3>2. used = PerVersion * (version + 1)
      <4> DEFINE r == Required  n == Trigger  v == version
      <4>1. r \in Nat /\ n \in Nat /\ v \in Nat BY Counts
      <4> HIDE DEF r, n, v
      <4>2. (v * n + n - 1) * r + r = (r * n) * (v + 1)
        <5>1. v * n \in Nat /\ (v * n + n - 1) * r + r = (v * n + n) * r BY <4>1
        <5>2. (v * n + n) * r = (r * n) * (v + 1) BY <4>1
        <5>3. QED BY <5>1, <5>2
      <4>3. QED BY <2>1, <2>4, <3>1, <4>2 DEF used, PerVersion, r, n, v
    <3>3. QED BY <2>2, <2>3, <2>6, <2>8, <3>2 DEF StepOK, Maps
  <2>9. QED BY <2>1, <2>7, <2>8
<1>4. CASE UpdateWeights \/ CallReset \/ ResetReturned \/ SaveCheckpoint
  <2>1. /\ UNCHANGED <<queue, generating, failed, failures, batch, trained, local, version,
                       phase, pc>>
        /\ phase = "final" => tpc' # "collect"
        /\ tpc' = "stopped" => tpc = "stopped" \/ final
    BY <1>4 DEF UpdateWeights, PushWeights, CallReset, ResetReturned, SaveCheckpoint, final
  <2>2. Held' = Held /\ EndSent' = EndSent /\ Ending' = Ending
    BY <2>1 DEF Held, EndSent, Ending
  <2>3. QED BY <1>0, <2>1, <2>2, Stutters DEF FewTasksLeft
<1>5. QED BY <1>1, <1>2, <1>3, <1>4 DEF TrainerStep

LEMMA NextStream ==
    ASSUME TypeOK, AccountingInv, ConcurrencyBounded, StreamInv, [Next]_vars
    PROVE  StepOK
<1>0. FewTasksLeft /\ EndOrder /\ StepCount BY DEF StreamInv
<1>1. CASE RolloutStep /\ UNCHANGED trainVars
  <2>1. CASE FeedSample \/ Tasks BY <1>1, <2>1, TaskSteps
  <2>2. CASE Processor BY <1>1, <2>2, ProcessorSteps
  <2>3. CASE Monitor \/ Reset
    <3>1. UNCHANGED <<queueVars, taskVars, pc, trainVars>>
      BY <1>1, <2>3
      DEF Monitor, MonitorWakes, MonGoto, MonitorReads, MonitorDecides, MonitorAnswered,
          MonitorResumes, Reset, ResetStarts, ResetReads, ResetEnds, ResetTo, ResetFrame
    <3>2. QED BY <1>0, <3>1, Stutters DEF Held, EndSent, FewTasksLeft, Ending
  <2>4. QED BY <1>1, <2>1, <2>2, <2>3 DEF RolloutStep
<1>2. CASE TrainerStep BY <1>2, TrainerSteps
<1>3. CASE Cleanup
  <2>1. /\ Done /\ queue # <<>> /\ queue' = <<>> /\ tpc = "stopped" /\ pc = "stopped"
        /\ UNCHANGED <<generating, failed, failures, pc, batch, trained, local, version, phase, tpc>>
    BY <1>3 DEF Cleanup, ClearQueue, Done
  <2>2. final /\ final' /\ failures # 0 /\ EndSent = 1 /\ EndSent' = 1 /\ ~EndQueued /\ ~EndQueued'
    BY <1>0, <2>1 DEF EndOrder, final, EndSent, EndQueued
  <2>3. StreamInv'
    <3>1. FewTasksLeft' BY <1>0, <2>1 DEF FewTasksLeft, Ending
    <3>2. EndOrder' BY <1>0, <2>1, <2>2 DEF EndOrder
    <3>3. QED BY <1>0, <2>1, <3>1, <3>2 DEF StreamInv, StepCount
  <2>4. ahead' \in 0 .. ahead
    <3>1. EndCount = 0 /\ EndCount' = 0 /\ Held = 0 /\ Held' = 0 /\ Len(queue') = 0
      BY <2>1, <2>2 DEF EndCount, Held
    <3>2. ahead = Len(queue) + generating + 0 - 0 /\ ahead' = 0 + generating + 0 - 0
      BY <2>1, <3>1 DEF ahead, InFlight
    <3>3. QED BY <3>2, Counts
  <2>5. used' = used /\ broken /\ broken' = broken BY <2>1, <2>2, Counts DEF used, broken
  <2>6. QED BY <2>1, <2>3, <2>4, <2>5 DEF StepOK, Maps
<1>4. CASE UNCHANGED vars
  BY <1>0, <1>4, Stutters DEF vars, Held, EndSent, FewTasksLeft, Ending
<1>5. QED BY <1>1, <1>2, <1>3, <1>4 DEF Next, Terminated

(* The pipeline implements the stream (_processor_worker, put_sample,       *)
(* _fit_update_local_step): under every version of the weights the trainer  *)
(* uses the same number of samples and the rollout starts one only within   *)
(* its budget, whatever tasks raise; and until one does, a sample is lost   *)
(* only when the budget is used up.                                         *)
THEOREM Implements == Spec => ImplementsStream
<1>1. Init => StreamInv BY InitStream
<1>2. TypeOK /\ AccountingInv /\ ConcurrencyBounded /\ StreamInv /\ [Next]_vars => StreamInv'
  BY NextStream DEF StepOK
<1>3. Spec => [](TypeOK /\ AccountingInv /\ ConcurrencyBounded /\ StreamInv)
  BY <1>1, <1>2, TypeCorrect, AccountingCorrect, ConcurrencyKept, PTL DEF Spec
<1>4. Init => Stream!StreamInit
  <2> SUFFICES ASSUME Init PROVE ahead = 0 /\ used = 0 /\ version = 0 /\ broken = FALSE
    BY DEF Stream!StreamInit, ahead, used, EndCount, broken
  <2>1. /\ queue = <<>> /\ generating = 0 /\ pc = "check" /\ batch = <<>>
        /\ trained = 0 /\ version = 0 /\ failures = 0
    BY DEF Init, QueueInit, RolloutInit, TrainInit
  <2>2. Len(queue) = 0 /\ Len(batch) = 0 BY <2>1
  <2>3. ahead = 0 BY <2>1, <2>2 DEF ahead, InFlight, Held, EndCount, EndQueued, EndSent
  <2>4. used = 0 BY <2>1, <2>2, SizesPositive DEF used
  <2>5. QED BY <2>1, <2>3, <2>4 DEF broken
<1>5. TypeOK /\ AccountingInv /\ ConcurrencyBounded /\ StreamInv /\ [Next]_vars
          => [Stream!StreamNext]_(Stream!streamVars)
  <2> SUFFICES ASSUME TypeOK, AccountingInv, ConcurrencyBounded, StreamInv, [Next]_vars
               PROVE  [Stream!StreamNext]_(Stream!streamVars)
    OBVIOUS
  <2>1. Maps BY NextStream DEF StepOK
  <2>2. QED
    BY <2>1 DEF Maps, ahead, used, EndCount, broken, Stream!StreamNext, Stream!streamVars,
       Stream!Admit, Stream!Use, Stream!Lose, Stream!Break, Stream!Abandon, Stream!Update
<1>6. QED BY <1>3, <1>4, <1>5, PTL DEF Spec, ImplementsStream, Stream!StreamSpec

-----------------------------------------------------------------------------
(* Where the samples are.                                                  *)

\* What the processor took and is nowhere else.
Missing == Admitted - Held - generating - failures - (produced - EndSent)

\* The processor loses one sample at most, when a task that raised ends it.
MissingOK == /\ Missing \in 0 .. 1
             /\ Missing = 1 => Ending /\ failures > 0
             /\ failed <= failures

\* The trainer collects until the end signal.
TakenOK == /\ consumed = trained * Required + Len(batch) + (IF final THEN 1 ELSE 0)
           /\ final => tpc # "collect"

Conserved == ~Done => produced = consumed + dropped + Len(queue)

FlowInv == MissingOK /\ TakenOK /\ Conserved

LEMMA InitFlow == Init => FlowInv
<1> SUFFICES ASSUME Init PROVE FlowInv OBVIOUS
<1>1. /\ queue = <<>> /\ produced = 0 /\ consumed = 0 /\ dropped = 0 /\ batch = <<>>
      /\ taken = 0 /\ generating = 0 /\ failed = 0 /\ failures = 0 /\ pc = "check"
      /\ trained = 0 /\ phase = "loop"
  BY DEF Init, QueueInit, RolloutInit, TrainInit
<1>2. Len(queue) = 0 /\ Len(batch) = 0 /\ Admitted = 0 /\ Held = 0 /\ EndSent = 0
  BY <1>1, SizesPositive DEF Admitted, Held, EndSent
<1>3. trained * Required = 0 BY <1>1, SizesPositive
<1>4. QED BY <1>1, <1>2, <1>3 DEF FlowInv, MissingOK, Missing, TakenOK, Conserved, final

LEMMA FlowTypes ==
    ASSUME TypeOK
    PROVE  /\ Len(queue) \in Nat /\ Len(batch) \in Nat /\ generating \in Nat
           /\ failed \in Nat /\ failures \in Nat
           /\ taken \in Nat /\ produced \in Nat /\ consumed \in Nat /\ dropped \in Nat
           /\ Total \in Nat \ {0}
           /\ Held \in {0, 1} /\ EndSent \in {0, 1} /\ Admitted \in Nat
BY Counts, SizesPositive DEF TypeOK, QueueTypeOK, RolloutTypeOK, Held, EndSent, Admitted

(* The processor's steps between its places that hold a sample, or hold     *)
(* none, and the steps of everybody else, lose nothing.                     *)
LEMMA MissingStays ==
    ASSUME TypeOK, MissingOK, UNCHANGED <<taken, generating, failures, produced>>,
           failed' \in 0 .. failed, Held' = Held, EndSent' = EndSent, Ending => Ending'
    PROVE  MissingOK'
<1>1. Missing' = Missing BY DEF Missing, Admitted
<1>2. failed' <= failures' BY FlowTypes DEF MissingOK
<1>3. QED BY <1>1, <1>2 DEF MissingOK

LEMMA TasksMissing ==
    ASSUME TypeOK, MissingOK, FeedSample \/ Tasks
    PROVE  MissingOK'
<1>0. failed \in Nat /\ failures \in Nat /\ generating \in Nat /\ produced \in Nat
      /\ Admitted \in Nat /\ Held \in {0, 1} /\ EndSent \in {0, 1}
  BY FlowTypes
<1>1. CASE FeedSample \/ TaskDone
  <2>1. UNCHANGED <<taken, generating, failures, produced, failed, pc>>
    BY <1>1 DEF FeedSample, TaskDone
  <2>2. QED BY <1>0, <2>1, MissingStays DEF Held, EndSent, Ending
<1>2. CASE TaskPut
  <2>1. /\ generating' = generating - 1 /\ produced' = produced + 1
        /\ UNCHANGED <<taken, failures, failed, pc>>
    BY <1>2 DEF TaskPut, PutSample
  <2>2. Admitted' = Admitted /\ Held' = Held /\ EndSent' = EndSent /\ (Ending' <=> Ending)
    BY <2>1 DEF Admitted, Held, EndSent, Ending
  <2>3. Missing' = Missing BY <1>0, <2>1, <2>2 DEF Missing
  <2>4. QED BY <2>1, <2>2, <2>3 DEF MissingOK
<1>3. CASE TaskFails
  <2>1. /\ generating' = generating - 1 /\ failures' = failures + 1 /\ failed' = failed + 1
        /\ UNCHANGED <<taken, produced, pc>>
    BY <1>3 DEF TaskFails
  <2>2. Admitted' = Admitted /\ Held' = Held /\ EndSent' = EndSent /\ (Ending' <=> Ending)
    BY <2>1 DEF Admitted, Held, EndSent, Ending
  <2>3. Missing' = Missing BY <1>0, <2>1, <2>2 DEF Missing
  <2>4. QED BY <1>0, <2>1, <2>2, <2>3 DEF MissingOK
<1>4. QED BY <1>1, <1>2, <1>3 DEF Tasks

LEMMA ProcessorMissing ==
    ASSUME TypeOK, MissingOK, Processor
    PROVE  MissingOK'
<1>0. failed \in Nat /\ failures \in Nat /\ generating \in Nat /\ produced \in Nat
      /\ finished \in Nat /\ taken \in Nat /\ Total \in Nat \ {0}
      /\ Admitted \in Nat /\ Held \in {0, 1} /\ EndSent \in {0, 1}
  BY FlowTypes DEF TypeOK, RolloutTypeOK
<1>1. CASE Check \/ Resumed \/ ReadSize \/ Decide \/ Pause \/ StopRunning
  <2>1. UNCHANGED <<taken, generating, failures, produced, failed>>
        /\ Held' = Held /\ EndSent' = EndSent /\ (Ending => Ending')
    BY <1>1 DEF Check, Resumed, Goto, ReadSize, Decide, Pause, StopRunning, Held, EndSent, Ending
  <2>2. QED BY <1>0, <2>1, MissingStays
<1>2. CASE DrainTasks \/ FinishWait
  <2>1. /\ UNCHANGED <<taken, generating, failures, produced>>
        /\ pc \in {"drain", "finishWait"} /\ pc' \in {"drain", "finish", "exit"}
        /\ failed' \in 0 .. failed
    BY <1>0, <1>2 DEF DrainTasks, FinishWait, Collect
  <2>2. Held' = Held /\ EndSent' = EndSent /\ ~Ending BY <2>1 DEF Held, EndSent, Ending
  <2>3. QED BY <2>1, <2>2, MissingStays
<1>3. CASE LimitWait
  <2>1. /\ UNCHANGED <<taken, generating, failures, produced>>
        /\ pc = "limitWait" /\ pc' = (IF failed > 0 THEN "exit" ELSE "limit")
        /\ failed' = 0
    BY <1>0, <1>3 DEF LimitWait, LimitWaitThen, Collect
  <2>2. CASE failed = 0
    BY <1>0, <2>1, <2>2, MissingStays DEF Held, EndSent, Ending
  <2>3. CASE failed > 0
    <3>1. pc' = "exit" /\ Ending' /\ ~Ending /\ Held = 1 /\ Held' = 0 /\ EndSent = 0 /\ EndSent' = 0
      BY <2>1, <2>3 DEF Held, EndSent, Ending
    <3>2. Missing = 0 BY <3>1 DEF MissingOK
    <3>3. Admitted' = Admitted BY <2>1 DEF Admitted
    <3>4. Missing' = 1 BY <1>0, <2>1, <3>1, <3>2, <3>3 DEF Missing
    <3>5. failures > 0 BY <1>0, <2>3 DEF MissingOK
    <3>6. QED BY <1>0, <2>1, <3>1, <3>4, <3>5 DEF MissingOK
  <2>4. QED BY <1>0, <2>2, <2>3
<1>4. CASE GetPending
  <2>1. /\ pc = "get" /\ taken' = taken + 1
        /\ pc' = (IF taken < Total THEN "limit" ELSE "finish")
        /\ UNCHANGED <<generating, failures, produced, failed>>
    BY <1>4 DEF GetPending
  <2>2. Held = 0 /\ EndSent = 0 /\ EndSent' = 0 /\ ~Ending
    BY <2>1 DEF Held, EndSent, Ending
  <2>3. Held' \in {0, 1} /\ Admitted' = Admitted + Held'
    BY <1>0, <2>1 DEF Admitted, Held
  <2>4. Missing' = Admitted' - Held' - generating - failures - (produced - EndSent)
    BY <2>1, <2>2 DEF Missing
  <2>5. Missing' = Missing
    <3>1. Missing = Admitted - generating - failures - (produced - EndSent)
      BY <1>0, <2>2 DEF Missing
    <3>2. CASE Held' = 0 BY <1>0, <2>3, <2>4, <3>1, <3>2
    <3>3. CASE Held' = 1 BY <1>0, <2>3, <2>4, <3>1, <3>3
    <3>4. QED BY <2>3, <3>2, <3>3
  <2>6. QED BY <2>1, <2>2, <2>5 DEF MissingOK
<1>5. CASE CheckLimit \/ Finish
  <2>1. /\ UNCHANGED <<taken, generating, failures, produced, failed>>
        /\ \/ pc = "limit" /\ pc' \in {"submit", "limitWait"}
           \/ pc = "finish" /\ pc' \in {"exit", "finishWait"}
    BY <1>5 DEF CheckLimit, SubmitBelow, Finish, Goto
  <2>2. Held' = Held /\ EndSent' = EndSent /\ ~Ending BY <2>1 DEF Held, EndSent, Ending
  <2>3. QED BY <1>0, <2>1, <2>2, MissingStays
<1>6. CASE Submit
  <2>1. /\ pc = "submit" /\ pc' = "check" /\ generating' = generating + 1
        /\ UNCHANGED <<taken, failures, produced, failed>>
    BY <1>6 DEF Submit
  <2>2. Held = 1 /\ Held' = 0 /\ EndSent = 0 /\ EndSent' = 0 /\ ~Ending /\ Admitted' = Admitted
    BY <2>1 DEF Held, EndSent, Ending, Admitted
  <2>3. Missing' = Missing BY <1>0, <2>1, <2>2 DEF Missing
  <2>4. QED BY <2>1, <2>2, <2>3 DEF MissingOK
<1>7. CASE PutEnd
  <2>1. /\ pc = "exit" /\ pc' = "stopping" /\ produced' = produced + 1
        /\ UNCHANGED <<taken, generating, failures, failed>>
    BY <1>7 DEF PutEnd, PutSample
  <2>2. Held = 0 /\ Held' = 0 /\ EndSent = 0 /\ EndSent' = 1 /\ Ending /\ Ending'
        /\ Admitted' = Admitted
    BY <2>1 DEF Held, EndSent, Ending, Admitted
  <2>3. Missing' = Missing BY <1>0, <2>1, <2>2 DEF Missing
  <2>4. QED BY <2>1, <2>2, <2>3 DEF MissingOK
<1>8. QED BY <1>1, <1>2, <1>3, <1>4, <1>5, <1>6, <1>7 DEF Processor

LEMMA OthersMissing ==
    ASSUME TypeOK, MissingOK,
           Monitor \/ Reset \/ TrainerStep \/ Cleanup \/ UNCHANGED vars
    PROVE  MissingOK'
<1>1. UNCHANGED <<taken, generating, failures, produced, failed, pc>>
  <2>1. CASE Monitor \/ Reset
    BY <2>1 DEF Monitor, MonitorWakes, MonGoto, MonitorReads, MonitorDecides, MonitorAnswered,
       MonitorResumes, Reset, ResetStarts, ResetReads, ResetEnds, ResetTo, ResetFrame
  <2>2. CASE TrainerStep
    BY <2>2 DEF TrainerStep, CollectSample, CollectEnd, TakeSample, TrainStep, UpdateWeights,
       PushWeights, CallReset, ResetReturned, SaveCheckpoint
  <2>3. CASE Cleanup \/ UNCHANGED vars BY <2>3 DEF Cleanup, ClearQueue, vars
  <2>4. QED BY <2>1, <2>2, <2>3
<1>2. QED BY <1>1, FlowTypes, MissingStays DEF Held, EndSent, Ending

(* What the trainer took is in a training step, in its batch, or the signal. *)
LEMMA NextTaken ==
    ASSUME TypeOK, TakenOK, [Next]_vars
    PROVE  TakenOK'
<1>0. /\ trained * Required \in Nat /\ (trained + 1) * Required = trained * Required + Required
      /\ Len(batch) \in Nat /\ Required \in Nat \ {0} /\ consumed \in Nat /\ batch \in Seq(Nat)
      /\ QueueTypeOK
  <2>1. trained \in Nat /\ Required \in Nat \ {0} BY Counts
  <2>2. trained * Required \in Nat BY <2>1
  <2>3. (trained + 1) * Required = trained * Required + Required BY <2>1
  <2>4. Len(batch) \in Nat /\ consumed \in Nat BY FlowTypes
  <2>5. batch \in Seq(Nat) /\ QueueTypeOK BY DEF TypeOK, TrainTypeOK
  <2>6. QED BY <2>1, <2>2, <2>3, <2>4, <2>5
<1>1. CASE UNCHANGED <<consumed, trainVars>>
  BY <1>1 DEF TakenOK, final
<1>2. CASE RolloutStep /\ UNCHANGED trainVars
  <2>1. UNCHANGED consumed
    BY <1>2 DEF RolloutStep, FeedSample, Tasks, TaskPut, TaskDone, TaskFails, PutSample,
       Processor, Check, Resumed, Goto, ReadSize, Decide, Pause, DrainTasks, GetPending,
       CheckLimit, SubmitBelow, LimitWait, LimitWaitThen, Collect, Submit, Finish, FinishWait,
       PutEnd, StopRunning, Monitor, MonitorWakes, MonGoto, MonitorReads, MonitorDecides,
       MonitorAnswered, MonitorResumes, Reset, ResetStarts, ResetReads, ResetEnds, ResetTo,
       ResetFrame
  <2>2. QED BY <1>1, <1>2, <2>1
<1>3. CASE CollectSample
  <2>1. /\ consumed' = consumed + 1 /\ batch' = Append(batch, Head(queue))
        /\ Head(queue) \in Nat
        /\ UNCHANGED <<trained, phase, tpc>>
    BY <1>0, <1>3, TakeKeepsType DEF CollectSample, TakeSample
  <2>2. Len(batch') = Len(batch) + 1 BY <1>0, <2>1
  <2>3. trained' * Required = trained * Required BY <2>1
  <2>4. QED BY <1>0, <2>1, <2>2, <2>3 DEF TakenOK, final
<1>4. CASE CollectEnd
  <2>1. /\ consumed' = consumed + 1 /\ ~final /\ final' /\ tpc' # "collect"
        /\ UNCHANGED <<trained, batch>>
    BY <1>4 DEF CollectEnd, TakeSample, TakenOK, final
  <2>2. QED BY <1>0, <2>1 DEF TakenOK
<1>5. CASE TrainStep
  <2>1. /\ Len(batch) = Required /\ batch' = <<>> /\ trained' = trained + 1 /\ tpc' # "collect"
        /\ UNCHANGED <<consumed, phase>>
    BY <1>5 DEF TrainStep
  <2>2. Len(batch') = 0 /\ trained' * Required = trained * Required + Required
    BY <1>0, <2>1
  <2>3. QED BY <1>0, <2>1, <2>2 DEF TakenOK, final
<1>6. CASE UpdateWeights \/ CallReset \/ ResetReturned \/ SaveCheckpoint
  <2>1. /\ UNCHANGED <<consumed, trained, batch, phase>>
        /\ final => tpc' # "collect"
    BY <1>6 DEF UpdateWeights, PushWeights, CallReset, ResetReturned, SaveCheckpoint
  <2>2. QED BY <2>1 DEF TakenOK, final
<1>7. CASE Cleanup \/ UNCHANGED vars
  BY <1>1, <1>7 DEF Cleanup, ClearQueue, vars
<1>8. QED
  BY <1>2, <1>3, <1>4, <1>5, <1>6, <1>7 DEF Next, TrainerStep, Terminated

(* When both actors are done they stay so: the queue is then cleared.       *)
LEMMA DoneStays ==
    ASSUME TypeOK, Done, [Next]_vars
    PROVE  Done'
<1>0. /\ tpc = "stopped" /\ pc = "stopped" /\ mon = "off" /\ generating = 0 /\ replying = 0
  BY DEF Done
<1>1. CASE RolloutStep /\ UNCHANGED trainVars
  <2>1. CASE FeedSample \/ Tasks
    BY <1>0, <2>1 DEF FeedSample, Tasks, TaskPut, TaskDone, TaskFails
  <2>2. CASE Processor
    BY <1>0, <2>2 DEF Processor, Check, Resumed, ReadSize, Decide, Pause, DrainTasks,
       GetPending, CheckLimit, SubmitBelow, LimitWait, LimitWaitThen, Submit, Finish,
       FinishWait, PutEnd, StopRunning
  <2>3. CASE Monitor
    BY <1>0, <2>3 DEF Monitor, MonitorWakes, MonitorReads, MonitorDecides, MonitorAnswered,
       MonitorResumes
  <2>4. CASE Reset
    BY <1>0, <1>1, <2>4 DEF Reset, ResetStarts, ResetReads, ResetEnds, ResetTo, ResetFrame, Done
  <2>5. QED BY <1>1, <2>1, <2>2, <2>3, <2>4 DEF RolloutStep
<1>2. CASE TrainerStep
  BY <1>0, <1>2 DEF TrainerStep, CollectSample, CollectEnd, TrainStep, UpdateWeights,
     PushWeights, CallReset, ResetReturned, SaveCheckpoint
<1>3. CASE Cleanup \/ UNCHANGED vars
  BY <1>0, <1>3 DEF Cleanup, vars, Done
<1>4. QED BY <1>1, <1>2, <1>3 DEF Next, Terminated

(* What was put is in the queue, was dropped or was taken.                  *)
LEMMA NextConserved ==
    ASSUME TypeOK, Conserved, [Next]_vars
    PROVE  Conserved'
<1> SUFFICES ASSUME ~Done PROVE Conserved'
  BY DoneStays DEF Conserved
<1>0. /\ produced = consumed + dropped + Len(queue)
      /\ Len(queue) \in Nat /\ produced \in Nat /\ consumed \in Nat /\ dropped \in Nat
      /\ QueueTypeOK
  BY FlowTypes DEF Conserved, TypeOK
<1>1. CASE UNCHANGED queueVars BY <1>0, <1>1 DEF Conserved
<1>2. CASE \E s \in Nat \cup {None} : PutSample(s)
  <2>1. PICK s \in Nat \cup {None} : PutSample(s) BY <1>2
  <2>2. /\ queue \in Seq(Nat \cup {None}) /\ (Full => queue # <<>>)
    BY <1>0, SizesPositive DEF QueueTypeOK, Full
  <2>3. Len(queue') = IF Full THEN Len(queue) ELSE Len(queue) + 1
    BY <2>1, <2>2 DEF PutSample
  <2>4. /\ produced' = produced + 1 /\ UNCHANGED consumed
        /\ dropped' = dropped + (IF Full THEN 1 ELSE 0)
    BY <2>1 DEF PutSample
  <2>5. CASE Full
    <3>1. Len(queue') = Len(queue) /\ dropped' = dropped + 1 BY <2>3, <2>4, <2>5
    <3>2. QED BY <1>0, <2>4, <3>1 DEF Conserved
  <2>6. CASE ~Full
    <3>1. Len(queue') = Len(queue) + 1 /\ dropped' = dropped + 0 BY <2>3, <2>4, <2>6
    <3>2. QED BY <1>0, <2>4, <3>1 DEF Conserved
  <2>7. QED BY <2>5, <2>6
<1>3. CASE TakeSample
  <2>1. Len(queue') = Len(queue) - 1 BY <1>0, <1>3, TakeKeepsType
  <2>2. QED BY <1>0, <1>3, <2>1 DEF TakeSample, Conserved
<1>4. CASE RolloutStep
  <2>1. CASE TaskPut BY <1>2, <2>1 DEF TaskPut, TypeOK, RolloutTypeOK
  <2>2. CASE PutEnd BY <1>2, <2>2 DEF PutEnd
  <2>3. CASE FeedSample \/ TaskDone \/ TaskFails
    BY <1>1, <2>3 DEF FeedSample, TaskDone, TaskFails
  <2>4. CASE Processor /\ ~PutEnd
    BY <1>1, <2>4 DEF Processor, Check, Resumed, Goto, ReadSize, Decide, Pause, DrainTasks,
       GetPending, CheckLimit, SubmitBelow, LimitWait, LimitWaitThen, Collect, Submit, Finish,
       FinishWait, StopRunning
  <2>5. CASE Monitor \/ Reset
    BY <1>1, <2>5 DEF Monitor, MonitorWakes, MonGoto, MonitorReads, MonitorDecides,
       MonitorAnswered, MonitorResumes, Reset, ResetStarts, ResetReads, ResetEnds, ResetTo,
       ResetFrame
  <2>6. QED BY <1>4, <2>1, <2>2, <2>3, <2>4, <2>5 DEF RolloutStep, Tasks
<1>5. CASE TrainerStep
  BY <1>1, <1>3, <1>5 DEF TrainerStep, CollectSample, CollectEnd, TrainStep, UpdateWeights,
     PushWeights, CallReset, ResetReturned, SaveCheckpoint
<1>6. CASE UNCHANGED vars BY <1>1, <1>6 DEF vars
<1>7. CASE Cleanup BY <1>7 DEF Cleanup
<1>8. QED BY <1>4, <1>5, <1>6, <1>7 DEF Next, Terminated

(* No sample disappears between the actors (active_tasks, the queue's       *)
(* total_produced, total_consumed and dropped_samples), but the one the     *)
(* processor holds when a task that raised ends it.                         *)
THEOREM NothingLost == Spec => []SamplesAccounted
<1>1. Init => FlowInv BY InitFlow
<1>2. TypeOK /\ FlowInv /\ [Next]_vars => FlowInv'
  <2> SUFFICES ASSUME TypeOK, FlowInv, [Next]_vars PROVE FlowInv' OBVIOUS
  <2>1. MissingOK'
    BY TasksMissing, ProcessorMissing, OthersMissing DEF FlowInv, Next, RolloutStep, Terminated
  <2>2. QED BY <2>1, NextTaken, NextConserved DEF FlowInv
<1>3. FlowInv => SamplesAccounted
  BY DEF FlowInv, MissingOK, Missing, Ending, TakenOK, Conserved, SamplesAccounted
<1>4. QED BY <1>1, <1>2, <1>3, TypeCorrect, PTL DEF Spec
-----------------------------------------------------------------------------
(* How many the queue drops.  Without failures, a sample more than the      *)
(* budget comes only from a reset that missed the one the processor holds.  *)

Outstanding == InFlight + Held

\* The next samples may exceed the budget, or do: one drop is still to come.
OverPossible == \/ Outstanding > staleness
                \/ Outstanding > MaxRequired
                \/ pc = "get" /\ InFlight = MaxRequired

\* The weights are updated, and staleness_samples is not reset yet.
ResetDue == tpc \in {"sync", "reset"} \/ (tpc = "resetting" /\ reset # "returned")

One(b) == IF b THEN 1 ELSE 0

DropInv ==
    /\ EndSent = 0 => dropped + One(OverPossible) + One(ResetDue) <= version
    /\ EndSent = 1 => dropped <= version + 1
    /\ reset # "idle" => tpc = "resetting"

LEMMA DropTypes ==
    ASSUME TypeOK
    PROVE  /\ dropped \in Nat /\ version \in Nat /\ staleness \in Nat
           /\ InFlight \in Nat /\ Outstanding \in Nat /\ Held \in {0, 1} /\ EndSent \in {0, 1}
           /\ MaxRequired \in Nat \ {0}
<1>1. /\ Len(queue) \in Nat /\ generating \in Nat /\ version \in Nat
      /\ MaxRequired \in Nat \ {0}
  BY Counts
<1>2. dropped \in Nat /\ Held \in {0, 1} /\ EndSent \in {0, 1} BY FlowTypes
<1>3. staleness \in Nat BY DEF TypeOK, RolloutTypeOK
<1>4. QED BY <1>1, <1>2, <1>3 DEF InFlight, Outstanding

LEMMA InitDrop == Init => DropInv
<1> SUFFICES ASSUME Init PROVE DropInv OBVIOUS
<1>1. /\ Len(queue) = 0 /\ generating = 0 /\ staleness = 0 /\ pc = "check" /\ dropped = 0
      /\ version = 0 /\ tpc = "collect" /\ reset = "idle"
  BY DEF Init, QueueInit, RolloutInit, TrainInit
<1>2. Outstanding = 0 /\ EndSent = 0 BY <1>1 DEF Outstanding, InFlight, Held, EndSent
<1>3. ~OverPossible /\ ~ResetDue BY <1>1, <1>2, SizesPositive DEF OverPossible, ResetDue
<1>4. QED BY <1>1, <1>2, <1>3 DEF DropInv, One

(* The steps that drop nothing and make no drop possible.                   *)
LEMMA DropStays ==
    ASSUME TypeOK, DropInv, UNCHANGED <<dropped, version>>, EndSent' = EndSent,
           EndSent = 0 /\ OverPossible' => OverPossible,
           EndSent = 0 /\ ResetDue' => ResetDue,
           reset' # "idle" => tpc' = "resetting"
    PROVE  DropInv'
<1>1. dropped \in Nat /\ version \in Nat /\ EndSent \in {0, 1} BY DropTypes
<1>2. CASE EndSent = 0
  <2>1. One(OverPossible') <= One(OverPossible) /\ One(ResetDue') <= One(ResetDue)
    BY <1>2 DEF One
  <2>2. QED BY <1>1, <1>2, <2>1 DEF DropInv, One
<1>3. CASE EndSent = 1 BY <1>1, <1>3 DEF DropInv
<1>4. QED BY <1>1, <1>2, <1>3

LEMMA TasksDrop ==
    ASSUME TypeOK, AccountingInv, StreamInv, DropInv, failures' = 0,
           FeedSample \/ Tasks, UNCHANGED trainVars
    PROVE  DropInv'
<1>0. UNCHANGED <<pc, staleness, reset, tpc, version>> /\ EndSent' = EndSent /\ Held' = Held
      /\ (ResetDue' <=> ResetDue)
  BY DEF Tasks, FeedSample, TaskPut, TaskDone, TaskFails, EndSent, Held, ResetDue
<1>1. CASE FeedSample \/ TaskDone
  <2>1. UNCHANGED <<dropped, queue, generating>> BY <1>1 DEF FeedSample, TaskDone
  <2>2. OverPossible' <=> OverPossible
    BY <1>0, <2>1 DEF OverPossible, Outstanding, InFlight
  <2>3. QED BY <1>0, <2>1, <2>2, DropStays DEF DropInv
<1>2. CASE TaskFails BY <1>2, Counts DEF TaskFails
<1>3. CASE TaskPut
  <2>1. /\ generating > 0 /\ generating' = generating - 1 /\ EndSent = 0
        /\ weights \in Nat /\ PutSample(weights) /\ QueueTypeOK
    BY <1>3 DEF TaskPut, StreamInv, FewTasksLeft, Ending, EndSent, TypeOK, RolloutTypeOK
  <2>2. /\ queue \in Seq(Nat \cup {None})
        /\ Full => queue # <<>> /\ Len(queue) >= MaxRequired
    BY <2>1, Counts DEF QueueTypeOK, Full
  <2>3. Len(queue') = IF Full THEN Len(queue) ELSE Len(queue) + 1
    BY <2>1, <2>2 DEF PutSample
  <2>4. InFlight = Len(queue) + generating /\ InFlight' = Len(queue') + generating'
        /\ Outstanding = InFlight + Held /\ Outstanding' = InFlight' + Held
    BY <1>0 DEF InFlight, Outstanding
  <2>5. CASE ~Full
    <3>1. InFlight' = InFlight /\ dropped' = dropped
      <4>1. Len(queue') = Len(queue) + 1 BY <2>3, <2>5
      <4>2. dropped' = dropped BY <2>1, <2>5 DEF PutSample
      <4>3. Len(queue) \in Nat /\ generating \in Nat BY Counts
      <4>4. QED BY <2>1, <2>4, <4>1, <4>2, <4>3
    <3>2. OverPossible' <=> OverPossible BY <1>0, <2>4, <3>1 DEF OverPossible
    <3>3. QED BY <1>0, <3>1, <3>2, DropStays DEF DropInv
  <2>6. CASE Full
    <3>1. InFlight' = InFlight - 1 /\ InFlight > MaxRequired /\ dropped' = dropped + 1
      <4>1. Len(queue') = Len(queue) /\ Len(queue) >= MaxRequired /\ dropped' = dropped + 1
        BY <2>1, <2>2, <2>3, <2>6 DEF PutSample
      <4>2. Len(queue) \in Nat /\ generating \in Nat /\ MaxRequired \in Nat BY Counts
      <4>3. QED BY <2>1, <2>4, <4>1, <4>2
    <3>2. Outstanding' = Outstanding - 1 /\ Outstanding > MaxRequired
      BY <2>4, <3>1, DropTypes
    <3>3. Outstanding <= MaxRequired + 1 /\ Outstanding <= staleness + 1 /\ pc # "get"
      BY <2>1, <3>1, DropTypes DEF AccountingInv, OverBudgetByOneAtMost, Outstanding
    <3>4. OverPossible /\ ~OverPossible'
      BY <1>0, <3>2, <3>3, DropTypes DEF OverPossible
    <3>5. dropped + 1 + One(ResetDue) <= version BY <2>1, <3>4 DEF DropInv, One
    <3>6. EndSent' = 0 /\ dropped' + 0 + One(ResetDue') <= version'
      BY <1>0, <2>1, <3>1, <3>5, DropTypes DEF One
    <3>7. QED BY <1>0, <3>4, <3>6 DEF DropInv, One
  <2>7. QED BY <2>5, <2>6
<1>4. QED BY <1>1, <1>2, <1>3 DEF Tasks

LEMMA ProcessorDrop ==
    ASSUME TypeOK, AccountingInv, StreamInv, DropInv, failures = 0, Processor,
           UNCHANGED trainVars
    PROVE  DropInv'
<1>0. /\ failed = 0 /\ UNCHANGED <<reset, tpc, version>> /\ (ResetDue' <=> ResetDue)
      /\ dropped \in Nat /\ version \in Nat /\ staleness \in Nat /\ MaxRequired \in Nat
      /\ InFlight \in Nat /\ Outstanding \in Nat /\ Held \in {0, 1} /\ EndSent \in {0, 1}
  <2>1. UNCHANGED <<reset, tpc, version>>
    BY DEF Processor, Check, Resumed, Goto, ReadSize, Decide, Pause, DrainTasks, GetPending,
       CheckLimit, SubmitBelow, LimitWait, LimitWaitThen, Collect, Submit, Finish, FinishWait,
       PutEnd, StopRunning
  <2>2. QED BY <2>1, DropTypes, Counts DEF StreamInv, FewTasksLeft, ResetDue
<1>1. CASE Decide
  <2>1. /\ UNCHANGED <<queue, generating, staleness, dropped>> /\ pc = "decide"
        /\ pc' \in {"pausing", "get"} /\ (pc' = "get" => staleness < MaxRequired)
    BY <1>0, <1>1 DEF Decide, ShouldPause
  <2>2. InFlight' = InFlight /\ Outstanding = InFlight + Held /\ Held = 0 /\ Outstanding' = Outstanding
        /\ EndSent' = EndSent
    BY <2>1 DEF Outstanding, InFlight, Held, EndSent
  <2>3. OverPossible' => OverPossible BY <1>0, <2>1, <2>2 DEF OverPossible
  <2>4. QED BY <1>0, <2>1, <2>2, <2>3, DropStays DEF DropInv
<1>2. CASE GetPending
  <2>1. /\ UNCHANGED <<queue, generating, dropped>> /\ pc = "get" /\ pc' \in {"limit", "finish"}
        /\ staleness' = staleness + 1
    BY <1>2 DEF GetPending
  <2>2. /\ InFlight' = InFlight /\ Held = 0 /\ Held' \in {0, 1} /\ EndSent' = EndSent
        /\ Outstanding = InFlight + Held /\ Outstanding' = InFlight' + Held'
    BY <2>1 DEF Outstanding, InFlight, Held, EndSent
  <2>3. InFlight <= MaxRequired BY <2>1 DEF AccountingInv
  <2>4. OverPossible' => OverPossible
    <3>1. Outstanding = InFlight BY <1>0, <2>2
    <3>2. Outstanding' \in Nat /\ Outstanding' <= Outstanding + 1
      <4>1. CASE Held' = 0 BY <1>0, <2>2, <3>1, <4>1
      <4>2. CASE Held' = 1 BY <1>0, <2>2, <3>1, <4>2
      <4>3. QED BY <2>2, <4>1, <4>2
    <3>3. Outstanding' > staleness' => Outstanding > staleness BY <1>0, <2>1, <3>1, <3>2
    <3>4. Outstanding' > MaxRequired => InFlight = MaxRequired BY <1>0, <2>3, <3>1, <3>2
    <3>5. QED BY <2>1, <3>3, <3>4 DEF OverPossible
  <2>5. QED BY <1>0, <2>1, <2>2, <2>4, DropStays DEF DropInv
<1>3. CASE Submit
  <2>1. /\ UNCHANGED <<queue, staleness, dropped>> /\ generating' = generating + 1
        /\ pc = "submit" /\ pc' = "check"
    BY <1>3 DEF Submit
  <2>2. Outstanding' = Outstanding /\ EndSent' = EndSent
    BY <2>1, Counts DEF Outstanding, InFlight, Held, EndSent
  <2>3. OverPossible' => OverPossible BY <2>1, <2>2 DEF OverPossible
  <2>4. QED BY <1>0, <2>1, <2>2, <2>3, DropStays DEF DropInv
<1>4. CASE PutEnd
  <2>1. /\ EndSent = 0 /\ EndSent' = 1 /\ dropped' \in {dropped, dropped + 1}
    BY <1>4 DEF PutEnd, PutSample, EndSent
  <2>2. One(OverPossible) \in {0, 1} /\ One(ResetDue) \in {0, 1} BY DEF One
  <2>3. dropped + One(OverPossible) + One(ResetDue) <= version BY <2>1 DEF DropInv
  <2>4. dropped <= version
    <3> DEFINE p == One(OverPossible)
               r == One(ResetDue)
    <3>1. p \in {0, 1} /\ r \in {0, 1} /\ dropped + p + r <= version BY <2>2, <2>3
    <3> HIDE DEF p, r
    <3>2. QED BY <1>0, <3>1
  <2>5. dropped' <= version' + 1 BY <1>0, <2>1, <2>4
  <2>6. QED BY <1>0, <2>1, <2>5 DEF DropInv
<1>5. CASE DrainTasks \/ LimitWait \/ FinishWait
  <2>1. /\ UNCHANGED <<queue, generating, staleness, dropped>>
        /\ \/ pc = "drain" /\ pc' = "drain"
           \/ pc = "limitWait" /\ pc' = "limit"
           \/ pc = "finishWait" /\ pc' = "finish"
    BY <1>0, <1>5 DEF DrainTasks, LimitWait, LimitWaitThen, FinishWait, Collect
  <2>2. Outstanding' = Outstanding /\ EndSent' = EndSent /\ pc' # "get"
    BY <2>1 DEF Outstanding, InFlight, Held, EndSent
  <2>3. OverPossible' => OverPossible BY <2>1, <2>2 DEF OverPossible
  <2>4. QED BY <1>0, <2>1, <2>2, <2>3, DropStays DEF DropInv
<1>6. CASE Check \/ Resumed \/ ReadSize \/ Pause \/ CheckLimit \/ Finish \/ StopRunning
  <2>1. /\ UNCHANGED <<queue, generating, staleness, dropped>>
        /\ Held' = Held /\ EndSent' = EndSent /\ pc' # "get"
    BY <1>6 DEF Check, Resumed, Goto, ReadSize, Pause, CheckLimit, SubmitBelow, Finish,
       StopRunning, Held, EndSent
  <2>2. Outstanding' = Outstanding BY <2>1 DEF Outstanding, InFlight
  <2>3. OverPossible' => OverPossible BY <2>1, <2>2 DEF OverPossible
  <2>4. QED BY <1>0, <2>1, <2>2, <2>3, DropStays DEF DropInv
<1>7. QED BY <1>1, <1>2, <1>3, <1>4, <1>5, <1>6 DEF Processor

LEMMA MonitorResetDrop ==
    ASSUME TypeOK, DropInv, Monitor \/ Reset, UNCHANGED trainVars
    PROVE  DropInv'
<1>0. /\ UNCHANGED <<queue, generating, pc, dropped, version, tpc>>
      /\ dropped \in Nat /\ version \in Nat /\ EndSent \in {0, 1}
  <2>1. UNCHANGED <<queue, generating, pc, dropped, version, tpc>>
    BY DEF Monitor, MonitorWakes, MonGoto, MonitorReads, MonitorDecides, MonitorAnswered,
       MonitorResumes, Reset, ResetStarts, ResetReads, ResetEnds, ResetTo, ResetFrame
  <2>2. QED BY <2>1, DropTypes
<1>1. EndSent' = EndSent /\ Outstanding' = Outstanding /\ InFlight' = InFlight
  BY <1>0 DEF EndSent, Outstanding, InFlight, Held
<1>2. CASE Monitor \/ ResetStarts \/ ResetReads
  <2>1. /\ staleness' = staleness
        /\ \/ reset' = reset
           \/ reset \in {"called", "asking"} /\ reset' # "returned"
    BY <1>2 DEF Monitor, MonitorWakes, MonGoto, MonitorReads, MonitorDecides, MonitorAnswered,
       MonitorResumes, ResetStarts, ResetReads, ResetFrame
  <2>2. OverPossible' <=> OverPossible BY <1>0, <1>1, <2>1 DEF OverPossible
  <2>3. ResetDue' => ResetDue BY <1>0, <2>1 DEF ResetDue
  <2>4. reset' # "idle" => tpc' = "resetting" BY <1>0, <2>1 DEF DropInv
  <2>5. QED BY <1>0, <1>1, <2>2, <2>3, <2>4, DropStays
<1>3. CASE ResetEnds
  <2>1. reset = "asked" /\ reset' = "returned" /\ tpc = "resetting"
    BY <1>3 DEF ResetEnds, ResetTo, DropInv
  <2>2. ResetDue /\ ~ResetDue' BY <1>0, <2>1 DEF ResetDue
  <2>3. EndSent = 0 => dropped + One(OverPossible') + 0 <= version
    <3> DEFINE p == One(OverPossible)
               q == One(OverPossible')
    <3>1. p \in {0, 1} /\ q \in {0, 1} BY DEF One
    <3>2. EndSent = 0 => dropped + p + 1 <= version BY <2>2 DEF DropInv, One
    <3> HIDE DEF p, q
    <3>3. EndSent = 0 => dropped + q + 0 <= version BY <1>0, <3>1, <3>2
    <3>4. QED BY <3>3 DEF q
  <2>4. QED BY <1>0, <1>1, <2>1, <2>2, <2>3 DEF DropInv, One
<1>4. QED BY <1>2, <1>3 DEF Reset

LEMMA TrainerDrop ==
    ASSUME TypeOK, StreamInv, StreamInv', DropInv, TrainerStep
    PROVE  DropInv'
<1>0. /\ dropped \in Nat /\ version \in Nat /\ staleness \in Nat /\ MaxRequired \in Nat
      /\ InFlight \in Nat /\ Outstanding \in Nat /\ Held \in {0, 1} /\ EndSent \in {0, 1}
      /\ UNCHANGED <<pc, generating, staleness, dropped>>
  <2>1. UNCHANGED <<pc, generating, staleness, dropped>>
    BY DEF TrainerStep, CollectSample, CollectEnd, TakeSample, TrainStep, UpdateWeights,
       PushWeights, CallReset, ResetReturned, SaveCheckpoint
  <2>2. QED BY <2>1, DropTypes
<1>1. Held' = Held /\ EndSent' = EndSent BY <1>0 DEF Held, EndSent
<1>2. CASE CollectSample \/ CollectEnd
  <2>1. /\ UNCHANGED <<reset, version>> /\ tpc = "collect" /\ TakeSample /\ QueueTypeOK
        /\ ((CollectSample /\ tpc' = "collect") \/ CollectEnd)
    BY <1>2 DEF CollectSample, CollectEnd, TypeOK
  <2>2. Len(queue') = Len(queue) - 1 BY <2>1, TakeKeepsType
  <2>3. InFlight' = InFlight - 1 /\ Outstanding' = Outstanding - 1
    <3>1. InFlight' = InFlight - 1 BY <1>0, <2>2, Counts DEF InFlight
    <3>2. Outstanding = InFlight + Held /\ Outstanding' = InFlight' + Held
      BY <1>1 DEF Outstanding
    <3>3. CASE Held = 0 BY <1>0, <3>1, <3>2, <3>3
    <3>4. CASE Held = 1 BY <1>0, <3>1, <3>2, <3>4
    <3>5. QED BY <1>0, <3>3, <3>4
  <2>4. pc = "get" /\ InFlight' = MaxRequired => Outstanding > MaxRequired
    BY <1>0, <2>3 DEF Outstanding, Held
  <2>5. OverPossible' => OverPossible BY <1>0, <2>3, <2>4 DEF OverPossible
  <2>6. EndSent = 0 => tpc' = "collect"
    <3>1. CollectEnd => final' BY DEF CollectEnd, final
    <3>2. QED BY <1>1, <2>1, <3>1 DEF StreamInv, EndOrder
  <2>7. reset' = "idle" BY <2>1 DEF DropInv
  <2>8. QED BY <1>0, <1>1, <2>1, <2>5, <2>6, <2>7, DropStays DEF ResetDue
<1>3. CASE ~(CollectSample \/ CollectEnd)
  <2>1. queue' = queue
    BY <1>3 DEF TrainerStep, TrainStep, UpdateWeights, PushWeights, CallReset, ResetReturned,
       SaveCheckpoint
  <2>2. OverPossible' <=> OverPossible
    BY <1>0, <1>1, <2>1 DEF OverPossible, Outstanding, InFlight
  <2>3. CASE TrainStep /\ version' = version + 1
    <3>1. tpc = "collect" /\ reset' = reset /\ ~ResetDue
      BY <2>3 DEF TrainStep, ResetDue
    <3>2. reset' = "idle" BY <3>1 DEF DropInv
    <3>3. EndSent' = 0 => dropped' + One(OverPossible') + One(ResetDue') <= version'
      <4> DEFINE p == One(OverPossible)
                 r == One(ResetDue')
      <4>1. p \in {0, 1} /\ r \in {0, 1} BY DEF One
      <4>2. EndSent = 0 => dropped + p + 0 <= version BY <3>1 DEF DropInv, One
      <4>3. One(OverPossible') = p BY <2>2 DEF One
      <4> HIDE DEF p, r
      <4>4. EndSent = 0 => dropped + p + r <= version + 1 BY <1>0, <4>1, <4>2
      <4>5. QED BY <1>0, <1>1, <2>3, <4>3, <4>4 DEF r
    <3>4. EndSent' = 1 => dropped' <= version' + 1 BY <1>0, <1>1, <2>3 DEF DropInv
    <3>5. QED BY <3>2, <3>3, <3>4 DEF DropInv, One
  <2>4. CASE TrainStep /\ version' = version
    <3>1. tpc = "collect" /\ tpc' = "post" /\ reset' = reset /\ version' = version
      <4>1. version' = version + 1 => version' # version BY <1>0
      <4>2. QED BY <2>4, <4>1 DEF TrainStep
    <3>2. QED BY <1>0, <1>1, <2>2, <3>1, DropStays DEF ResetDue, DropInv
  <2>5. CASE UpdateWeights \/ CallReset \/ ResetReturned \/ SaveCheckpoint
    <3>1. /\ version' = version
          /\ \/ tpc = "sync" /\ tpc' = "reset" /\ reset' = reset
             \/ tpc = "reset" /\ tpc' = "resetting" /\ reset' = "called"
             \/ tpc = "resetting" /\ tpc' = "post" /\ reset' = "idle"
             \/ tpc = "post" /\ tpc' \in {"stopped", "collect"} /\ reset' = reset
      BY <2>5 DEF UpdateWeights, PushWeights, CallReset, ResetReturned, SaveCheckpoint
    <3>2. QED BY <1>0, <1>1, <2>2, <3>1, DropStays DEF ResetDue, DropInv
  <2>6. TrainStep => version' \in {version, version + 1} BY DEF TrainStep
  <2>7. QED BY <1>3, <2>3, <2>4, <2>5, <2>6 DEF TrainerStep
<1>4. QED BY <1>2, <1>3

LEMMA FailuresGrow == [Next]_vars => failures' \in {failures, failures + 1}
<1>1. Tasks => failures' \in {failures, failures + 1}
  BY DEF Tasks, TaskPut, TaskDone, TaskFails
<1>2. FeedSample \/ Processor \/ Monitor \/ Reset => failures' = failures
  BY DEF FeedSample, Processor, Check, Resumed, Goto, ReadSize, Decide, Pause, DrainTasks,
     GetPending, CheckLimit, SubmitBelow, LimitWait, LimitWaitThen, Collect, Submit, Finish,
     FinishWait, PutEnd, StopRunning, Monitor, MonitorWakes, MonGoto, MonitorReads,
     MonitorDecides, MonitorAnswered, MonitorResumes, Reset, ResetStarts, ResetReads,
     ResetEnds, ResetTo, ResetFrame
<1>3. TrainerStep \/ Cleanup \/ UNCHANGED vars => failures' = failures
  BY DEF TrainerStep, CollectSample, CollectEnd, TrainStep, UpdateWeights, PushWeights,
     CallReset, ResetReturned, SaveCheckpoint, Cleanup, vars
<1>4. QED BY <1>1, <1>2, <1>3 DEF Next, RolloutStep, Terminated

(* The queue drops at most one sample for every weight update, and one more *)
(* for the end signal (put_sample of a full queue, reset_staleness), until  *)
(* a task raises.                                                           *)
THEOREM FewDropped == Spec => []DropsBounded
<1> DEFINE Few == failures = 0 => DropInv
<1>1. Init => StreamInv /\ Few BY InitStream, InitDrop
<1>2. TypeOK /\ AccountingInv /\ ConcurrencyBounded /\ StreamInv /\ Few /\ [Next]_vars
          => StreamInv' /\ Few'
  <2> SUFFICES ASSUME TypeOK, AccountingInv, ConcurrencyBounded, StreamInv, Few, [Next]_vars
               PROVE  StreamInv' /\ Few'
    OBVIOUS
  <2>1. StreamInv' BY NextStream DEF StepOK
  <2>2. SUFFICES ASSUME failures' = 0 PROVE DropInv' BY <2>1
  <2>3. failures = 0 /\ DropInv
    <3>1. failures \in Nat BY Counts
    <3>2. failures' \in {failures, failures + 1}
      BY FailuresGrow
    <3>3. QED BY <2>2, <3>1, <3>2
  <2>4. CASE RolloutStep /\ UNCHANGED trainVars
    BY <2>2, <2>3, <2>4, TasksDrop, ProcessorDrop, MonitorResetDrop DEF RolloutStep
  <2>5. CASE TrainerStep BY <2>1, <2>3, <2>5, TrainerDrop
  <2>6. CASE Cleanup
    <3>1. Done /\ queue # <<>> BY <2>6 DEF Cleanup
    <3>2. QED BY <2>3, <3>1 DEF Done, StreamInv, EndOrder
  <2>7. CASE UNCHANGED vars
    <3>1. UNCHANGED <<queue, generating, pc, staleness, dropped, version, tpc, reset>>
      BY <2>7 DEF vars
    <3>2. QED
      BY <2>3, <3>1, DropStays
      DEF OverPossible, Outstanding, InFlight, Held, EndSent, ResetDue, DropInv
  <2>8. QED BY <2>4, <2>5, <2>6, <2>7 DEF Next, Terminated
<1>3. TypeOK /\ Few => DropsBounded
  <2> SUFFICES ASSUME TypeOK, DropInv PROVE DropsBounded BY DEF DropsBounded
  <2> DEFINE p == One(OverPossible)
             r == One(ResetDue)
  <2>1. /\ p \in {0, 1} /\ r \in {0, 1}
        /\ EndSent = 0 => dropped + p + r <= version
    BY DEF One, DropInv
  <2> HIDE DEF p, r
  <2>2. QED BY <2>1, DropTypes DEF DropInv, DropsBounded
<1>4. QED BY <1>1, <1>2, <1>3, TypeCorrect, AccountingCorrect, ConcurrencyKept, PTL DEF Spec
=============================================================================

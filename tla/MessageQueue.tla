---------------------------- MODULE MessageQueue ----------------------------
(***************************************************************************)
(* The sample queue between the rollouter and the trainer of the fully     *)
(* asynchronous pipeline: the handlers of the Ray actor MessageQueue       *)
(* (verl/experimental/fully_async_policy/message_queue.py).  Each handler  *)
(* runs under the actor's one asyncio lock, so each is one step.           *)
(*                                                                         *)
(* A sample is abstracted to the version of the weights it was put under;  *)
(* the end signal is None.                                                 *)
(***************************************************************************)
EXTENDS Integers, Sequences

CONSTANTS MaxQueueSize,   \* capacity of the deque
          None            \* the end signal put by the rollouter

ASSUME QueueAssumption == /\ MaxQueueSize \in Nat \ {0}
                          /\ None \notin Int

VARIABLES queue,      \* the deque, oldest element first
          produced,   \* total_produced
          consumed,   \* total_consumed
          dropped     \* dropped_samples

queueVars == <<queue, produced, consumed, dropped>>

QueueTypeOK == /\ queue \in Seq(Nat \cup {None})
               /\ Len(queue) <= MaxQueueSize
               /\ produced \in Nat
               /\ consumed \in Nat
               /\ dropped \in Nat

QueueInit == /\ queue = <<>>
             /\ produced = 0
             /\ consumed = 0
             /\ dropped = 0

Full == Len(queue) >= MaxQueueSize

\* Mutant: a full queue grows.
PutWithoutDrop(s) ==
    /\ queue' = Append(queue, s)
    /\ produced' = produced + 1
    /\ UNCHANGED <<consumed, dropped>>

(* A full queue loses its oldest element, and put_sample returns False. *)
PutSample(s) ==
    /\ queue' = Append(IF Full THEN Tail(queue) ELSE queue, s)
    /\ dropped' = IF Full THEN dropped + 1 ELSE dropped
    /\ produced' = produced + 1
    /\ UNCHANGED consumed

(* get_sample once its wait is over and an element is there. *)
TakeSample ==
    /\ queue # <<>>
    /\ queue' = Tail(queue)
    /\ consumed' = consumed + 1
    /\ UNCHANGED <<produced, dropped>>

ClearQueue ==
    /\ queue' = <<>>
    /\ UNCHANGED <<produced, consumed, dropped>>
=============================================================================

-------------------------- MODULE BucketedTransfer --------------------------
(***************************************************************************)
(* The weight transfer between a trainer and the workers of an inference   *)
(* engine (BucketedWeightSender and BucketedWeightReceiver,                *)
(* CLightMLLM_new/src/method/bucketed_weight_transfer.py; verl's           *)
(* vllm_rollout/bucketed_weight_transfer.py is the same protocol): the     *)
(* sender packs weights into a buffer both processes map and announces     *)
(* each bucket over a ZeroMQ REQ socket; the receiver loads the weights    *)
(* and acknowledges.  Neither waits with a timeout.                        *)
(*                                                                         *)
(* Copies to and from the buffer are asynchronous: they happen some time   *)
(* between their call and the next device synchronisation.                 *)
(***************************************************************************)
EXTENDS Integers, Sequences

CONSTANTS Receivers,      \* the worker processes that connect to the handle
          NumWeights, MaxSize, BucketSize,
          MayFail         \* may loading, or the iterator of weights, raise?

ASSUME TransferAssumption ==
    /\ Receivers # {}
    /\ {NumWeights, MaxSize, BucketSize} \subseteq Nat \ {0}
    /\ MayFail \in BOOLEAN

VARIABLES
    sizes, useShm,  \* of this transfer
    spc,      \* the sender: where it is, or which message it awaits the answer to
    next,     \* the weight it handles
    meta,     \* bucket_meta, in the order of the dict
    offset,
    pending,  \* copies into the buffer that the device has not done
    buffer,   \* the weight in each cell of the buffer, 0 for other data
    peers,    \* connected receivers, in the order the REQ socket serves them
    wire,     \* the requests on the way
    reply,    \* an answer is on the way
    rpc,      \* where each receiver is
    todo,     \* the weights of its bucket it has still to load
    final,    \* is_last of its bucket
    loaded    \* what it has loaded: a weight, or 0 for other data

senderVars == <<spc, next, meta, offset, pending, buffer>>
socketVars == <<peers, wire, reply>>
receiverVars == <<rpc, todo, final, loaded>>
vars == <<sizes, useShm, senderVars, socketVars, receiverVars>>

Weights == 1 .. NumWeights
Own == -1   \* the place of a weight that is sent by a handle of its own

Entry == [weight : Weights, at : {Own} \cup 0 .. BucketSize - 1]
Handle == [kind |-> "handle"]
Bucket(items, last) == [kind |-> "bucket", items |-> items, last |-> last]

TypeOK ==
    /\ sizes \in [Weights -> 1 .. MaxSize] /\ useShm \in BOOLEAN
    /\ spc \in {"start", "handle", "fill", "flush", "direct", "last", "done", "failed"}
    /\ next \in 1 .. NumWeights + 1
    /\ meta \in Seq(Entry) /\ offset \in 0 .. BucketSize
    /\ pending \in Seq(Entry)
    /\ buffer \in [0 .. BucketSize - 1 -> 0 .. NumWeights]
    /\ peers \in Seq(Receivers) /\ Len(wire) <= 1
    /\ reply \in BOOLEAN
    /\ rpc \in [Receivers -> {"start", "handle", "ready", "load", "done",
                                "failed", "raised"}]
    /\ todo \in [Receivers -> Seq(Entry)]
    /\ final \in [Receivers -> BOOLEAN]
    /\ loaded \in [Receivers -> Seq(0 .. NumWeights)]

NoBuffer == [c \in 0 .. BucketSize - 1 |-> 0]

Init ==
    /\ sizes \in [Weights -> 1 .. MaxSize] /\ useShm \in BOOLEAN
    /\ spc = "start" /\ next = 1 /\ meta = <<>> /\ offset = 0
    /\ pending = <<>> /\ buffer = NoBuffer
    /\ peers = <<>> /\ wire = <<>> /\ reply = FALSE
    /\ rpc = [r \in Receivers |-> "start"]
    /\ todo = [r \in Receivers |-> <<>>]
    /\ final = [r \in Receivers |-> FALSE]
    /\ loaded = [r \in Receivers |-> <<>>]

-----------------------------------------------------------------------------
(* The sender. *)

\* The socket gives the request to the connected receivers in turn, and blocks
\* while there is none.
Send(message, awaiting) ==
    /\ peers # <<>>
    /\ wire' = <<[to |-> Head(peers), message |-> message]>>
    /\ peers' = Append(Tail(peers), Head(peers))
    /\ spc' = awaiting
    /\ UNCHANGED reply

SendHandle ==
    /\ spc = "start"
    /\ Send(Handle, "handle")
    /\ UNCHANGED <<sizes, useShm, next, meta, offset, pending, buffer, receiverVars>>

\* Mutant: what the bucket holds already is forgotten.
OverflowsEmpty == next <= NumWeights /\ sizes[next] > BucketSize

\* The weight does not fit into what is left of the bucket.
Overflows == next <= NumWeights /\ offset + sizes[next] > BucketSize

\* _device_synchronize returns when all copies are done.
Synchronized == pending = <<>>

\* Mutant: the copies are not waited for.
FlushWithoutWaiting ==
    /\ spc = "fill" /\ Overflows /\ meta # <<>>
    /\ Send(Bucket(meta, FALSE), "flush")
    /\ meta' = <<>> /\ offset' = 0
    /\ UNCHANGED <<sizes, useShm, next, pending, buffer, receiverVars>>

Flush ==
    /\ spc = "fill" /\ Overflows /\ meta # <<>>
    /\ Synchronized
    /\ Send(Bucket(meta, FALSE), "flush")
    /\ meta' = <<>> /\ offset' = 0
    /\ UNCHANGED <<sizes, useShm, next, pending, buffer, receiverVars>>

\* A weight larger than the bucket is sent by a handle of its own.
SendLarge ==
    /\ spc = "fill" /\ Overflows /\ meta = <<>>
    /\ ~useShm
    /\ Send(Bucket(<<[weight |-> next, at |-> Own]>>, FALSE), "direct")
    /\ next' = next + 1
    /\ UNCHANGED <<sizes, useShm, meta, offset, pending, buffer, receiverVars>>

Pack ==
    /\ spc = "fill" /\ next <= NumWeights /\ ~Overflows
    /\ LET entry == [weight |-> next, at |-> offset]
       IN meta' = Append(meta, entry) /\ pending' = Append(pending, entry)
    /\ offset' = offset + sizes[next]
    /\ next' = next + 1
    /\ UNCHANGED <<sizes, useShm, spc, buffer, socketVars, receiverVars>>

\* The device does the next copy, of what is then in the memory of the weight.
CopyOf(content) ==
    /\ pending # <<>>
    /\ LET e == Head(pending)
       IN buffer' = [c \in DOMAIN buffer |->
                       IF c \in e.at .. e.at + sizes[e.weight] - 1 THEN content[e.weight]
                       ELSE buffer[c]]
    /\ pending' = Tail(pending)
    /\ UNCHANGED <<sizes, useShm, spc, next, meta, offset, socketVars, receiverVars>>

Itself == [w \in Weights |-> w]

Copy == CopyOf(Itself)

\* Mutant: the answer to the last bucket is not waited for.
SendLastAndLeave ==
    /\ spc = "fill" /\ next = NumWeights + 1
    /\ Synchronized
    /\ Send(Bucket(meta, TRUE), "done")
    /\ buffer' = NoBuffer
    /\ UNCHANGED <<sizes, useShm, next, meta, offset, pending, receiverVars>>

SendLast ==
    /\ spc = "fill" /\ next = NumWeights + 1
    /\ Synchronized
    /\ Send(Bucket(meta, TRUE), "last")
    /\ UNCHANGED <<sizes, useShm, next, meta, offset, pending, buffer, receiverVars>>

\* The answer; after the last one _cleanup frees the buffer.
Answered ==
    /\ spc \in {"handle", "flush", "direct", "last"} /\ reply
    /\ reply' = FALSE
    /\ spc' = IF spc = "last" THEN "done" ELSE "fill"
    /\ buffer' = IF spc = "last" THEN NoBuffer ELSE buffer
    /\ UNCHANGED <<sizes, useShm, next, meta, offset, pending, peers, wire, receiverVars>>

\* A weight too large for the shared memory, or an error of the iterator.
SenderFails ==
    /\ spc = "fill" /\ next <= NumWeights
    /\ MayFail \/ (useShm /\ sizes[next] > BucketSize /\ meta = <<>>)
    /\ spc' = "failed"
    /\ buffer' = NoBuffer /\ pending' = <<>>
    /\ UNCHANGED <<sizes, useShm, next, meta, offset, socketVars, receiverVars>>

-----------------------------------------------------------------------------
(* A receiver. *)

Connect(r) ==
    /\ rpc[r] = "start"
    /\ rpc' = [rpc EXCEPT ![r] = "handle"]
    /\ peers' = Append(peers, r)
    /\ UNCHANGED <<sizes, useShm, senderVars, wire, reply, todo, final, loaded>>

Arrived(r) == wire # <<>> /\ Head(wire).to = r

\* The peers when r has closed its socket.
Without(r) ==
    IF \E i \in DOMAIN peers : peers[i] = r
    THEN LET i == CHOOSE i \in DOMAIN peers : peers[i] = r
         IN SubSeq(peers, 1, i - 1) \o SubSeq(peers, i + 1, Len(peers))
    ELSE peers

\* _init_buffer; a bucket in the place of the handle raises in rebuild_ipc.
GetHandle(r) ==
    /\ rpc[r] = "handle" /\ Arrived(r)
    /\ wire' = <<>>
    /\ IF Head(wire).message.kind = "handle"
       THEN /\ rpc' = [rpc EXCEPT ![r] = "ready"]
            /\ reply' = TRUE
            /\ UNCHANGED peers
       ELSE /\ rpc' = [rpc EXCEPT ![r] = "failed"]
            /\ peers' = Without(r)
            /\ UNCHANGED reply
    /\ UNCHANGED <<sizes, useShm, senderVars, todo, final, loaded>>

GetBucket(r) ==
    /\ rpc[r] = "ready" /\ Arrived(r)
    /\ wire' = <<>>
    /\ todo' = [todo EXCEPT ![r] = Head(wire).message.items]
    /\ final' = [final EXCEPT ![r] = Head(wire).message.last]
    /\ rpc' = [rpc EXCEPT ![r] = "load"]
    /\ UNCHANGED <<sizes, useShm, senderVars, peers, reply, loaded>>

\* What is found at the place of entry e.
Found(e, content) ==
    IF e.at = Own THEN content[e.weight]
    ELSE IF \A c \in e.at .. e.at + sizes[e.weight] - 1 : buffer[c] = e.weight
    THEN e.weight ELSE 0

LoadOf(r, content) ==
    /\ rpc[r] = "load" /\ todo[r] # <<>>
    /\ loaded' = [loaded EXCEPT ![r] = Append(@, Found(Head(todo[r]), content))]
    /\ todo' = [todo EXCEPT ![r] = Tail(@)]
    /\ UNCHANGED <<sizes, useShm, senderVars, socketVars, rpc, final>>

Load(r) == LoadOf(r, Itself)

\* Mutant: the loop is not left.
AcknowledgeOnly(r) ==
    /\ rpc[r] = "load" /\ todo[r] = <<>>
    /\ reply' = TRUE
    /\ rpc' = [rpc EXCEPT ![r] = "ready"]
    /\ UNCHANGED <<sizes, useShm, senderVars, peers, wire, todo, final, loaded>>

\* The device is synchronised, the bucket acknowledged; the last one ends it.
Acknowledge(r) ==
    /\ rpc[r] = "load" /\ todo[r] = <<>>
    /\ reply' = TRUE
    /\ rpc' = [rpc EXCEPT ![r] = IF final[r] THEN "done" ELSE "ready"]
    /\ peers' = IF final[r] THEN Without(r) ELSE peers
    /\ UNCHANGED <<sizes, useShm, senderVars, wire, todo, final, loaded>>

\* load_weights raises: _cleanup closes the socket without an answer.
ReceiverFails(r) ==
    /\ MayFail
    /\ rpc[r] = "load"
    /\ rpc' = [rpc EXCEPT ![r] = "raised"]
    /\ peers' = Without(r)
    /\ UNCHANGED <<sizes, useShm, senderVars, wire, reply, todo, final, loaded>>

-----------------------------------------------------------------------------
Sender == SendHandle \/ Flush \/ SendLarge \/ Pack \/ SendLast \/ Answered \/ SenderFails

Receiver(r) == \/ Connect(r) \/ GetHandle(r) \/ GetBucket(r) \/ Load(r)
               \/ Acknowledge(r) \/ ReceiverFails(r)

Next == Sender \/ Copy \/ \E r \in Receivers : Receiver(r)

Spec == Init /\ [][Next]_vars

(* Both processes and the device go on.                                    *)
Fairness == /\ WF_vars(Sender) /\ WF_vars(Copy)
            /\ \A r \in Receivers : WF_vars(Receiver(r))

FairSpec == Spec /\ Fairness

-----------------------------------------------------------------------------
(* A receiver loads the weights themselves, each once and in order, never  *)
(* what the buffer held before or holds after: the sender reuses the       *)
(* buffer only after the acknowledgement, the receiver acknowledges only   *)
(* after the device has read it, and the sender frees it last.             *)
LoadsTheWeights ==
    \A r \in Receivers : \A i \in DOMAIN loaded[r] : loaded[r][i] = i

(* A sender that returns has delivered every weight to every receiver.     *)
AllDelivered ==
    spc = "done" => \A r \in Receivers : Len(loaded[r]) = NumWeights

(* A transfer of weights that fit ends, at both ends, unless one of them   *)
(* raises an error of its own.                                             *)
Fit == useShm => \A w \in Weights : sizes[w] <= BucketSize

TransferEnds ==
    Fit => <>(\/ spc = "failed" \/ \E r \in Receivers : rpc[r] = "raised"
              \/ spc = "done" /\ \A r \in Receivers : rpc[r] = "done")
=============================================================================

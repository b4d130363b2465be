-------------------------- MODULE BroadcastTransfer --------------------------
(***************************************************************************)
(* The way of the weights from the trainer to the engine of a rollout      *)
(* server: with the NCCL checkpoint engine                                 *)
(* (verl/checkpoint_engine/nccl_checkpoint_engine.py) rank 0 of the        *)
(* trainer broadcasts them in buckets to the process of the server's       *)
(* checkpoint worker, and from there they go through the bucketed transfer *)
(* (BucketedTransfer) to the worker of the engine; without it (naive) the  *)
(* bucketed transfer gets them from the trainer's own memory.              *)
(*                                                                         *)
(* Each side has two buffers and one broadcast at a time, in a thread of   *)
(* its own: the trainer fills one buffer while the other is sent, the      *)
(* worker hands out views of one while the other receives.                 *)
(*                                                                         *)
(* A buffer is the set of the chunks that are intact in it.  The device is *)
(* synchronised before a broadcast starts, so that the copies into the     *)
(* trainer's buffer are taken as done at once.                             *)
(***************************************************************************)
EXTENDS BucketedTransfer

CONSTANTS EngineBucket    \* bucket_size of the checkpoint engine

ASSUME EngineAssumption == EngineBucket \in Nat \ {0}

VARIABLES
    backend,   \* "naive" or "nccl"
    chunk,     \* split_weight_chunks: the weight and the offset of the next chunk
    filling,   \* bucket_meta of the bucket the trainer fills
    tx,        \* the trainer's buffers
    sendBuf,   \* the one it fills
    sendOp,    \* its BroadcastOperation
    bus,       \* metadata on the way from the PUB to the SUB socket
    rx,        \* the worker's buffers
    recvOp,    \* its BroadcastOperation
    gen,       \* where its generator is: "new", "await", "yield", "end"
    bucket,    \* metadata of its present bucket: the chunks it has still to yield
    merging,   \* merge_offset of a weight of several chunks
    whole,     \* those that were merged of intact chunks
    yielded    \* the weights it has yielded

engineVars == <<backend, chunk, filling, tx, sendBuf, sendOp, bus, rx, recvOp, gen, bucket,
                merging, whole, yielded>>
pipelineVars == <<vars, engineVars>>

Chunk == [weight : Weights, from : 0 .. MaxSize, size : 1 .. EngineBucket,
          at : 0 .. EngineBucket - 1]
Bufs == {1, 2}

NoMeta == [items |-> <<>>, last |-> FALSE]
Op(state, buf, metadata) == [state |-> state, buf |-> buf, meta |-> metadata]
NoOp == Op("none", 1, NoMeta)

PipelineTypeOK ==
    /\ TypeOK
    /\ backend \in {"naive", "nccl"}
    /\ chunk \in [weight : 1 .. NumWeights + 1, from : 0 .. MaxSize]
    /\ filling \in Seq(Chunk)
    /\ \A i, j \in DOMAIN filling : filling[i].weight = filling[j].weight => i = j
    /\ tx \in [Bufs -> SUBSET Chunk] /\ rx \in [Bufs -> SUBSET Chunk]
    /\ sendBuf \in Bufs
    /\ \A op \in {sendOp, recvOp} :
          /\ op.state \in {"none", "metadata", "joined", "moving", "done"}
          /\ op.buf \in Bufs
    /\ gen \in {"new", "await", "yield", "end"}
    /\ bucket.items \in Seq(Chunk)
    /\ merging \in 0 .. MaxSize
    /\ whole \subseteq Weights
    /\ yielded \in 0 .. NumWeights

PipelineInit ==
    /\ Init
    /\ backend \in {"naive", "nccl"}
    /\ chunk = [weight |-> 1, from |-> 0] /\ filling = <<>>
    /\ tx = [b \in Bufs |-> {}] /\ sendBuf = 1 /\ sendOp = NoOp
    /\ bus = <<>>
    /\ rx = [b \in Bufs |-> {}] /\ recvOp = NoOp
    /\ gen = "new" /\ bucket = NoMeta /\ merging = 0 /\ whole = {} /\ yielded = 0

-----------------------------------------------------------------------------
(* The trainer: send_weights. *)

Lesser(a, b) == IF a < b THEN a ELSE b

ChunkSize == Lesser(EngineBucket, sizes[chunk.weight] - chunk.from)

\* The offset in the bucket.
Filled == IF filling = <<>> THEN 0
          ELSE filling[Len(filling)].at + filling[Len(filling)].size

AllSplit == chunk.weight > NumWeights

Fits == Filled + ChunkSize <= EngineBucket

\* The chunk is written over whatever was there.
Written(content, e) ==
    {f \in content : f.at + f.size <= e.at \/ e.at + e.size <= f.at} \cup {e}

PackChunk ==
    /\ ~AllSplit /\ Fits
    /\ LET e == [weight |-> chunk.weight, from |-> chunk.from, size |-> ChunkSize, at |-> Filled]
       IN /\ filling' = Append(filling, e)
          /\ tx' = [tx EXCEPT ![sendBuf] = Written(@, e)]
          /\ chunk' = IF e.from + e.size = sizes[e.weight]
                      THEN [weight |-> e.weight + 1, from |-> 0]
                      ELSE [weight |-> e.weight, from |-> e.from + e.size]
    /\ UNCHANGED <<vars, backend, sendBuf, sendOp, bus, rx, recvOp, gen, bucket, merging, whole,
                   yielded>>

\* Mutant: the bucket is sent without waiting for the broadcast before it.
BroadcastAtOnce ==
    /\ AllSplit => sendOp.meta.last = FALSE
    /\ ~AllSplit => ~Fits
    /\ sendOp' = Op("metadata", sendBuf, [items |-> filling, last |-> AllSplit])
    /\ sendBuf' = 3 - sendBuf
    /\ filling' = <<>>
    /\ UNCHANGED <<vars, backend, chunk, tx, bus, rx, recvOp, gen, bucket, merging, whole, yielded>>

\* The bucket is full, or the last: the broadcast before it is waited for, its
\* own is started and the buffers are swapped.
Broadcast ==
    /\ AllSplit => sendOp.meta.last = FALSE
    /\ ~AllSplit => ~Fits
    /\ sendOp.state \in {"none", "done"}
    /\ sendOp' = Op("metadata", sendBuf, [items |-> filling, last |-> AllSplit])
    /\ sendBuf' = 3 - sendBuf
    /\ filling' = <<>>
    /\ UNCHANGED <<vars, backend, chunk, tx, bus, rx, recvOp, gen, bucket, merging, whole, yielded>>

SentAll == sendOp.meta.last /\ sendOp.state = "done"

-----------------------------------------------------------------------------
(* BroadcastOperation: the metadata first, then the collective. *)

PublishMetadata ==
    /\ sendOp.state = "metadata"
    /\ bus' = Append(bus, sendOp.meta)
    /\ sendOp' = [sendOp EXCEPT !.state = "joined"]
    /\ UNCHANGED <<vars, backend, chunk, filling, tx, sendBuf, rx, recvOp, gen, bucket, merging,
                   whole, yielded>>

ReceiveMetadata ==
    /\ recvOp.state = "metadata" /\ bus # <<>>
    /\ recvOp' = Op("joined", recvOp.buf, Head(bus))
    /\ bus' = Tail(bus)
    /\ UNCHANGED <<vars, backend, chunk, filling, tx, sendBuf, sendOp, rx, gen, bucket, merging,
                   whole, yielded>>

\* collective.broadcast writes the worker's buffer while both take part ...
CollectiveBegins ==
    /\ sendOp.state = "joined" /\ recvOp.state = "joined"
    /\ sendOp' = [sendOp EXCEPT !.state = "moving"]
    /\ recvOp' = [recvOp EXCEPT !.state = "moving"]
    /\ rx' = [rx EXCEPT ![recvOp.buf] = {}]
    /\ UNCHANGED <<vars, backend, chunk, filling, tx, sendBuf, bus, gen, bucket, merging, whole,
                   yielded>>

\* ... and leaves there what the trainer's buffer has.
CollectiveEnds ==
    /\ sendOp.state = "moving" /\ recvOp.state = "moving"
    /\ sendOp' = [sendOp EXCEPT !.state = "done"]
    /\ recvOp' = [recvOp EXCEPT !.state = "done"]
    /\ rx' = [rx EXCEPT ![recvOp.buf] = tx[sendOp.buf]]
    /\ UNCHANGED <<vars, backend, chunk, filling, tx, sendBuf, bus, gen, bucket, merging, whole,
                   yielded>>

-----------------------------------------------------------------------------
(* The worker: receive_weights, drawn from by the sender of the bucketed   *)
(* transfer.                                                               *)

\* The sender asks for weight next, or for the end.
Asked == spc = "fill" /\ yielded < next /\ gen # "end"

FirstBucket ==
    /\ Asked /\ gen = "new"
    /\ gen' = "await"
    /\ recvOp' = Op("metadata", 2, NoMeta)
    /\ UNCHANGED <<vars, backend, chunk, filling, tx, sendBuf, sendOp, bus, rx, bucket, merging,
                   whole, yielded>>

\* The bucket is received: its chunks are handed out, the next is received into
\* the other buffer.
Adopt ==
    /\ gen = "await" /\ recvOp.state = "done"
    /\ bucket' = recvOp.meta
    /\ gen' = "yield"
    /\ recvOp' = IF recvOp.meta.last THEN recvOp
                 ELSE Op("metadata", 3 - recvOp.buf, NoMeta)
    /\ UNCHANGED <<vars, backend, chunk, filling, tx, sendBuf, sendOp, bus, rx, merging, whole,
                   yielded>>

\* Mutant: the copies out of the old buffer are not waited for.
NextBucketAtOnce == Adopt

\* The device is synchronised before the buffers are swapped.
NextBucket == Synchronized /\ Adopt

\* merge_weight_chunks: a weight that fits is the view itself, a larger one is
\* put together in a memory of its own.
Yield ==
    /\ Asked /\ gen = "yield" /\ bucket.items # <<>>
    /\ LET e == Head(bucket.items)
           intact == \E b \in Bufs : e \in rx[b]
           complete == e.from + e.size = sizes[e.weight]
       IN /\ yielded' = IF complete THEN yielded + 1 ELSE yielded
          /\ merging' = IF intact /\ merging = e.from /\ ~complete THEN e.from + e.size ELSE 0
          /\ whole' = IF intact /\ merging = e.from /\ complete /\ e.from > 0
                      THEN whole \cup {e.weight} ELSE whole
    /\ bucket' = [bucket EXCEPT !.items = Tail(@)]
    /\ UNCHANGED <<vars, backend, chunk, filling, tx, sendBuf, sendOp, bus, rx, recvOp, gen>>

BucketIsEmpty ==
    /\ Asked /\ gen = "yield" /\ bucket.items = <<>>
    /\ gen' = IF bucket.last THEN "end" ELSE "await"
    /\ UNCHANGED <<vars, backend, chunk, filling, tx, sendBuf, sendOp, bus, rx, recvOp, bucket,
                   merging, whole, yielded>>

\* What is in the memory of a weight that was yielded.
Content ==
    [w \in Weights |->
        IF \/ backend = "naive" \/ w \in whole
           \/ sizes[w] <= EngineBucket /\ \E b \in Bufs : \E e \in rx[b] : e.weight = w
        THEN w ELSE 0]

-----------------------------------------------------------------------------
Trainer == PackChunk \/ Broadcast
Thread == PublishMetadata \/ ReceiveMetadata \/ CollectiveBegins \/ CollectiveEnds
Generator == FirstBucket \/ NextBucket \/ Yield \/ BucketIsEmpty

\* The sender handles the weight it was given.
Given == backend = "nccl" => yielded = next
Ended == backend = "nccl" => gen = "end"

GivenSender ==
    \/ SendHandle \/ Answered
    \/ Given /\ (Flush \/ SendLarge \/ Pack \/ SenderFails)
    \/ Ended /\ SendLast

GivenReceiver(r) ==
    \/ Connect(r) \/ GetHandle(r) \/ GetBucket(r) \/ LoadOf(r, Content)
    \/ Acknowledge(r) \/ ReceiverFails(r)

PipelineNext ==
    \/ backend = "nccl" /\ (Trainer \/ Thread \/ Generator)
    \/ GivenSender /\ UNCHANGED engineVars
    \/ CopyOf(Content) /\ UNCHANGED engineVars
    \/ \E r \in Receivers : GivenReceiver(r) /\ UNCHANGED engineVars

(* All threads and processes, and the device, go on.                       *)
PipelineFairness ==
    /\ WF_pipelineVars(backend = "nccl" /\ Trainer)
    /\ WF_pipelineVars(backend = "nccl" /\ Thread)
    /\ WF_pipelineVars(backend = "nccl" /\ Generator)
    /\ WF_pipelineVars(GivenSender /\ UNCHANGED engineVars)
    /\ WF_pipelineVars(CopyOf(Content) /\ UNCHANGED engineVars)
    /\ \A r \in Receivers : WF_pipelineVars(GivenReceiver(r) /\ UNCHANGED engineVars)

PipelineSpec == PipelineInit /\ [][PipelineNext]_pipelineVars /\ PipelineFairness

-----------------------------------------------------------------------------
(* A transfer of weights that fit ends on both ways, at the trainer, the    *)
(* checkpoint worker and the engine, unless one side of the bucketed        *)
(* transfer raises: no broadcast waits for a partner that is not coming.    *)
PipelineEnds ==
    Fit => <>(\/ spc = "failed" \/ \E r \in Receivers : rpc[r] = "raised"
              \/ /\ spc = "done" /\ \A r \in Receivers : rpc[r] = "done"
                 /\ backend = "nccl" => SentAll)
=============================================================================

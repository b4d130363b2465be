---------------------- MODULE BroadcastTransfer_proofs ----------------------
(***************************************************************************)
(* Proofs about the way of the weights from the trainer to the engine, for *)
(* every number and size of weights, every size of the buffers and every   *)
(* number of receivers: the engine loads the weights themselves, each once *)
(* and in order, through both pairs of buffers that are filled, sent, read *)
(* and reused at the same time.                                            *)
(***************************************************************************)
EXTENDS BroadcastTransfer, SequenceTheorems, TLAPS

USE DEF senderVars, socketVars, receiverVars, vars, engineVars

-----------------------------------------------------------------------------
(* The inductive invariant, from the trainer to the engine.                *)

\* The place of a chunk in its weight, and the place after it; z are the sizes.
PlaceOf(e) == [weight |-> e.weight, from |-> e.from]
Behind(z, e) == IF e.from + e.size = z[e.weight]
                THEN [weight |-> e.weight + 1, from |-> 0]
                ELSE [weight |-> e.weight, from |-> e.from + e.size]

Place == [weight : 1 .. NumWeights + 1, from : 0 .. MaxSize]
Piece(z) == {e \in Chunk : e.from + e.size <= z[e.weight]}

\* s holds the chunks of the weights from place p to place q.
Chain(z, s, p, q) ==
    /\ s \in Seq(Piece(z))
    /\ s = <<>> => p = q
    /\ s # <<>> => PlaceOf(s[1]) = p /\ Behind(z, s[Len(s)]) = q
    /\ \A i \in 1 .. Len(s) - 1 : PlaceOf(s[i + 1]) = Behind(z, s[i])

\* Where the worker's generator is.
Yielding == [weight |-> yielded + 1, from |-> merging]

\* The bucket received that the generator has not taken yet, and the one sent
\* that the worker does not know of.
Received == IF recvOp.state \in {"joined", "moving", "done"} /\ ~bucket.last
            THEN recvOp.meta.items ELSE <<>>
Unknown == IF sendOp.state = "metadata" \/ bus # <<>> THEN sendOp.meta.items ELSE <<>>

\* No chunk is lost, repeated or reordered on the way.
StreamInv ==
    /\ chunk \in Place /\ yielded \in 0 .. NumWeights /\ merging \in 0 .. MaxSize
    /\ chunk.weight <= NumWeights => chunk.from < sizes[chunk.weight]
    /\ \E p, q, r \in Place :
          /\ Chain(sizes, bucket.items, Yielding, p) /\ Chain(sizes, Received, p, q)
          /\ Chain(sizes, Unknown, q, r) /\ Chain(sizes, filling, r, chunk)

\* The chunks of the bucket that is filled lie one behind the other.
FillingInv ==
    /\ \A i \in DOMAIN filling : filling[i].at + filling[i].size <= Filled
    /\ \A i, j \in DOMAIN filling : i < j => filling[i].weight < filling[j].weight
    /\ Filled \in 0 .. EngineBucket
    /\ filling # <<>> => \/ Filled = EngineBucket
                         \/ chunk.from = 0 /\ filling[Len(filling)].weight < chunk.weight

OpType(op) == /\ op = [state |-> op.state, buf |-> op.buf, meta |-> op.meta]
              /\ op.meta = [items |-> op.meta.items, last |-> op.meta.last]
              /\ op.state \in {"none", "metadata", "joined", "moving", "done"}
              /\ op.buf \in Bufs /\ op.meta.last \in BOOLEAN

\* How far the two sides of a broadcast are, and the generator.
BroadcastInv ==
    /\ OpType(sendOp) /\ OpType(recvOp)
    /\ sendBuf \in Bufs
    /\ sendOp.state # "none" => sendOp.buf = 3 - sendBuf
    /\ bus # <<>> => /\ bus = <<sendOp.meta>> /\ sendOp.state = "joined"
                     /\ recvOp.state \notin {"joined", "moving"}
    /\ sendOp.state = "joined" /\ bus = <<>> => recvOp.state = "joined"
    /\ recvOp.state = "joined" => sendOp.state = "joined"
    /\ recvOp.state = "moving" <=> sendOp.state = "moving"
    /\ recvOp.state \in {"joined", "moving"} => recvOp.meta = sendOp.meta
    /\ gen \in {"new", "await", "yield", "end"}
    /\ gen = "new" => recvOp.state = "none"
    /\ gen \in {"new", "await"} => bucket.items = <<>> /\ ~bucket.last
    /\ bucket.last => recvOp.state = "done"
    /\ bucket.last \in BOOLEAN
    /\ bucket = [items |-> bucket.items, last |-> bucket.last]
    /\ backend \in {"naive", "nccl"}

\* The buffer the worker hands out views of.
Shown == IF bucket.last THEN recvOp.buf ELSE 3 - recvOp.buf

\* Every chunk that is on its way is intact in the buffer it is in.
IntactInv ==
    /\ tx \in [Bufs -> SUBSET Chunk] /\ rx \in [Bufs -> SUBSET Chunk]
    /\ \A i \in DOMAIN filling : filling[i] \in tx[sendBuf]
    /\ sendOp.state \in {"metadata", "joined", "moving"} =>
           \A i \in DOMAIN sendOp.meta.items : sendOp.meta.items[i] \in tx[sendOp.buf]
    /\ recvOp.state = "done" /\ ~bucket.last =>
           \A i \in DOMAIN recvOp.meta.items : recvOp.meta.items[i] \in rx[recvOp.buf]
    /\ \A i \in DOMAIN bucket.items : bucket.items[i] \in rx[Shown]
    /\ gen = "new" => \A b \in Bufs : rx[b] = {}

\* What the sender got as weight w is still there.
Held(w) == \/ backend = "naive" \/ w \in whole
           \/ sizes[w] <= EngineBucket /\ \E e \in rx[Shown] : e.weight = w

\* The generator is one weight ahead of the sender at most, and takes a new
\* bucket only when the sender waits for it.
GivenInv ==
    /\ whole \subseteq Weights
    /\ backend = "nccl" => yielded \in {next - 1, next}
    /\ backend = "naive" => gen = "new"
    /\ yielded = next => Held(next)
    /\ gen = "await" => spc = "fill" /\ yielded = next - 1

-----------------------------------------------------------------------------
\* The weights after the first n, in order.
Follow(s, n) == \A i \in DOMAIN s : s[i].weight = n + i

InBuffer(e) == \A c \in e.at .. e.at + sizes[e.weight] - 1 : buffer[c] = e.weight
Ready(e) == IF e.at = Own THEN Held(e.weight) ELSE InBuffer(e)

Sent == IF spc \in {"last", "done"} THEN next - 1 ELSE next - 1 - Len(meta)

\* The bucket the sender fills: what the device has copied is in the buffer,
\* what it has not is intact where it comes from.
BucketInv ==
    /\ Follow(meta, next - 1 - Len(meta))
    /\ \A i \in DOMAIN meta : meta[i].at >= 0 /\ meta[i].at + sizes[meta[i].weight] <= offset
    /\ \A i, j \in DOMAIN meta :
           i < j => meta[i].at + sizes[meta[i].weight] <= meta[j].at
    /\ Len(pending) <= Len(meta)
    /\ \A i \in DOMAIN pending : /\ pending[i] = meta[Len(meta) - Len(pending) + i]
                                 /\ Held(pending[i].weight)
    /\ spc = "fill" =>
           \A i \in DOMAIN meta : i <= Len(meta) - Len(pending) => InBuffer(meta[i])
    /\ spc # "fill" => pending = <<>>

Waiting == spc \in {"flush", "direct", "last"}
Serves(r) == rpc[r] \in {"ready", "load", "done", "raised"}

\* One receiver takes the handle; a request or its answer is under way only
\* while the sender waits.
WireInv ==
    /\ wire # <<>> \/ reply => spc \notin {"start", "fill", "done", "failed"}
    /\ wire # <<>> => ~reply
    /\ spc = "start" \/ (spc = "handle" /\ ~reply) => \A r \in Receivers : ~Serves(r)
    /\ spc \in {"fill", "done", "failed"} \/ Waiting \/ reply => \E r \in Receivers : Serves(r)
    /\ \A q, r \in Receivers : Serves(q) /\ Serves(r) => q = r
    /\ \A r \in Receivers : ~Serves(r) => loaded[r] = <<>>
    /\ wire # <<>> => /\ Len(wire) = 1
                      /\ \/ spc = "handle" /\ wire[1].message = Handle
                         \/ /\ Waiting /\ wire[1].message.kind = "bucket"
                            /\ wire[1].message.items \in Seq(Entry)
                            /\ wire[1].message.last \in BOOLEAN
    /\ spc \in {"start", "handle"} => next = 1
    /\ spc \in {"start", "handle", "flush", "direct"} => meta = <<>>
    /\ spc \in {"last", "done"} => next = NumWeights + 1

\* items are what receiver r has still to load of what the sender has sent.
Owed(r, items) == /\ Follow(items, Len(loaded[r])) /\ Len(loaded[r]) + Len(items) = Sent
                  /\ \A i \in DOMAIN items : Ready(items[i])

ServedInv ==
    \A r \in Receivers : Serves(r) =>
        /\ wire # <<>> /\ Waiting => rpc[r] \in {"ready", "done"} /\ Owed(r, wire[1].message.items)
        /\ rpc[r] = "load" => wire = <<>> /\ ~reply /\ Waiting /\ Owed(r, todo[r])
        /\ reply \/ spc \in {"fill", "done", "failed"} =>
               rpc[r] \in {"ready", "done"} /\ Len(loaded[r]) = Sent

Inv == /\ TypeOK
       /\ StreamInv /\ FillingInv /\ BroadcastInv /\ IntactInv /\ GivenInv
       /\ BucketInv /\ WireInv /\ ServedInv /\ LoadsTheWeights

-----------------------------------------------------------------------------
(* Sequences and sizes.                                                    *)

LEMMA Sizes == /\ NumWeights \in Nat \ {0} /\ MaxSize \in Nat \ {0}
               /\ BucketSize \in Nat \ {0} /\ EngineBucket \in Nat \ {0}
               /\ MayFail \in BOOLEAN
BY TransferAssumption, EngineAssumption

LEMMA Longer ==
    ASSUME NEW S, NEW s \in Seq(S), NEW x \in S
    PROVE  /\ Append(s, x) \in Seq(S) /\ Len(Append(s, x)) = Len(s) + 1 /\ Len(s) \in Nat
           /\ DOMAIN Append(s, x) = 1 .. Len(s) + 1 /\ DOMAIN s = 1 .. Len(s)
           /\ Append(s, x)[Len(s) + 1] = x
           /\ \A i \in 1 .. Len(s) : Append(s, x)[i] = s[i]
OBVIOUS

LEMMA Shorter ==
    ASSUME NEW S, NEW s \in Seq(S), s # <<>>
    PROVE  /\ Tail(s) \in Seq(S) /\ Len(Tail(s)) = Len(s) - 1 /\ Len(s) \in Nat \ {0}
           /\ DOMAIN Tail(s) = 1 .. Len(s) - 1 /\ DOMAIN s = 1 .. Len(s)
           /\ Head(s) = s[1] /\ s[1] \in S
           /\ \A i \in 1 .. Len(s) - 1 : Tail(s)[i] = s[i + 1]
OBVIOUS

LEMMA Indexed ==
    ASSUME NEW S, NEW s \in Seq(S)
    PROVE  /\ Len(s) \in Nat /\ DOMAIN s = 1 .. Len(s)
           /\ s = <<>> <=> Len(s) = 0
           /\ \A i \in 1 .. Len(s) : s[i] \in S
OBVIOUS

LEMMA Dropped ==
    ASSUME NEW r, peers \in Seq(Receivers)
    PROVE  Without(r) \in Seq(Receivers)
<1>1. CASE \E i \in DOMAIN peers : peers[i] = r
  <2>1. PICK i : i = CHOOSE k \in DOMAIN peers : peers[k] = r OBVIOUS
  <2>2. i \in DOMAIN peers BY <1>1, <2>1
  <2>3. DOMAIN peers = 1 .. Len(peers) /\ Len(peers) \in Nat BY Indexed
  <2>4. SubSeq(peers, 1, i - 1) \in Seq(Receivers) /\ SubSeq(peers, i + 1, Len(peers)) \in Seq(Receivers)
    BY <2>2, <2>3
  <2>5. Without(r) = SubSeq(peers, 1, i - 1) \o SubSeq(peers, i + 1, Len(peers))
    BY <1>1, <2>1 DEF Without
  <2>6. QED BY <2>4, <2>5, ConcatProperties
<1>2. CASE ~\E i \in DOMAIN peers : peers[i] = r BY <1>2 DEF Without
<1>3. QED BY <1>1, <1>2

-----------------------------------------------------------------------------
(* Chains of chunks.                                                       *)

LEMMA EmptyChain ==
    ASSUME NEW z, NEW p PROVE Chain(z, <<>>, p, p)
BY DEF Chain

LEMMA Empty ==
    ASSUME NEW z, NEW p, NEW q, Chain(z, <<>>, p, q) PROVE p = q
BY DEF Chain

LEMMA LongerChain ==
    ASSUME NEW z, NEW s, NEW p, NEW e \in Piece(z), Chain(z, s, p, PlaceOf(e))
    PROVE  Chain(z, Append(s, e), p, Behind(z, e))
<1> DEFINE t == Append(s, e)
<1>0. s \in Seq(Piece(z)) BY DEF Chain
<1>1. /\ t \in Seq(Piece(z)) /\ Len(t) = Len(s) + 1 /\ Len(s) \in Nat
      /\ t[Len(s) + 1] = e /\ \A i \in 1 .. Len(s) : t[i] = s[i]
  BY <1>0, Longer
<1>2. CASE s = <<>>
  <2>1. Len(s) = 0 /\ PlaceOf(e) = p BY <1>2 DEF Chain
  <2>2. t[1] = e /\ Len(t) = 1 BY <1>1, <2>1
  <2>3. QED BY <1>1, <2>1, <2>2 DEF Chain
<1>3. CASE s # <<>>
  <2>1. Len(s) > 0 BY <1>0, <1>1, <1>3, Indexed
  <2>2. PlaceOf(t[1]) = p /\ PlaceOf(e) = Behind(z, s[Len(s)]) BY <1>1, <1>3, <2>1 DEF Chain
  <2>3. ASSUME NEW i \in 1 .. Len(t) - 1 PROVE PlaceOf(t[i + 1]) = Behind(z, t[i])
    <3>1. CASE i = Len(s) BY <3>1, <1>1, <2>1, <2>2
    <3>2. CASE i < Len(s)
      <4>1. i \in 1 .. Len(s) - 1 /\ t[i + 1] = s[i + 1] /\ t[i] = s[i] BY <3>2, <1>1
      <4>2. QED BY <4>1 DEF Chain
    <3>3. QED BY <3>1, <3>2, <1>1
  <2>4. t # <<>> /\ t[Len(t)] = e BY <1>1
  <2>5. QED BY <1>1, <2>2, <2>3, <2>4 DEF Chain
<1>4. QED BY <1>2, <1>3

LEMMA ShorterChain ==
    ASSUME NEW z, NEW s, NEW p, NEW q, Chain(z, s, p, q), s # <<>>
    PROVE  /\ Head(s) \in Piece(z) /\ PlaceOf(Head(s)) = p /\ Head(s) = s[1]
           /\ Chain(z, Tail(s), Behind(z, Head(s)), q)
<1> DEFINE t == Tail(s)
<1>0. s \in Seq(Piece(z)) BY DEF Chain
<1>1. /\ t \in Seq(Piece(z)) /\ Len(t) = Len(s) - 1 /\ Len(s) \in Nat \ {0}
      /\ Head(s) = s[1] /\ s[1] \in Piece(z) /\ \A i \in 1 .. Len(s) - 1 : t[i] = s[i + 1]
  BY <1>0, Shorter
<1>2. PlaceOf(s[1]) = p /\ Behind(z, s[Len(s)]) = q BY DEF Chain
<1>3. CASE Len(s) = 1
  <2>1. t = <<>> BY <1>1, <1>3, Indexed
  <2>2. Behind(z, s[1]) = q BY <1>2, <1>3
  <2>3. QED BY <2>1, <2>2, <1>1, <1>2, EmptyChain
<1>4. CASE Len(s) > 1
  <2>1. t # <<>> /\ t[1] = s[2] /\ t[Len(t)] = s[Len(s)] BY <1>1, <1>4
  <2>2. PlaceOf(s[2]) = Behind(z, s[1])
    <3>1. 1 \in 1 .. Len(s) - 1 BY <1>1, <1>4
    <3>2. QED BY <3>1 DEF Chain
  <2>3. ASSUME NEW i \in 1 .. Len(t) - 1 PROVE PlaceOf(t[i + 1]) = Behind(z, t[i])
    <3>1. i + 1 \in 1 .. Len(s) - 1 /\ t[i + 1] = s[i + 1 + 1] /\ t[i] = s[i + 1] BY <1>1
    <3>2. QED BY <3>1 DEF Chain
  <2>4. QED BY <1>1, <1>2, <2>1, <2>2, <2>3 DEF Chain
<1>5. QED BY <1>1, <1>3, <1>4
-----------------------------------------------------------------------------
(* The stream from the trainer to the sender of the bucketed transfer.     *)

LEMMA ChunkSizes ==
    ASSUME TypeOK, StreamInv, FillingInv, ~AllSplit, Fits
    PROVE  LET e == [weight |-> chunk.weight, from |-> chunk.from, size |-> ChunkSize, at |-> Filled]
           IN /\ e \in Piece(sizes) /\ PlaceOf(e) = chunk /\ Behind(sizes, e) \in Place
              /\ Filled + e.size <= EngineBucket
              /\ Behind(sizes, e).weight <= NumWeights =>
                     Behind(sizes, e).from < sizes[Behind(sizes, e).weight]
              /\ e.from + e.size # sizes[e.weight] => e.size = EngineBucket
<1> DEFINE e == [weight |-> chunk.weight, from |-> chunk.from, size |-> ChunkSize, at |-> Filled]
           w == chunk.weight
<1>0. sizes \in [Weights -> 1 .. MaxSize] BY DEF TypeOK
<1>1. chunk \in Place /\ w <= NumWeights BY Sizes DEF StreamInv, AllSplit, Place
<1>2. w \in Weights /\ chunk.from \in 0 .. MaxSize BY <1>1, Sizes DEF Place, Weights
<1>3. sizes[w] \in 1 .. MaxSize /\ chunk.from < sizes[w]
  BY <1>1, <1>2 DEF TypeOK, StreamInv
<1>4. /\ ChunkSize \in 1 .. EngineBucket /\ chunk.from + ChunkSize <= sizes[w]
      /\ chunk.from + ChunkSize # sizes[w] => ChunkSize = EngineBucket
  BY <1>2, <1>3, Sizes DEF ChunkSize, Lesser
<1>5. Filled + ChunkSize <= EngineBucket /\ Filled \in 0 .. EngineBucket - 1
  BY <1>4, Sizes DEF Fits, FillingInv
<1>6. e \in Piece(sizes) BY <1>2, <1>4, <1>5 DEF Piece, Chunk
<1>7. chunk = [weight |-> chunk.weight, from |-> chunk.from] BY <1>1 DEF Place
<1>8. Behind(sizes, e) \in Place
  BY <1>2, <1>3, <1>4, Sizes DEF Behind, Place, Weights
<1>9. Behind(sizes, e).weight <= NumWeights =>
          Behind(sizes, e).from < sizes[Behind(sizes, e).weight]
  <2>1. CASE e.from + e.size = sizes[w]
    <3>1. Behind(sizes, e) = [weight |-> w + 1, from |-> 0] BY <2>1 DEF Behind
    <3>2. w + 1 <= NumWeights => sizes[w + 1] \in 1 .. MaxSize
      BY <1>0, <1>2, Sizes DEF Weights
    <3>3. QED BY <3>1, <3>2, Sizes
  <2>2. CASE e.from + e.size # sizes[w] BY <2>2, <1>2, <1>3, <1>4 DEF Behind
  <2>3. QED BY <2>1, <2>2
<1>10. QED BY <1>4, <1>5, <1>6, <1>7, <1>8, <1>9 DEF PlaceOf

LEMMA PackStream ==
    ASSUME TypeOK, StreamInv, FillingInv, PackChunk
    PROVE  StreamInv'
<1> DEFINE e == [weight |-> chunk.weight, from |-> chunk.from, size |-> ChunkSize, at |-> Filled]
<1>1. e \in Piece(sizes) /\ PlaceOf(e) = chunk /\ Behind(sizes, e) \in Place
      /\ (Behind(sizes, e).weight <= NumWeights =>
              Behind(sizes, e).from < sizes[Behind(sizes, e).weight])
  BY ChunkSizes DEF PackChunk
<1>2. /\ filling' = Append(filling, e) /\ chunk' = Behind(sizes, e)
      /\ UNCHANGED <<sizes, bucket, yielded, merging, recvOp, sendOp, bus>>
  BY DEF PackChunk, Behind
<1>3. PICK p, q, r \in Place :
          /\ Chain(sizes, bucket.items, Yielding, p) /\ Chain(sizes, Received, p, q)
          /\ Chain(sizes, Unknown, q, r) /\ Chain(sizes, filling, r, chunk)
  BY DEF StreamInv
<1>4. Chain(sizes, Append(filling, e), r, Behind(sizes, e)) BY <1>1, <1>3, LongerChain
<1>5. Yielding' = Yielding /\ Received' = Received /\ Unknown' = Unknown
  BY <1>2 DEF Yielding, Received, Unknown
<1>6. QED BY <1>1, <1>2, <1>3, <1>4, <1>5 DEF StreamInv

LEMMA BroadcastStream ==
    ASSUME StreamInv, BroadcastInv, Broadcast
    PROVE  StreamInv'
<1>1. /\ sendOp' = Op("metadata", sendBuf, [items |-> filling, last |-> AllSplit])
      /\ filling' = <<>> /\ sendOp.state \in {"none", "done"}
      /\ UNCHANGED <<sizes, bucket, yielded, merging, recvOp, bus, chunk>>
  BY DEF Broadcast
<1>2. PICK p, q, r \in Place :
          /\ Chain(sizes, bucket.items, Yielding, p) /\ Chain(sizes, Received, p, q)
          /\ Chain(sizes, Unknown, q, r) /\ Chain(sizes, filling, r, chunk)
  BY DEF StreamInv
<1>3. bus = <<>> /\ Unknown = <<>> BY <1>1 DEF BroadcastInv, Unknown
<1>4. q = r BY <1>2, <1>3, Empty
<1>5. Yielding' = Yielding /\ Received' = Received BY <1>1 DEF Yielding, Received
<1>6. Unknown' = filling BY <1>1 DEF Unknown, Op
<1>7. chunk \in Place /\ Chain(sizes, <<>>, chunk, chunk) BY EmptyChain DEF StreamInv
<1>8. \E a, b, c \in Place :
          /\ Chain(sizes, bucket.items, Yielding, a) /\ Chain(sizes, Received, a, b)
          /\ Chain(sizes, filling, b, c) /\ Chain(sizes, <<>>, c, chunk)
  BY <1>2, <1>4, <1>7
<1>9. QED BY <1>1, <1>5, <1>6, <1>8 DEF StreamInv

\* The bucket goes from the one side to the other.
LEMMA MetadataStream ==
    ASSUME StreamInv, BroadcastInv, ReceiveMetadata
    PROVE  StreamInv'
<1>1. /\ recvOp.state = "metadata" /\ bus = <<sendOp.meta>> /\ sendOp.state = "joined"
      /\ recvOp' = Op("joined", recvOp.buf, Head(bus)) /\ bus' = Tail(bus)
      /\ UNCHANGED <<sizes, bucket, yielded, merging, sendOp, filling, chunk>>
  BY DEF ReceiveMetadata, BroadcastInv
<1>2. PICK p, q, r \in Place :
          /\ Chain(sizes, bucket.items, Yielding, p) /\ Chain(sizes, Received, p, q)
          /\ Chain(sizes, Unknown, q, r) /\ Chain(sizes, filling, r, chunk)
  BY DEF StreamInv
<1>3. ~bucket.last BY <1>1 DEF BroadcastInv
<1>4. Received = <<>> /\ Unknown = sendOp.meta.items BY <1>1 DEF Received, Unknown
<1>5. bus' = <<>> /\ Head(bus) = sendOp.meta BY <1>1
<1>6. Unknown' = <<>> BY <1>1, <1>5 DEF Unknown
<1>7. Received' = sendOp.meta.items BY <1>1, <1>3, <1>5 DEF Received, Op
<1>8. p = q /\ Chain(sizes, <<>>, r, r) BY <1>2, <1>4, Empty, EmptyChain
<1>9. Yielding' = Yielding BY <1>1 DEF Yielding
<1>10. \E a, b, c \in Place :
          /\ Chain(sizes, bucket.items, Yielding, a) /\ Chain(sizes, sendOp.meta.items, a, b)
          /\ Chain(sizes, <<>>, b, c) /\ Chain(sizes, filling, c, chunk)
  BY <1>2, <1>4, <1>8
<1>11. QED BY <1>1, <1>6, <1>7, <1>9, <1>10 DEF StreamInv

LEMMA AdoptStream ==
    ASSUME StreamInv, BroadcastInv, NextBucket
    PROVE  StreamInv'
<1>1. /\ gen = "await" /\ recvOp.state = "done" /\ bucket' = recvOp.meta
      /\ recvOp' = IF recvOp.meta.last THEN recvOp ELSE Op("metadata", 3 - recvOp.buf, NoMeta)
      /\ UNCHANGED <<sizes, bus, yielded, merging, sendOp, filling, chunk>>
  BY DEF NextBucket, Adopt
<1>2. PICK p, q, r \in Place :
          /\ Chain(sizes, bucket.items, Yielding, p) /\ Chain(sizes, Received, p, q)
          /\ Chain(sizes, Unknown, q, r) /\ Chain(sizes, filling, r, chunk)
  BY DEF StreamInv
<1>3. bucket.items = <<>> /\ ~bucket.last BY <1>1 DEF BroadcastInv
<1>4. p = Yielding /\ Received = recvOp.meta.items BY <1>1, <1>2, <1>3, Empty DEF Received
<1>5. Received' = <<>> BY <1>1 DEF Received, Op
<1>6. Unknown' = Unknown /\ Yielding' = Yielding BY <1>1 DEF Unknown, Yielding
<1>7. Chain(sizes, <<>>, q, q) BY EmptyChain
<1>8. \E a, b, c \in Place :
          /\ Chain(sizes, recvOp.meta.items, Yielding, a) /\ Chain(sizes, <<>>, a, b)
          /\ Chain(sizes, Unknown, b, c) /\ Chain(sizes, filling, c, chunk)
  BY <1>2, <1>4, <1>7
<1>9. QED BY <1>1, <1>5, <1>6, <1>8 DEF StreamInv

\* The chunk the generator takes is the next one of its weight, and intact.
LEMMA YieldedChunk ==
    ASSUME TypeOK, StreamInv, IntactInv, BroadcastInv, Yield
    PROVE  LET e == Head(bucket.items)
           IN /\ e \in Piece(sizes) /\ e.weight = yielded + 1 /\ e.from = merging
              /\ e \in rx[Shown] /\ Shown \in Bufs
              /\ Behind(sizes, e) \in Place /\ Yielding' = Behind(sizes, e)
<1> DEFINE e == Head(bucket.items)
<1>1. bucket.items # <<>> BY DEF Yield
<1>2. PICK p \in Place : Chain(sizes, bucket.items, Yielding, p) BY DEF StreamInv
<1>3. e \in Piece(sizes) /\ PlaceOf(e) = Yielding /\ e = bucket.items[1]
  BY <1>1, <1>2, ShorterChain
<1>4. e.weight = yielded + 1 /\ e.from = merging BY <1>3 DEF PlaceOf, Yielding
<1>5. 1 \in DOMAIN bucket.items BY <1>1, <1>2, Indexed DEF Chain
<1>6. e \in rx[Shown] BY <1>3, <1>5 DEF IntactInv
<1>7. Shown \in Bufs BY DEF Shown, BroadcastInv, OpType, Bufs
<1>8. /\ e.weight \in 1 .. NumWeights /\ e.from \in 0 .. MaxSize /\ e.size \in 1 .. EngineBucket
      /\ e.from + e.size <= sizes[e.weight] /\ sizes[e.weight] \in 1 .. MaxSize
  BY <1>3 DEF Piece, Chunk, Weights, TypeOK
<1>9. Behind(sizes, e) \in Place BY <1>8, Sizes DEF Behind, Place
<1>10. Yielding' = Behind(sizes, e)
  <2>1. /\ yielded' = IF e.from + e.size = sizes[e.weight] THEN yielded + 1 ELSE yielded
        /\ merging' = IF e.from + e.size = sizes[e.weight] THEN 0 ELSE e.from + e.size
    BY <1>4, <1>6, <1>7 DEF Yield
  <2>2. QED BY <2>1, <1>4 DEF Yielding, Behind
<1>11. QED BY <1>3, <1>4, <1>6, <1>7, <1>9, <1>10

LEMMA YieldStream ==
    ASSUME TypeOK, StreamInv, IntactInv, BroadcastInv, Yield
    PROVE  StreamInv'
<1> DEFINE e == Head(bucket.items)
<1>1. Behind(sizes, e) \in Place /\ Yielding' = Behind(sizes, e) BY YieldedChunk
<1>2. PICK p, q, r \in Place :
          /\ Chain(sizes, bucket.items, Yielding, p) /\ Chain(sizes, Received, p, q)
          /\ Chain(sizes, Unknown, q, r) /\ Chain(sizes, filling, r, chunk)
  BY DEF StreamInv
<1>3. Chain(sizes, Tail(bucket.items), Behind(sizes, e), p)
  BY <1>2, ShorterChain DEF Yield
<1>4. /\ bucket' = [bucket EXCEPT !.items = Tail(@)]
      /\ UNCHANGED <<sizes, bus, recvOp, sendOp, filling, chunk>>
  BY DEF Yield
<1>5. bucket'.items = Tail(bucket.items) /\ bucket'.last = bucket.last
  BY <1>4 DEF BroadcastInv
<1>6. Received' = Received /\ Unknown' = Unknown BY <1>4, <1>5 DEF Received, Unknown
<1>7. yielded' \in 0 .. NumWeights /\ merging' \in 0 .. MaxSize
  <2>1. yielded' \in Int BY DEF Yield, StreamInv
  <2>2. yielded' + 1 \in 1 .. NumWeights + 1 /\ merging' \in 0 .. MaxSize
    BY <1>1 DEF Yielding, Place
  <2>3. ASSUME NEW y \in Int, y + 1 \in 1 .. NumWeights + 1 PROVE y \in 0 .. NumWeights
    BY <2>3, Sizes
  <2>4. QED BY <2>1, <2>2, <2>3
<1>8. QED BY <1>1, <1>2, <1>3, <1>4, <1>5, <1>6, <1>7 DEF StreamInv

\* The other steps move no chunk.
LEMMA OtherStream ==
    ASSUME StreamInv, BroadcastInv,
           \/ PublishMetadata \/ CollectiveBegins \/ CollectiveEnds \/ FirstBucket \/ BucketIsEmpty
           \/ UNCHANGED <<sizes, engineVars>>
    PROVE  StreamInv'
<1>1. /\ UNCHANGED <<sizes, filling, chunk, yielded, merging>>
      /\ bucket' = bucket /\ Received' = Received /\ Unknown' = Unknown
  <2>1. CASE PublishMetadata
    <3>1. sendOp'.meta = sendOp.meta /\ sendOp'.state = "joined" /\ sendOp.state = "metadata"
      BY <2>1 DEF PublishMetadata, BroadcastInv, OpType
    <3>2. bus = <<>> BY <3>1 DEF BroadcastInv
    <3>3. bus' # <<>> BY <2>1, <3>2 DEF PublishMetadata
    <3>4. Unknown' = Unknown BY <3>1, <3>3 DEF Unknown
    <3>5. UNCHANGED <<sizes, filling, chunk, yielded, merging, bucket, recvOp>> BY <2>1 DEF PublishMetadata
    <3>6. QED BY <3>4, <3>5 DEF Received
  <2>2. CASE CollectiveBegins \/ CollectiveEnds
    <3>1. /\ UNCHANGED <<sizes, filling, chunk, yielded, merging, bucket, bus>>
          /\ sendOp.state \in {"joined", "moving"} /\ recvOp.state \in {"joined", "moving"}
          /\ sendOp'.state \in {"moving", "done"} /\ recvOp'.state \in {"moving", "done"}
          /\ recvOp'.meta = recvOp.meta
      BY <2>2 DEF CollectiveBegins, CollectiveEnds, BroadcastInv, OpType
    <3>2. bus = <<>> BY <3>1 DEF BroadcastInv
    <3>3. QED BY <3>1, <3>2 DEF Received, Unknown
  <2>3. CASE FirstBucket
    <3>1. /\ UNCHANGED <<sizes, filling, chunk, yielded, merging, bucket, bus, sendOp>>
          /\ recvOp.state = "none" /\ recvOp' = Op("metadata", 2, NoMeta)
      BY <2>3 DEF FirstBucket, BroadcastInv
    <3>2. QED BY <3>1 DEF Received, Unknown, Op
  <2>4. CASE BucketIsEmpty \/ UNCHANGED <<sizes, engineVars>>
    BY <2>4 DEF BucketIsEmpty, Received, Unknown
  <2>5. QED BY <2>1, <2>2, <2>3, <2>4
<1>2. Yielding' = Yielding BY <1>1 DEF Yielding
<1>3. QED BY <1>1, <1>2 DEF StreamInv
-----------------------------------------------------------------------------
(* The bucket the trainer fills.                                           *)

LEMMA FillingType ==
    ASSUME StreamInv
    PROVE  /\ filling \in Seq(Chunk) /\ Len(filling) \in Nat /\ DOMAIN filling = 1 .. Len(filling)
           /\ \A i \in DOMAIN filling :
                  /\ filling[i] \in Chunk /\ filling[i].at \in Nat
                  /\ filling[i].size \in Nat \ {0} /\ filling[i].weight \in Nat
<1>1. filling \in Seq(Piece(sizes)) BY DEF StreamInv, Chain
<1>2. Piece(sizes) \subseteq Chunk BY DEF Piece
<1>3. filling \in Seq(Chunk) BY <1>1, <1>2
<1>4. /\ Len(filling) \in Nat /\ DOMAIN filling = 1 .. Len(filling)
      /\ \A i \in DOMAIN filling : filling[i] \in Chunk
  BY <1>3, Indexed
<1>5. \A e \in Chunk : e.at \in Nat /\ e.size \in Nat \ {0} /\ e.weight \in Nat
  BY Sizes DEF Chunk, Weights
<1>6. QED BY <1>3, <1>4, <1>5

LEMMA PackFilling ==
    ASSUME TypeOK, StreamInv, FillingInv, PackChunk
    PROVE  FillingInv'
<1> DEFINE e == [weight |-> chunk.weight, from |-> chunk.from, size |-> ChunkSize, at |-> Filled]
           n == Len(filling)
<1>1. /\ e \in Piece(sizes) /\ Behind(sizes, e) \in Place /\ Filled + e.size <= EngineBucket
      /\ e.from + e.size # sizes[e.weight] => e.size = EngineBucket
  BY ChunkSizes DEF PackChunk
<1>2. filling' = Append(filling, e) /\ chunk' = Behind(sizes, e) BY DEF PackChunk, Behind
<1>3. /\ filling \in Seq(Chunk) /\ e \in Chunk /\ n \in Nat /\ DOMAIN filling = 1 .. n
      /\ \A i \in 1 .. n : filling[i].at \in Nat /\ filling[i].size \in Nat /\ filling[i].weight \in Nat
  BY <1>1, FillingType DEF Piece
<1>4. /\ Len(filling') = n + 1 /\ DOMAIN filling' = 1 .. n + 1 /\ filling'[n + 1] = e
      /\ \A i \in 1 .. n : filling'[i] = filling[i]
  BY <1>2, <1>3, Longer
<1>5. e.size \in Nat \ {0} /\ e.weight \in Nat /\ e.weight = chunk.weight /\ e.at = Filled
      /\ Filled \in Nat /\ e.from \in Nat
  BY <1>3, Sizes DEF FillingInv, Chunk, Weights
<1>6. filling' # <<>> /\ Filled' = Filled + e.size BY <1>4, <1>5 DEF Filled
<1>7. ASSUME NEW i \in 1 .. n + 1 PROVE filling'[i].at + filling'[i].size <= Filled'
  <2>1. CASE i = n + 1 BY <2>1, <1>4, <1>5, <1>6
  <2>2. CASE i \in 1 .. n
    <3>1. filling[i].at + filling[i].size <= Filled BY <2>2, <1>3 DEF FillingInv
    <3>2. QED BY <3>1, <2>2, <1>3, <1>4, <1>5, <1>6
  <2>3. QED BY <2>1, <2>2, <1>3
<1>8. ASSUME NEW i \in 1 .. n + 1, NEW j \in 1 .. n + 1, i < j
      PROVE  filling'[i].weight < filling'[j].weight
  <2>1. CASE j = n + 1
    <3>1. i \in 1 .. n /\ n > 0 /\ filling # <<>> BY <2>1, <1>3, <1>8, Indexed
    <3>2. Filled # EngineBucket BY <1>1, <1>5, Sizes
    <3>3. filling[n].weight < chunk.weight BY <3>1, <3>2 DEF FillingInv
    <3>4. filling[i].weight <= filling[n].weight
      <4>1. CASE i = n BY <4>1, <3>1, <1>3
      <4>2. CASE i < n
        <5>1. n \in DOMAIN filling /\ i \in DOMAIN filling BY <3>1, <1>3
        <5>2. filling[i].weight < filling[n].weight BY <4>2, <5>1 DEF FillingInv
        <5>3. QED BY <5>1, <5>2, <1>3
      <4>3. i = n \/ i < n BY <3>1
      <4>4. QED BY <4>1, <4>2, <4>3
    <3>5. QED BY <2>1, <3>1, <3>3, <3>4, <1>3, <1>4, <1>5
  <2>2. CASE j \in 1 .. n
    <3>1. i \in 1 .. n BY <2>2, <1>8, <1>3
    <3>2. filling[i].weight < filling[j].weight BY <2>2, <3>1, <1>3, <1>8 DEF FillingInv
    <3>3. QED BY <2>2, <3>1, <3>2, <1>4
  <2>3. QED BY <2>1, <2>2, <1>3
<1>9. Filled' \in 0 .. EngineBucket BY <1>1, <1>5, <1>6, Sizes
<1>10. \/ Filled' = EngineBucket
       \/ chunk'.from = 0 /\ filling'[Len(filling')].weight < chunk'.weight
  <2>1. CASE e.from + e.size = sizes[e.weight]
    <3>1. chunk' = [weight |-> e.weight + 1, from |-> 0] BY <1>2, <2>1 DEF Behind
    <3>2. QED BY <3>1, <1>4, <1>5
  <2>2. CASE e.from + e.size # sizes[e.weight]
    BY <2>2, <1>1, <1>5, <1>6, Sizes
  <2>3. QED BY <2>1, <2>2
<1>11. QED BY <1>4, <1>7, <1>8, <1>9, <1>10 DEF FillingInv

LEMMA OtherFilling ==
    ASSUME FillingInv, Broadcast \/ Thread \/ Generator \/ UNCHANGED engineVars
    PROVE  FillingInv'
<1>1. CASE Broadcast
  <2>1. filling' = <<>> BY <1>1 DEF Broadcast
  <2>2. QED BY <2>1, Sizes DEF FillingInv, Filled
<1>2. CASE Thread \/ Generator \/ UNCHANGED engineVars
  <2>1. filling' = filling /\ chunk' = chunk
    BY <1>2 DEF Thread, Generator, PublishMetadata, ReceiveMetadata, CollectiveBegins,
                CollectiveEnds, FirstBucket, NextBucket, Adopt, Yield, BucketIsEmpty
  <2>2. QED BY <2>1 DEF FillingInv, Filled
<1>3. QED BY <1>1, <1>2

-----------------------------------------------------------------------------
(* The two sides of a broadcast.                                           *)

LEMMA BroadcastKept ==
    ASSUME BroadcastInv, Trainer \/ Thread \/ Generator \/ UNCHANGED engineVars
    PROVE  BroadcastInv'
<1>1. CASE PackChunk \/ UNCHANGED engineVars
  BY <1>1 DEF PackChunk, BroadcastInv, OpType
<1>2. CASE Broadcast
  <2>1. /\ sendOp' = [state |-> "metadata", buf |-> sendBuf,
                      meta |-> [items |-> filling, last |-> AllSplit]]
        /\ sendBuf' = 3 - sendBuf /\ sendOp.state \in {"none", "done"}
        /\ UNCHANGED <<bus, recvOp, gen, bucket, backend>>
    BY <1>2 DEF Broadcast, Op
  <2>2. OpType(sendOp)'
    <3>1. AllSplit \in BOOLEAN BY DEF AllSplit
    <3>2. QED BY <2>1, <3>1 DEF OpType, BroadcastInv
  <2>3. bus = <<>> BY <2>1 DEF BroadcastInv
  <2>4. sendBuf \in Bufs /\ sendBuf' \in Bufs /\ sendOp'.buf = 3 - sendBuf'
    BY <2>1 DEF BroadcastInv, Bufs
  <2>5. recvOp.state \notin {"joined", "moving"} BY <2>1 DEF BroadcastInv
  <2>6. QED BY <2>1, <2>2, <2>3, <2>4, <2>5 DEF BroadcastInv, OpType
<1>3. CASE PublishMetadata
  <2>1. /\ sendOp.state = "metadata" /\ bus' = Append(bus, sendOp.meta)
        /\ sendOp' = [state |-> "joined", buf |-> sendOp.buf, meta |-> sendOp.meta]
        /\ UNCHANGED <<sendBuf, recvOp, gen, bucket, backend>>
    BY <1>3 DEF PublishMetadata, BroadcastInv, OpType
  <2>2. bus = <<>> /\ recvOp.state \notin {"joined", "moving"} BY <2>1 DEF BroadcastInv
  <2>3. bus' = <<sendOp'.meta>> BY <2>1, <2>2
  <2>4. QED BY <2>1, <2>2, <2>3 DEF BroadcastInv, OpType
<1>4. CASE ReceiveMetadata
  <2>1. /\ recvOp.state = "metadata" /\ bus # <<>> /\ bus' = Tail(bus)
        /\ recvOp' = [state |-> "joined", buf |-> recvOp.buf, meta |-> Head(bus)]
        /\ UNCHANGED <<sendBuf, sendOp, gen, bucket, backend>>
    BY <1>4 DEF ReceiveMetadata, Op
  <2>2. bus = <<sendOp.meta>> /\ sendOp.state = "joined" /\ gen # "new" /\ ~bucket.last
    BY <2>1 DEF BroadcastInv
  <2>3. bus' = <<>> /\ Head(bus) = sendOp.meta BY <2>1, <2>2
  <2>4. QED BY <2>1, <2>2, <2>3 DEF BroadcastInv, OpType
<1>5. CASE CollectiveBegins
  <2>1. /\ sendOp.state = "joined" /\ recvOp.state = "joined"
        /\ sendOp' = [state |-> "moving", buf |-> sendOp.buf, meta |-> sendOp.meta]
        /\ recvOp' = [state |-> "moving", buf |-> recvOp.buf, meta |-> recvOp.meta]
        /\ UNCHANGED <<sendBuf, bus, gen, bucket, backend>>
    BY <1>5 DEF CollectiveBegins, BroadcastInv, OpType
  <2>2. QED BY <2>1 DEF BroadcastInv, OpType
<1>6. CASE CollectiveEnds
  <2>1. /\ sendOp.state = "moving" /\ recvOp.state = "moving"
        /\ sendOp' = [state |-> "done", buf |-> sendOp.buf, meta |-> sendOp.meta]
        /\ recvOp' = [state |-> "done", buf |-> recvOp.buf, meta |-> recvOp.meta]
        /\ UNCHANGED <<sendBuf, bus, gen, bucket, backend>>
    BY <1>6 DEF CollectiveEnds, BroadcastInv, OpType
  <2>2. QED BY <2>1 DEF BroadcastInv, OpType
<1>7. CASE FirstBucket
  <2>1. /\ gen = "new" /\ gen' = "await"
        /\ recvOp' = [state |-> "metadata", buf |-> 2, meta |-> NoMeta]
        /\ UNCHANGED <<sendBuf, sendOp, bus, bucket, backend>>
    BY <1>7 DEF FirstBucket, Op
  <2>2. OpType(recvOp)' BY <2>1 DEF OpType, NoMeta, Bufs
  <2>3. recvOp.state = "none" BY <2>1 DEF BroadcastInv
  <2>4. QED BY <2>1, <2>2, <2>3 DEF BroadcastInv, OpType
<1>8. CASE NextBucket
  <2>1. /\ gen = "await" /\ recvOp.state = "done" /\ bucket' = recvOp.meta /\ gen' = "yield"
        /\ recvOp' = IF recvOp.meta.last THEN recvOp
                     ELSE [state |-> "metadata", buf |-> 3 - recvOp.buf, meta |-> NoMeta]
        /\ UNCHANGED <<sendBuf, sendOp, bus, backend>>
    BY <1>8 DEF NextBucket, Adopt, Op
  <2>0. OpType(recvOp) /\ recvOp.buf \in Bufs BY DEF BroadcastInv, OpType
  <2>2. OpType(recvOp)'
    <3>1. CASE recvOp.meta.last BY <3>1, <2>0, <2>1 DEF OpType
    <3>2. CASE ~recvOp.meta.last
      <4>1. recvOp' = [state |-> "metadata", buf |-> 3 - recvOp.buf, meta |-> NoMeta]
        BY <3>2, <2>1
      <4>2. 3 - recvOp.buf \in Bufs BY <2>0 DEF Bufs
      <4>3. QED BY <4>1, <4>2 DEF OpType, NoMeta
    <3>3. QED BY <3>1, <3>2
  <2>3. /\ bucket'.last \in BOOLEAN
        /\ bucket' = [items |-> bucket'.items, last |-> bucket'.last]
    BY <2>0, <2>1 DEF OpType
  <2>4. sendOp.state # "moving" /\ (sendOp.state = "joined" => bus # <<>>) BY <2>1 DEF BroadcastInv
  <2>5. QED BY <2>1, <2>2, <2>3, <2>4 DEF BroadcastInv, OpType
<1>9. CASE Yield
  <2>1. gen = "yield" /\ bucket' = [items |-> Tail(bucket.items), last |-> bucket.last]
        /\ UNCHANGED <<sendBuf, sendOp, recvOp, gen, bus, backend>>
    BY <1>9 DEF Yield, BroadcastInv
  <2>2. QED BY <2>1 DEF BroadcastInv, OpType
<1>10. CASE BucketIsEmpty
  <2>1. /\ gen = "yield" /\ bucket.items = <<>> /\ gen' = IF bucket.last THEN "end" ELSE "await"
        /\ UNCHANGED <<sendBuf, sendOp, recvOp, bucket, bus, backend>>
    BY <1>10 DEF BucketIsEmpty
  <2>2. QED BY <2>1 DEF BroadcastInv, OpType
<1>11. QED BY <1>1, <1>2, <1>3, <1>4, <1>5, <1>6, <1>7, <1>8, <1>9, <1>10
           DEF Trainer, Thread, Generator
-----------------------------------------------------------------------------
(* The chunks in the buffers.                                              *)

LEMMA Buffers ==
    ASSUME BroadcastInv
    PROVE  /\ sendOp.buf \in Bufs /\ recvOp.buf \in Bufs /\ sendBuf \in Bufs /\ Shown \in Bufs
           /\ sendOp.state # "none" => sendOp.buf # sendBuf
           /\ ~bucket.last => Shown = 3 - recvOp.buf /\ Shown # recvOp.buf
           /\ \A b \in Bufs : 3 - b \in Bufs /\ 3 - (3 - b) = b
BY DEF BroadcastInv, OpType, Bufs, Shown

LEMMA PackIntact ==
    ASSUME TypeOK, StreamInv, FillingInv, BroadcastInv, IntactInv, PackChunk
    PROVE  IntactInv'
<1> DEFINE e == [weight |-> chunk.weight, from |-> chunk.from, size |-> ChunkSize, at |-> Filled]
           n == Len(filling)
<1>1. e \in Chunk BY ChunkSizes DEF PackChunk, Piece
<1>2. /\ filling' = Append(filling, e) /\ tx' = [tx EXCEPT ![sendBuf] = Written(@, e)]
      /\ UNCHANGED <<sendBuf, sendOp, recvOp, bucket, rx, gen>>
  BY DEF PackChunk
<1>3. /\ filling \in Seq(Chunk) /\ n \in Nat /\ DOMAIN filling = 1 .. n
      /\ \A i \in 1 .. n : filling[i] \in Chunk
  BY FillingType
<1>4. /\ DOMAIN filling' = 1 .. n + 1 /\ filling'[n + 1] = e
      /\ \A i \in 1 .. n : filling'[i] = filling[i]
  BY <1>1, <1>2, <1>3, Longer
<1>5. sendBuf \in Bufs /\ tx \in [Bufs -> SUBSET Chunk] BY Buffers DEF IntactInv
<1>6. Written(tx[sendBuf], e) \subseteq Chunk BY <1>1, <1>5 DEF Written
<1>7. tx' \in [Bufs -> SUBSET Chunk] /\ tx'[sendBuf] = Written(tx[sendBuf], e)
      /\ \A b \in Bufs : b # sendBuf => tx'[b] = tx[b]
  BY <1>2, <1>5, <1>6
<1>8. ASSUME NEW i \in 1 .. n + 1 PROVE filling'[i] \in tx'[sendBuf]
  <2>1. CASE i = n + 1 BY <2>1, <1>4, <1>7 DEF Written
  <2>2. CASE i \in 1 .. n
    <3>1. filling[i] \in tx[sendBuf] /\ filling[i].at + filling[i].size <= e.at
      BY <2>2, <1>3 DEF IntactInv, FillingInv
    <3>2. QED BY <3>1, <2>2, <1>4, <1>7 DEF Written
  <2>3. QED BY <2>1, <2>2, <1>3
<1>9. sendOp.state \in {"metadata", "joined", "moving"} => tx'[sendOp.buf] = tx[sendOp.buf]
  BY <1>7, Buffers
<1>10. Shown' = Shown BY <1>2 DEF Shown
<1>11. QED BY <1>2, <1>4, <1>7, <1>8, <1>9, <1>10 DEF IntactInv

LEMMA OtherIntact ==
    ASSUME StreamInv, BroadcastInv, IntactInv,
           Broadcast \/ Thread \/ Generator \/ UNCHANGED engineVars
    PROVE  IntactInv'
<1> USE DEF IntactInv
<1>1. CASE Broadcast
  <2>1. /\ sendOp' = Op("metadata", sendBuf, [items |-> filling, last |-> AllSplit])
        /\ filling' = <<>> /\ UNCHANGED <<tx, rx, recvOp, bucket, gen>>
    BY <1>1 DEF Broadcast
  <2>2. sendOp'.buf = sendBuf /\ sendOp'.meta.items = filling BY <2>1 DEF Op
  <2>3. Shown' = Shown BY <2>1 DEF Shown
  <2>4. DOMAIN filling' = {} BY <2>1
  <2>5. QED BY <2>1, <2>2, <2>3, <2>4
<1>2. CASE PublishMetadata
  <2>1. /\ sendOp.state = "metadata" /\ sendOp'.buf = sendOp.buf /\ sendOp'.meta = sendOp.meta
        /\ UNCHANGED <<filling, sendBuf, tx, rx, recvOp, bucket, gen>>
    BY <1>2 DEF PublishMetadata, BroadcastInv, OpType
  <2>2. Shown' = Shown BY <2>1 DEF Shown
  <2>3. QED BY <2>1, <2>2
<1>3. CASE ReceiveMetadata
  <2>1. /\ recvOp'.state = "joined" /\ recvOp'.buf = recvOp.buf
        /\ UNCHANGED <<filling, sendBuf, sendOp, tx, rx, bucket, gen>>
    BY <1>3 DEF ReceiveMetadata, Op
  <2>2. Shown' = Shown BY <2>1 DEF Shown
  <2>3. QED BY <2>1, <2>2
<1>4. CASE CollectiveBegins
  <2>1. /\ recvOp.state = "joined" /\ recvOp'.state = "moving" /\ recvOp'.buf = recvOp.buf
        /\ sendOp.state = "joined" /\ sendOp'.buf = sendOp.buf /\ sendOp'.meta = sendOp.meta
        /\ rx' = [rx EXCEPT ![recvOp.buf] = {}]
        /\ UNCHANGED <<filling, sendBuf, tx, bucket, gen>>
    BY <1>4 DEF CollectiveBegins, BroadcastInv, OpType
  <2>2. ~bucket.last /\ gen # "new" BY <2>1 DEF BroadcastInv
  <2>3. Shown' = Shown /\ Shown # recvOp.buf /\ Shown \in Bufs BY <2>1, <2>2, Buffers DEF Shown
  <2>4. rx' \in [Bufs -> SUBSET Chunk] /\ rx'[Shown] = rx[Shown] BY <2>1, <2>3
  <2>5. QED BY <2>1, <2>2, <2>3, <2>4
<1>5. CASE CollectiveEnds
  <2>1. /\ recvOp.state = "moving" /\ recvOp'.state = "done" /\ recvOp'.buf = recvOp.buf
        /\ recvOp'.meta = recvOp.meta
        /\ sendOp.state = "moving" /\ sendOp'.state = "done"
        /\ rx' = [rx EXCEPT ![recvOp.buf] = tx[sendOp.buf]]
        /\ UNCHANGED <<filling, sendBuf, tx, bucket, gen>>
    BY <1>5 DEF CollectiveEnds, BroadcastInv, OpType
  <2>2. ~bucket.last /\ gen # "new" /\ recvOp.meta = sendOp.meta BY <2>1 DEF BroadcastInv
  <2>3. Shown' = Shown /\ Shown # recvOp.buf /\ Shown \in Bufs BY <2>1, <2>2, Buffers DEF Shown
  <2>4. recvOp.buf \in Bufs /\ sendOp.buf \in Bufs BY Buffers
  <2>5. /\ rx' \in [Bufs -> SUBSET Chunk] /\ rx'[Shown] = rx[Shown]
        /\ rx'[recvOp.buf] = tx[sendOp.buf]
    BY <2>1, <2>3, <2>4
  <2>6. \A i \in DOMAIN recvOp.meta.items : recvOp.meta.items[i] \in rx'[recvOp.buf]
    BY <2>1, <2>2, <2>5
  <2>7. QED BY <2>1, <2>2, <2>3, <2>5, <2>6
<1>6. CASE FirstBucket
  <2>1. /\ gen = "new" /\ gen' = "await" /\ recvOp'.state = "metadata"
        /\ UNCHANGED <<filling, sendBuf, sendOp, tx, rx, bucket>>
    BY <1>6 DEF FirstBucket, Op
  <2>2. DOMAIN bucket.items = {} BY <2>1 DEF BroadcastInv
  <2>3. QED BY <2>1, <2>2
<1>7. CASE NextBucket
  <2>1. /\ gen = "await" /\ gen' = "yield" /\ recvOp.state = "done" /\ bucket' = recvOp.meta
        /\ recvOp' = IF recvOp.meta.last THEN recvOp ELSE Op("metadata", 3 - recvOp.buf, NoMeta)
        /\ UNCHANGED <<filling, sendBuf, sendOp, tx, rx>>
    BY <1>7 DEF NextBucket, Adopt
  <2>2. ~bucket.last BY <2>1 DEF BroadcastInv
  <2>3. \A i \in DOMAIN bucket'.items : bucket'.items[i] \in rx[recvOp.buf] BY <2>1, <2>2
  <2>4. Shown' = recvOp.buf
    <3>1. CASE recvOp.meta.last BY <3>1, <2>1 DEF Shown
    <3>2. CASE ~recvOp.meta.last
      <4>1. recvOp'.buf = 3 - recvOp.buf BY <3>2, <2>1 DEF Op
      <4>2. QED BY <4>1, <3>2, <2>1, Buffers DEF Shown
    <3>3. QED BY <3>1, <3>2
  <2>5. recvOp'.state = "done" => bucket'.last BY <2>1 DEF Op
  <2>6. QED BY <2>1, <2>3, <2>4, <2>5
<1>8. CASE Yield
  <2>1. /\ gen = "yield" /\ bucket.items # <<>>
        /\ bucket'.items = Tail(bucket.items) /\ bucket'.last = bucket.last
        /\ UNCHANGED <<filling, sendBuf, sendOp, recvOp, tx, rx, gen>>
    BY <1>8 DEF Yield, BroadcastInv
  <2>2. Shown' = Shown BY <2>1 DEF Shown
  <2>3. \A i \in DOMAIN bucket'.items :
            i + 1 \in DOMAIN bucket.items /\ bucket'.items[i] = bucket.items[i + 1]
    <3>1. bucket.items \in Seq(Piece(sizes)) BY DEF StreamInv, Chain
    <3>2. QED BY <3>1, <2>1, Shorter
  <2>4. QED BY <2>1, <2>2, <2>3
<1>9. CASE BucketIsEmpty \/ UNCHANGED engineVars
  <2>1. /\ UNCHANGED <<filling, sendBuf, sendOp, recvOp, tx, rx, bucket>>
        /\ gen' = "new" => gen = "new"
    BY <1>9 DEF BucketIsEmpty
  <2>2. Shown' = Shown BY <2>1 DEF Shown
  <2>3. QED BY <2>1, <2>2
<1>10. QED BY <1>1, <1>2, <1>3, <1>4, <1>5, <1>6, <1>7, <1>8, <1>9 DEF Thread, Generator

-----------------------------------------------------------------------------
(* What the sender was given stays where it is.                            *)

LEMMA HeldKept ==
    ASSUME StreamInv, BroadcastInv, IntactInv, NEW w,
           \/ Trainer \/ Thread \/ FirstBucket \/ Yield \/ BucketIsEmpty
           \/ UNCHANGED <<sizes, engineVars>>,
           Held(w)
    PROVE  Held(w)'
<1>1. UNCHANGED <<sizes, backend>> /\ whole \subseteq whole'
  BY DEF Trainer, PackChunk, Broadcast, Thread, PublishMetadata, ReceiveMetadata,
         CollectiveBegins, CollectiveEnds, FirstBucket, Yield, BucketIsEmpty
<1>2. rx[Shown] \subseteq rx'[Shown']
  <2>1. CASE CollectiveBegins \/ CollectiveEnds
    <3>1. /\ recvOp.state \in {"joined", "moving"} /\ recvOp'.buf = recvOp.buf /\ bucket' = bucket
          /\ \E x : rx' = [rx EXCEPT ![recvOp.buf] = x]
      BY <2>1 DEF CollectiveBegins, CollectiveEnds, BroadcastInv, OpType
    <3>2. ~bucket.last BY <3>1 DEF BroadcastInv
    <3>3. Shown' = Shown /\ Shown # recvOp.buf /\ Shown \in Bufs BY <3>1, <3>2, Buffers DEF Shown
    <3>4. QED BY <3>1, <3>3 DEF IntactInv
  <2>2. CASE FirstBucket
    <3>1. gen = "new" BY <2>2 DEF FirstBucket
    <3>2. rx[Shown] = {} BY <3>1, Buffers DEF IntactInv
    <3>3. QED BY <3>2
  <2>3. CASE Trainer \/ PublishMetadata \/ ReceiveMetadata \/ Yield \/ BucketIsEmpty
             \/ UNCHANGED <<sizes, engineVars>>
    <3>1. rx' = rx /\ recvOp'.buf = recvOp.buf /\ bucket'.last = bucket.last
      BY <2>3 DEF Trainer, PackChunk, Broadcast, PublishMetadata, ReceiveMetadata, Yield,
                  BucketIsEmpty, Op, BroadcastInv
    <3>2. QED BY <3>1 DEF Shown
  <2>4. QED BY <2>1, <2>2, <2>3 DEF Thread
<1>3. QED BY <1>1, <1>2 DEF Held

LEMMA EngineGiven ==
    ASSUME TypeOK, StreamInv, BroadcastInv, IntactInv, GivenInv, backend = "nccl",
           Trainer \/ Thread \/ Generator
    PROVE  GivenInv'
<1>0. next \in Nat \ {0} /\ yielded \in Nat BY Sizes DEF TypeOK, StreamInv
<1>1. UNCHANGED <<next, spc, backend>>
  BY DEF Trainer, PackChunk, Broadcast, Thread, PublishMetadata, ReceiveMetadata,
         CollectiveBegins, CollectiveEnds, Generator, FirstBucket, NextBucket, Adopt, Yield,
         BucketIsEmpty
<1>2. CASE Trainer \/ Thread
  <2>1. UNCHANGED <<whole, yielded, gen>>
    BY <1>2 DEF Trainer, PackChunk, Broadcast, Thread, PublishMetadata, ReceiveMetadata,
                CollectiveBegins, CollectiveEnds
  <2>2. Held(next) => Held(next)' BY <1>1, <1>2, HeldKept
  <2>3. QED BY <1>1, <2>1, <2>2 DEF GivenInv
<1>3. CASE FirstBucket \/ BucketIsEmpty
  <2>1. UNCHANGED <<whole, yielded>> /\ spc = "fill" /\ yielded < next
    BY <1>3 DEF FirstBucket, BucketIsEmpty, Asked
  <2>2. yielded = next - 1 BY <1>0, <2>1 DEF GivenInv
  <2>3. QED BY <1>0, <1>1, <2>1, <2>2 DEF GivenInv
<1>4. CASE NextBucket
  <2>1. UNCHANGED <<whole, yielded>> /\ gen = "await" /\ gen' = "yield"
    BY <1>4 DEF NextBucket, Adopt
  <2>2. yielded = next - 1 BY <2>1 DEF GivenInv
  <2>3. QED BY <1>0, <1>1, <2>1, <2>2 DEF GivenInv
<1>5. CASE Yield
  <2> DEFINE e == Head(bucket.items)
  <2>1. /\ e \in Piece(sizes) /\ e.weight = yielded + 1 /\ e.from = merging
        /\ e \in rx[Shown] /\ Shown \in Bufs
    BY <1>5, YieldedChunk
  <2>2. /\ yielded' = IF e.from + e.size = sizes[e.weight] THEN yielded + 1 ELSE yielded
        /\ whole' = IF e.from + e.size = sizes[e.weight] /\ e.from > 0
                    THEN whole \cup {e.weight} ELSE whole
        /\ yielded < next /\ gen = "yield" /\ gen' = gen
    BY <1>5, <2>1 DEF Yield, Asked
  <2>3. yielded = next - 1 BY <1>0, <2>2 DEF GivenInv
  <2>4. /\ e.weight \in Weights /\ e.from \in 0 .. MaxSize /\ e.size \in 1 .. EngineBucket
    BY <2>1 DEF Piece, Chunk
  <2>5. ASSUME yielded' = next PROVE Held(next)'
    <3>1. e.from + e.size = sizes[e.weight] /\ e.weight = next
      BY <1>0, <2>1, <2>2, <2>3, <2>5
    <3>2. CASE e.from > 0
      <4>1. next \in whole' BY <3>1, <3>2, <2>2
      <4>2. QED BY <4>1, <1>1 DEF Held
    <3>3. CASE e.from = 0
      <4>1. sizes[next] <= EngineBucket BY <3>1, <3>3, <2>4, Sizes
      <4>2. Held(next) BY <3>1, <4>1, <2>1 DEF Held
      <4>3. QED BY <4>2, <1>1, <1>5, HeldKept
    <3>4. QED BY <3>2, <3>3, <2>4, Sizes
  <2>6. whole' \subseteq Weights BY <2>2, <2>4 DEF GivenInv
  <2>7. yielded' \in {next - 1, next} BY <1>0, <2>2, <2>3
  <2>8. QED BY <1>1, <2>2, <2>5, <2>6, <2>7 DEF GivenInv
<1>6. QED BY <1>2, <1>3, <1>4, <1>5 DEF Generator
-----------------------------------------------------------------------------
(* The bucketed transfer, while the engine's own steps are taken.          *)

Transfer == TypeOK /\ BucketInv /\ WireInv /\ ServedInv /\ LoadsTheWeights

LEMMA EngineTransfer ==
    ASSUME Transfer, StreamInv, BroadcastInv, IntactInv, GivenInv, Trainer \/ Thread \/ Generator
    PROVE  Transfer'
<1>1. UNCHANGED vars
  BY DEF Trainer, PackChunk, Broadcast, Thread, PublishMetadata, ReceiveMetadata,
         CollectiveBegins, CollectiveEnds, Generator, FirstBucket, NextBucket, Adopt, Yield,
         BucketIsEmpty
<1>2. TypeOK' BY <1>1 DEF TypeOK, Transfer
<1>3. WireInv' BY <1>1 DEF WireInv, Serves, Waiting, Transfer
<1>4. LoadsTheWeights' BY <1>1 DEF LoadsTheWeights, Transfer
<1>5. CASE NextBucket
  <2>1. gen = "await" /\ pending = <<>> BY <1>5 DEF NextBucket, Adopt, Synchronized
  <2>2. spc = "fill" BY <2>1 DEF GivenInv
  <2>3. BucketInv' BY <1>1, <2>1 DEF BucketInv, InBuffer, Follow, Transfer
  <2>4. ServedInv'
    <3> SUFFICES ASSUME NEW r \in Receivers, Serves(r)'
                 PROVE  rpc'[r] \in {"ready", "done"} /\ Len(loaded'[r]) = Sent'
      BY <1>1, <2>2 DEF ServedInv, Waiting
    <3>1. rpc[r] \in {"ready", "done"} /\ Len(loaded[r]) = Sent
      BY <1>1, <2>2 DEF ServedInv, Serves, Transfer
    <3>2. QED BY <1>1, <3>1 DEF Sent
  <2>5. QED BY <1>2, <1>3, <1>4, <2>3, <2>4 DEF Transfer
<1>6. CASE Trainer \/ Thread \/ FirstBucket \/ Yield \/ BucketIsEmpty
  <2>1. ASSUME NEW w, Held(w) PROVE Held(w)' BY <1>6, <2>1, HeldKept
  <2>2. BucketInv'
    <3>1. \A i \in DOMAIN pending : Held(pending[i].weight)' BY <1>1, <2>1 DEF BucketInv, Transfer
    <3>2. \A i \in DOMAIN meta : InBuffer(meta[i])' = InBuffer(meta[i]) BY <1>1 DEF InBuffer
    <3>3. QED BY <1>1, <3>1, <3>2 DEF BucketInv, Follow, Transfer
  <2>3. ASSUME NEW e, Ready(e) PROVE Ready(e)'
    BY <1>1, <2>1, <2>3 DEF Ready, InBuffer
  <2>4. Sent' = Sent BY <1>1 DEF Sent
  <2>5. ServedInv'
    <3> SUFFICES ASSUME NEW r \in Receivers, Serves(r)'
                 PROVE  /\ wire' # <<>> /\ Waiting' =>
                               rpc'[r] \in {"ready", "done"} /\ Owed(r, wire[1].message.items)'
                        /\ rpc'[r] = "load" =>
                               wire' = <<>> /\ ~reply' /\ Waiting' /\ Owed(r, todo[r])'
                        /\ reply' \/ spc' \in {"fill", "done", "failed"} =>
                               rpc'[r] \in {"ready", "done"} /\ Len(loaded'[r]) = Sent'
      BY DEF ServedInv
    <3>1. /\ wire # <<>> /\ Waiting => rpc[r] \in {"ready", "done"} /\ Owed(r, wire[1].message.items)
          /\ rpc[r] = "load" => wire = <<>> /\ ~reply /\ Waiting /\ Owed(r, todo[r])
          /\ reply \/ spc \in {"fill", "done", "failed"} =>
                 rpc[r] \in {"ready", "done"} /\ Len(loaded[r]) = Sent
      BY <1>1 DEF ServedInv, Serves, Transfer
    <3>2. Waiting' = Waiting BY <1>1 DEF Waiting
    <3>3. Owed(r, wire[1].message.items) => Owed(r, wire[1].message.items)'
      BY <1>1, <2>3, <2>4 DEF Owed, Follow
    <3>4. Owed(r, todo[r]) => Owed(r, todo[r])'
      BY <1>1, <2>3, <2>4 DEF Owed, Follow
    <3>5. QED BY <1>1, <2>4, <3>1, <3>2, <3>3, <3>4
  <2>6. QED BY <1>2, <1>3, <1>4, <2>2, <2>5 DEF Transfer
<1>7. QED BY <1>5, <1>6 DEF Generator
-----------------------------------------------------------------------------
(* The steps of the bucketed transfer.                                     *)

\* The engine's state is that of before.
LEMMA HeldSame ==
    ASSUME UNCHANGED <<sizes, engineVars>>, NEW w
    PROVE  Held(w)' = Held(w)
BY DEF Held, Shown

LEMMA Shapes ==
    ASSUME TypeOK
    PROVE  /\ sizes \in [Weights -> 1 .. MaxSize] /\ next \in 1 .. NumWeights + 1 /\ next \in Nat
           /\ meta \in Seq(Entry) /\ Len(meta) \in Nat /\ DOMAIN meta = 1 .. Len(meta)
           /\ pending \in Seq(Entry) /\ Len(pending) \in Nat /\ DOMAIN pending = 1 .. Len(pending)
           /\ \A i \in DOMAIN meta : meta[i] \in Entry
           /\ \A e \in Entry : /\ e.weight \in Weights /\ e.at \in Int
                               /\ sizes[e.weight] \in 1 .. MaxSize
           /\ loaded \in [Receivers -> Seq(0 .. NumWeights)] /\ todo \in [Receivers -> Seq(Entry)]
           /\ \A r \in Receivers :
                  /\ Len(loaded[r]) \in Nat /\ DOMAIN loaded[r] = 1 .. Len(loaded[r])
                  /\ Len(todo[r]) \in Nat /\ DOMAIN todo[r] = 1 .. Len(todo[r])
<1>1. /\ sizes \in [Weights -> 1 .. MaxSize] /\ next \in 1 .. NumWeights + 1
      /\ meta \in Seq(Entry) /\ pending \in Seq(Entry)
      /\ loaded \in [Receivers -> Seq(0 .. NumWeights)] /\ todo \in [Receivers -> Seq(Entry)]
  BY DEF TypeOK
<1>2. next \in Nat BY <1>1, Sizes
<1>3. /\ Len(meta) \in Nat /\ DOMAIN meta = 1 .. Len(meta)
      /\ Len(pending) \in Nat /\ DOMAIN pending = 1 .. Len(pending)
      /\ \A i \in DOMAIN meta : meta[i] \in Entry
  BY <1>1, Indexed
<1>4. \A e \in Entry : /\ e.weight \in Weights /\ e.at \in Int /\ sizes[e.weight] \in 1 .. MaxSize
  BY <1>1, Sizes DEF Entry, Own
<1>5. ASSUME NEW r \in Receivers
      PROVE  /\ Len(loaded[r]) \in Nat /\ DOMAIN loaded[r] = 1 .. Len(loaded[r])
             /\ Len(todo[r]) \in Nat /\ DOMAIN todo[r] = 1 .. Len(todo[r])
  <2>1. loaded[r] \in Seq(0 .. NumWeights) /\ todo[r] \in Seq(Entry) BY <1>1
  <2>2. QED BY <2>1, Indexed
<1>6. QED BY <1>1, <1>2, <1>3, <1>4, <1>5

LEMMA SendsTo ==
    ASSUME TypeOK, NEW message, NEW awaiting, Send(message, awaiting)
    PROVE  /\ wire' # <<>> /\ Len(wire') = 1 /\ wire'[1].message = message
           /\ peers' \in Seq(Receivers) /\ spc' = awaiting /\ reply' = reply
BY DEF Send, TypeOK

LEMMA SendHandleStep ==
    ASSUME Transfer, GivenInv, SendHandle, UNCHANGED engineVars
    PROVE  Transfer' /\ GivenInv'
<1> USE DEF Transfer
<1>1. /\ spc = "start" /\ spc' = "handle" /\ wire' # <<>> /\ Len(wire') = 1
      /\ wire'[1].message = Handle /\ peers' \in Seq(Receivers) /\ reply' = reply
      /\ UNCHANGED <<sizes, useShm, next, meta, offset, pending, buffer, rpc, todo, final, loaded>>
  BY SendsTo DEF SendHandle
<1>2. TypeOK' BY <1>1 DEF TypeOK
<1>3. GivenInv' BY <1>1, HeldSame DEF GivenInv
<1>4. BucketInv'
  <2>1. pending = <<>> /\ \A i \in DOMAIN pending : FALSE BY <1>1 DEF BucketInv
  <2>2. QED BY <1>1, <2>1 DEF BucketInv, Follow
<1>5. WireInv' BY <1>1 DEF WireInv, Serves, Waiting
<1>6. ServedInv'
  <2>1. \A r \in Receivers : ~Serves(r)' BY <1>1 DEF WireInv, Serves
  <2>2. QED BY <2>1 DEF ServedInv
<1>7. LoadsTheWeights' BY <1>1 DEF LoadsTheWeights
<1>8. QED BY <1>2, <1>3, <1>4, <1>5, <1>6, <1>7

LEMMA AnsweredStep ==
    ASSUME Transfer, GivenInv, Answered, UNCHANGED engineVars
    PROVE  Transfer' /\ GivenInv'
<1> USE DEF Transfer
<1>1. /\ spc \in {"handle", "flush", "direct", "last"} /\ reply /\ ~reply'
      /\ spc' = IF spc = "last" THEN "done" ELSE "fill"
      /\ buffer' = IF spc = "last" THEN NoBuffer ELSE buffer
      /\ UNCHANGED <<sizes, useShm, next, meta, offset, pending, peers, wire, rpc, todo, final, loaded>>
  BY DEF Answered
<1>2. wire = <<>> /\ pending = <<>> BY <1>1 DEF WireInv, BucketInv
<1>3. TypeOK'
  <2>1. NoBuffer \in [0 .. BucketSize - 1 -> 0 .. NumWeights] BY Sizes DEF NoBuffer
  <2>2. buffer' \in [0 .. BucketSize - 1 -> 0 .. NumWeights] BY <1>1, <2>1 DEF TypeOK
  <2>3. spc' \in {"done", "fill"} /\ reply' \in BOOLEAN BY <1>1 DEF Answered
  <2>4. QED BY <1>1, <2>2, <2>3 DEF TypeOK
<1>4. GivenInv' BY <1>1, HeldSame DEF GivenInv
<1>5. BucketInv'
  <2>1. spc' = "fill" => meta = <<>> BY <1>1 DEF WireInv
  <2>2. \A i \in DOMAIN pending : FALSE BY <1>2
  <2>3. QED BY <1>1, <1>2, <2>1, <2>2 DEF BucketInv, Follow
<1>6. WireInv' BY <1>1, <1>2 DEF WireInv, Serves, Waiting
<1>7. ServedInv'
  <2> SUFFICES ASSUME NEW r \in Receivers, Serves(r)'
               PROVE  rpc'[r] \in {"ready", "done"} /\ Len(loaded'[r]) = Sent'
    BY <1>1, <1>2 DEF ServedInv
  <2>1. rpc[r] \in {"ready", "done"} /\ Len(loaded[r]) = Sent
    BY <1>1 DEF ServedInv, Serves
  <2>2. Sent' = Sent BY <1>1 DEF Sent
  <2>3. QED BY <1>1, <2>1, <2>2
<1>8. LoadsTheWeights' BY <1>1 DEF LoadsTheWeights
<1>9. QED BY <1>3, <1>4, <1>5, <1>6, <1>7, <1>8

\* A bucket goes to the receiver that has the handle, or is never answered.
LEMMA Delivers ==
    ASSUME Transfer, spc = "fill", NEW items \in Seq(Entry), NEW last \in BOOLEAN,
           NEW awaiting \in {"flush", "direct", "last"}, Send(Bucket(items, last), awaiting),
           UNCHANGED <<sizes, rpc, todo, loaded, buffer, engineVars>>,
           Follow(items, Sent), Sent + Len(items) = Sent',
           \A i \in DOMAIN items : Ready(items[i]),
           awaiting \in {"flush", "direct"} => meta' = <<>>,
           awaiting = "last" => next' = NumWeights + 1
    PROVE  WireInv' /\ ServedInv'
<1> USE DEF Transfer
<1>1. /\ wire' # <<>> /\ Len(wire') = 1 /\ wire'[1].message = Bucket(items, last)
      /\ spc' = awaiting /\ reply' = reply /\ Waiting'
  BY SendsTo DEF Waiting
<1>2. wire = <<>> /\ ~reply BY DEF WireInv
<1>3. /\ Bucket(items, last).kind = "bucket" /\ Bucket(items, last).items = items
      /\ Bucket(items, last).last = last
  BY DEF Bucket
<1>4. WireInv' BY <1>1, <1>2, <1>3 DEF WireInv, Serves
<1>5. ServedInv'
  <2> SUFFICES ASSUME NEW r \in Receivers, Serves(r)'
               PROVE  rpc'[r] \in {"ready", "done"} /\ Owed(r, wire[1].message.items)'
    BY <1>1, <1>2 DEF ServedInv
  <2>1. rpc[r] \in {"ready", "done"} /\ Len(loaded[r]) = Sent BY DEF ServedInv, Serves
  <2>2. \A i \in DOMAIN items : Ready(items[i])' BY HeldSame DEF Ready, InBuffer
  <2>3. QED BY <1>1, <1>3, <2>1, <2>2 DEF Owed, Follow
<1>6. QED BY <1>4, <1>5

LEMMA FlushStep ==
    ASSUME Transfer, GivenInv, BroadcastInv, Given, Flush, UNCHANGED engineVars
    PROVE  Transfer' /\ GivenInv'
<1> USE DEF Transfer
<1>1. /\ spc = "fill" /\ Overflows /\ meta # <<>> /\ pending = <<>>
      /\ Send(Bucket(meta, FALSE), "flush") /\ meta' = <<>> /\ offset' = 0
      /\ UNCHANGED <<sizes, useShm, next, pending, buffer, rpc, todo, final, loaded>>
  BY DEF Flush, Synchronized
<1>2. Len(wire') = 1 /\ peers' \in Seq(Receivers) /\ spc' = "flush" /\ reply' = reply
  BY <1>1, SendsTo
<1>3. TypeOK' BY <1>1, <1>2, Sizes DEF TypeOK
<1>4. GivenInv'
  <2>1. gen # "await" BY Shapes DEF GivenInv, Given, BroadcastInv
  <2>2. QED BY <1>1, <2>1, HeldSame DEF GivenInv
<1>5. BucketInv'
  <2>1. DOMAIN meta' = {} /\ DOMAIN pending' = {} /\ Len(meta') = 0 /\ Len(pending') = 0 BY <1>1
  <2>2. QED BY <1>1, <1>2, <2>1 DEF BucketInv, Follow
<1>6. WireInv' /\ ServedInv'
  <2>1. Sent = next - 1 - Len(meta) /\ Sent' = next - 1 BY <1>1, <1>2, Shapes DEF Sent
  <2>2. Follow(meta, Sent) /\ Sent + Len(meta) = Sent' BY <1>1, <2>1, Shapes DEF BucketInv
  <2>3. ASSUME NEW i \in DOMAIN meta PROVE Ready(meta[i])
    <3>1. meta[i].at # Own BY Shapes DEF BucketInv, Own
    <3>2. i <= Len(meta) - Len(pending) BY <1>1, Shapes
    <3>3. QED BY <1>1, <3>1, <3>2 DEF BucketInv, Ready
  <2>4. QED BY <1>1, <2>2, <2>3, Delivers, Shapes
<1>7. LoadsTheWeights' BY <1>1 DEF LoadsTheWeights
<1>8. QED BY <1>3, <1>4, <1>5, <1>6, <1>7

LEMMA SendLargeStep ==
    ASSUME Transfer, GivenInv, BroadcastInv, Given, SendLarge, UNCHANGED engineVars
    PROVE  Transfer' /\ GivenInv'
<1> USE DEF Transfer
<1> DEFINE e == [weight |-> next, at |-> Own]
<1>1. /\ spc = "fill" /\ Overflows /\ meta = <<>> /\ next' = next + 1
      /\ Send(Bucket(<<e>>, FALSE), "direct")
      /\ UNCHANGED <<sizes, useShm, meta, offset, pending, buffer, rpc, todo, final, loaded>>
  BY DEF SendLarge
<1>2. Len(wire') = 1 /\ peers' \in Seq(Receivers) /\ spc' = "direct" /\ reply' = reply
  BY <1>1, SendsTo
<1>3. next \in 1 .. NumWeights /\ next \in Weights BY <1>1, Shapes, Sizes DEF Overflows, Weights
<1>4. TypeOK'
  <2>1. next' \in 1 .. NumWeights + 1 BY <1>1, <1>3, Sizes
  <2>2. QED BY <1>1, <1>2, <2>1 DEF TypeOK
<1>5. Held(next) /\ gen # "await"
  <2>1. CASE backend = "naive" BY <2>1 DEF Held, GivenInv
  <2>2. CASE backend = "nccl" BY <2>2, <1>3 DEF Given, GivenInv
  <2>3. QED BY <2>1, <2>2 DEF BroadcastInv
<1>6. GivenInv'
  <2>1. backend = "nccl" => yielded = next' - 1 BY <1>1, <1>3 DEF Given
  <2>2. CASE backend = "nccl"
    <3>1. yielded # next' BY <1>1, <1>3, <2>1, <2>2
    <3>2. QED BY <2>1, <2>2, <3>1, <1>5 DEF GivenInv
  <2>3. CASE backend = "naive" BY <2>3, <1>5 DEF GivenInv, Held
  <2>4. QED BY <2>2, <2>3 DEF BroadcastInv
<1>7. BucketInv'
  <2>1. Len(meta) = 0 /\ Len(pending) = 0 /\ DOMAIN meta = {} BY <1>1, Shapes DEF BucketInv
  <2>2. DOMAIN pending = {} /\ pending = <<>> BY <2>1, Shapes
  <2>3. QED BY <1>1, <1>2, <2>1, <2>2 DEF BucketInv, Follow
<1>8. WireInv' /\ ServedInv'
  <2>1. Sent = next - 1 /\ Sent' = next BY <1>1, <1>2, <1>3 DEF Sent
  <2>2. <<e>> \in Seq(Entry) /\ Len(<<e>>) = 1 /\ DOMAIN <<e>> = {1} /\ <<e>>[1] = e
    BY <1>3 DEF Entry
  <2>3. Follow(<<e>>, Sent) /\ Sent + Len(<<e>>) = Sent' BY <2>1, <2>2, <1>3 DEF Follow
  <2>4. \A i \in DOMAIN <<e>> : Ready(<<e>>[i]) BY <2>2, <1>5 DEF Ready
  <2>5. QED BY <1>1, <2>2, <2>3, <2>4, Delivers
<1>9. LoadsTheWeights' BY <1>1 DEF LoadsTheWeights
<1>10. QED BY <1>4, <1>6, <1>7, <1>8, <1>9

LEMMA SendLastStep ==
    ASSUME Transfer, GivenInv, BroadcastInv, Ended, SendLast, UNCHANGED engineVars
    PROVE  Transfer' /\ GivenInv'
<1> USE DEF Transfer
<1>1. /\ spc = "fill" /\ next = NumWeights + 1 /\ pending = <<>>
      /\ Send(Bucket(meta, TRUE), "last")
      /\ UNCHANGED <<sizes, useShm, next, meta, offset, pending, buffer, rpc, todo, final, loaded>>
  BY DEF SendLast, Synchronized
<1>2. Len(wire') = 1 /\ peers' \in Seq(Receivers) /\ spc' = "last" /\ reply' = reply
  BY <1>1, SendsTo
<1>3. TypeOK' BY <1>1, <1>2 DEF TypeOK
<1>4. GivenInv'
  <2>1. gen # "await" BY DEF GivenInv, Ended, BroadcastInv
  <2>2. QED BY <1>1, <2>1, HeldSame DEF GivenInv
<1>5. BucketInv'
  <2>1. DOMAIN pending = {} BY <1>1
  <2>2. QED BY <1>1, <1>2, <2>1 DEF BucketInv, Follow
<1>6. WireInv' /\ ServedInv'
  <2>1. Sent = next - 1 - Len(meta) /\ Sent' = next - 1 BY <1>1, <1>2 DEF Sent
  <2>2. Follow(meta, Sent) /\ Sent + Len(meta) = Sent' BY <1>1, <2>1, Shapes DEF BucketInv
  <2>3. ASSUME NEW i \in DOMAIN meta PROVE Ready(meta[i])
    <3>1. meta[i].at # Own BY Shapes DEF BucketInv, Own
    <3>2. i <= Len(meta) - Len(pending) BY <1>1, Shapes
    <3>3. QED BY <1>1, <3>1, <3>2 DEF BucketInv, Ready
  <2>4. QED BY <1>1, <2>2, <2>3, Delivers, Shapes
<1>7. LoadsTheWeights' BY <1>1 DEF LoadsTheWeights
<1>8. QED BY <1>3, <1>4, <1>5, <1>6, <1>7
LEMMA PackStep ==
    ASSUME Transfer, GivenInv, BroadcastInv, Given, Pack, UNCHANGED engineVars
    PROVE  Transfer' /\ GivenInv'
<1> USE DEF Transfer
<1> DEFINE e == [weight |-> next, at |-> offset]
           n == Len(meta)
           k == Len(meta) - Len(pending)
<1>1. /\ spc = "fill" /\ next <= NumWeights /\ ~Overflows
      /\ meta' = Append(meta, e) /\ pending' = Append(pending, e)
      /\ offset' = offset + sizes[next] /\ next' = next + 1
      /\ UNCHANGED <<sizes, useShm, spc, buffer, peers, wire, reply, rpc, todo, final, loaded>>
  BY DEF Pack
<1>2. next \in Weights /\ next \in Nat /\ sizes[next] \in 1 .. MaxSize BY <1>1, Shapes DEF Weights
<1>3. offset \in Nat /\ offset + sizes[next] <= BucketSize
  BY <1>1, <1>2, Sizes DEF Overflows, TypeOK
<1>4. e \in Entry BY <1>2, <1>3, Sizes DEF Entry
<1>5. /\ meta' \in Seq(Entry) /\ Len(meta') = n + 1 /\ DOMAIN meta' = 1 .. n + 1 /\ n \in Nat
      /\ meta'[n + 1] = e /\ \A i \in 1 .. n : meta'[i] = meta[i] /\ meta[i] \in Entry
  BY <1>1, <1>4, Shapes, Longer
<1>6. /\ pending' \in Seq(Entry) /\ Len(pending') = Len(pending) + 1 /\ Len(pending) \in Nat
      /\ DOMAIN pending' = 1 .. Len(pending) + 1
      /\ pending'[Len(pending) + 1] = e /\ \A i \in 1 .. Len(pending) : pending'[i] = pending[i]
  BY <1>1, <1>4, Shapes, Longer
<1>7. TypeOK'
  <2>1. offset' \in 0 .. BucketSize /\ next' \in 1 .. NumWeights + 1 BY <1>1, <1>2, <1>3, Sizes DEF Weights
  <2>2. QED BY <1>1, <1>5, <1>6, <2>1 DEF TypeOK
<1>8. Held(next) /\ gen # "await"
  <2>1. CASE backend = "naive" BY <2>1 DEF Held, GivenInv
  <2>2. CASE backend = "nccl" BY <2>2, <1>2 DEF Given, GivenInv
  <2>3. QED BY <2>1, <2>2 DEF BroadcastInv
<1>9. GivenInv'
  <2>1. backend = "nccl" => yielded = next' - 1 BY <1>1, <1>2 DEF Given
  <2>2. CASE backend = "nccl"
    <3>1. yielded # next' BY <1>1, <1>2, <2>1, <2>2
    <3>2. QED BY <2>1, <2>2, <3>1, <1>8 DEF GivenInv
  <2>3. CASE backend = "naive" BY <2>3, <1>8 DEF GivenInv, Held
  <2>4. QED BY <2>2, <2>3 DEF BroadcastInv
<1>10. BucketInv'
  <2>0. Len(pending) <= n /\ k \in Nat BY <1>5, <1>6 DEF BucketInv
  <2>1. Follow(meta, next - 1 - n) BY DEF BucketInv
  <2>2. Follow(meta', next' - 1 - Len(meta'))
    <3> SUFFICES ASSUME NEW i \in 1 .. n + 1 PROVE meta'[i].weight = next' - 1 - (n + 1) + i
      BY <1>5 DEF Follow
    <3>1. CASE i = n + 1 BY <3>1, <1>1, <1>2, <1>5
    <3>2. CASE i \in 1 .. n
      <4>1. meta[i].weight = next - 1 - n + i BY <3>2, <2>1, Shapes DEF Follow
      <4>2. QED BY <3>2, <4>1, <1>1, <1>2, <1>5
    <3>3. QED BY <3>1, <3>2, <1>5
  <2>3. ASSUME NEW i \in 1 .. n
        PROVE  /\ meta[i].at >= 0 /\ meta[i].at + sizes[meta[i].weight] <= offset
               /\ meta[i].at \in Int /\ sizes[meta[i].weight] \in Nat
    <3>1. i \in DOMAIN meta BY Shapes
    <3>2. sizes[meta[i].weight] \in 1 .. MaxSize /\ meta[i].at \in Int BY <3>1, Shapes
    <3>3. QED BY <3>1, <3>2, Sizes DEF BucketInv
  <2>4. ASSUME NEW i \in 1 .. n + 1
        PROVE  meta'[i].at >= 0 /\ meta'[i].at + sizes[meta'[i].weight] <= offset'
    <3>1. CASE i = n + 1 BY <3>1, <1>1, <1>2, <1>3, <1>5
    <3>2. CASE i \in 1 .. n
      <4>1. meta'[i] = meta[i] BY <3>2, <1>5
      <4>2. QED BY <3>2, <4>1, <2>3, <1>1, <1>2, <1>3
    <3>3. QED BY <3>1, <3>2, <1>5
  <2>5. ASSUME NEW i \in 1 .. n + 1, NEW j \in 1 .. n + 1, i < j
        PROVE  meta'[i].at + sizes[meta'[i].weight] <= meta'[j].at
    <3>1. i \in 1 .. n /\ meta'[i] = meta[i] BY <2>5, <1>5
    <3>2. CASE j = n + 1 BY <3>1, <3>2, <2>3, <1>5
    <3>3. CASE j \in 1 .. n
      <4>1. meta'[j] = meta[j] BY <3>3, <1>5
      <4>2. i \in DOMAIN meta /\ j \in DOMAIN meta BY <3>1, <3>3, Shapes
      <4>3. meta[i].at + sizes[meta[i].weight] <= meta[j].at BY <4>2, <2>5 DEF BucketInv
      <4>4. QED BY <3>1, <4>1, <4>3
    <3>4. QED BY <3>2, <3>3, <1>5
  <2>6. Len(pending') <= Len(meta') /\ Len(meta') - Len(pending') = k BY <2>0, <1>5, <1>6
  <2>7. ASSUME NEW i \in 1 .. Len(pending) + 1
        PROVE  pending'[i] = meta'[k + i] /\ Held(pending'[i].weight)
    <3>1. CASE i = Len(pending) + 1
      <4>1. k + i = n + 1 BY <3>1, <1>5, <1>6
      <4>2. QED BY <3>1, <4>1, <1>5, <1>6, <1>8
    <3>2. CASE i \in 1 .. Len(pending)
      <4>1. k + i \in 1 .. n BY <3>2, <2>0, <1>5, <1>6
      <4>2. pending[i] = meta[k + i] /\ Held(pending[i].weight) BY <3>2, Shapes DEF BucketInv
      <4>3. QED BY <3>2, <4>1, <4>2, <1>5, <1>6
    <3>3. QED BY <3>1, <3>2, <1>6
  <2>8. ASSUME NEW i \in 1 .. n + 1, i <= k PROVE InBuffer(meta'[i])
    <3>1. i \in 1 .. n /\ i \in DOMAIN meta BY <2>0, <2>8, <1>5, <1>6, Shapes
    <3>2. QED BY <3>1, <2>8, <1>1, <1>5 DEF BucketInv
  <2>9. \A i \in DOMAIN pending' : Held(pending[i].weight)' BY <2>7, <1>1, <1>6 DEF Held, Shown
  <2>10. \A i \in DOMAIN meta' : i <= k => InBuffer(meta[i])'
    BY <2>8, <1>1, <1>5 DEF InBuffer
  <2>11. QED BY <1>1, <1>5, <1>6, <2>2, <2>4, <2>5, <2>6, <2>7, <2>9, <2>10 DEF BucketInv
<1>11. wire = <<>> /\ ~reply BY <1>1 DEF WireInv
<1>12. WireInv' BY <1>1, <1>11 DEF WireInv, Serves, Waiting
<1>13. ServedInv'
  <2> SUFFICES ASSUME NEW r \in Receivers, Serves(r)'
               PROVE  rpc'[r] \in {"ready", "done"} /\ Len(loaded'[r]) = Sent'
    BY <1>1, <1>11 DEF ServedInv
  <2>1. rpc[r] \in {"ready", "done"} /\ Len(loaded[r]) = Sent
    BY <1>1 DEF ServedInv, Serves
  <2>2. Sent' = Sent BY <1>1, <1>2, <1>5 DEF Sent
  <2>3. QED BY <1>1, <2>1, <2>2
<1>14. LoadsTheWeights' BY <1>1 DEF LoadsTheWeights
<1>15. QED BY <1>7, <1>9, <1>10, <1>12, <1>13, <1>14

LEMMA SenderFailsStep ==
    ASSUME Transfer, GivenInv, BroadcastInv, Given, SenderFails, UNCHANGED engineVars
    PROVE  Transfer' /\ GivenInv'
<1> USE DEF Transfer
<1>1. /\ spc = "fill" /\ spc' = "failed" /\ buffer' = NoBuffer /\ pending' = <<>>
      /\ UNCHANGED <<sizes, useShm, next, meta, offset, peers, wire, reply, rpc, todo, final, loaded>>
  BY DEF SenderFails
<1>2. wire = <<>> /\ ~reply BY <1>1 DEF WireInv
<1>3. TypeOK'
  <2>1. NoBuffer \in [0 .. BucketSize - 1 -> 0 .. NumWeights] BY Sizes DEF NoBuffer
  <2>2. QED BY <1>1, <2>1 DEF TypeOK
<1>4. GivenInv'
  <2>1. gen # "await" BY Shapes DEF GivenInv, Given, BroadcastInv
  <2>2. QED BY <1>1, <2>1, HeldSame DEF GivenInv
<1>5. BucketInv'
  <2>1. DOMAIN pending' = {} /\ Len(pending') = 0 /\ Len(meta) \in Nat BY <1>1, Shapes
  <2>2. QED BY <1>1, <2>1 DEF BucketInv, Follow
<1>6. WireInv' BY <1>1, <1>2 DEF WireInv, Serves, Waiting
<1>7. ServedInv'
  <2> SUFFICES ASSUME NEW r \in Receivers, Serves(r)'
               PROVE  rpc'[r] \in {"ready", "done"} /\ Len(loaded'[r]) = Sent'
    BY <1>1, <1>2 DEF ServedInv
  <2>1. rpc[r] \in {"ready", "done"} /\ Len(loaded[r]) = Sent
    BY <1>1 DEF ServedInv, Serves
  <2>2. Sent' = Sent BY <1>1 DEF Sent
  <2>3. QED BY <1>1, <2>1, <2>2
<1>8. LoadsTheWeights' BY <1>1 DEF LoadsTheWeights
<1>9. QED BY <1>3, <1>4, <1>5, <1>6, <1>7, <1>8

\* The memory of a weight has the weight.
LEMMA HeldContent ==
    ASSUME BroadcastInv, NEW w \in Weights, Held(w)
    PROVE  Content[w] = w
BY Buffers DEF Held, Content

LEMMA CopyStep ==
    ASSUME Transfer, GivenInv, BroadcastInv, CopyOf(Content), UNCHANGED engineVars
    PROVE  Transfer' /\ GivenInv'
<1> USE DEF Transfer
<1> DEFINE e == Head(pending)
           n == Len(meta)
           k == Len(meta) - Len(pending)
<1>1. /\ pending # <<>> /\ pending' = Tail(pending)
      /\ buffer' = [c \in DOMAIN buffer |->
                       IF c \in e.at .. e.at + sizes[e.weight] - 1 THEN Content[e.weight]
                       ELSE buffer[c]]
      /\ UNCHANGED <<sizes, useShm, spc, next, meta, offset, peers, wire, reply, rpc, todo, final,
                     loaded>>
  BY DEF CopyOf
<1>2. spc = "fill" BY <1>1 DEF BucketInv
<1>3. /\ pending' \in Seq(Entry) /\ Len(pending') = Len(pending) - 1 /\ Len(pending) \in Nat \ {0}
      /\ DOMAIN pending' = 1 .. Len(pending) - 1 /\ e = pending[1]
      /\ \A i \in 1 .. Len(pending) - 1 : pending'[i] = pending[i + 1]
  BY <1>1, Shapes, Shorter
<1>4. n \in Nat /\ Len(pending) <= n /\ k \in Nat /\ DOMAIN meta = 1 .. n
  BY <1>3, Shapes DEF BucketInv
<1>5. 1 \in DOMAIN pending BY <1>3, Shapes
<1>6. e = meta[k + 1] /\ Held(e.weight) BY <1>3, <1>5 DEF BucketInv
<1>7. k + 1 \in DOMAIN meta BY <1>3, <1>4
<1>8. e \in Entry /\ e.weight \in Weights /\ e.at \in Int /\ sizes[e.weight] \in 1 .. MaxSize
  BY <1>6, <1>7, Shapes
<1>9. Content[e.weight] = e.weight BY <1>6, <1>8, HeldContent
<1>10. /\ offset \in 0 .. BucketSize /\ DOMAIN buffer = 0 .. BucketSize - 1
       /\ buffer \in [0 .. BucketSize - 1 -> 0 .. NumWeights]
  BY DEF TypeOK
<1>11. e.at >= 0 /\ e.at + sizes[e.weight] <= offset BY <1>6, <1>7 DEF BucketInv
<1>12. ASSUME NEW c \in e.at .. e.at + sizes[e.weight] - 1 PROVE buffer'[c] = e.weight
  <2>1. c \in DOMAIN buffer BY <1>8, <1>10, <1>11, Sizes
  <2>2. QED BY <2>1, <1>1, <1>9
<1>13. ASSUME NEW i \in DOMAIN meta, i <= k PROVE InBuffer(meta[i])'
  <2> DEFINE f == meta[i]
  <2>1. InBuffer(f) BY <1>2, <1>13 DEF BucketInv
  <2>2. f.at + sizes[f.weight] <= e.at
    <3>1. i < k + 1 BY <1>4, <1>13
    <3>2. QED BY <3>1, <1>6, <1>7 DEF BucketInv
  <2>3. f.at >= 0 /\ f.at \in Int /\ sizes[f.weight] \in 1 .. MaxSize BY Shapes DEF BucketInv
  <2> SUFFICES ASSUME NEW c \in f.at .. f.at + sizes[f.weight] - 1 PROVE buffer'[c] = f.weight
    BY <1>1 DEF InBuffer
  <2>4. c \in 0 .. BucketSize - 1 /\ c < e.at
    <3>1. c \in Int /\ c >= f.at /\ c < f.at + sizes[f.weight] BY <2>3, Sizes
    <3>2. e.at < BucketSize BY <1>8, <1>10, <1>11, Sizes
    <3>3. QED BY <3>1, <3>2, <2>2, <2>3, <1>8, Sizes
  <2>5. buffer'[c] = buffer[c] BY <2>4, <1>1, <1>8, <1>10
  <2>6. QED BY <2>1, <2>5 DEF InBuffer
<1>14. TypeOK'
  <2>1. e.weight \in 0 .. NumWeights BY <1>8, Sizes DEF Weights
  <2>2. buffer' \in [0 .. BucketSize - 1 -> 0 .. NumWeights] BY <1>1, <1>9, <1>10, <2>1
  <2>3. QED BY <1>1, <1>3, <2>2 DEF TypeOK
<1>15. GivenInv' BY <1>1, HeldSame DEF GivenInv
<1>16. BucketInv'
  <2>1. Len(pending') <= n /\ n - Len(pending') = k + 1 BY <1>3, <1>4
  <2>2. ASSUME NEW i \in DOMAIN pending'
        PROVE  pending'[i] = meta[k + 1 + i] /\ Held(pending'[i].weight)
    <3>1. i + 1 \in DOMAIN pending /\ pending'[i] = pending[i + 1] BY <1>3, Shapes
    <3>2. pending[i + 1] = meta[k + (i + 1)] /\ Held(pending[i + 1].weight) BY <3>1 DEF BucketInv
    <3>3. k + (i + 1) = k + 1 + i BY <1>3, <1>4
    <3>4. QED BY <3>1, <3>2, <3>3
  <2>3. \A i \in DOMAIN pending' : Held(pending[i].weight)' BY <2>2, <1>1 DEF Held, Shown
  <2>4. ASSUME NEW i \in DOMAIN meta, i <= k + 1 PROVE InBuffer(meta[i])'
    <3>1. CASE i <= k BY <3>1, <1>13
    <3>2. CASE i = k + 1 BY <3>2, <1>1, <1>6, <1>12 DEF InBuffer
    <3>3. QED BY <3>1, <3>2, <2>4, <1>4
  <2>5. QED BY <1>1, <1>2, <2>1, <2>2, <2>3, <2>4 DEF BucketInv, Follow
<1>17. WireInv' BY <1>1 DEF WireInv, Serves, Waiting
<1>18. wire = <<>> /\ ~reply BY <1>2 DEF WireInv
<1>19. ServedInv'
  <2> SUFFICES ASSUME NEW r \in Receivers, Serves(r)'
               PROVE  rpc'[r] \in {"ready", "done"} /\ Len(loaded'[r]) = Sent'
    BY <1>1, <1>2, <1>18 DEF ServedInv
  <2>1. rpc[r] \in {"ready", "done"} /\ Len(loaded[r]) = Sent
    BY <1>1, <1>2 DEF ServedInv, Serves
  <2>2. Sent' = Sent BY <1>1 DEF Sent
  <2>3. QED BY <1>1, <2>1, <2>2
<1>20. LoadsTheWeights' BY <1>1 DEF LoadsTheWeights
<1>21. QED BY <1>14, <1>15, <1>16, <1>17, <1>19, <1>20
-----------------------------------------------------------------------------
(* The receivers.                                                          *)

\* A receiver leaves the sender's side alone.
LEMMA SenderSame ==
    ASSUME BucketInv, GivenInv, UNCHANGED <<sizes, senderVars, engineVars>>
    PROVE  BucketInv' /\ GivenInv'
<1>1. BucketInv' BY HeldSame DEF BucketInv, Follow, InBuffer, Held, Shown
<1>2. GivenInv' BY HeldSame DEF GivenInv
<1>3. QED BY <1>1, <1>2

LEMMA ConnectStep ==
    ASSUME Transfer, GivenInv, NEW r \in Receivers, Connect(r), UNCHANGED engineVars
    PROVE  Transfer' /\ GivenInv'
<1> USE DEF Transfer
<1>1. /\ rpc[r] = "start" /\ rpc' = [rpc EXCEPT ![r] = "handle"] /\ peers' = Append(peers, r)
      /\ UNCHANGED <<sizes, useShm, senderVars, wire, reply, todo, final, loaded>>
  BY DEF Connect
<1>2. TypeOK' BY <1>1 DEF TypeOK
<1>3. rpc'[r] = "handle" /\ \A q \in Receivers : q # r => rpc'[q] = rpc[q] BY <1>1 DEF TypeOK
<1>4. \A q \in Receivers : Serves(q)' = Serves(q) BY <1>1, <1>3 DEF Serves
<1>5. WireInv' BY <1>1, <1>4 DEF WireInv, Waiting
<1>6. ServedInv'
  <2> SUFFICES ASSUME NEW q \in Receivers, Serves(q)
               PROVE  /\ wire' # <<>> /\ Waiting' =>
                             rpc'[q] \in {"ready", "done"} /\ Owed(q, wire[1].message.items)'
                      /\ rpc'[q] = "load" =>
                             wire' = <<>> /\ ~reply' /\ Waiting' /\ Owed(q, todo[q])'
                      /\ reply' \/ spc' \in {"fill", "done", "failed"} =>
                             rpc'[q] \in {"ready", "done"} /\ Len(loaded'[q]) = Sent'
    BY <1>4 DEF ServedInv
  <2>1. q # r /\ rpc'[q] = rpc[q] BY <1>1, <1>3 DEF Serves
  <2>2. Sent' = Sent /\ Waiting' = Waiting BY <1>1 DEF Sent, Waiting
  <2>3. Owed(q, wire[1].message.items) => Owed(q, wire[1].message.items)'
    BY <1>1, <2>2, HeldSame DEF Owed, Follow, Ready, InBuffer, Held, Shown
  <2>4. Owed(q, todo[q]) => Owed(q, todo[q])'
    BY <1>1, <2>2, HeldSame DEF Owed, Follow, Ready, InBuffer, Held, Shown
  <2>5. QED BY <1>1, <2>1, <2>2, <2>3, <2>4 DEF ServedInv
<1>7. LoadsTheWeights' BY <1>1 DEF LoadsTheWeights
<1>8. QED BY <1>1, <1>2, <1>5, <1>6, <1>7, SenderSame

LEMMA GetHandleStep ==
    ASSUME Transfer, GivenInv, NEW r \in Receivers, GetHandle(r), UNCHANGED engineVars
    PROVE  Transfer' /\ GivenInv'
<1> USE DEF Transfer
<1>1. /\ rpc[r] = "handle" /\ wire # <<>> /\ wire' = <<>>
      /\ UNCHANGED <<sizes, useShm, senderVars, todo, final, loaded>>
  BY DEF GetHandle, Arrived
<1>2. ~Serves(r) /\ ~reply /\ loaded[r] = <<>> BY <1>1 DEF Serves, WireInv
<1>3. LoadsTheWeights' BY <1>1 DEF LoadsTheWeights
<1>4. BucketInv' /\ GivenInv' BY <1>1, SenderSame
<1>5. CASE spc = "handle"
  <2>0. Len(wire) = 1 /\ wire[1].message = Handle
    BY <1>1, <1>5 DEF WireInv, Waiting
  <2>1. rpc' = [rpc EXCEPT ![r] = "ready"] /\ reply' = TRUE /\ peers' = peers
    BY <2>0 DEF GetHandle, Handle
  <2>2. rpc'[r] = "ready" /\ \A q \in Receivers : q # r => rpc'[q] = rpc[q] BY <2>1 DEF TypeOK
  <2>3. \A q \in Receivers : ~Serves(q) BY <1>2, <1>5 DEF WireInv
  <2>4. \A q \in Receivers : Serves(q)' <=> q = r BY <2>2, <2>3 DEF Serves
  <2>5. TypeOK' BY <1>1, <2>1 DEF TypeOK
  <2>6. WireInv' BY <1>1, <1>5, <2>1, <2>4 DEF WireInv, Waiting
  <2>7. next = 1 /\ meta = <<>> BY <1>5 DEF WireInv
  <2>8. Len(loaded'[r]) = 0 /\ Sent' = 0
    <3>1. loaded'[r] = <<>> /\ meta' = <<>> /\ next' = 1 /\ spc' = "handle"
      BY <1>1, <1>2, <1>5, <2>7
    <3>2. Len(meta') = 0 /\ Len(loaded'[r]) = 0 BY <3>1
    <3>3. Sent' = next' - 1 - Len(meta') BY <3>1 DEF Sent
    <3>4. QED BY <3>1, <3>2, <3>3
  <2>9. ServedInv' BY <1>1, <2>2, <2>4, <2>8 DEF ServedInv
  <2>10. QED BY <1>3, <1>4, <2>5, <2>6, <2>9
<1>6. CASE spc # "handle"
  <2>0. Len(wire) = 1 /\ wire[1].message.kind = "bucket" /\ Waiting
    BY <1>1, <1>6 DEF WireInv
  <2>1. rpc' = [rpc EXCEPT ![r] = "failed"] /\ reply' = reply /\ peers' = Without(r)
    BY <2>0 DEF GetHandle
  <2>2. rpc'[r] = "failed" /\ \A q \in Receivers : q # r => rpc'[q] = rpc[q] BY <2>1 DEF TypeOK
  <2>3. \A q \in Receivers : Serves(q)' = Serves(q) BY <1>2, <2>2 DEF Serves
  <2>4. TypeOK'
    <3>1. peers' \in Seq(Receivers) BY <2>1, Dropped DEF TypeOK
    <3>2. QED BY <1>1, <2>1, <3>1 DEF TypeOK
  <2>5. WireInv' BY <1>1, <1>6, <2>0, <2>1, <2>3 DEF WireInv, Waiting
  <2>6. ServedInv'
    <3> SUFFICES ASSUME NEW q \in Receivers, Serves(q)
                 PROVE  rpc'[q] # "load"
      BY <1>1, <1>2, <2>0, <2>1, <2>3 DEF ServedInv, Waiting
    <3>1. q # r /\ rpc'[q] = rpc[q] BY <1>2, <2>2
    <3>2. rpc[q] # "load" BY <1>1 DEF ServedInv
    <3>3. QED BY <3>1, <3>2
  <2>7. QED BY <1>3, <1>4, <2>4, <2>5, <2>6
<1>7. QED BY <1>5, <1>6

LEMMA GetBucketStep ==
    ASSUME Transfer, GivenInv, NEW r \in Receivers, GetBucket(r), UNCHANGED engineVars
    PROVE  Transfer' /\ GivenInv'
<1> USE DEF Transfer
<1> DEFINE items == wire[1].message.items
<1>1. /\ rpc[r] = "ready" /\ wire # <<>> /\ wire' = <<>>
      /\ todo' = [todo EXCEPT ![r] = Head(wire).message.items]
      /\ final' = [final EXCEPT ![r] = Head(wire).message.last]
      /\ rpc' = [rpc EXCEPT ![r] = "load"]
      /\ UNCHANGED <<sizes, useShm, senderVars, peers, reply, loaded>>
  BY DEF GetBucket, Arrived
<1>2. Serves(r) /\ ~reply BY <1>1 DEF Serves, WireInv
<1>3. Waiting /\ items \in Seq(Entry) /\ wire[1].message.last \in BOOLEAN
  BY <1>1, <1>2 DEF WireInv
<1>4. Head(wire) = wire[1] OBVIOUS
<1>5. /\ todo'[r] = items /\ rpc'[r] = "load"
      /\ \A q \in Receivers : q # r => rpc'[q] = rpc[q] /\ todo'[q] = todo[q]
  BY <1>1, <1>4 DEF TypeOK
<1>6. TypeOK' BY <1>1, <1>3, <1>4 DEF TypeOK
<1>7. \A q \in Receivers : Serves(q)' = Serves(q) BY <1>1, <1>5 DEF Serves
<1>8. WireInv' BY <1>1, <1>2, <1>3, <1>7 DEF WireInv, Waiting
<1>9. ServedInv'
  <2> SUFFICES ASSUME NEW q \in Receivers, Serves(q)
               PROVE  rpc'[q] = "load" => Owed(q, todo[q])'
    BY <1>1, <1>2, <1>3, <1>7 DEF ServedInv, Waiting
  <2>1. q = r BY <1>2 DEF WireInv
  <2>2. Owed(r, items) BY <1>1, <1>2, <1>3 DEF ServedInv
  <2>3. Sent' = Sent BY <1>1 DEF Sent
  <2>4. todo'[r] = items /\ loaded' = loaded BY <1>1, <1>5
  <2>5. /\ \A i \in DOMAIN items : items[i].weight = Len(loaded[r]) + i
        /\ Len(loaded[r]) + Len(items) = Sent
    BY <2>2 DEF Owed, Follow
  <2>6. ASSUME NEW i \in DOMAIN items PROVE Ready(items[i]) BY <2>2 DEF Owed
  <2>7. \A i \in DOMAIN todo'[r] : Ready(todo[r][i])'
    BY <1>1, <2>4, <2>6 DEF Ready, InBuffer, Held, Shown
  <2>8. QED BY <2>1, <2>3, <2>4, <2>5, <2>7 DEF Owed, Follow
<1>10. LoadsTheWeights' BY <1>1 DEF LoadsTheWeights
<1>11. QED BY <1>1, <1>6, <1>8, <1>9, <1>10, SenderSame

\* What is found in the place of the next weight is the weight itself.
LEMMA LoadStep ==
    ASSUME Transfer, GivenInv, BroadcastInv, NEW r \in Receivers, LoadOf(r, Content),
           UNCHANGED engineVars
    PROVE  Transfer' /\ GivenInv'
<1> USE DEF Transfer
<1> DEFINE e == Head(todo[r])
           n == Len(loaded[r])
           found == Found(e, Content)
<1>1. /\ rpc[r] = "load" /\ todo[r] # <<>>
      /\ loaded' = [loaded EXCEPT ![r] = Append(@, found)]
      /\ todo' = [todo EXCEPT ![r] = Tail(@)]
      /\ UNCHANGED <<sizes, useShm, senderVars, socketVars, rpc, final>>
  BY DEF LoadOf
<1>2. Serves(r) /\ Waiting /\ wire = <<>> /\ ~reply /\ Owed(r, todo[r])
  BY <1>1 DEF Serves, ServedInv
<1>3. /\ loaded \in [Receivers -> Seq(0 .. NumWeights)] /\ todo \in [Receivers -> Seq(Entry)]
      /\ loaded[r] \in Seq(0 .. NumWeights) /\ todo[r] \in Seq(Entry) /\ n \in Nat
  BY Shapes
<1>4. /\ Tail(todo[r]) \in Seq(Entry) /\ Len(Tail(todo[r])) = Len(todo[r]) - 1
      /\ Len(todo[r]) \in Nat \ {0} /\ e = todo[r][1] /\ e \in Entry
      /\ DOMAIN Tail(todo[r]) = 1 .. Len(todo[r]) - 1 /\ DOMAIN todo[r] = 1 .. Len(todo[r])
      /\ \A i \in 1 .. Len(todo[r]) - 1 : Tail(todo[r])[i] = todo[r][i + 1]
  BY <1>1, <1>3, Shorter
<1>5. 1 \in DOMAIN todo[r] BY <1>4
<1>6. e.weight = n + 1 /\ Ready(e) BY <1>2, <1>4, <1>5 DEF Owed, Follow
<1>7. e.weight \in Weights BY <1>4, Shapes
<1>8. found = e.weight
  <2>1. CASE e.at = Own BY <2>1, <1>6, <1>7, HeldContent DEF Ready, Found
  <2>2. CASE e.at # Own BY <2>2, <1>6 DEF Ready, Found, InBuffer
  <2>3. QED BY <2>1, <2>2
<1>9. found \in 0 .. NumWeights BY <1>7, <1>8, Sizes DEF Weights
<1>10. /\ Append(loaded[r], found) \in Seq(0 .. NumWeights)
       /\ Len(Append(loaded[r], found)) = n + 1
       /\ DOMAIN Append(loaded[r], found) = 1 .. n + 1 /\ DOMAIN loaded[r] = 1 .. n
       /\ Append(loaded[r], found)[n + 1] = found
       /\ \A i \in 1 .. n : Append(loaded[r], found)[i] = loaded[r][i]
  BY <1>3, <1>9, Longer
<1>11. /\ loaded'[r] = Append(loaded[r], found) /\ todo'[r] = Tail(todo[r])
       /\ \A q \in Receivers : q # r => loaded'[q] = loaded[q] /\ todo'[q] = todo[q]
  BY <1>1, <1>3
<1>12. TypeOK'
  <2>1. loaded' \in [Receivers -> Seq(0 .. NumWeights)] BY <1>1, <1>3, <1>10
  <2>2. todo' \in [Receivers -> Seq(Entry)] BY <1>1, <1>3, <1>4
  <2>3. QED BY <1>1, <2>1, <2>2 DEF TypeOK
<1>13. \A q \in Receivers : Serves(q)' = Serves(q) BY <1>1 DEF Serves
<1>14. WireInv'
  <2>1. \A q \in Receivers : ~Serves(q) => loaded'[q] = <<>> BY <1>2, <1>11 DEF WireInv
  <2>2. QED BY <1>1, <1>13, <2>1 DEF WireInv, Waiting
<1>15. ServedInv'
  <2> SUFFICES ASSUME NEW q \in Receivers, Serves(q)
               PROVE  rpc'[q] = "load" => Owed(q, todo[q])'
    BY <1>1, <1>2, <1>13 DEF ServedInv, Waiting
  <2>1. q = r BY <1>2 DEF WireInv
  <2>2. Sent' = Sent BY <1>1 DEF Sent
  <2>3. n + Len(todo[r]) = Sent BY <1>2 DEF Owed
  <2>4. Len(loaded'[r]) = n + 1 /\ Len(todo'[r]) = Len(todo[r]) - 1
    BY <1>4, <1>10, <1>11
  <2>5. Len(loaded'[r]) + Len(todo'[r]) = Sent'
    <3>1. \A a, b \in Nat : (a + 1) + (b - 1) = a + b OBVIOUS
    <3>2. n \in Nat /\ Len(todo[r]) \in Nat BY <1>3, <1>4
    <3>3. QED BY <2>2, <2>3, <2>4, <3>1, <3>2
  <2>6. ASSUME NEW i \in DOMAIN todo'[r]
        PROVE  todo'[r][i].weight = n + 1 + i /\ Ready(todo'[r][i])
    <3>1. i \in 1 .. Len(todo[r]) - 1 /\ i + 1 \in DOMAIN todo[r] /\ todo'[r][i] = todo[r][i + 1]
      BY <1>4, <1>11
    <3>2. todo[r][i + 1].weight = n + (i + 1) /\ Ready(todo[r][i + 1])
      BY <1>2, <3>1 DEF Owed, Follow
    <3>3. n + (i + 1) = n + 1 + i BY <3>1, <1>3
    <3>4. QED BY <3>1, <3>2, <3>3
  <2>7. Follow(todo[r], Len(loaded[r]))' BY <2>4, <2>6 DEF Follow
  <2>8. \A i \in DOMAIN todo'[r] : Ready(todo[r][i])'
    BY <1>1, <2>6 DEF Ready, InBuffer, Held, Shown
  <2>9. QED BY <2>1, <2>5, <2>7, <2>8 DEF Owed
<1>16. LoadsTheWeights'
  <2> SUFFICES ASSUME NEW q \in Receivers, NEW i \in DOMAIN loaded'[q]
               PROVE  loaded'[q][i] = i
    BY DEF LoadsTheWeights
  <2>1. CASE q # r BY <2>1, <1>11 DEF LoadsTheWeights
  <2>2. CASE q = r /\ i = n + 1 BY <2>2, <1>6, <1>8, <1>10, <1>11
  <2>3. CASE q = r /\ i \in 1 .. n BY <2>3, <1>10, <1>11 DEF LoadsTheWeights
  <2>4. q = r => i \in 1 .. n + 1 BY <1>10, <1>11
  <2>5. QED BY <2>1, <2>2, <2>3, <2>4, <1>3
<1>17. QED BY <1>1, <1>12, <1>14, <1>15, <1>16, SenderSame

LEMMA AcknowledgeStep ==
    ASSUME Transfer, GivenInv, NEW r \in Receivers, Acknowledge(r), UNCHANGED engineVars
    PROVE  Transfer' /\ GivenInv'
<1> USE DEF Transfer
<1>1. /\ rpc[r] = "load" /\ todo[r] = <<>> /\ reply' = TRUE
      /\ rpc' = [rpc EXCEPT ![r] = IF final[r] THEN "done" ELSE "ready"]
      /\ peers' = IF final[r] THEN Without(r) ELSE peers
      /\ UNCHANGED <<sizes, useShm, senderVars, wire, todo, final, loaded>>
  BY DEF Acknowledge
<1>2. Serves(r) /\ Waiting /\ wire = <<>> /\ Owed(r, todo[r])
  BY <1>1 DEF Serves, ServedInv
<1>3. /\ rpc'[r] \in {"done", "ready"}
      /\ \A q \in Receivers : q # r => rpc'[q] = rpc[q]
  BY <1>1 DEF TypeOK
<1>4. TypeOK'
  <2>1. peers' \in Seq(Receivers) BY <1>1, Dropped DEF TypeOK
  <2>2. QED BY <1>1, <2>1 DEF TypeOK
<1>5. \A q \in Receivers : Serves(q)' = Serves(q) BY <1>1, <1>3 DEF Serves
<1>6. WireInv' BY <1>1, <1>2, <1>5 DEF WireInv, Waiting
<1>7. ServedInv'
  <2> SUFFICES ASSUME NEW q \in Receivers, Serves(q)
               PROVE  rpc'[q] \in {"ready", "done"} /\ Len(loaded'[q]) = Sent'
    BY <1>1, <1>2, <1>5 DEF ServedInv
  <2>1. q = r BY <1>2 DEF WireInv
  <2>2. Len(todo[r]) = 0 /\ Len(loaded[r]) \in Nat BY <1>1, Shapes
  <2>3. Len(loaded[r]) = Sent BY <1>2, <2>2 DEF Owed
  <2>4. Sent' = Sent BY <1>1 DEF Sent
  <2>5. QED BY <1>1, <1>3, <2>1, <2>3, <2>4
<1>8. LoadsTheWeights' BY <1>1 DEF LoadsTheWeights
<1>9. QED BY <1>1, <1>4, <1>6, <1>7, <1>8, SenderSame

LEMMA ReceiverFailsStep ==
    ASSUME Transfer, GivenInv, NEW r \in Receivers, ReceiverFails(r), UNCHANGED engineVars
    PROVE  Transfer' /\ GivenInv'
<1> USE DEF Transfer
<1>1. /\ rpc[r] = "load" /\ rpc' = [rpc EXCEPT ![r] = "raised"] /\ peers' = Without(r)
      /\ UNCHANGED <<sizes, useShm, senderVars, wire, reply, todo, final, loaded>>
  BY DEF ReceiverFails
<1>2. Serves(r) /\ Waiting /\ wire = <<>> /\ ~reply BY <1>1 DEF Serves, ServedInv
<1>3. rpc'[r] = "raised" /\ \A q \in Receivers : q # r => rpc'[q] = rpc[q] BY <1>1 DEF TypeOK
<1>4. TypeOK'
  <2>1. peers' \in Seq(Receivers) BY <1>1, Dropped DEF TypeOK
  <2>2. QED BY <1>1, <2>1 DEF TypeOK
<1>5. \A q \in Receivers : Serves(q)' = Serves(q) BY <1>1, <1>3 DEF Serves
<1>6. WireInv' BY <1>1, <1>2, <1>5 DEF WireInv, Waiting
<1>7. ServedInv'
  <2> SUFFICES ASSUME NEW q \in Receivers, Serves(q) PROVE rpc'[q] # "load"
    BY <1>1, <1>2, <1>5 DEF ServedInv, Waiting
  <2>1. q = r BY <1>2 DEF WireInv
  <2>2. QED BY <1>3, <2>1
<1>8. LoadsTheWeights' BY <1>1 DEF LoadsTheWeights
<1>9. QED BY <1>1, <1>4, <1>6, <1>7, <1>8, SenderSame

-----------------------------------------------------------------------------
(* The theorems.                                                           *)

LEMMA InitInv == PipelineInit => Inv
<1> SUFFICES ASSUME PipelineInit PROVE Inv OBVIOUS
<1> USE DEF PipelineInit, Init
<1>1. TypeOK
  <2>1. NoBuffer \in [0 .. BucketSize - 1 -> 0 .. NumWeights] BY Sizes DEF NoBuffer
  <2>2. /\ rpc \in [Receivers -> {"start"}] /\ todo \in [Receivers -> Seq(Entry)]
        /\ final \in [Receivers -> BOOLEAN] /\ loaded \in [Receivers -> Seq(0 .. NumWeights)]
    OBVIOUS
  <2>3. 1 \in 1 .. NumWeights + 1 /\ 0 \in 0 .. BucketSize BY Sizes
  <2>4. /\ <<>> \in Seq(Entry) /\ <<>> \in Seq(Receivers) /\ Len(<<>>) = 0
        /\ rpc \in [Receivers -> {"start", "handle", "ready", "load", "done", "failed", "raised"}]
    BY <2>2
  <2>5. /\ sizes \in [Weights -> 1 .. MaxSize] /\ useShm \in BOOLEAN
        /\ spc \in {"start", "handle", "fill", "flush", "direct", "last", "done", "failed"}
        /\ next \in 1 .. NumWeights + 1 /\ offset \in 0 .. BucketSize
    BY <2>3
  <2>6. /\ meta \in Seq(Entry) /\ pending \in Seq(Entry) /\ peers \in Seq(Receivers)
    BY <2>4
  <2>7. Len(wire) <= 1 /\ reply \in BOOLEAN
    <3>1. Len(wire) = 0 BY <2>4
    <3>2. Len(wire) <= 1
      <4> HIDE DEF PipelineInit, Init
      <4>1. QED BY <3>1
    <3>3. reply \in BOOLEAN OBVIOUS
    <3>4. QED BY <3>2, <3>3
  <2>8. buffer \in [0 .. BucketSize - 1 -> 0 .. NumWeights] BY <2>1
  <2>9. QED BY <2>2, <2>4, <2>5, <2>6, <2>7, <2>8 DEF TypeOK
<1>2. StreamInv
  <2>1. chunk \in Place /\ Yielding = chunk /\ yielded \in 0 .. NumWeights /\ merging \in 0 .. MaxSize
    BY Sizes DEF Place, Yielding
  <2>2. sizes[1] \in 1 .. MaxSize BY Sizes DEF Weights
  <2>3. bucket.items = <<>> /\ Received = <<>> /\ Unknown = <<>> /\ filling = <<>>
    BY DEF NoMeta, NoOp, Op, Received, Unknown
  <2>4. Chain(sizes, <<>>, chunk, chunk) BY EmptyChain
  <2>5. QED BY <2>1, <2>2, <2>3, <2>4 DEF StreamInv
<1>3. FillingInv BY Sizes DEF FillingInv, Filled
<1>4. BroadcastInv BY DEF BroadcastInv, OpType, NoOp, Op, NoMeta, Bufs
<1>5. IntactInv BY DEF IntactInv, NoOp, Op, NoMeta, Bufs
<1>6. GivenInv BY DEF GivenInv
<1>7. BucketInv BY DEF BucketInv, Follow
<1>8. WireInv /\ ServedInv BY DEF WireInv, ServedInv, Serves, Waiting
<1>9. LoadsTheWeights BY DEF LoadsTheWeights
<1>10. QED BY <1>1, <1>2, <1>3, <1>4, <1>5, <1>6, <1>7, <1>8, <1>9 DEF Inv

LEMMA StepInv == Inv /\ [PipelineNext]_pipelineVars => Inv'
<1> SUFFICES ASSUME Inv, [PipelineNext]_pipelineVars PROVE Inv' OBVIOUS
<1>0. /\ TypeOK /\ StreamInv /\ FillingInv /\ BroadcastInv /\ IntactInv /\ GivenInv /\ Transfer
  BY DEF Inv, Transfer
<1>1. CASE backend = "nccl" /\ (Trainer \/ Thread \/ Generator)
  <2>1. StreamInv'
    BY <1>0, <1>1, PackStream, BroadcastStream, MetadataStream, AdoptStream, YieldStream,
       OtherStream DEF Trainer, Thread, Generator
  <2>2. FillingInv' BY <1>0, <1>1, PackFilling, OtherFilling DEF Trainer
  <2>3. BroadcastInv' BY <1>0, <1>1, BroadcastKept
  <2>4. IntactInv' BY <1>0, <1>1, PackIntact, OtherIntact DEF Trainer
  <2>5. GivenInv' BY <1>0, <1>1, EngineGiven
  <2>6. Transfer' BY <1>0, <1>1, EngineTransfer
  <2>7. QED BY <2>1, <2>2, <2>3, <2>4, <2>5, <2>6 DEF Inv, Transfer
<1>2. ASSUME UNCHANGED <<sizes, engineVars>>, Transfer' /\ GivenInv' PROVE Inv'
  <2>1. StreamInv' BY <1>0, <1>2, OtherStream
  <2>2. FillingInv' BY <1>0, <1>2, OtherFilling
  <2>3. BroadcastInv' BY <1>0, <1>2, BroadcastKept
  <2>4. IntactInv' BY <1>0, <1>2, OtherIntact
  <2>5. QED BY <1>2, <2>1, <2>2, <2>3, <2>4 DEF Inv, Transfer
<1>3. CASE GivenSender /\ UNCHANGED engineVars
  <2>1. sizes' = sizes
    BY <1>3 DEF GivenSender, SendHandle, Answered, Flush, SendLarge, Pack, SenderFails, SendLast
  <2>2. Transfer' /\ GivenInv'
    BY <1>0, <1>3, SendHandleStep, AnsweredStep, FlushStep, SendLargeStep, PackStep,
       SenderFailsStep, SendLastStep DEF GivenSender
  <2>3. QED BY <1>2, <1>3, <2>1, <2>2
<1>4. CASE CopyOf(Content) /\ UNCHANGED engineVars
  <2>1. sizes' = sizes BY <1>4 DEF CopyOf
  <2>2. Transfer' /\ GivenInv' BY <1>0, <1>4, CopyStep
  <2>3. QED BY <1>2, <1>4, <2>1, <2>2
<1>5. ASSUME NEW r \in Receivers, GivenReceiver(r) /\ UNCHANGED engineVars PROVE Inv'
  <2>1. sizes' = sizes
    BY <1>5 DEF GivenReceiver, Connect, GetHandle, GetBucket, LoadOf, Acknowledge, ReceiverFails
  <2>2. Transfer' /\ GivenInv'
    BY <1>0, <1>5, ConnectStep, GetHandleStep, GetBucketStep, LoadStep, AcknowledgeStep,
       ReceiverFailsStep DEF GivenReceiver
  <2>3. QED BY <1>2, <1>5, <2>1, <2>2
<1>6. CASE UNCHANGED pipelineVars
  <2>1. UNCHANGED <<vars, engineVars>> BY <1>6 DEF pipelineVars
  <2>2. BucketInv' /\ GivenInv' BY <1>0, <2>1, SenderSame DEF Transfer
  <2>3. TypeOK' /\ LoadsTheWeights' BY <1>0, <2>1 DEF TypeOK, LoadsTheWeights, Transfer
  <2>4. WireInv' BY <1>0, <2>1 DEF WireInv, Serves, Waiting, Transfer
  <2>5. ServedInv'
    <3>1. Sent' = Sent /\ Waiting' = Waiting BY <2>1 DEF Sent, Waiting
    <3>2. ASSUME NEW r \in Receivers
          PROVE  /\ Owed(r, wire[1].message.items) => Owed(r, wire[1].message.items)'
                 /\ Owed(r, todo[r]) => Owed(r, todo[r])'
      BY <2>1, <3>1 DEF Owed, Follow, Ready, InBuffer, Held, Shown
    <3>3. \A r \in Receivers : Serves(r)' = Serves(r) BY <2>1 DEF Serves
    <3>4. QED BY <1>0, <2>1, <3>1, <3>2, <3>3 DEF ServedInv, Transfer
  <2>6. QED BY <1>2, <2>1, <2>2, <2>3, <2>4, <2>5 DEF Transfer
<1>7. QED BY <1>1, <1>3, <1>4, <1>5, <1>6 DEF PipelineNext

LEMMA Inductive == PipelineSpec => []Inv
<1>1. QED BY InitInv, StepInv, PTL DEF PipelineSpec

(* The engine loads the weights themselves, each once and in order: the     *)
(* sender of the bucketed transfer and the trainer's and the worker's       *)
(* broadcasts reuse a buffer only when nobody reads it any more (send       *)
(* weights, receive_weights, BucketedWeightSender, BucketedWeightReceiver). *)
THEOREM Loaded == PipelineSpec => []LoadsTheWeights
<1>1. Inv => LoadsTheWeights BY DEF Inv
<1>2. QED BY <1>1, Inductive, PTL

(* One worker takes part in the transfer of a handle.                       *)
OneReceiver == \A q, r \in Receivers : q = r

(* A sender that returns has delivered every weight, whatever raised        *)
(* (async_send_weights).  With several workers at one handle only one of    *)
(* them has the weights, if the sender returns at all.                      *)
THEOREM Delivered == ASSUME OneReceiver PROVE PipelineSpec => []AllDelivered
<1>1. Inv => AllDelivered
  <2> SUFFICES ASSUME Inv, spc = "done", NEW r \in Receivers PROVE Len(loaded[r]) = NumWeights
    BY DEF AllDelivered
  <2>1. PICK q \in Receivers : Serves(q) BY DEF Inv, WireInv
  <2>2. q = r BY DEF OneReceiver
  <2>3. Len(loaded[r]) = Sent BY <2>1, <2>2 DEF Inv, ServedInv
  <2>4. next = NumWeights + 1 BY DEF Inv, WireInv
  <2>5. Sent = NumWeights BY <2>4, Sizes DEF Sent
  <2>6. QED BY <2>3, <2>5
<1>2. QED BY <1>1, Inductive, PTL

(* Every variable on the way of the weights keeps its type; the trainer     *)
(* never puts two chunks of a weight in one bucket, whose metadata it keeps *)
(* by the names of the weights.                                             *)
THEOREM PipelineTypes == PipelineSpec => []PipelineTypeOK
<1>1. Inv => PipelineTypeOK
  <2> SUFFICES ASSUME Inv PROVE PipelineTypeOK OBVIOUS
  <2>1. filling \in Seq(Chunk) BY FillingType DEF Inv
  <2>2. bucket.items \in Seq(Chunk)
    <3>1. bucket.items \in Seq(Piece(sizes)) BY DEF Inv, StreamInv, Chain
    <3>2. Piece(sizes) \subseteq Chunk BY DEF Piece
    <3>3. QED BY <3>1, <3>2
  <2>3. ASSUME NEW i \in DOMAIN filling, NEW j \in DOMAIN filling,
               filling[i].weight = filling[j].weight
        PROVE  i = j
    <3>1. i \in Nat /\ j \in Nat /\ filling[i].weight \in Nat BY FillingType DEF Inv
    <3>2. ~(i < j) /\ ~(j < i) BY <2>3, <3>1 DEF Inv, FillingInv
    <3>3. QED BY <3>1, <3>2
  <2>4. chunk \in [weight : 1 .. NumWeights + 1, from : 0 .. MaxSize]
    BY DEF Inv, StreamInv, Place
  <2>5. QED BY <2>1, <2>2, <2>3, <2>4
            DEF Inv, PipelineTypeOK, StreamInv, BroadcastInv, OpType, IntactInv, GivenInv
<1>2. QED BY <1>1, Inductive, PTL
=============================================================================

--------------------------- MODULE StudentServer ---------------------------
(***************************************************************************)
(* The rollout server of the student in on-policy distillation             *)
(* (CLightMLLM_new/tools/serve_vllm_student.py): a thread per request,     *)
(* one lock around generation and the three requests of a weight sync, and *)
(* a receiver thread per sync session that loads the weights into the      *)
(* engine outside the lock.                                                *)
(*                                                                         *)
(* A version stands for the weights of one optimizer step; the transfer    *)
(* itself is the module BucketedTransfer.                                  *)
(***************************************************************************)
EXTENDS Integers, Sequences, FiniteSets

CONSTANTS Calls, NoCall,    \* one request at a time per caller
          Buckets,          \* buckets of one transfer
          PrefixCaching     \* does the engine reuse the KV cache of prefixes?

ASSUME ServerAssumption ==
    /\ NoCall \notin Calls
    /\ Buckets \in Nat \ {0}
    /\ PrefixCaching \in BOOLEAN

VARIABLES
    call,      \* the request of each caller and its answer
    lock,      \* the request whose handler holds the lock
    session,   \* active_sync_session: a number, 0 for None
    receiver,  \* the receiver thread of every session so far
    parts,     \* the version of the weights of each bucket in the engine
    weightVersion,
    released,  \* the weights of the engine when weight_version was last set
    cached     \* versions the cached prefixes were computed with

serverVars == <<call, lock, session, receiver, parts, weightVersion, released, cached>>

Idle == [op |-> "none", session |-> 0, state |-> "none", used |-> {}]

Sessions == DOMAIN receiver

ServerTypeOK ==
    /\ call \in [Calls -> [op : {"none", "generate", "start", "finish", "abort"},
                           session : Nat,
                           state : {"none", "queued", "running", "ok", "error"},
                           used : SUBSET Nat]]
    /\ lock \in Calls \cup {NoCall}
    /\ session \in {0} \cup Sessions
    /\ receiver \in Seq({"receiving", "closing", "ok", "failed", "gone"})
    /\ {parts, released} \subseteq [1 .. Buckets -> Nat]
    /\ weightVersion \in Nat
    /\ cached \subseteq Nat

Base == [b \in 1 .. Buckets |-> 0]

ServerInit ==
    /\ call = [c \in Calls |-> Idle]
    /\ lock = NoCall /\ session = 0 /\ receiver = <<>>
    /\ parts = Base /\ released = Base /\ weightVersion = 0
    /\ cached = {}

-----------------------------------------------------------------------------
Request(c, op, s) ==
    call' = [call EXCEPT ![c] = [op |-> op, session |-> s, state |-> "queued", used |-> {}]]

Answer(c, state) == call' = [call EXCEPT ![c].state = state]

\* The handler of c may enter the critical section.
Entering(c, op) == lock = NoCall /\ call[c].op = op /\ call[c].state = "queued"

Inside(c, op) == lock = c /\ call[c].op = op

Enter(c) == lock' = c /\ Answer(c, "running")
Leave(c, state) == lock' = NoCall /\ Answer(c, state)

Refuse(c) == Answer(c, "error") /\ UNCHANGED <<lock, session, receiver>>

engineVars == <<parts, weightVersion, released, cached>>

Alive(s) == receiver[s] \in {"receiving", "closing"}

InEngine == {parts[b] : b \in 1 .. Buckets}

\* A prefix that is in the cache is used as it is; the others are computed now.
Generate(c) ==
    /\ Entering(c, "generate")
    /\ IF session # 0 THEN Refuse(c) /\ UNCHANGED engineVars
       ELSE \E hit \in BOOLEAN :
              /\ hit => PrefixCaching /\ cached # {}
              /\ lock' = c
              /\ call' = [call EXCEPT ![c].state = "running",
                                      ![c].used = InEngine \cup IF hit THEN cached ELSE {}]
              /\ cached' = IF PrefixCaching THEN cached \cup InEngine ELSE cached
              /\ UNCHANGED <<session, receiver, parts, weightVersion, released>>

Generated(c) ==
    /\ Inside(c, "generate")
    /\ lock' = NoCall
    /\ call' = [call EXCEPT ![c].state = "ok", ![c].used = @ \cup InEngine]
    /\ UNCHANGED <<session, receiver, engineVars>>

StartSync(c) ==
    /\ Entering(c, "start")
    /\ IF session # 0 THEN Refuse(c)
       ELSE /\ Enter(c)
            /\ receiver' = Append(receiver, "receiving")
            /\ session' = Len(receiver) + 1
    /\ UNCHANGED engineVars

\* After half a second a receiver that has failed already ends the session.
StartAnswered(c) ==
    /\ Inside(c, "start")
    /\ IF receiver[session] = "failed"
       THEN Leave(c, "error") /\ session' = 0
       ELSE /\ lock' = NoCall
            /\ call' = [call EXCEPT ![c].state = "ok", ![c].session = session]
            /\ UNCHANGED session
    /\ UNCHANGED <<receiver, engineVars>>

\* finish and abort join the receiver thread, inside the lock.
Join(c, op) ==
    /\ Entering(c, op)
    /\ session # 0 /\ call[c].session = session
    /\ Enter(c)
    /\ UNCHANGED <<session, receiver, engineVars>>

Mismatch(c, op) ==
    /\ Entering(c, op)
    /\ call[c].session # session
    /\ IF op = "abort" /\ session = 0
       THEN Answer(c, "ok") /\ UNCHANGED <<lock, session, receiver>>
       ELSE Refuse(c)
    /\ UNCHANGED engineVars

\* Mutant: the session is not ended.
FinishedOnly(c) ==
    /\ Inside(c, "finish") /\ ~Alive(session)
    /\ Leave(c, IF receiver[session] = "ok" THEN "ok" ELSE "error")
    /\ UNCHANGED <<session, receiver, engineVars>>

Finished(c) ==
    /\ Inside(c, "finish") /\ ~Alive(session)
    /\ session' = 0
    /\ IF receiver[session] = "ok"
       THEN /\ weightVersion' = weightVersion + 1 /\ released' = parts
            /\ Leave(c, "ok")
       ELSE /\ Leave(c, "error")
            /\ UNCHANGED <<weightVersion, released>>
    /\ UNCHANGED <<receiver, parts, cached>>

Aborted(c) ==
    /\ Inside(c, "abort") /\ ~Alive(session)
    /\ session' = 0
    /\ Leave(c, "ok")
    /\ UNCHANGED <<receiver, engineVars>>

\* Mutant: the session is given up although its receiver goes on.
JoinTimesOutClosing(c) ==
    /\ lock = c /\ call[c].op \in {"finish", "abort"} /\ Alive(session)
    /\ session' = 0
    /\ Leave(c, "error")
    /\ UNCHANGED <<receiver, engineVars>>

\* The receiver does not end in time: the session stays active.
JoinTimesOut(c) ==
    /\ lock = c /\ call[c].op \in {"finish", "abort"} /\ Alive(session)
    /\ Leave(c, "error")
    /\ UNCHANGED <<session, receiver, engineVars>>

-----------------------------------------------------------------------------
\* Mutant: the receiver leaves its loop one bucket early.
LeavesEarly(s, b, v) ==
    /\ receiver[s] = "receiving"
    /\ parts' = [parts EXCEPT ![b] = v]
    /\ receiver' = [receiver EXCEPT ![s] = IF b = Buckets - 1 THEN "closing" ELSE @]
    /\ UNCHANGED <<call, lock, session, weightVersion, released, cached>>

\* The receiver of session s loads bucket b of version v.
LoadBucket(s, b, v) ==
    /\ receiver[s] = "receiving"
    /\ parts' = [parts EXCEPT ![b] = v]
    /\ receiver' = [receiver EXCEPT ![s] = IF b = Buckets THEN "closing" ELSE @]
    /\ UNCHANGED <<call, lock, session, weightVersion, released, cached>>

ReceiverEnds(s) ==
    /\ receiver[s] = "closing"
    /\ receiver' = [receiver EXCEPT ![s] = "ok"]
    /\ UNCHANGED <<call, lock, session, engineVars>>

ReceiverRaises(s) ==
    /\ Alive(s)
    /\ receiver' = [receiver EXCEPT ![s] = "failed"]
    /\ UNCHANGED <<call, lock, session, engineVars>>

\* A new server process; requests under way get no answer.
ServerRestarts ==
    /\ call' = [c \in Calls |-> IF call[c].state \in {"queued", "running"}
                                THEN [call[c] EXCEPT !.state = "error"] ELSE call[c]]
    /\ lock' = NoCall /\ session' = 0
    /\ receiver' = [s \in Sessions |-> "gone"]
    /\ parts' = Base /\ released' = Base /\ weightVersion' = 0
    /\ cached' = {}

Handler(c) ==
    \/ Generate(c) \/ Generated(c) \/ StartSync(c) \/ StartAnswered(c)
    \/ \E op \in {"finish", "abort"} : Join(c, op) \/ Mismatch(c, op)
    \/ Finished(c) \/ Aborted(c)
=============================================================================

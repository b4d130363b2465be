------------------------- MODULE StudentSync_proofs -------------------------
(***************************************************************************)
(* Proofs about the student's rollout server and the sync of its weights,  *)
(* for every number of callers, trainers, batches, buckets and failures:   *)
(* the engine does one thing at a time, although the receiver threads run  *)
(* outside the lock and outlive the requests that started them; a sync     *)
(* that is reported as done has loaded the policy; the version the server  *)
(* gives identifies its weights; and the rollouts that are trained on are  *)
(* those of the current policy.                                            *)
(***************************************************************************)
EXTENDS StudentSync, FiniteSetTheorems, SequenceTheorems, TLAPS

USE DEF serverVars, engineVars, trainerVars

Ops == {"none", "generate", "start", "finish", "abort"}
CallStates == {"none", "queued", "running", "ok", "error"}
CallSet == [op : Ops, session : Nat, state : CallStates, used : SUBSET Nat]
ReceiverStates == {"receiving", "closing", "ok", "failed", "gone"}

Generating(c) == call[c].op = "generate" /\ call[c].state = "running"

\* Who runs has the lock, a receiver is that of the session, and nobody
\* generates in a session.
Exclusion ==
    /\ \A c \in Calls : call[c].state = "running" => lock = c
    /\ \A c \in Calls : Generating(c) => session = 0
    /\ \A s \in Sessions : Alive(s) => s = session

ServerShape ==
    /\ call \in [Calls -> CallSet]
    /\ lock \in Calls \cup {NoCall}
    /\ session \in Nat
    /\ receiver \in Seq(ReceiverStates)
    /\ parts \in [1 .. Buckets -> Nat]
    /\ cached \subseteq Nat

ServerInv == ServerShape /\ Exclusion

LEMMA Types ==
    ASSUME ServerShape
    PROVE  /\ call \in [Calls -> CallSet] /\ receiver \in Seq(ReceiverStates)
           /\ Sessions \subseteq Nat \ {0}
           /\ InEngine \subseteq Nat /\ session \in Nat
           /\ NoCall \notin Calls
BY ServerAssumption DEF ServerShape, Sessions, InEngine

LEMMA AnswerMoves ==
    ASSUME ServerShape, NEW c \in Calls, NEW state \in CallStates, Answer(c, state)
    PROVE  /\ call' \in [Calls -> CallSet]
           /\ call'[c].op = call[c].op /\ call'[c].state = state
           /\ \A d \in Calls : d # c => call'[d] = call[d]
<1>1. call \in [Calls -> CallSet] BY Types
<1>2. call' = [call EXCEPT ![c].state = state] BY DEF Answer
<1>3. call[c] \in CallSet BY <1>1
<1>4. [call[c] EXCEPT !.state = state] \in CallSet BY <1>3 DEF CallSet
<1>5. call'[c] = [call[c] EXCEPT !.state = state] BY <1>1, <1>2
<1>6. call'[c].op = call[c].op /\ call'[c].state = state BY <1>3, <1>5 DEF CallSet
<1>7. QED BY <1>1, <1>2, <1>4, <1>6

LEMMA ReceiverMoves ==
    ASSUME receiver \in Seq(ReceiverStates), NEW s, NEW st \in ReceiverStates,
           receiver' = [receiver EXCEPT ![s] = st]
    PROVE  /\ receiver' \in Seq(ReceiverStates) /\ Sessions' = Sessions
           /\ \A t \in Sessions : t # s => receiver'[t] = receiver[t]
           /\ s \in Sessions => receiver'[s] = st
<1>1. DOMAIN receiver' = DOMAIN receiver OBVIOUS
<1>2. \A t \in DOMAIN receiver : receiver'[t] = IF t = s THEN st ELSE receiver[t] OBVIOUS
<1>3. receiver' \in Seq(ReceiverStates)
  <2>1. receiver \in [1 .. Len(receiver) -> ReceiverStates] /\ Len(receiver) \in Nat OBVIOUS
  <2>2. receiver' \in [1 .. Len(receiver) -> ReceiverStates] BY <2>1
  <2>3. QED BY <2>1, <2>2, SeqDef
<1>4. QED BY <1>1, <1>2, <1>3 DEF Sessions

-----------------------------------------------------------------------------
LEMMA GenerateKeeps ==
    ASSUME ServerInv, NEW c \in Calls, Generate(c) PROVE ServerInv'
<1> USE Types DEF ServerInv
<1>1. /\ lock = NoCall /\ call[c].op = "generate" /\ call[c].state = "queued"
      /\ UNCHANGED <<session, receiver, parts, weightVersion, released>>
  BY DEF Generate, Entering, Refuse
<1>2. CASE session # 0
  <2>1. Answer(c, "error") /\ UNCHANGED <<lock, cached>> BY <1>2 DEF Generate, Refuse
  <2>2. "error" \in CallStates BY DEF CallStates
  <2>3. /\ call' \in [Calls -> CallSet] /\ call'[c].state = "error"
        /\ \A d \in Calls : d # c => call'[d] = call[d]
    BY <2>1, <2>2, AnswerMoves
  <2>4. ServerShape' BY <1>1, <2>1, <2>3 DEF ServerShape
  <2>5. Exclusion' BY <1>1, <2>1, <2>3 DEF Exclusion, Generating, Sessions, Alive
  <2>6. QED BY <2>4, <2>5
<1>3. CASE session = 0
  <2>1. PICK hit \in BOOLEAN :
          /\ lock' = c
          /\ call' = [call EXCEPT ![c].state = "running",
                                  ![c].used = InEngine \cup IF hit THEN cached ELSE {}]
          /\ cached' = IF PrefixCaching THEN cached \cup InEngine ELSE cached
    BY <1>3 DEF Generate
  <2> DEFINE u == InEngine \cup IF hit THEN cached ELSE {}
  <2>2. u \subseteq Nat /\ cached' \subseteq Nat BY <2>1 DEF ServerShape
  <2>3. call[c] \in CallSet OBVIOUS
  <2> HIDE DEF u
  <2>4. [call[c] EXCEPT !.state = "running", !.used = u] \in CallSet
    BY <2>2, <2>3 DEF CallSet, CallStates
  <2>5. call' = [call EXCEPT ![c] = [call[c] EXCEPT !.state = "running", !.used = u]]
    BY <2>1 DEF u
  <2>6. /\ call' \in [Calls -> CallSet]
        /\ \A d \in Calls : d # c => call'[d] = call[d]
    BY <2>4, <2>5
  <2>7. ServerShape' BY <1>1, <2>1, <2>2, <2>6 DEF ServerShape
  <2>8. Exclusion' BY <1>1, <1>3, <2>1, <2>6 DEF Exclusion, Generating, Sessions, Alive
  <2>9. QED BY <2>7, <2>8
<1>4. QED BY <1>2, <1>3

(* A call that is not running, or leaves the lock, in a session that goes   *)
(* on or whose receiver is dead.                                            *)
LEMMA NotRunning ==
    ASSUME ServerInv, NEW c \in Calls,
           call' \in [Calls -> CallSet], call'[c].state # "running",
           \A d \in Calls : d # c => call'[d] = call[d],
           lock' = lock \/ (lock = c /\ lock' = NoCall),
           session' = session \/ (session' = 0 /\ ~Alive(session)),
           UNCHANGED <<receiver, parts, cached>>
    PROVE  ServerInv'
<1> USE Types DEF ServerInv
<1>1. ServerShape' BY DEF ServerShape
<1>2. ASSUME NEW d \in Calls, call'[d].state = "running" PROVE lock' = d
  <2>1. d # c /\ call[d].state = "running" BY <1>2
  <2>2. lock = d BY <2>1 DEF Exclusion
  <2>3. QED BY <2>1, <2>2
<1>3. ASSUME NEW d \in Calls, Generating(d)' PROVE session' = 0
  <2>1. d # c /\ Generating(d) BY <1>3 DEF Generating
  <2>2. session = 0 BY <2>1 DEF Exclusion
  <2>3. QED BY <2>2
<1>4. ASSUME NEW s \in Sessions', Alive(s)' PROVE s = session'
  <2>1. s \in Sessions /\ Alive(s) BY <1>4 DEF Sessions, Alive
  <2>2. QED BY <2>1 DEF Exclusion
<1>5. QED BY <1>1, <1>2, <1>3, <1>4 DEF Exclusion

LEMMA GeneratedKeeps ==
    ASSUME ServerInv, NEW c \in Calls, Generated(c) PROVE ServerInv'
<1>1. /\ lock = c /\ lock' = NoCall
      /\ call' = [call EXCEPT ![c].state = "ok", ![c].used = @ \cup InEngine]
      /\ UNCHANGED <<session, receiver, parts, cached>>
  BY DEF Generated, Inside
<1>2. /\ call \in [Calls -> CallSet] /\ call[c] \in CallSet /\ InEngine \subseteq Nat
  BY Types DEF ServerInv
<1> DEFINE u == call[c].used \cup InEngine
<1>3. u \subseteq Nat BY <1>2 DEF CallSet
<1>4. call' = [call EXCEPT ![c] = [call[c] EXCEPT !.state = "ok", !.used = u]]
  BY <1>1, <1>2
<1> HIDE DEF u
<1>5. [call[c] EXCEPT !.state = "ok", !.used = u] \in CallSet
  BY <1>2, <1>3 DEF CallSet, CallStates
<1>6. [call[c] EXCEPT !.state = "ok", !.used = u].state = "ok" BY <1>2 DEF CallSet
<1>7. /\ call' \in [Calls -> CallSet] /\ call'[c].state = "ok"
      /\ \A d \in Calls : d # c => call'[d] = call[d]
  BY <1>2, <1>4, <1>5, <1>6
<1>8. QED BY <1>1, <1>7, NotRunning

(* A call that gets the lock for anything but a generation.                 *)
LEMMA EnterKeeps ==
    ASSUME ServerInv, NEW c \in Calls, lock = NoCall, Enter(c), call[c].op # "generate",
           receiver' \in Seq(ReceiverStates), session' \in Nat,
           \A s \in Sessions' : Alive(s)' => s = session',
           UNCHANGED <<parts, cached>>
    PROVE  ServerInv'
<1> USE Types DEF ServerInv
<1>1. /\ call' \in [Calls -> CallSet] /\ call'[c].op = call[c].op
      /\ \A d \in Calls : d # c => call'[d] = call[d]
  BY AnswerMoves DEF Enter, CallStates
<1>2. ServerShape' BY <1>1 DEF ServerShape, Enter
<1>3. \A d \in Calls : d # c => call'[d].state # "running" BY <1>1 DEF Exclusion
<1>4. \A d \in Calls : ~Generating(d)' BY <1>1, <1>3 DEF Generating
<1>5. QED BY <1>2, <1>3, <1>4 DEF Exclusion, Enter

LEMMA HandlerKeeps ==
    ASSUME ServerInv, NEW c \in Calls, Handler(c) PROVE ServerInv'
<1> USE DEF ServerInv
<1>0. ServerShape /\ "ok" \in CallStates /\ "error" \in CallStates BY DEF CallStates
<1>1. CASE Generate(c) \/ Generated(c) BY <1>1, GenerateKeeps, GeneratedKeeps
<1>2. CASE StartSync(c)
  <2>1. lock = NoCall /\ call[c].op = "start" /\ UNCHANGED <<parts, cached>>
    BY <1>2 DEF StartSync, Entering
  <2>2. CASE session # 0
    <3>1. Answer(c, "error") /\ UNCHANGED <<lock, session, receiver>>
      BY <1>2, <2>2 DEF StartSync, Refuse
    <3>2. QED BY <1>0, <2>1, <3>1, AnswerMoves, NotRunning
  <2>3. CASE session = 0
    <3>1. /\ Enter(c) /\ receiver' = Append(receiver, "receiving")
          /\ session' = Len(receiver) + 1
      BY <1>2, <2>3 DEF StartSync
    <3>2. /\ receiver' \in Seq(ReceiverStates) /\ Len(receiver) \in Nat
          /\ \A s \in DOMAIN receiver' :
                 s # Len(receiver) + 1 => s \in DOMAIN receiver /\ receiver'[s] = receiver[s]
      BY <3>1, Types DEF ReceiverStates
    <3>3. \A s \in Sessions : ~Alive(s)
      <4>1. 0 \notin Sessions BY Types
      <4>2. QED BY <2>3, <4>1 DEF Exclusion
    <3>4. \A s \in Sessions' : Alive(s)' => s = session'
      BY <3>1, <3>2, <3>3 DEF Sessions, Alive
    <3>5. session' \in Nat BY <3>1, <3>2
    <3>6. QED BY <2>1, <3>1, <3>2, <3>4, <3>5, EnterKeeps
  <2>4. QED BY <2>2, <2>3
<1>3. CASE StartAnswered(c)
  <2>1. lock = c /\ lock' = NoCall /\ UNCHANGED <<receiver, parts, cached>>
    BY <1>3 DEF StartAnswered, Inside, Leave
  <2>2. CASE receiver[session] = "failed"
    <3>1. Answer(c, "error") /\ session' = 0 BY <1>3, <2>2 DEF StartAnswered, Leave
    <3>2. ~Alive(session) BY <2>2 DEF Alive
    <3>3. QED BY <1>0, <2>1, <3>1, <3>2, AnswerMoves, NotRunning
  <2>3. CASE receiver[session] # "failed"
    <3>1. /\ call' = [call EXCEPT ![c].state = "ok", ![c].session = session]
          /\ session' = session
      BY <1>3, <2>3 DEF StartAnswered
    <3>2. /\ call \in [Calls -> CallSet] /\ call[c] \in CallSet /\ session \in Nat
      BY Types
    <3>3. call' = [call EXCEPT ![c] = [call[c] EXCEPT !.state = "ok", !.session = session]]
      BY <3>1, <3>2
    <3>4. [call[c] EXCEPT !.state = "ok", !.session = session] \in CallSet
      BY <3>2 DEF CallSet, CallStates
    <3>5. [call[c] EXCEPT !.state = "ok", !.session = session].state = "ok"
      BY <3>2 DEF CallSet
    <3>6. /\ call' \in [Calls -> CallSet] /\ call'[c].state = "ok"
          /\ \A d \in Calls : d # c => call'[d] = call[d]
      BY <3>2, <3>3, <3>4, <3>5
    <3>7. QED BY <2>1, <3>1, <3>6, NotRunning
  <2>4. QED BY <2>2, <2>3
<1>4. CASE \E op \in {"finish", "abort"} : Join(c, op) \/ Mismatch(c, op)
  <2>1. PICK op \in {"finish", "abort"} : Join(c, op) \/ Mismatch(c, op) BY <1>4
  <2>2. CASE Join(c, op)
    <3>1. /\ lock = NoCall /\ call[c].op # "generate" /\ Enter(c)
          /\ UNCHANGED <<session, receiver, parts, cached>>
      BY <2>2 DEF Join, Entering
    <3>2. \A s \in Sessions' : Alive(s)' => s = session' BY <3>1 DEF Exclusion, Sessions, Alive
    <3>3. receiver' \in Seq(ReceiverStates) /\ session' \in Nat BY <3>1, Types
    <3>4. QED BY <3>1, <3>2, <3>3, EnterKeeps
  <2>3. CASE Mismatch(c, op)
    <3>1. /\ Answer(c, "ok") \/ Answer(c, "error")
          /\ UNCHANGED <<lock, session, receiver, parts, cached>>
      BY <2>3 DEF Mismatch, Refuse
    <3>2. QED BY <1>0, <3>1, AnswerMoves, NotRunning
  <2>4. QED BY <2>1, <2>2, <2>3
<1>5. CASE Finished(c) \/ Aborted(c)
  <2>1. /\ lock = c /\ lock' = NoCall /\ session' = 0 /\ ~Alive(session)
        /\ Answer(c, "ok") \/ Answer(c, "error")
        /\ UNCHANGED <<receiver, parts, cached>>
    BY <1>5 DEF Finished, Aborted, Inside, Leave
  <2>2. QED BY <1>0, <2>1, AnswerMoves, NotRunning
<1>6. QED BY <1>1, <1>2, <1>3, <1>4, <1>5 DEF Handler

LEMMA TimeoutKeeps ==
    ASSUME ServerInv, NEW c \in Calls, JoinTimesOut(c) PROVE ServerInv'
<1>1. /\ lock = c /\ lock' = NoCall /\ Answer(c, "error")
      /\ UNCHANGED <<session, receiver, parts, cached>>
  BY DEF JoinTimesOut, Leave
<1>2. QED BY <1>1, AnswerMoves, NotRunning DEF ServerInv, CallStates

(* A receiver thread, which takes no lock.                                  *)
LEMMA ReceiverKeeps ==
    ASSUME ServerInv, NEW s,
           \/ \E b \in Nat, v \in Nat : LoadBucket(s, b, v)
           \/ ReceiverEnds(s) \/ ReceiverRaises(s)
    PROVE  ServerInv'
<1> USE Types DEF ServerInv
<1>1. \E st \in ReceiverStates : /\ receiver' = [receiver EXCEPT ![s] = st]
                                 /\ st \in {"receiving", "closing"} => Alive(s)
  BY DEF LoadBucket, ReceiverEnds, ReceiverRaises, Alive, ReceiverStates
<1>2. PICK st \in ReceiverStates : /\ receiver' = [receiver EXCEPT ![s] = st]
                                   /\ st \in {"receiving", "closing"} => Alive(s)
  BY <1>1
<1>3. /\ receiver' \in Seq(ReceiverStates) /\ Sessions' = Sessions
      /\ \A t \in Sessions : t # s => receiver'[t] = receiver[t]
      /\ s \in Sessions => receiver'[s] = st
  <2>1. receiver \in Seq(ReceiverStates) BY Types
  <2>2. receiver' = [receiver EXCEPT ![s] = st] BY <1>2
  <2>3. QED BY <2>1, <2>2, ReceiverMoves
<1>4. UNCHANGED <<call, lock, session, cached>> /\ parts' \in [1 .. Buckets -> Nat]
  BY DEF LoadBucket, ReceiverEnds, ReceiverRaises, ServerShape
<1>5. ServerShape' BY <1>3, <1>4 DEF ServerShape
<1>6. ASSUME NEW t \in Sessions, Alive(t)' PROVE Alive(t)
  <2>1. CASE t = s BY <1>2, <1>3, <1>6, <2>1 DEF Alive
  <2>2. CASE t # s BY <1>3, <1>6, <2>2 DEF Alive
  <2>3. QED BY <2>1, <2>2
<1>7. Exclusion' BY <1>3, <1>4, <1>6 DEF Exclusion, Generating
<1>8. QED BY <1>5, <1>7

LEMMA RestartKeeps ==
    ASSUME ServerInv, ServerRestarts PROVE ServerInv'
<1> USE Types DEF ServerInv
<1>1. /\ lock' = NoCall /\ session' = 0 /\ cached' = {}
      /\ receiver' = [s \in Sessions |-> "gone"] /\ parts' = Base
      /\ call' = [c \in Calls |-> IF call[c].state \in {"queued", "running"}
                                  THEN [call[c] EXCEPT !.state = "error"] ELSE call[c]]
  BY DEF ServerRestarts
<1>2. \A c \in Calls : call'[c] \in CallSet /\ call'[c].state # "running"
  <2> SUFFICES ASSUME NEW c \in Calls
               PROVE  call'[c] \in CallSet /\ call'[c].state # "running"
    OBVIOUS
  <2>1. call[c] \in CallSet OBVIOUS
  <2>2. /\ [call[c] EXCEPT !.state = "error"] \in CallSet
        /\ [call[c] EXCEPT !.state = "error"].state = "error"
    BY <2>1 DEF CallSet, CallStates
  <2>3. QED BY <1>1, <2>1, <2>2
<1>3. receiver' \in Seq(ReceiverStates)
  <2>1. Sessions = 1 .. Len(receiver) /\ Len(receiver) \in Nat BY DEF Sessions
  <2>2. receiver' \in [1 .. Len(receiver) -> ReceiverStates]
    BY <1>1, <2>1 DEF ReceiverStates
  <2>3. QED BY <2>1, <2>2, SeqDef
<1>4. ServerShape' BY <1>1, <1>2, <1>3 DEF ServerShape, Base
<1>5. \A s \in Sessions' : ~Alive(s)' BY <1>1 DEF Sessions, Alive
<1>6. Exclusion' BY <1>2, <1>5 DEF Exclusion, Generating
<1>7. QED BY <1>4, <1>6

-----------------------------------------------------------------------------
(* The trainer's side asks, sends and fails.                               *)

Inv == /\ ServerInv
       /\ life \in 1 .. MaxLife /\ policy \in Nat /\ fresh \in Nat /\ sent \in Nat

LEMMA AskKeeps ==
    ASSUME Inv, NEW r \in Ranks, NEW op \in Ops, NEW s \in Nat, Ask(r, op, s)
    PROVE  ServerInv'
<1> DEFINE c == <<r, life>>
           q == [op |-> op, session |-> s, state |-> "queued", used |-> {}]
<1>1. c \in Calls /\ ServerInv BY TrainerAssumption DEF Inv
<1>2. call' = [call EXCEPT ![c] = q] /\ UNCHANGED <<lock, session, receiver, parts, cached>>
  BY DEF Ask, Request
<1>3. q \in CallSet /\ q.state # "running" BY DEF CallSet, CallStates
<1>4. call \in [Calls -> CallSet] BY <1>1, Types DEF ServerInv
<1> HIDE DEF q, c
<1>5. /\ call' \in [Calls -> CallSet] /\ call'[c].state # "running"
      /\ \A d \in Calls : d # c => call'[d] = call[d]
  BY <1>1, <1>2, <1>3, <1>4
<1>6. QED BY <1>1, <1>2, <1>5, NotRunning

LEMMA InitServer == Init => Inv
<1> SUFFICES ASSUME Init PROVE Inv OBVIOUS
<1> USE DEF Init, ServerInit
<1>1. ServerShape
  <2>1. Idle \in CallSet BY DEF Idle, CallSet, Ops, CallStates
  <2>2. QED BY <2>1 DEF ServerShape, Base
<1>2. Exclusion BY DEF Exclusion, Generating, Idle, Sessions
<1>3. life \in 1 .. MaxLife BY TrainerAssumption
<1>4. QED BY <1>1, <1>2, <1>3 DEF Inv, ServerInv

LEMMA UnchangedServer ==
    ASSUME ServerInv, UNCHANGED serverVars PROVE ServerInv'
BY DEF ServerInv, ServerShape, Exclusion, Generating, Sessions, Alive

LEMMA NextServer == Inv /\ [Next]_vars => Inv'
<1> SUFFICES ASSUME Inv, [Next]_vars PROVE Inv' OBVIOUS
<1> USE DEF Inv
<1>0. Lead \in Ranks /\ "generate" \in Ops /\ "start" \in Ops /\ "finish" \in Ops /\ "abort" \in Ops
  BY TrainerAssumption DEF Ops
<1>1. Mine(Lead).session \in Nat
  <2>1. <<Lead, life>> \in Calls BY <1>0, TrainerAssumption
  <2>2. call \in [Calls -> CallSet] BY DEF ServerInv, ServerShape
  <2>3. call[<<Lead, life>>] \in CallSet BY <2>1, <2>2
  <2>4. QED BY <2>3 DEF Mine, CallSet
<1>2. CASE \E r \in Ranks : Rank(r)
  <2>1. PICK r \in Ranks : Rank(r) BY <1>2
  <2>2. UNCHANGED <<life, policy, fresh, sent>>
    BY <2>1 DEF Rank, AskRollout, GotRollout, Raises
  <2>3. ServerInv'
    BY <1>0, <2>1, AskKeeps, UnchangedServer DEF Rank, AskRollout, GotRollout, Raises, Goto
  <2>4. QED BY <2>2, <2>3
<1>3. CASE Together
  <2>1. UNCHANGED <<life, sent, serverVars>> /\ policy' \in Nat /\ fresh' \in Nat
    BY <1>3 DEF Together, Train, Barrier
  <2>2. QED BY <2>1, UnchangedServer
<1>4. CASE SendBucket
  <2>1. /\ LoadBucket(Mine(Lead).session, sent + 1, policy)
        /\ UNCHANGED <<life, policy, fresh>> /\ sent' = sent + 1
    BY <1>4 DEF SendBucket
  <2>2. sent + 1 \in Nat OBVIOUS
  <2>3. QED BY <2>1, <2>2, ReceiverKeeps
<1>5. CASE AskStart \/ GotStart \/ AskFinish \/ GotFinish \/ SenderFails
  <2>1. UNCHANGED <<life, policy, fresh>> /\ sent' \in Nat
    BY <1>5 DEF AskStart, GotStart, AskFinish, GotFinish, SenderFails
  <2>2. ServerInv'
    BY <1>0, <1>1, <1>5, AskKeeps, UnchangedServer
    DEF AskStart, GotStart, AskFinish, GotFinish, SenderFails, Goto
  <2>3. QED BY <2>1, <2>2
<1>6. CASE \E c \in Calls : Serve(c) \/ AbortTimesOut(c) \/ FinishTimesOut(c)
  <2>1. PICK c \in Calls : Serve(c) \/ AbortTimesOut(c) \/ FinishTimesOut(c) BY <1>6
  <2>2. UNCHANGED <<life, policy, fresh, sent>>
    BY <2>1 DEF Serve, AbortTimesOut, FinishTimesOut
  <2>3. ServerInv'
    BY <2>1, HandlerKeeps, TimeoutKeeps DEF Serve, AbortTimesOut, FinishTimesOut
  <2>4. QED BY <2>2, <2>3
<1>7. CASE \E s \in Sessions : Close(s) \/ ReceiverFails(s)
  BY <1>7, ReceiverKeeps DEF Close, ReceiverFails
<1>8. CASE TrainerRestarts
  BY <1>8, UnchangedServer, TrainerAssumption DEF TrainerRestarts
<1>9. CASE RestartServer
  BY <1>9, RestartKeeps DEF RestartServer
<1>10. CASE \E r \in Ranks : TimesOut(r)
  BY <1>10, UnchangedServer DEF TimesOut, Goto
<1>11. CASE UNCHANGED vars
  BY <1>11, UnchangedServer DEF vars
<1>12. QED
  BY <1>2, <1>3, <1>4, <1>5, <1>6, <1>7, <1>8, <1>9, <1>10, <1>11 DEF Next, Sync, Failure

(* The engine is never given a generation while a receiver loads weights    *)
(* into it, and never two receivers (generate, start_weight_sync,           *)
(* finish_weight_sync, abort_weight_sync and their one lock).               *)
THEOREM Exclusive == Spec => []EngineExclusive
<1>1. Init => Inv BY InitServer
<1>2. Inv /\ [Next]_vars => Inv' BY NextServer
<1>3. Inv => EngineExclusive
  <2> SUFFICES ASSUME Inv PROVE EngineExclusive OBVIOUS
  <2> DEFINE G == {c \in Calls : call[c].op = "generate" /\ call[c].state = "running"}
             A == {s \in Sessions : Alive(s)}
  <2>1. G \subseteq {lock} /\ A \subseteq {session} BY DEF Inv, ServerInv, Exclusion
  <2>2. G = {} \/ A = {}
    <3>1. G # {} => session = 0 BY DEF Inv, ServerInv, Exclusion, Generating
    <3>2. 0 \notin A BY Types DEF Inv, ServerInv
    <3>3. QED BY <2>1, <3>1, <3>2
  <2>3. Cardinality({}) = 0 BY FS_EmptySet
  <2>4. Cardinality({lock}) = 1 /\ Cardinality({session}) = 1 BY FS_Singleton
  <2> HIDE DEF G, A
  <2>5. (G = {} \/ G = {lock}) /\ (A = {} \/ A = {session}) BY <2>1
  <2>6. Cardinality(G) + Cardinality(A) <= 1 BY <2>2, <2>3, <2>4, <2>5
  <2>7. QED BY <2>6 DEF EngineExclusive, G, A
<1>4. QED BY <1>1, <1>2, <1>3, PTL DEF Spec
-----------------------------------------------------------------------------
(* The weight sync.  A session belongs to the request that opened it; its   *)
(* buckets come from the one trainer that holds its number; and what ended  *)
(* a session is what the weights, and their version, are.                   *)

lead == <<Lead, life>>

\* Where a rank is.
Places == {"rollout", "waiting", "train", "sync", "sending", "synced", "barrier", "done", "dead"}

Asked(c) == call[c].state \in {"queued", "running"}

AllPolicy == \A b \in 1 .. Buckets : parts[b] = policy

\* What the ranks know of their requests.
ClientInv ==
    /\ \A c \in Calls : c[2] > life => call[c] = Idle
    /\ \A c \in Calls : c[1] # Lead => call[c].op \in {"none", "generate"}
    /\ \A r \in Ranks : pc[r] \notin {"waiting", "dead"} => ~Asked(<<r, life>>)
    /\ pc[Lead] = "sending" => call[lead].op = "start" /\ call[lead].state = "ok"
    /\ pc[Lead] = "synced" => call[lead].op = "finish" /\ call[lead].state = "ok"

\* Whose the session is.
SessionInv ==
    /\ session \in {0} \cup Sessions
    /\ \A c \in Calls : /\ call[c].session \in {0} \cup Sessions
                        /\ call[c].op \in {"none", "generate"} => call[c].session = 0
                        /\ call[c].op = "start" /\ call[c].state = "ok" => call[c].session # 0
    /\ \A c, d \in Calls : call[c].session = call[d].session /\ call[c].session # 0 => c = d
    /\ session # 0 => receiver[session] # "gone"

LockInv ==
    /\ lock \in Calls => call[lock].state = "running"
    /\ lock \in Calls /\ call[lock].op = "start" =>
          /\ session # 0 /\ receiver[session] \in {"receiving", "failed"}
          /\ \A d \in Calls : call[d].session # session
    /\ lock \in Calls /\ call[lock].op \in {"finish", "abort"} =>
          session # 0 /\ call[lock].session = session

\* What is loaded.
Loading == /\ pc[Lead] \in {"waiting", "sending"} /\ call[lead].op = "start"
           /\ call[lead].state = "ok" /\ call[lead].session = session

Finishing == /\ pc[Lead] = "waiting" /\ call[lead].op = "finish" /\ Asked(lead)
             /\ call[lead].session = session /\ session # 0

Synced == /\ pc[Lead] \in {"waiting", "synced"}
          /\ call[lead].op = "finish" /\ call[lead].state = "ok"

LoadInv ==
    /\ \A c \in Calls : call[c].op = "abort" /\ call[c].session = session /\ session # 0
                           => receiver[session] \in {"receiving", "failed"}
    /\ pc[Lead] = "waiting" /\ call[lead].op = "start" => sent = 0
    /\ Loading => /\ \A b \in 1 .. Buckets : b <= sent => parts[b] = policy
                  /\ sent < Buckets => receiver[session] \in {"receiving", "failed"}
    /\ Finishing => AllPolicy
    /\ Synced => \/ AllPolicy
                 \/ weightVersion = 0 /\ \A c \in Calls : Asked(c) => call[c].op = "generate"

SyncInv == ClientInv /\ SessionInv /\ LockInv /\ LoadInv /\ VersionIdentifiesWeights

LEMMA CallTypes ==
    ASSUME Inv
    PROVE  /\ call \in [Calls -> CallSet] /\ lead \in Calls
           /\ \A r \in Ranks : <<r, life>> \in Calls
           /\ \A c \in Calls : /\ c = <<c[1], c[2]>> /\ c[1] \in Ranks /\ c[2] \in 1 .. MaxLife
                               /\ call[c].session \in Nat
           /\ Sessions = 1 .. Len(receiver) /\ Len(receiver) \in Nat /\ session \in Nat
           /\ 0 \notin Sessions /\ life \in 1 .. MaxLife /\ life \in Nat /\ MaxLife \in Nat
           /\ NoCall \notin Calls /\ parts \in [1 .. Buckets -> Nat] /\ Buckets \in Nat \ {0}
           /\ sent \in Nat /\ Lead \in Ranks /\ receiver \in Seq(ReceiverStates)
<1>1. /\ life \in 1 .. MaxLife /\ MaxLife \in Nat \ {0} /\ Calls = Ranks \X (1 .. MaxLife)
      /\ Lead \in Ranks /\ Buckets \in Nat \ {0} /\ NoCall \notin Calls /\ sent \in Nat
  BY TrainerAssumption, ServerAssumption DEF Inv
<1>2. /\ call \in [Calls -> CallSet] /\ session \in Nat /\ parts \in [1 .. Buckets -> Nat]
      /\ receiver \in Seq(ReceiverStates)
  BY DEF Inv, ServerInv, ServerShape
<1>3. Sessions = 1 .. Len(receiver) /\ Len(receiver) \in Nat /\ 0 \notin Sessions
  BY <1>2 DEF Sessions
<1>4. \A c \in Calls : call[c].session \in Nat BY <1>2 DEF CallSet
<1>5. \A c \in Calls : c = <<c[1], c[2]>> /\ c[1] \in Ranks /\ c[2] \in 1 .. MaxLife BY <1>1
<1>6. \A r \in Ranks : <<r, life>> \in Calls BY <1>1
<1>7. QED BY <1>1, <1>2, <1>3, <1>4, <1>5, <1>6 DEF lead

(* A handler changes nothing of what the ranks know, but the answer of a    *)
(* request that was asked.                                                  *)
LEMMA HandlerClient ==
    ASSUME Inv, ClientInv, NEW c \in Calls, Asked(c), call'[c].op = call[c].op,
           \A d \in Calls : d # c => call'[d] = call[d], UNCHANGED <<pc, life>>
    PROVE  ClientInv'
<1>1. c[2] <= life
  <2>1. ~(c[2] > life) BY DEF ClientInv, Asked, Idle
  <2>2. QED BY <2>1, CallTypes
<1>2. \A d \in Calls : d[2] > life' => call'[d] = Idle BY <1>1, CallTypes DEF ClientInv
<1>3. \A d \in Calls : d[1] # Lead => call'[d].op \in {"none", "generate"} BY DEF ClientInv
<1>4. \A r \in Ranks : pc[r] \notin {"waiting", "dead"} => call'[<<r, life>>] = call[<<r, life>>]
  BY CallTypes DEF ClientInv
<1>5. \A r \in Ranks : pc'[r] \notin {"waiting", "dead"} => ~Asked(<<r, life>>)'
  BY <1>4 DEF ClientInv, Asked
<1>6. pc[Lead] \notin {"waiting", "dead"} => call'[lead] = call[lead] /\ lead' = lead
  BY <1>4, CallTypes DEF lead
<1>7. QED BY <1>2, <1>3, <1>5, <1>6 DEF ClientInv

(* A handler that refuses, or enters or leaves without a change of the      *)
(* session.                                                                 *)
LEMMA QuietKeeps ==
    ASSUME Inv, Inv', SyncInv, NEW c \in Calls, Asked(c),
           call'[c].op = call[c].op, call'[c].session = call[c].session,
           call'[c].state = "ok" => call[c].op \in {"generate", "abort"},
           \A d \in Calls : d # c => call'[d] = call[d],
           UNCHANGED <<session, receiver, parts, weightVersion, released>>,
           UNCHANGED <<life, pc, policy, sent>>,
           \/ lock' = lock /\ lock # c
           \/ /\ lock' = c /\ call'[c].state = "running" /\ call[c].op # "start"
              /\ call[c].op \in {"finish", "abort"} => session # 0 /\ call[c].session = session
           \/ lock' = NoCall
    PROVE  SyncInv'
<1> USE DEF SyncInv
<1>0. lead' = lead /\ lead \in Calls /\ Sessions' = Sessions /\ (AllPolicy' <=> AllPolicy)
      /\ NoCall \notin Calls
  BY CallTypes DEF lead, Sessions, AllPolicy
<1>1. ClientInv' BY HandlerClient
<1>2. SessionInv'
  <2>1. \A d \in Calls : call'[d].session = call[d].session /\ call'[d].op = call[d].op
    OBVIOUS
  <2>2. \A d \in Calls : call'[d].op = "start" /\ call'[d].state = "ok" => call[d].state = "ok"
    OBVIOUS
  <2>3. QED BY <1>0, <2>1, <2>2 DEF SessionInv
<1>3. LockInv'
  <2>1. \A d \in Calls : call'[d].session = call[d].session OBVIOUS
  <2>2. CASE lock' = lock /\ lock # c BY <2>1, <2>2 DEF LockInv
  <2>3. CASE lock' = c /\ call'[c].state = "running" /\ call[c].op # "start"
    BY <2>1, <2>3, <1>0 DEF LockInv
  <2>4. CASE lock' = NoCall BY <1>0, <2>4 DEF LockInv
  <2>5. QED BY <2>2, <2>3, <2>4
<1>4. LoadInv'
  <2>1. \A d \in Calls : call'[d].session = call[d].session /\ call'[d].op = call[d].op
    OBVIOUS
  <2>2. \A d \in Calls : Asked(d)' => Asked(d) BY DEF Asked
  <2>3. Loading' => Loading BY <1>0, <2>1 DEF Loading
  <2>4. Finishing' => Finishing BY <1>0, <2>1, <2>2 DEF Finishing
  <2>5. Synced' => Synced BY <1>0, <2>1 DEF Synced
  <2>6. QED BY <1>0, <2>1, <2>2, <2>3, <2>4, <2>5 DEF LoadInv
<1>5. VersionIdentifiesWeights' BY <1>0 DEF VersionIdentifiesWeights
<1>6. QED BY <1>1, <1>2, <1>3, <1>4, <1>5
(* start_weight_sync: the session has a number that no request knows.       *)
LEMMA OpenKeeps ==
    ASSUME Inv, Inv', SyncInv, NEW c \in Calls, StartSync(c), session = 0,
           UNCHANGED <<life, pc, policy, sent>>
    PROVE  SyncInv'
<1> USE DEF SyncInv
<1>0. /\ lock = NoCall /\ lock' = c /\ call[c].op = "start" /\ call[c].state = "queued"
      /\ session' = Len(receiver) + 1 /\ receiver' = Append(receiver, "receiving")
      /\ UNCHANGED <<parts, weightVersion, released, life, pc, policy, sent>>
      /\ Answer(c, "running")
  BY DEF StartSync, Entering, Enter
<1>1. /\ call'[c] = [call[c] EXCEPT !.state = "running"]
      /\ call'[c].op = call[c].op /\ call'[c].session = call[c].session
      /\ call'[c].state = "running" /\ \A d \in Calls : d # c => call'[d] = call[d]
  <2>1. call \in [Calls -> CallSet] /\ call' = [call EXCEPT ![c].state = "running"]
    BY <1>0, CallTypes DEF Answer
  <2>2. call[c] \in CallSet BY <2>1
  <2>3. QED BY <2>1, <2>2 DEF CallSet
<1>2. /\ lead' = lead /\ lead \in Calls /\ (AllPolicy' <=> AllPolicy)
      /\ Sessions = 1 .. Len(receiver) /\ Len(receiver) \in Nat
      /\ Sessions' = 1 .. Len(receiver) + 1 /\ NoCall \notin Calls
      /\ receiver'[Len(receiver) + 1] = "receiving"
      /\ \A s \in Sessions : receiver'[s] = receiver[s]
  BY <1>0, CallTypes DEF lead, Sessions, AllPolicy
<1>3. Asked(c) BY <1>0 DEF Asked
<1>4. ClientInv' BY <1>0, <1>1, <1>3, HandlerClient
<1>5. \A d \in Calls : /\ call'[d].session = call[d].session /\ call'[d].op = call[d].op
                       /\ call'[d].state = "ok" => call[d].state = "ok"
                       /\ Asked(d)' => Asked(d)
  BY <1>1, <1>3 DEF Asked
<1>6. \A d \in Calls : call'[d].session \in {0} \cup Sessions /\ call'[d].session # session'
  BY <1>0, <1>2, <1>5 DEF SessionInv
<1>7. SessionInv'
  <2>1. session' \in Sessions' /\ session' # 0 /\ receiver'[session'] # "gone"
    BY <1>0, <1>2
  <2>2. \A d \in Calls : call'[d].session \in {0} \cup Sessions' BY <1>2, <1>6
  <2>3. QED BY <1>5, <2>1, <2>2 DEF SessionInv
<1>8. LockInv' BY <1>0, <1>1, <1>2, <1>6 DEF LockInv
<1>9. ~Loading' /\ ~Finishing' BY <1>2, <1>6 DEF Loading, Finishing
<1>10. Synced' => AllPolicy'
  BY <1>0, <1>2, <1>3, <1>5 DEF Synced, LoadInv
<1>11. LoadInv'
  <2>1. pc'[Lead] = "waiting" /\ call'[lead].op = "start" => sent' = 0
    BY <1>0, <1>2, <1>5 DEF LoadInv
  <2>2. QED BY <1>2, <1>6, <1>9, <1>10, <2>1 DEF LoadInv
<1>12. VersionIdentifiesWeights' BY <1>0, <1>2 DEF VersionIdentifiesWeights
<1>13. QED BY <1>4, <1>7, <1>8, <1>11, <1>12

(* The start is answered with the number of the session.                    *)
LEMMA OpenedKeeps ==
    ASSUME Inv, Inv', SyncInv, NEW c \in Calls, StartAnswered(c),
           receiver[session] # "failed", UNCHANGED <<life, pc, policy, sent>>
    PROVE  SyncInv'
<1> USE DEF SyncInv
<1>0. /\ lock = c /\ lock' = NoCall /\ call[c].op = "start"
      /\ call' = [call EXCEPT ![c].state = "ok", ![c].session = session]
      /\ UNCHANGED <<session, receiver, parts, weightVersion, released, life, pc, policy, sent>>
  BY DEF StartAnswered, Inside
<1>1. /\ call'[c].op = call[c].op /\ call'[c].session = session /\ call'[c].state = "ok"
      /\ \A d \in Calls : d # c => call'[d] = call[d]
  <2>1. call \in [Calls -> CallSet] BY CallTypes
  <2>2. call[c] \in CallSet BY <2>1
  <2>3. call' = [call EXCEPT ![c] = [call[c] EXCEPT !.state = "ok", !.session = session]]
    BY <1>0, <2>1, <2>2
  <2>4. call'[c] = [call[c] EXCEPT !.state = "ok", !.session = session]
    BY <2>1, <2>3
  <2>5. QED BY <2>1, <2>2, <2>3, <2>4 DEF CallSet
<1>2. /\ lead' = lead /\ lead \in Calls /\ (AllPolicy' <=> AllPolicy) /\ Sessions' = Sessions
      /\ NoCall \notin Calls
  BY <1>0, CallTypes DEF lead, Sessions, AllPolicy
<1>3. /\ call[c].state = "running" /\ Asked(c) /\ session # 0
      /\ receiver[session] \in {"receiving", "failed"}
      /\ \A d \in Calls : call[d].session # session
  BY <1>0 DEF LockInv, Asked
<1>4. ClientInv' BY <1>0, <1>1, <1>3, HandlerClient
<1>5. SessionInv'
  <2>1. session \in Sessions BY <1>3 DEF SessionInv
  <2>2. \A d \in Calls : d # c => call'[d].session # session BY <1>1, <1>3
  <2>3. \A d, e \in Calls : call'[d].session = call'[e].session /\ call'[d].session # 0 => d = e
    BY <1>1, <2>2 DEF SessionInv
  <2>4. \A d \in Calls : /\ call'[d].session \in {0} \cup Sessions
                         /\ call'[d].op \in {"none", "generate"} => call'[d].session = 0
                         /\ call'[d].op = "start" /\ call'[d].state = "ok"
                               => call'[d].session # 0
    BY <1>0, <1>1, <1>3, <2>1 DEF SessionInv
  <2>5. QED BY <1>0, <1>2, <2>3, <2>4 DEF SessionInv
<1>6. LockInv' BY <1>0, <1>2 DEF LockInv
<1>7. \A d \in Calls : Asked(d)' => Asked(d) /\ d # c
  BY <1>1 DEF Asked
<1>8. LoadInv'
  <2>1. pc[Lead] = "waiting" /\ call'[lead].op = "start" => sent = 0
    <3>1. call'[lead].op = call[lead].op BY <1>1, <1>2
    <3>2. QED BY <3>1 DEF LoadInv
  <2>2. Loading' => (\A b \in 1 .. Buckets : b <= sent => parts[b] = policy)
    <3> SUFFICES ASSUME Loading'
                 PROVE  \A b \in 1 .. Buckets : b <= sent => parts[b] = policy
      OBVIOUS
    <3>1. CASE c = lead
      <4>1. pc[Lead] = "waiting"
        <5>1. pc[Lead] # "sending" BY <1>3, <3>1 DEF ClientInv
        <5>2. QED BY <5>1, <1>0 DEF Loading
      <4>2. sent = 0 BY <2>1, <3>1, <4>1, <1>0, <1>1
      <4>3. QED BY <4>2, CallTypes
    <3>2. CASE c # lead
      <4>1. call'[lead].session # session BY <1>1, <1>2, <1>3, <3>2
      <4>2. call'[lead].session = session BY <1>0, <1>2 DEF Loading
      <4>3. QED BY <4>1, <4>2
    <3>3. QED BY <3>1, <3>2
  <2>3. ~Finishing'
    <3>1. lead # c => call'[lead] = call[lead] BY <1>1, <1>2
    <3>2. QED BY <1>0, <1>1, <1>2, <1>3, <3>1 DEF Finishing
  <2>4. Synced' => Synced BY <1>0, <1>1, <1>2 DEF Synced
  <2>5. Synced' => AllPolicy BY <2>4, <1>0, <1>3 DEF LoadInv
  <2>6. \A d \in Calls : call'[d].op = "abort" /\ call'[d].session = session /\ session # 0
                           => receiver[session] \in {"receiving", "failed"}
    BY <1>3
  <2>7. QED BY <1>0, <1>2, <1>3, <2>1, <2>2, <2>3, <2>5, <2>6 DEF LoadInv
<1>9. VersionIdentifiesWeights' BY <1>0, <1>2 DEF VersionIdentifiesWeights
<1>10. QED BY <1>4, <1>5, <1>6, <1>8, <1>9

(* A session ends: its start failed, or its receiver was joined.            *)
LEMMA EndKeeps ==
    ASSUME Inv, Inv', SyncInv, NEW c \in Calls, lock = c, lock' = NoCall, session' = 0,
           call[c].op \in {"start", "finish", "abort"},
           call'[c].op = call[c].op, call'[c].session = call[c].session,
           call'[c].state \in {"ok", "error"},
           call[c].op = "start" => call'[c].state = "error",
           \A d \in Calls : d # c => call'[d] = call[d],
           \/ released' = parts /\ call[c].op # "start"
           \/ released' = released /\ receiver[session] = "failed",
           weightVersion' \in {weightVersion, weightVersion + 1},
           UNCHANGED <<receiver, parts, life, pc, policy, sent>>
    PROVE  SyncInv'
<1> USE DEF SyncInv
<1>1. /\ lead' = lead /\ lead \in Calls /\ (AllPolicy' <=> AllPolicy) /\ Sessions' = Sessions
      /\ NoCall \notin Calls
  BY CallTypes DEF lead, Sessions, AllPolicy
<1>2. call[c].state = "running" /\ Asked(c) /\ session # 0 /\ session \in Sessions
  BY DEF LockInv, SessionInv, Asked
<1>3. ClientInv' BY <1>2, HandlerClient
<1>4. \A d \in Calls : /\ call'[d].session = call[d].session /\ call'[d].op = call[d].op
                       /\ call'[d].op = "start" /\ call'[d].state = "ok" => call[d].state = "ok"
  OBVIOUS
<1>5. SessionInv' BY <1>1, <1>4 DEF SessionInv
<1>6. LockInv' BY <1>1 DEF LockInv
<1>7. ~Loading' /\ ~Finishing'
  BY <1>1, <1>4 DEF Loading, Finishing, SessionInv
<1>8. Synced' => AllPolicy
  <2> SUFFICES ASSUME Synced' PROVE AllPolicy OBVIOUS
  <2>1. CASE c = lead
    <3>1. pc[Lead] # "synced" BY <1>2, <2>1 DEF ClientInv
    <3>2. call[lead].op = "finish" /\ pc[Lead] = "waiting" BY <1>1, <2>1, <3>1 DEF Synced
    <3>3. call[lead].session = session BY <2>1, <3>2 DEF LockInv
    <3>4. Finishing BY <1>2, <2>1, <3>2, <3>3 DEF Finishing
    <3>5. QED BY <3>4 DEF LoadInv
  <2>2. CASE c # lead
    <3>1. Synced BY <1>1, <2>2 DEF Synced
    <3>2. QED BY <1>2, <3>1 DEF LoadInv
  <2>3. QED BY <2>1, <2>2
<1>9. LoadInv' BY <1>1, <1>4, <1>7, <1>8 DEF LoadInv
<1>10. VersionIdentifiesWeights' BY <1>1, <1>2 DEF VersionIdentifiesWeights
<1>11. QED BY <1>3, <1>5, <1>6, <1>9, <1>10
(* The receiver thread loads a bucket of the trainer that waits for it.     *)
LEMMA LoadKeeps ==
    ASSUME Inv, Inv', SyncInv, SendBucket PROVE SyncInv'
<1> USE DEF SyncInv
<1> DEFINE s == call[lead].session
<1>0. /\ pc[Lead] = "sending" /\ sent < Buckets /\ sent' = sent + 1
      /\ receiver[s] = "receiving" /\ parts' = [parts EXCEPT ![sent + 1] = policy]
      /\ receiver' = [receiver EXCEPT ![s] = IF sent + 1 = Buckets THEN "closing" ELSE @]
      /\ UNCHANGED <<call, lock, session, weightVersion, released>>
      /\ UNCHANGED <<life, pc, policy>>
  BY DEF SendBucket, LoadBucket, Mine, lead
<1>1. call[lead].op = "start" /\ call[lead].state = "ok" /\ lead \in Calls
  BY <1>0, CallTypes DEF ClientInv
<1>2. s \in Sessions /\ s # 0 BY <1>1 DEF SessionInv
<1>3. s = session
  <2>1. Alive(s) BY <1>0 DEF Alive
  <2>2. QED BY <1>2, <2>1 DEF Inv, ServerInv, Exclusion
<1>4. /\ lead' = lead /\ Sessions' = Sessions
      /\ receiver'[s] = IF sent + 1 = Buckets THEN "closing" ELSE "receiving"
      /\ \A t \in Sessions : t # s => receiver'[t] = receiver[t]
  BY <1>0, <1>2 DEF lead, Sessions
<1>5. \A d \in Calls : d # lead => call[d].session # session
  BY <1>1, <1>2, <1>3 DEF SessionInv
<1>6. ClientInv'
  <2>1. \A d : Asked(d)' <=> Asked(d) BY <1>0 DEF Asked
  <2>2. QED BY <1>0, <1>4, <2>1 DEF ClientInv
<1>7. SessionInv' BY <1>0, <1>2, <1>3, <1>4 DEF SessionInv
<1>8. lock \in Calls => call[lock].op # "start"
  BY <1>1, <1>3 DEF LockInv
<1>9. LockInv' BY <1>0, <1>8 DEF LockInv
<1>10. ~Finishing' /\ ~Synced' BY <1>0 DEF Finishing, Synced
<1>11. Loading BY <1>0, <1>1, <1>3 DEF Loading
<1>12. LoadInv'
  <2>1. \A b \in 1 .. Buckets : b <= sent' => parts'[b] = policy
    BY <1>0, <1>11, CallTypes DEF LoadInv
  <2>2. sent' < Buckets => receiver'[session] \in {"receiving", "failed"}
    BY <1>0, <1>3, <1>4, CallTypes
  <2>3. \A d \in Calls : call[d].op = "abort" => call[d].session # session
    BY <1>1, <1>5
  <2>4. QED BY <1>0, <1>10, <2>1, <2>2, <2>3 DEF LoadInv
<1>13. VersionIdentifiesWeights' BY <1>0, <1>2, <1>3 DEF VersionIdentifiesWeights
<1>14. QED BY <1>6, <1>7, <1>9, <1>12, <1>13

(* The receiver thread ends, or raises.                                     *)
LEMMA ThreadKeeps ==
    ASSUME Inv, Inv', SyncInv, NEW s \in Sessions, ReceiverEnds(s) \/ ReceiverRaises(s),
           UNCHANGED <<life, pc, policy, sent>>
    PROVE  SyncInv'
<1> USE DEF SyncInv
<1>0. /\ Alive(s) /\ UNCHANGED <<call, lock, session, parts, weightVersion, released>>
      /\ \/ receiver[s] = "closing" /\ receiver' = [receiver EXCEPT ![s] = "ok"]
         \/ receiver' = [receiver EXCEPT ![s] = "failed"]
  BY DEF ReceiverEnds, ReceiverRaises, Alive
<1>1. s = session /\ s # 0
  BY <1>0, CallTypes DEF Inv, ServerInv, Exclusion
<1>2. /\ lead' = lead /\ Sessions' = Sessions /\ (AllPolicy' <=> AllPolicy)
      /\ \/ receiver[s] = "closing" /\ receiver'[s] = "ok"
         \/ receiver'[s] = "failed"
      /\ \A t \in Sessions : t # s => receiver'[t] = receiver[t]
  BY <1>0 DEF lead, Sessions, AllPolicy
<1>3. ClientInv'
  <2>1. \A d : Asked(d)' <=> Asked(d) BY <1>0 DEF Asked
  <2>2. QED BY <1>0, <1>2, <2>1 DEF ClientInv
<1>4. SessionInv' BY <1>0, <1>1, <1>2 DEF SessionInv
<1>5. LockInv' BY <1>0, <1>1, <1>2 DEF LockInv
<1>6. /\ Loading' <=> Loading
      /\ Finishing' <=> Finishing
      /\ Synced' <=> Synced
      /\ \A d : Asked(d)' <=> Asked(d)
  BY <1>0, <1>2 DEF Loading, Finishing, Synced, Asked
<1>7. LoadInv'
  <2>1. \A d \in Calls : call'[d].op = "abort" /\ call'[d].session = session' /\ session' # 0
                            => receiver'[session'] \in {"receiving", "failed"}
    BY <1>0, <1>1, <1>2 DEF LoadInv
  <2>2. Loading /\ sent < Buckets => receiver'[session] \in {"receiving", "failed"}
    BY <1>1, <1>2 DEF LoadInv
  <2>3. QED BY <1>0, <1>2, <1>6, <2>1, <2>2 DEF LoadInv
<1>8. VersionIdentifiesWeights' BY <1>0, <1>1 DEF VersionIdentifiesWeights
<1>9. QED BY <1>3, <1>4, <1>5, <1>7, <1>8

(* A new server process knows no session, and no request gets an answer     *)
(* from it that it did not ask.                                             *)
LEMMA RestartSync ==
    ASSUME Inv, Inv', SyncInv, RestartServer PROVE SyncInv'
<1> USE DEF SyncInv
<1>0. /\ call' = [c \in Calls |-> IF call[c].state \in {"queued", "running"}
                                  THEN [call[c] EXCEPT !.state = "error"] ELSE call[c]]
      /\ lock' = NoCall /\ session' = 0 /\ receiver' = [s \in Sessions |-> "gone"]
      /\ parts' = Base /\ released' = Base /\ weightVersion' = 0
      /\ UNCHANGED <<life, pc, policy, sent>>
  BY DEF RestartServer, ServerRestarts
<1>1. lead' = lead /\ lead \in Calls /\ Sessions' = Sessions /\ NoCall \notin Calls
  <2>1. DOMAIN receiver' = Sessions BY <1>0
  <2>2. QED BY <1>0, <2>1, CallTypes DEF lead, Sessions
<1>2. \A c \in Calls : /\ call'[c].op = call[c].op /\ call'[c].session = call[c].session
                       /\ ~Asked(c)'
                       /\ call[c].state \notin {"queued", "running"} => call'[c] = call[c]
                       /\ call'[c].state = "ok" => call[c].state = "ok"
  <2> SUFFICES ASSUME NEW c \in Calls
               PROVE  /\ call'[c].op = call[c].op /\ call'[c].session = call[c].session
                      /\ ~Asked(c)'
                      /\ call[c].state \notin {"queued", "running"} => call'[c] = call[c]
                      /\ call'[c].state = "ok" => call[c].state = "ok"
    OBVIOUS
  <2>1. call[c] \in CallSet BY CallTypes
  <2>2. call'[c] = IF call[c].state \in {"queued", "running"}
                   THEN [call[c] EXCEPT !.state = "error"] ELSE call[c]
    BY <1>0
  <2>3. QED BY <2>1, <2>2 DEF Asked, CallSet
<1>3. ClientInv'
  <2>1. \A c \in Calls : c[2] > life => call'[c] = Idle
    BY <1>2 DEF ClientInv, Idle
  <2>2. \A r \in Ranks : <<r, life>> \in Calls BY CallTypes
  <2>3. pc[Lead] \in {"sending", "synced"} => call[lead].state = "ok" BY DEF ClientInv
  <2>4. pc[Lead] \in {"sending", "synced"} => call'[lead] = call[lead]
    BY <1>1, <1>2, <2>3
  <2>5. QED BY <1>0, <1>1, <1>2, <2>1, <2>2, <2>4 DEF ClientInv
<1>4. SessionInv' BY <1>0, <1>1, <1>2 DEF SessionInv
<1>5. LockInv' BY <1>0, <1>1 DEF LockInv
<1>6. ~Loading' /\ ~Finishing'
  <2>1. call'[lead].op = "start" /\ call'[lead].state = "ok" => call'[lead].session # 0
    BY <1>1, <1>2 DEF SessionInv
  <2>2. QED BY <1>0, <1>1, <2>1 DEF Loading, Finishing
<1>7. LoadInv'
  <2>1. pc'[Lead] = "waiting" /\ call'[lead].op = "start" => sent' = 0
    BY <1>0, <1>1, <1>2 DEF LoadInv
  <2>2. QED BY <1>0, <1>1, <1>2, <1>6, <2>1 DEF LoadInv
<1>8. VersionIdentifiesWeights' BY <1>0 DEF VersionIdentifiesWeights
<1>9. QED BY <1>3, <1>4, <1>5, <1>7, <1>8

-----------------------------------------------------------------------------
(* A rank sends a request; rank 0 only what the sync is at.                 *)
LEMMA AskSync ==
    ASSUME Inv, Inv', SyncInv, NEW r \in Ranks, NEW op \in Ops \ {"none"}, NEW s \in Nat,
           Ask(r, op, s), pc \in [Ranks -> Places], pc[r] \notin {"waiting", "dead"},
           op # "generate" => r = Lead,
           op \in {"generate", "start"} => s = 0,
           op \in {"finish", "abort"} =>
               /\ s = call[lead].session /\ pc[Lead] = "sending"
               /\ op = "abort" => sent < Buckets
               /\ op = "finish" => sent = Buckets,
           op = "start" => sent' = 0,
           r # Lead => sent' = sent,
           UNCHANGED <<life, policy>>
    PROVE  SyncInv'
<1> USE DEF SyncInv
<1> DEFINE c == <<r, life>>
           q == [op |-> op, session |-> s, state |-> "queued", used |-> {}]
<1>0. /\ call' = [call EXCEPT ![c] = q] /\ pc' = [pc EXCEPT ![r] = "waiting"]
      /\ UNCHANGED <<lock, session, receiver, parts, weightVersion, released>>
  BY DEF Ask, Request
<1>1. /\ lead' = lead /\ lead \in Calls /\ c \in Calls /\ Sessions' = Sessions
      /\ (AllPolicy' <=> AllPolicy) /\ NoCall \notin Calls /\ (c = lead <=> r = Lead)
      /\ c[1] = r /\ c[2] = life /\ life \in Nat
  BY <1>0, CallTypes DEF lead, Sessions, AllPolicy
<1>2. ~Asked(c) BY DEF ClientInv
<1>3. call \in [Calls -> CallSet] BY CallTypes
<1>4. /\ call'[c].op = op /\ call'[c].session = s /\ call'[c].state = "queued"
      /\ \A d \in Calls : d # c => call'[d] = call[d]
  BY <1>0, <1>1, <1>3
<1>5. lock # c
  BY <1>1, <1>2 DEF LockInv, Asked
<1> HIDE DEF c, q
<1>6. pc'[Lead] = IF r = Lead THEN "waiting" ELSE pc[Lead]
  BY <1>0, <1>1, CallTypes
<1>7. pc'[r] = "waiting" /\ \A t \in Ranks : t # r => pc'[t] = pc[t] BY <1>0
<1>8. ClientInv'
  <2>1. \A d \in Calls : d[2] > life => call'[d] = Idle BY <1>1, <1>4 DEF ClientInv
  <2>2. \A d \in Calls : d[1] # Lead => call'[d].op \in {"none", "generate"}
    BY <1>1, <1>4 DEF ClientInv
  <2>3. ASSUME NEW t \in Ranks, pc'[t] \notin {"waiting", "dead"} PROVE ~Asked(<<t, life>>)'
    <3>1. t # r /\ pc[t] \notin {"waiting", "dead"} BY <1>7, <2>3
    <3>2. <<t, life>> # c /\ <<t, life>> \in Calls BY <3>1, CallTypes DEF c
    <3>3. call'[<<t, life>>] = call[<<t, life>>] BY <1>4, <3>2
    <3>4. QED BY <3>1, <3>3 DEF ClientInv, Asked
  <2>4. pc'[Lead] \in {"sending", "synced"} => pc'[Lead] = pc[Lead] /\ call'[lead] = call[lead]
    BY <1>1, <1>4, <1>6
  <2>5. QED BY <1>1, <2>1, <2>2, <2>3, <2>4 DEF ClientInv
<1>9. s \in {0} \cup Sessions /\ (s # 0 => s = call[lead].session /\ c = lead)
  BY <1>1 DEF SessionInv, Ops
<1>10. SessionInv'
  <2>1. \A d, e \in Calls : call'[d].session = call'[e].session /\ call'[d].session # 0 => d = e
    BY <1>1, <1>4, <1>9 DEF SessionInv
  <2>2. \A d \in Calls : /\ call'[d].session \in {0} \cup Sessions
                         /\ call'[d].op \in {"none", "generate"} => call'[d].session = 0
                         /\ call'[d].op = "start" /\ call'[d].state = "ok"
                               => call'[d].session # 0
    BY <1>4, <1>9 DEF SessionInv
  <2>3. QED BY <1>0, <1>1, <2>1, <2>2 DEF SessionInv
<1>11. LockInv'
  <2>1. lock \in Calls => call'[lock] = call[lock] BY <1>4, <1>5
  <2>2. lock \in Calls /\ call[lock].op = "start" => \A d \in Calls : call'[d].session # session
    BY <1>1, <1>4, <1>9 DEF LockInv
  <2>3. QED BY <1>0, <2>1, <2>2 DEF LockInv
<1>12. CASE r # Lead
  <2>1. call'[lead] = call[lead] /\ pc'[Lead] = pc[Lead] /\ op = "generate" /\ sent' = sent
    BY <1>1, <1>4, <1>6, <1>12
  <2>2. (Loading' <=> Loading) /\ (Finishing' <=> Finishing) /\ (Synced' <=> Synced)
    BY <1>0, <1>1, <2>1 DEF Loading, Finishing, Synced, Asked
  <2>4. \A d \in Calls : Asked(d)' /\ call'[d].op # "generate"
                            => Asked(d) /\ call[d].op # "generate"
    BY <1>4, <2>1 DEF Asked
  <2>5. \A d \in Calls : call'[d].op = "abort" => call'[d] = call[d] BY <1>4, <2>1
  <2>6. QED
    <3>1. LoadInv' BY <1>0, <1>1, <2>1, <2>2, <2>4, <2>5 DEF LoadInv
    <3>2. VersionIdentifiesWeights' BY <1>0, <1>1 DEF VersionIdentifiesWeights
    <3>3. QED BY <1>8, <1>10, <1>11, <3>1, <3>2
<1>13. CASE r = Lead
  <2>1. call'[lead].op = op /\ call'[lead].session = s /\ call'[lead].state = "queued"
        /\ pc'[Lead] = "waiting"
    BY <1>1, <1>4, <1>6, <1>13
  <2>2. ~Loading' /\ ~Synced' BY <1>1, <2>1 DEF Loading, Synced
  <2>3. op \in {"finish", "abort"} /\ s = session =>
           Loading
    BY DEF Loading, ClientInv
  <2>4. Finishing' => AllPolicy
    <3> SUFFICES ASSUME Finishing' PROVE AllPolicy OBVIOUS
    <3>1. op = "finish" /\ s = session BY <1>0, <1>1, <2>1 DEF Finishing
    <3>2. Loading /\ sent = Buckets BY <2>3, <3>1
    <3>3. QED BY <3>2, CallTypes DEF LoadInv, AllPolicy
  <2>5. \A d \in Calls : call'[d].op = "abort" /\ call'[d].session = session /\ session # 0
                           => receiver[session] \in {"receiving", "failed"}
    <3>1. op = "abort" /\ s = session => receiver[session] \in {"receiving", "failed"}
      BY <2>3 DEF LoadInv
    <3>2. QED BY <1>1, <1>4, <1>13, <3>1 DEF LoadInv
  <2>6. LoadInv'
    BY <1>0, <1>1, <2>1, <2>2, <2>4, <2>5 DEF LoadInv
  <2>7. VersionIdentifiesWeights' BY <1>0, <1>1 DEF VersionIdentifiesWeights
  <2>8. QED BY <1>8, <1>10, <1>11, <2>6, <2>7
<1>14. QED BY <1>12, <1>13
(* The ranks go on with what they know; the server sees nothing of it.      *)
LEMMA MoveKeeps ==
    ASSUME Inv, Inv', SyncInv, UNCHANGED <<serverVars, life, sent>>,
           \A r \in Ranks : pc'[r] \notin {"waiting", "dead"} => ~Asked(<<r, life>>),
           pc'[Lead] = "sending" => pc[Lead] \in {"waiting", "sending"}
                                    /\ call[lead].op = "start" /\ call[lead].state = "ok",
           pc'[Lead] = "synced" => pc[Lead] \in {"waiting", "synced"}
                                   /\ call[lead].op = "finish" /\ call[lead].state = "ok",
           pc'[Lead] = "waiting" => pc[Lead] = "waiting",
           pc'[Lead] \in {"waiting", "sending", "synced"} => policy' = policy
    PROVE  SyncInv'
<1> USE DEF SyncInv
<1>1. lead' = lead /\ lead \in Calls /\ Sessions' = Sessions
  BY CallTypes DEF lead, Sessions
<1>2. \A d : Asked(d)' <=> Asked(d) BY DEF Asked
<1>3. ClientInv' BY <1>1, <1>2 DEF ClientInv
<1>4. SessionInv' BY <1>1 DEF SessionInv
<1>5. LockInv' BY DEF LockInv
<1>6. /\ Loading' => Loading /\ policy' = policy
      /\ Finishing' => Finishing /\ policy' = policy
      /\ Synced' => Synced /\ policy' = policy
  BY <1>1, <1>2 DEF Loading, Finishing, Synced
<1>7. policy' = policy => (AllPolicy' <=> AllPolicy) BY DEF AllPolicy
<1>8. LoadInv' BY <1>1, <1>2, <1>6, <1>7 DEF LoadInv
<1>9. VersionIdentifiesWeights' BY <1>1 DEF VersionIdentifiesWeights
<1>10. QED BY <1>3, <1>4, <1>5, <1>8, <1>9

(* A new trainer has asked for nothing, whatever the server still does for  *)
(* the old one.                                                             *)
LEMMA TrainerSync ==
    ASSUME Inv, Inv', SyncInv, TrainerRestarts PROVE SyncInv'
<1> USE DEF SyncInv
<1>0. /\ life' = life + 1 /\ life < MaxLife /\ pc' = [r \in Ranks |-> "rollout"]
      /\ UNCHANGED <<call, lock, session, receiver, parts, weightVersion, released>>
  BY DEF TrainerRestarts
<1>1. Sessions' = Sessions /\ Lead \in Ranks /\ life \in Nat BY <1>0, CallTypes DEF Sessions
<1>2. pc'[Lead] = "rollout" BY <1>0, <1>1
<1>3. \A d : Asked(d)' <=> Asked(d) BY <1>0 DEF Asked
<1>4. ClientInv'
  <2>1. \A c \in Calls : c[2] > life' => call'[c] = Idle
    BY <1>0, <1>1, CallTypes DEF ClientInv
  <2>2. ASSUME NEW r \in Ranks PROVE ~Asked(<<r, life>>)'
    <3>1. <<r, life'>> \in Calls BY CallTypes, TrainerAssumption DEF Inv
    <3>2. <<r, life'>>[2] > life BY <1>0, <1>1
    <3>3. call[<<r, life'>>] = Idle BY <3>1, <3>2 DEF ClientInv
    <3>4. QED BY <1>0, <3>3 DEF Asked, Idle
  <2>3. QED BY <1>0, <1>2, <2>1, <2>2 DEF ClientInv
<1>5. SessionInv' BY <1>0, <1>1 DEF SessionInv
<1>6. LockInv' BY <1>0 DEF LockInv
<1>7. ~Loading' /\ ~Finishing' /\ ~Synced' BY <1>2 DEF Loading, Finishing, Synced
<1>8. LoadInv' BY <1>0, <1>1, <1>2, <1>7 DEF LoadInv
<1>9. VersionIdentifiesWeights' BY <1>0, <1>1 DEF VersionIdentifiesWeights
<1>10. QED BY <1>4, <1>5, <1>6, <1>8, <1>9

-----------------------------------------------------------------------------
(* A handler works on one request, and never changes what it is.            *)
LEMMA HandlerMoves ==
    ASSUME ServerShape, NEW c \in Calls, Handler(c) \/ JoinTimesOut(c)
    PROVE  /\ call' \in [Calls -> CallSet] /\ call'[c].op = call[c].op
           /\ \A d \in Calls : d # c => call'[d] = call[d]
           /\ StartAnswered(c) \/ call'[c].session = call[c].session
<1>1. call \in [Calls -> CallSet] /\ call[c] \in CallSet BY Types
<1>2. ASSUME NEW st \in CallStates, Answer(c, st)
      PROVE  /\ call' \in [Calls -> CallSet] /\ call'[c].op = call[c].op
             /\ \A d \in Calls : d # c => call'[d] = call[d]
             /\ call'[c].session = call[c].session
  <2>1. call' = [call EXCEPT ![c] = [call[c] EXCEPT !.state = st]]
    BY <1>1, <1>2 DEF Answer
  <2>2. [call[c] EXCEPT !.state = st].session = call[c].session BY <1>1 DEF CallSet
  <2>3. QED BY <1>1, <1>2, <2>1, <2>2, AnswerMoves
<1>3. ASSUME NEW st \in CallStates, NEW u \in SUBSET Nat,
             call' = [call EXCEPT ![c] = [call[c] EXCEPT !.state = st, !.used = u]]
      PROVE  /\ call' \in [Calls -> CallSet] /\ call'[c].op = call[c].op
             /\ \A d \in Calls : d # c => call'[d] = call[d]
             /\ call'[c].session = call[c].session
  <2>1. /\ [call[c] EXCEPT !.state = st, !.used = u] \in CallSet
        /\ [call[c] EXCEPT !.state = st, !.used = u].op = call[c].op
        /\ [call[c] EXCEPT !.state = st, !.used = u].session = call[c].session
    BY <1>1 DEF CallSet
  <2>2. call'[c] = [call[c] EXCEPT !.state = st, !.used = u] BY <1>1, <1>3
  <2>3. QED BY <1>1, <1>3, <2>1, <2>2
<1>4. "ok" \in CallStates /\ "error" \in CallStates /\ "running" \in CallStates
  BY DEF CallStates
<1>5. CASE Generate(c)
  <2>1. CASE session # 0 BY <1>2, <1>4, <1>5, <2>1 DEF Generate, Refuse
  <2>2. CASE session = 0
    <3>1. PICK hit \in BOOLEAN :
            call' = [call EXCEPT ![c].state = "running",
                                 ![c].used = InEngine \cup IF hit THEN cached ELSE {}]
      BY <1>5, <2>2 DEF Generate
    <3> DEFINE u == InEngine \cup IF hit THEN cached ELSE {}
    <3>2. u \in SUBSET Nat BY Types DEF ServerShape
    <3>3. call' = [call EXCEPT ![c] = [call[c] EXCEPT !.state = "running", !.used = u]]
      BY <1>1, <3>1
    <3> HIDE DEF u
    <3>4. QED BY <1>3, <1>4, <3>2, <3>3
  <2>3. QED BY <2>1, <2>2
<1>6. CASE Generated(c)
  <2> DEFINE u == call[c].used \cup InEngine
  <2>1. u \in SUBSET Nat BY <1>1, Types DEF CallSet
  <2>2. call' = [call EXCEPT ![c] = [call[c] EXCEPT !.state = "ok", !.used = u]]
    BY <1>1, <1>6 DEF Generated
  <2> HIDE DEF u
  <2>3. QED BY <1>3, <1>4, <2>1, <2>2
<1>7. CASE StartAnswered(c)
  <2>1. CASE receiver[session] = "failed"
    BY <1>2, <1>4, <1>7, <2>1 DEF StartAnswered, Leave
  <2>2. CASE receiver[session] # "failed"
    <3>1. call' = [call EXCEPT ![c] = [call[c] EXCEPT !.state = "ok", !.session = session]]
      BY <1>1, <1>7, <2>2 DEF StartAnswered
    <3>2. /\ [call[c] EXCEPT !.state = "ok", !.session = session] \in CallSet
          /\ [call[c] EXCEPT !.state = "ok", !.session = session].op = call[c].op
      BY <1>1, <1>4, Types DEF CallSet
    <3>3. call'[c] = [call[c] EXCEPT !.state = "ok", !.session = session] BY <1>1, <3>1
    <3>4. QED BY <1>1, <1>7, <3>1, <3>2, <3>3
  <2>3. QED BY <2>1, <2>2
<1>8. CASE StartSync(c) BY <1>2, <1>4, <1>8 DEF StartSync, Refuse, Enter
<1>9. CASE \E op \in {"finish", "abort"} : Join(c, op) \/ Mismatch(c, op)
  BY <1>2, <1>4, <1>9 DEF Join, Mismatch, Enter, Refuse
<1>10. CASE Finished(c) \/ Aborted(c) \/ JoinTimesOut(c)
  BY <1>2, <1>4, <1>10 DEF Finished, Aborted, JoinTimesOut, Leave
<1>11. QED BY <1>5, <1>6, <1>7, <1>8, <1>9, <1>10 DEF Handler

-----------------------------------------------------------------------------
(* The types, with what keeps the batches of a trainer in their bound: who  *)
(* asks for a rollout, or has one, has a batch to train on.                 *)
RoundInv ==
    /\ pc \in [Ranks -> Places]
    /\ batch \in 0 .. MaxBatch
    /\ \A r \in Ranks : \/ pc[r] \in {"rollout", "train"}
                        \/ pc[r] = "waiting" /\ Mine(r).op = "generate"
                        => batch < MaxBatch
    /\ policy \in 0 .. fresh /\ globalStep \in 0 .. fresh /\ fresh \in Nat
    /\ lastSync \in -1 .. globalStep
    /\ sent \in 0 .. Buckets
    /\ generated \in [Ranks -> SUBSET Nat]
    /\ failures \in 0 .. MaxFailures
    /\ weightVersion \in Nat /\ released \in [1 .. Buckets -> Nat]

LEMMA FailureCounts ==
    ASSUME failures \in 0 .. MaxFailures, NEW kind, Fail(kind)
    PROVE  failures' \in 0 .. MaxFailures
BY TrainerAssumption DEF Fail

(* Whatever the server does, it leaves the requests what they are.          *)
LEMMA RoundServer ==
    ASSUME Inv, Inv', RoundInv,
           \A d \in Calls : call'[d].op = call[d].op,
           UNCHANGED <<life, pc, batch, policy, fresh, globalStep, lastSync, generated>>,
           sent' \in 0 .. Buckets, failures' \in 0 .. MaxFailures,
           weightVersion' \in Nat, released' \in [1 .. Buckets -> Nat]
    PROVE  RoundInv'
<1>1. \A r \in Ranks : Mine(r)'.op = Mine(r).op BY CallTypes DEF Mine
<1>2. QED BY <1>1 DEF RoundInv

(* A rank goes on without a batch of its own being counted.                 *)
LEMMA RoundRank ==
    ASSUME Inv, RoundInv, NEW r \in Ranks, NEW place \in Places,
           pc' = [pc EXCEPT ![r] = place],
           \A t \in Ranks : t # r => Mine(t)'.op = Mine(t).op,
           place = "waiting" /\ Mine(r)'.op = "generate" => batch < MaxBatch,
           place \in {"rollout", "train"} => batch < MaxBatch,
           UNCHANGED <<batch, policy, fresh, globalStep, lastSync, weightVersion, released>>,
           sent' \in 0 .. Buckets, failures' \in 0 .. MaxFailures,
           generated' \in [Ranks -> SUBSET Nat]
    PROVE  RoundInv'
<1>1. pc' \in [Ranks -> Places] /\ pc'[r] = place /\ \A t \in Ranks : t # r => pc'[t] = pc[t]
  BY DEF RoundInv
<1>2. ASSUME NEW t \in Ranks, \/ pc'[t] \in {"rollout", "train"}
                              \/ pc'[t] = "waiting" /\ Mine(t)'.op = "generate"
      PROVE  batch < MaxBatch
  <2>1. CASE t = r BY <1>1, <1>2, <2>1
  <2>2. CASE t # r BY <1>1, <1>2, <2>2 DEF RoundInv
  <2>3. QED BY <2>1, <2>2
<1>3. QED BY <1>1, <1>2 DEF RoundInv

LEMMA AskRound ==
    ASSUME Inv, RoundInv, NEW r \in Ranks, NEW op, NEW s, Ask(r, op, s),
           op = "generate" => batch < MaxBatch,
           UNCHANGED <<life, batch, policy, fresh, globalStep, lastSync, generated>>,
           sent' \in 0 .. Buckets, failures' \in 0 .. MaxFailures
    PROVE  RoundInv'
<1>1. /\ call' = [call EXCEPT ![<<r, life>>] =
                     [op |-> op, session |-> s, state |-> "queued", used |-> {}]]
      /\ pc' = [pc EXCEPT ![r] = "waiting"] /\ UNCHANGED <<weightVersion, released>>
  BY DEF Ask, Request, engineVars
<1>2. /\ Mine(r)'.op = op
      /\ \A t \in Ranks : t # r => Mine(t)'.op = Mine(t).op
  <2>1. call \in [Calls -> CallSet] /\ \A t \in Ranks : <<t, life>> \in Calls BY CallTypes
  <2>2. \A t \in Ranks : t # r => <<t, life>> # <<r, life>> OBVIOUS
  <2>3. QED BY <1>1, <2>1, <2>2 DEF Mine
<1>3. generated' \in [Ranks -> SUBSET Nat] /\ "waiting" \in Places BY DEF RoundInv, Places
<1>4. QED BY <1>1, <1>2, <1>3, RoundRank

LEMMA GoRound ==
    ASSUME Inv, RoundInv, NEW r \in Ranks, NEW place \in Places, Goto(r, place),
           place \in {"train", "sending", "synced", "dead"},
           place = "train" => pc[r] = "waiting" /\ Mine(r).op = "generate",
           UNCHANGED <<life, batch, policy, fresh, globalStep, lastSync, sent>>,
           generated' \in [Ranks -> SUBSET Nat], failures' \in 0 .. MaxFailures
    PROVE  RoundInv'
<1>1. pc' = [pc EXCEPT ![r] = place] /\ UNCHANGED <<call, weightVersion, released>>
  BY DEF Goto
<1>2. \A t \in Ranks : Mine(t)'.op = Mine(t).op BY <1>1 DEF Mine
<1>3. place = "train" => batch < MaxBatch BY DEF RoundInv
<1>4. sent' \in 0 .. Buckets BY DEF RoundInv
<1>5. QED BY <1>1, <1>2, <1>3, <1>4, RoundRank

LEMMA TrainRound ==
    ASSUME Inv, RoundInv, Train PROVE RoundInv'
<1> USE DEF RoundInv
<1>1. batch < MaxBatch BY CallTypes DEF Train
<1>2. /\ batch' = batch + 1
      /\ pc' = [r \in Ranks |-> IF Syncs(globalStep')
                                THEN IF r = Lead THEN "sync" ELSE "barrier"
                                ELSE AfterBatch']
      /\ UNCHANGED <<lastSync, sent, generated, failures, weightVersion, released>>
  BY DEF Train
<1>3. MaxBatch \in Nat BY TrainerAssumption
<1>4. batch' \in 0 .. MaxBatch BY <1>1, <1>2, <1>3
<1>5. AfterBatch' \in Places /\ (AfterBatch' = "rollout" => batch' < MaxBatch)
      /\ AfterBatch' \in {"rollout", "done"}
  BY <1>3, <1>4 DEF AfterBatch, Places
<1>6. /\ pc' \in [Ranks -> Places]
      /\ \A r \in Ranks : pc'[r] \notin {"train", "waiting"}
                          /\ (pc'[r] = "rollout" => batch' < MaxBatch)
  BY <1>2, <1>5 DEF Places
<1>7. policy' \in 0 .. fresh' /\ globalStep' \in 0 .. fresh' /\ fresh' \in Nat
      /\ lastSync \in -1 .. globalStep'
  <2>1. \/ fresh' = fresh + 1 /\ policy' = fresh + 1 /\ globalStep' = globalStep + 1
        \/ UNCHANGED <<fresh, policy, globalStep>>
    BY DEF Train
  <2>2. QED BY <2>1
<1>8. QED BY <1>2, <1>4, <1>6, <1>7

LEMMA BarrierRound ==
    ASSUME Inv, RoundInv, Barrier PROVE RoundInv'
<1> USE DEF RoundInv
<1>1. MaxBatch \in Nat BY TrainerAssumption
<1>2. AfterBatch \in Places /\ (AfterBatch = "rollout" => batch < MaxBatch)
      /\ AfterBatch \in {"rollout", "done"}
  BY <1>1 DEF AfterBatch, Places
<1>3. /\ pc' \in [Ranks -> Places]
      /\ \A r \in Ranks : pc'[r] \notin {"train", "waiting"}
                          /\ (pc'[r] = "rollout" => batch < MaxBatch)
  BY <1>2 DEF Barrier, Places
<1>4. lastSync' \in -1 .. globalStep' BY DEF Barrier
<1>5. QED BY <1>3, <1>4 DEF Barrier

LEMMA NextRound == Inv /\ Inv' /\ RoundInv /\ [Next]_vars => RoundInv'
<1> SUFFICES ASSUME Inv, Inv', RoundInv, [Next]_vars PROVE RoundInv' OBVIOUS
<1>0. /\ sent \in 0 .. Buckets /\ failures \in 0 .. MaxFailures /\ weightVersion \in Nat
      /\ released \in [1 .. Buckets -> Nat] /\ parts \in [1 .. Buckets -> Nat]
      /\ generated \in [Ranks -> SUBSET Nat] /\ Lead \in Ranks /\ Buckets \in Nat \ {0}
      /\ {"train", "sending", "synced", "dead"} \subseteq Places
  BY CallTypes DEF RoundInv, Places
<1>1. CASE \E r \in Ranks : Rank(r)
  <2>1. PICK r \in Ranks : Rank(r) BY <1>1
  <2>2. CASE AskRollout(r)
    <3>1. batch < MaxBatch BY <2>2 DEF AskRollout, RoundInv
    <3>2. QED BY <1>0, <2>2, <3>1, AskRound DEF AskRollout
  <2>3. CASE GotRollout(r)
    <3>1. Mine(r).used \in SUBSET Nat
      <4>1. call[<<r, life>>] \in CallSet BY CallTypes
      <4>2. QED BY <4>1 DEF Mine, CallSet
    <3>2. generated' \in [Ranks -> SUBSET Nat] BY <1>0, <2>3, <3>1 DEF GotRollout
    <3>3. QED BY <1>0, <2>3, <3>2, GoRound DEF GotRollout, Got
  <2>4. CASE Raises(r) BY <1>0, <2>4, GoRound DEF Raises
  <2>5. QED BY <2>1, <2>2, <2>3, <2>4 DEF Rank
<1>2. CASE Together BY <1>2, TrainRound, BarrierRound DEF Together
<1>3. CASE AskStart \/ AskFinish \/ SenderFails
  <2>1. failures' \in 0 .. MaxFailures /\ sent' \in 0 .. Buckets
    BY <1>0, <1>3, FailureCounts DEF AskStart, AskFinish, SenderFails
  <2>2. QED BY <1>0, <1>3, <2>1, AskRound DEF AskStart, AskFinish, SenderFails
<1>4. CASE GotStart \/ GotFinish
  BY <1>0, <1>4, GoRound DEF GotStart, GotFinish
<1>5. CASE \E r \in Ranks : TimesOut(r)
  <2>1. PICK r \in Ranks : TimesOut(r) BY <1>5
  <2>2. failures' \in 0 .. MaxFailures BY <1>0, <2>1, FailureCounts DEF TimesOut
  <2>3. QED BY <1>0, <2>1, <2>2, GoRound DEF TimesOut
<1>6. CASE \E c \in Calls : Serve(c) \/ AbortTimesOut(c) \/ FinishTimesOut(c)
  <2>1. PICK c \in Calls : Serve(c) \/ AbortTimesOut(c) \/ FinishTimesOut(c) BY <1>6
  <2>2. \A d \in Calls : call'[d].op = call[d].op
    <3>1. ServerShape BY DEF Inv, ServerInv
    <3>2. Handler(c) \/ JoinTimesOut(c) BY <2>1 DEF Serve, AbortTimesOut, FinishTimesOut
    <3>3. QED BY <3>1, <3>2, HandlerMoves
  <2>3. weightVersion' \in Nat /\ released' \in [1 .. Buckets -> Nat]
    BY <1>0, <2>1
    DEF Serve, AbortTimesOut, FinishTimesOut, Handler, Generate, Generated, StartSync,
        StartAnswered, Join, Mismatch, Finished, Aborted, JoinTimesOut, engineVars
  <2>4. failures' \in 0 .. MaxFailures
    BY <1>0, <2>1, FailureCounts DEF Serve, AbortTimesOut, FinishTimesOut
  <2>5. UNCHANGED <<life, pc, batch, policy, fresh, globalStep, lastSync, sent, generated>>
    BY <2>1 DEF Serve, AbortTimesOut, FinishTimesOut
  <2>6. QED BY <1>0, <2>2, <2>3, <2>4, <2>5, RoundServer
<1>7. CASE SendBucket
  <2>1. UNCHANGED <<call, weightVersion, released>> /\ sent' \in 0 .. Buckets
    BY <1>0, <1>7 DEF SendBucket, LoadBucket
  <2>2. QED BY <1>0, <1>7, <2>1, RoundServer DEF SendBucket
<1>8. CASE \E s \in Sessions : Close(s) \/ ReceiverFails(s)
  <2>1. PICK s \in Sessions : Close(s) \/ ReceiverFails(s) BY <1>8
  <2>2. UNCHANGED <<call, weightVersion, released>>
    BY <2>1 DEF Close, ReceiverFails, ReceiverEnds, ReceiverRaises
  <2>3. failures' \in 0 .. MaxFailures BY <1>0, <2>1, FailureCounts DEF Close, ReceiverFails
  <2>4. QED BY <1>0, <2>1, <2>2, <2>3, RoundServer DEF Close, ReceiverFails
<1>9. CASE RestartServer
  <2>1. \A d \in Calls : call'[d].op = call[d].op
    <3> SUFFICES ASSUME NEW d \in Calls PROVE call'[d].op = call[d].op OBVIOUS
    <3>1. call[d] \in CallSet BY CallTypes
    <3>2. call'[d] = IF call[d].state \in {"queued", "running"}
                     THEN [call[d] EXCEPT !.state = "error"] ELSE call[d]
      BY <1>9 DEF RestartServer, ServerRestarts
    <3>3. QED BY <3>1, <3>2 DEF CallSet
  <2>2. weightVersion' \in Nat /\ released' \in [1 .. Buckets -> Nat]
    BY <1>9 DEF RestartServer, ServerRestarts, Base
  <2>3. failures' \in 0 .. MaxFailures BY <1>0, <1>9, FailureCounts DEF RestartServer
  <2>4. QED BY <1>0, <1>9, <2>1, <2>2, <2>3, RoundServer DEF RestartServer
<1>10. CASE TrainerRestarts
  <2>1. failures' \in 0 .. MaxFailures BY <1>0, <1>10, FailureCounts DEF TrainerRestarts
  <2>2. pc' = [r \in Ranks |-> "rollout"] /\ batch' = 0 /\ lastSync' = -1 /\ sent' = 0
        /\ generated' = [r \in Ranks |-> {}] /\ fresh' = fresh
        /\ UNCHANGED <<weightVersion, released>>
    BY <1>10 DEF TrainerRestarts
  <2>3. policy' \in 0 .. fresh /\ globalStep' \in 0 .. fresh
    BY <1>10 DEF TrainerRestarts, RoundInv
  <2>4. MaxBatch \in Nat \ {0} BY TrainerAssumption
  <2>5. QED BY <1>0, <2>1, <2>2, <2>3, <2>4 DEF RoundInv, Places
<1>11. CASE UNCHANGED vars
  BY <1>11 DEF vars, RoundInv, Mine
<1>12. QED
  BY <1>1, <1>2, <1>3, <1>4, <1>5, <1>6, <1>7, <1>8, <1>9, <1>10, <1>11 DEF Next, Sync, Failure
-----------------------------------------------------------------------------
LEMMA ServeSync ==
    ASSUME Inv, Inv', SyncInv, NEW c \in Calls, Handler(c) \/ JoinTimesOut(c),
           UNCHANGED <<life, pc, policy, sent>>
    PROVE  SyncInv'
<1>0. /\ call' \in [Calls -> CallSet] /\ call'[c].op = call[c].op
      /\ \A d \in Calls : d # c => call'[d] = call[d]
      /\ StartAnswered(c) \/ call'[c].session = call[c].session
      /\ NoCall \notin Calls
  <2>1. ServerShape BY DEF Inv, ServerInv
  <2>2. QED BY <2>1, HandlerMoves, CallTypes
<1>a. ASSUME NEW st \in CallStates, Answer(c, st) PROVE call'[c].state = st
  BY <1>a, AnswerMoves DEF Inv, ServerInv
<1>b. lock = c => Asked(c) BY DEF SyncInv, LockInv, Asked
<1>c. call[c].state = "queued" => Asked(c) BY DEF Asked
<1>d. {"ok", "error", "running"} \subseteq CallStates BY DEF CallStates
<1>1. CASE Generate(c)
  <2>1. /\ lock = NoCall /\ call[c].op = "generate" /\ call[c].state = "queued"
        /\ UNCHANGED <<session, receiver, parts, weightVersion, released>>
    BY <1>1 DEF Generate, Entering, Refuse, engineVars
  <2>2. \/ lock' = lock /\ call'[c].state = "error"
        \/ lock' = c /\ call'[c].state = "running"
    <3>1. CASE session # 0 BY <1>1, <1>a, <1>d, <3>1 DEF Generate, Refuse
    <3>2. CASE session = 0
      <4>1. PICK hit \in BOOLEAN :
              /\ lock' = c
              /\ call' = [call EXCEPT ![c].state = "running",
                                      ![c].used = InEngine \cup IF hit THEN cached ELSE {}]
        BY <1>1, <3>2 DEF Generate
      <4>2. call \in [Calls -> CallSet] /\ call[c] \in CallSet BY CallTypes
      <4> DEFINE u == InEngine \cup IF hit THEN cached ELSE {}
      <4>3. call' = [call EXCEPT ![c] = [call[c] EXCEPT !.state = "running", !.used = u]]
        BY <4>1, <4>2
      <4> HIDE DEF u
      <4>4. [call[c] EXCEPT !.state = "running", !.used = u].state = "running"
        BY <4>2 DEF CallSet
      <4>5. QED BY <4>1, <4>2, <4>3, <4>4
    <3>3. QED BY <3>1, <3>2
  <2>3. call'[c].session = call[c].session BY <1>0, <2>1 DEF StartAnswered, Inside
  <2>4. QED BY <1>0, <1>c, <2>1, <2>2, <2>3, QuietKeeps
<1>2. CASE Generated(c)
  <2>1. /\ lock = c /\ call[c].op = "generate" /\ lock' = NoCall
        /\ UNCHANGED <<session, receiver, parts, weightVersion, released>>
    BY <1>2 DEF Generated, Inside, engineVars
  <2>2. call'[c].session = call[c].session BY <1>0, <2>1 DEF StartAnswered, Inside
  <2>3. QED BY <1>0, <1>b, <2>1, <2>2, QuietKeeps
<1>3. CASE StartSync(c)
  <2>1. /\ lock = NoCall /\ call[c].op = "start" /\ call[c].state = "queued"
        /\ UNCHANGED <<parts, weightVersion, released>>
    BY <1>3 DEF StartSync, Entering, engineVars
  <2>2. CASE session = 0
    <3>1. StartSync(c) /\ UNCHANGED <<life, pc, policy, sent>> BY <1>3
    <3>2. QED BY <2>2, <3>1, OpenKeeps
  <2>3. CASE session # 0
    <3>1. lock' = lock /\ UNCHANGED <<session, receiver>> /\ call'[c].state = "error"
      BY <1>3, <1>a, <1>d, <2>3 DEF StartSync, Refuse
    <3>2. call'[c].session = call[c].session
      BY <1>0, <2>1 DEF StartAnswered, Inside
    <3>3. QED BY <1>0, <1>c, <2>1, <3>1, <3>2, QuietKeeps
  <2>4. QED BY <2>2, <2>3
<1>4. CASE StartAnswered(c)
  <2>1. CASE receiver[session] # "failed" BY <1>4, <2>1, OpenedKeeps
  <2>2. CASE receiver[session] = "failed"
    <3>1. /\ lock = c /\ call[c].op = "start" /\ lock' = NoCall /\ session' = 0
          /\ call'[c].state = "error" /\ Answer(c, "error")
          /\ UNCHANGED <<receiver, parts, weightVersion, released>>
      BY <1>4, <1>a, <1>d, <2>2 DEF StartAnswered, Inside, Leave, engineVars
    <3>2. call'[c].session = call[c].session
      <4>1. call \in [Calls -> CallSet] /\ call[c] \in CallSet BY CallTypes
      <4>2. call'[c] = [call[c] EXCEPT !.state = "error"] BY <3>1, <4>1 DEF Answer
      <4>3. QED BY <4>1, <4>2 DEF CallSet
    <3>3. QED BY <1>0, <2>2, <3>1, <3>2, EndKeeps
  <2>3. QED BY <2>1, <2>2
<1>5. CASE \E op \in {"finish", "abort"} : Join(c, op) \/ Mismatch(c, op)
  <2>1. PICK op \in {"finish", "abort"} : Join(c, op) \/ Mismatch(c, op) BY <1>5
  <2>2. /\ lock = NoCall /\ call[c].op = op /\ call[c].state = "queued"
        /\ UNCHANGED <<session, receiver, parts, weightVersion, released>>
    BY <2>1 DEF Join, Mismatch, Entering, Refuse, engineVars
  <2>3. call'[c].session = call[c].session BY <1>0, <2>1, <2>2 DEF StartAnswered, Inside
  <2>4. \/ lock' = c /\ call'[c].state = "running" /\ session # 0 /\ call[c].session = session
        \/ lock' = lock /\ call'[c].state = "error"
        \/ lock' = lock /\ call'[c].state = "ok" /\ op = "abort"
    BY <1>a, <1>d, <2>1 DEF Join, Mismatch, Enter, Refuse
  <2>5. QED BY <1>0, <1>c, <2>1, <2>2, <2>3, <2>4, QuietKeeps
<1>6. CASE Finished(c) \/ Aborted(c)
  <2>1. /\ lock = c /\ call[c].op \in {"finish", "abort"} /\ lock' = NoCall /\ session' = 0
        /\ ~Alive(session) /\ UNCHANGED <<receiver, parts>>
        /\ call'[c].state \in {"ok", "error"}
    BY <1>6, <1>a, <1>d DEF Finished, Aborted, Inside, Leave, engineVars
  <2>2. session # 0 /\ call[c].session = session /\ session \in Sessions
        /\ receiver[session] # "gone"
    BY <2>1 DEF SyncInv, LockInv, SessionInv
  <2>3. receiver[session] \in {"ok", "failed"}
    <3>1. receiver[session] \in ReceiverStates BY <2>2, CallTypes DEF Sessions
    <3>2. QED BY <2>1, <2>2, <3>1 DEF Alive, ReceiverStates
  <2>4. call'[c].session = call[c].session BY <1>0, <2>1 DEF StartAnswered, Inside
  <2>5. CASE Finished(c)
    <3>1. \/ released' = parts /\ weightVersion' = weightVersion + 1
          \/ /\ released' = released /\ weightVersion' = weightVersion
             /\ receiver[session] = "failed"
      BY <2>3, <2>5 DEF Finished
    <3>2. QED BY <1>0, <2>1, <2>4, <3>1, EndKeeps
  <2>6. CASE Aborted(c)
    <3>1. released' = released /\ weightVersion' = weightVersion /\ call[c].op = "abort"
      BY <2>6 DEF Aborted, Inside, engineVars
    <3>2. receiver[session] = "failed" BY <2>2, <2>3, <3>1 DEF SyncInv, LoadInv
    <3>3. QED BY <1>0, <2>1, <2>4, <3>1, <3>2, EndKeeps
  <2>7. QED BY <1>6, <2>5, <2>6
<1>7. CASE JoinTimesOut(c)
  <2>1. /\ lock = c /\ call[c].op \in {"finish", "abort"} /\ lock' = NoCall
        /\ call'[c].state = "error"
        /\ UNCHANGED <<session, receiver, parts, weightVersion, released>>
    BY <1>7, <1>a, <1>d DEF JoinTimesOut, Leave, engineVars
  <2>2. call'[c].session = call[c].session BY <1>0, <2>1 DEF StartAnswered, Inside
  <2>3. QED BY <1>0, <1>b, <2>1, <2>2, QuietKeeps
<1>8. QED BY <1>1, <1>2, <1>3, <1>4, <1>5, <1>6, <1>7 DEF Handler

(* What a rank that has its answer goes on with.                            *)
LEMMA AnswerSync ==
    ASSUME Inv, Inv', SyncInv, RoundInv, NEW r \in Ranks, NEW place,
           Goto(r, place), pc[r] = "waiting", UNCHANGED <<life, sent, policy>>,
           place \in {"train", "sending", "synced", "dead"},
           place # "dead" => Mine(r).state = "ok",
           place \in {"sending", "synced"} => r = Lead,
           place = "sending" => Mine(r).op = "start",
           place = "synced" => Mine(r).op = "finish"
    PROVE  SyncInv'
<1>1. pc' = [pc EXCEPT ![r] = place] /\ UNCHANGED serverVars BY DEF Goto
<1>2. pc'[r] = place /\ \A t \in Ranks : t # r => pc'[t] = pc[t] BY <1>1 DEF RoundInv
<1>3. Lead \in Ranks BY CallTypes
<1>4. \A t \in Ranks : pc'[t] \notin {"waiting", "dead"} => ~Asked(<<t, life>>)
  BY <1>2 DEF Mine, Asked, SyncInv, ClientInv
<1>5. pc'[Lead] = "sending" => pc[Lead] \in {"waiting", "sending"}
                               /\ call[lead].op = "start" /\ call[lead].state = "ok"
  BY <1>2, <1>3 DEF Mine, lead, SyncInv, ClientInv
<1>6. pc'[Lead] = "synced" => pc[Lead] \in {"waiting", "synced"}
                              /\ call[lead].op = "finish" /\ call[lead].state = "ok"
  BY <1>2, <1>3 DEF Mine, lead, SyncInv, ClientInv
<1>7. pc'[Lead] = "waiting" => pc[Lead] = "waiting" BY <1>2, <1>3
<1>8. QED BY <1>1, <1>4, <1>5, <1>6, <1>7, MoveKeeps

LEMMA TogetherSync ==
    ASSUME Inv, Inv', SyncInv, RoundInv, Together PROVE SyncInv'
<1>1. \A r \in Ranks : pc[r] \notin {"waiting", "dead"}
  BY DEF Together, Train, Barrier
<1>2. \A r \in Ranks : pc'[r] \in {"sync", "barrier", "rollout", "done"}
  BY DEF Together, Train, Barrier, AfterBatch
<1>3. \A r \in Ranks : ~Asked(<<r, life>>) BY <1>1 DEF SyncInv, ClientInv
<1>4. UNCHANGED <<serverVars, life, sent>> BY DEF Together, Train, Barrier
<1>5. pc'[Lead] \in {"sync", "barrier", "rollout", "done"} BY <1>2, CallTypes
<1>6. QED BY <1>3, <1>4, <1>5, MoveKeeps

LEMMA NextSync == Inv /\ Inv' /\ RoundInv /\ SyncInv /\ [Next]_vars => SyncInv'
<1> SUFFICES ASSUME Inv, Inv', RoundInv, SyncInv, [Next]_vars PROVE SyncInv' OBVIOUS
<1>0. /\ pc \in [Ranks -> Places] /\ Lead \in Ranks /\ 0 \in Nat
      /\ {"generate", "start", "finish", "abort"} \subseteq Ops \ {"none"}
      /\ call[lead].session \in Nat /\ Mine(Lead) = call[lead]
  BY CallTypes DEF RoundInv, Ops, Mine, lead
<1>1. CASE \E r \in Ranks : Rank(r)
  <2>1. PICK r \in Ranks : Rank(r) BY <1>1
  <2>2. CASE AskRollout(r)
    <3>1. Ask(r, "generate", 0) /\ pc[r] = "rollout" /\ UNCHANGED <<life, policy, sent>>
      BY <2>2 DEF AskRollout
    <3>2. QED BY <1>0, <3>1, AskSync
  <2>3. CASE GotRollout(r) \/ Raises(r)
    BY <2>3, AnswerSync DEF GotRollout, Raises, Got
  <2>4. QED BY <2>1, <2>2, <2>3 DEF Rank
<1>2. CASE Together BY <1>2, TogetherSync
<1>3. CASE AskStart
  <2>1. /\ Ask(Lead, "start", 0) /\ pc[Lead] = "sync" /\ sent' = 0
        /\ UNCHANGED <<life, policy>>
    BY <1>3 DEF AskStart
  <2>2. QED BY <1>0, <2>1, AskSync
<1>4. CASE AskFinish
  <2>1. /\ Ask(Lead, "finish", call[lead].session) /\ pc[Lead] = "sending" /\ sent = Buckets
        /\ UNCHANGED <<life, policy, sent>>
    BY <1>0, <1>4 DEF AskFinish
  <2>2. QED BY <1>0, <2>1, AskSync
<1>5. CASE SenderFails
  <2>1. /\ Ask(Lead, "abort", call[lead].session) /\ pc[Lead] = "sending" /\ sent < Buckets
        /\ UNCHANGED <<life, policy, sent>>
    BY <1>0, <1>5 DEF SenderFails
  <2>2. QED BY <1>0, <2>1, AskSync
<1>6. CASE GotStart \/ GotFinish
  BY <1>0, <1>6, AnswerSync DEF GotStart, GotFinish, Got
<1>7. CASE \E r \in Ranks : TimesOut(r)
  BY <1>7, AnswerSync DEF TimesOut
<1>8. CASE SendBucket BY <1>8, LoadKeeps
<1>9. CASE \E c \in Calls : Serve(c) \/ AbortTimesOut(c) \/ FinishTimesOut(c)
  BY <1>9, ServeSync DEF Serve, AbortTimesOut, FinishTimesOut
<1>10. CASE \E s \in Sessions : Close(s) \/ ReceiverFails(s)
  BY <1>10, ThreadKeeps DEF Close, ReceiverFails
<1>11. CASE RestartServer BY <1>11, RestartSync
<1>12. CASE TrainerRestarts BY <1>12, TrainerSync
<1>13. CASE UNCHANGED vars
  <2>1. UNCHANGED <<serverVars, life, sent, pc, policy>> BY <1>13 DEF vars
  <2>2. \A r \in Ranks : pc'[r] \notin {"waiting", "dead"} => ~Asked(<<r, life>>)
    BY <2>1 DEF SyncInv, ClientInv
  <2>3. QED BY <2>1, <2>2, MoveKeeps DEF SyncInv, ClientInv
<1>14. QED
  BY <1>1, <1>2, <1>3, <1>4, <1>5, <1>6, <1>7, <1>8, <1>9, <1>10, <1>11, <1>12, <1>13
  DEF Next, Sync, Failure

LEMMA InitSync == Init => SyncInv /\ RoundInv
<1> SUFFICES ASSUME Init PROVE SyncInv /\ RoundInv OBVIOUS
<1> USE DEF Init, ServerInit
<1>1. /\ life = 1 /\ Lead \in Ranks /\ NoCall \notin Calls /\ {MaxLife, MaxBatch} \subseteq Nat \ {0}
      /\ MaxFailures \in Nat /\ Buckets \in Nat /\ lead \in Calls
      /\ \A r \in Ranks : <<r, life>> \in Calls /\ pc[r] = "rollout"
  BY TrainerAssumption, ServerAssumption DEF lead
<1>2. \A c \in Calls : call[c] = Idle OBVIOUS
<1>3. ClientInv BY <1>1, <1>2 DEF ClientInv, Idle, Asked
<1>4. SessionInv BY <1>1, <1>2 DEF SessionInv, Idle
<1>5. LockInv BY <1>1 DEF LockInv
<1>6. LoadInv BY <1>1, <1>2 DEF LoadInv, Loading, Finishing, Synced, Idle
<1>7. VersionIdentifiesWeights BY DEF VersionIdentifiesWeights
<1>8. RoundInv
  <2>1. released \in [1 .. Buckets -> Nat] BY DEF Base
  <2>2. pc \in [Ranks -> Places] BY DEF Places
  <2>3. QED BY <1>1, <2>1, <2>2 DEF RoundInv
<1>9. QED BY <1>3, <1>4, <1>5, <1>6, <1>7, <1>8 DEF SyncInv

StudentInv == Inv /\ RoundInv /\ SyncInv

LEMMA StudentInvariant == Spec => []StudentInv
<1>1. Init => StudentInv BY InitServer, InitSync DEF StudentInv
<1>2. StudentInv /\ [Next]_vars => StudentInv'
  BY NextServer, NextRound, NextSync DEF StudentInv
<1>3. QED BY <1>1, <1>2, PTL DEF Spec

(* Every variable of the server and of the trainer keeps its type: the      *)
(* session is None or one that was opened, and the batches, steps, buckets  *)
(* and failures stay within their bounds.                                   *)
THEOREM StudentTypes == Spec => []TypeOK
<1>1. StudentInv => TypeOK
  <2> SUFFICES ASSUME StudentInv PROVE TypeOK OBVIOUS
  <2>1. ServerTypeOK
    BY DEF StudentInv, Inv, ServerInv, ServerShape, CallSet, Ops, CallStates, ReceiverStates,
           SyncInv, SessionInv, RoundInv, ServerTypeOK
  <2>2. QED BY <2>1 DEF StudentInv, Inv, RoundInv, Places, TypeOK
<1>2. QED BY <1>1, StudentInvariant, PTL

(* When rank 0 goes to the barrier, the engine has all of the policy's      *)
(* weights, unless the server has been started again (synchronize of        *)
(* vllm_student.py, finish_weight_sync): whatever timed out or failed       *)
(* before, and although older trainers' requests are still being served.    *)
THEOREM SyncLoads == Spec => []SyncedMeansLoaded
<1>1. StudentInv => SyncedMeansLoaded
  <2> SUFFICES ASSUME Inv, RoundInv, SyncInv, pc[Lead] = "synced", weightVersion > 0
               PROVE  parts = [b \in 1 .. Buckets |-> policy]
    BY DEF StudentInv, SyncedMeansLoaded
  <2>1. Synced BY DEF Synced, SyncInv, ClientInv
  <2>2. AllPolicy BY <2>1 DEF SyncInv, LoadInv, RoundInv
  <2>3. parts \in [1 .. Buckets -> Nat] BY CallTypes
  <2>4. QED BY <2>2, <2>3 DEF AllPolicy
<1>2. QED BY <1>1, StudentInvariant, PTL

(* Between two sessions weight_version says which weights the server        *)
(* generates with, as long as no receiver has failed in the middle of one:  *)
(* an aborted or refused sync, and one given up, leave no trace.            *)
THEOREM VersionNames == Spec => []VersionIdentifiesWeights
<1>1. StudentInv => VersionIdentifiesWeights BY DEF StudentInv, SyncInv
<1>2. QED BY <1>1, StudentInvariant, PTL
-----------------------------------------------------------------------------
(* Who samples from the current policy.  The ranks sample together or wait  *)
(* together for the sync: no request for a rollout is under way while the   *)
(* weights are older than the policy.                                       *)

\* One trainer, one server, and no prefixes that are older than the weights.
NothingRestarts ==
    /\ ~PrefixCaching /\ "server" \notin Failing
    /\ "trainer" \notin Failing \/ MaxLife = 1

Samples(r) ==
    /\ \/ pc[r] \in {"rollout", "train", "dead", "done"}
       \/ pc[r] = "waiting" /\ Mine(r).op = "generate"
    /\ Asked(<<r, life>>) => Mine(r).op = "generate"
    /\ Mine(r).state = "running" => (Mine(r).used = {policy})
    /\ pc[r] = "waiting" /\ Mine(r).state = "ok" => (Mine(r).used = {policy})
    /\ pc[r] = "train" => (generated[r] = {policy})

Sampling == session = 0 /\ AllPolicy /\ \A r \in Ranks : Samples(r)

Syncing ==
    /\ \A r \in Ranks : r # Lead => pc[r] = "barrier"
    /\ \/ pc[Lead] \in {"sync", "sending", "synced", "dead"}
       \/ pc[Lead] = "waiting" /\ call[lead].op \in {"start", "finish", "abort"}
    /\ Synced => session = 0 /\ weightVersion > 0

PhaseInv == life = 1 /\ (Sampling \/ Syncing)

LEMMA OwnCalls ==
    ASSUME Inv, SyncInv, life = 1, NEW c \in Calls
    PROVE  /\ Asked(c) => c = <<c[1], life>>
           /\ lock = c => Asked(c)
<1>1. c = <<c[1], c[2]>> /\ c[2] \in Nat \ {0} BY CallTypes
<1>2. Asked(c) => c = <<c[1], life>>
  <2>1. Asked(c) => ~(c[2] > life) BY DEF SyncInv, ClientInv, Asked, Idle
  <2>2. QED BY <1>1, <2>1
<1>3. QED BY <1>2 DEF SyncInv, LockInv, Asked

LEMMA PolicyIn == ASSUME Inv, AllPolicy PROVE InEngine = {policy}
<1>1. 1 \in 1 .. Buckets BY CallTypes
<1>2. QED BY <1>1 DEF AllPolicy, InEngine

(* A rank moves while the ranks sample; the others are where they were.     *)
LEMMA RankSamples ==
    ASSUME Inv, SyncInv, Sampling, NEW r \in Ranks,
           UNCHANGED <<life, policy, session, parts>>,
           \A t \in Ranks : t # r => Mine(t)' = Mine(t) /\ pc'[t] = pc[t]
                                     /\ generated'[t] = generated[t],
           Samples(r)'
    PROVE  Sampling'
<1>1. \A t \in Ranks : Samples(t)'
  <2> SUFFICES ASSUME NEW t \in Ranks PROVE Samples(t)' OBVIOUS
  <2>1. CASE t = r BY <2>1
  <2>2. CASE t # r
    <3>1. /\ Mine(t)' = Mine(t) /\ pc'[t] = pc[t] /\ generated'[t] = generated[t]
          /\ policy' = policy
      BY <2>2
    <3>2. Samples(t) BY DEF Sampling
    <3>3. QED BY <3>1, <3>2 DEF Samples, Asked, Mine
  <2>3. QED BY <2>1, <2>2
<1>2. QED BY <1>1 DEF Sampling, AllPolicy

LEMMA SamplingServes ==
    ASSUME Inv, SyncInv, life = 1, Sampling, ~PrefixCaching, NEW c \in Calls,
           Handler(c) \/ JoinTimesOut(c), UNCHANGED <<life, pc, policy, generated>>
    PROVE  Sampling'
<1>1. Asked(c)
  <2>1. call[c].state = "queued" \/ lock = c
    BY DEF Handler, Generate, Generated, StartSync, StartAnswered, Join, Mismatch,
           Finished, Aborted, JoinTimesOut, Entering, Inside
  <2>2. QED BY <2>1, OwnCalls DEF Asked
<1>2. PICK r \in Ranks : c = <<r, life>> BY <1>1, OwnCalls, CallTypes
<1>3. Samples(r) /\ call[c].op = "generate" /\ Mine(r) = call[c] /\ session = 0 /\ AllPolicy
  BY <1>1, <1>2 DEF Sampling, Samples, Mine
<1>4. Generate(c) \/ Generated(c)
  BY <1>3 DEF Handler, StartSync, StartAnswered, Join, Mismatch,
              Finished, Aborted, JoinTimesOut, Entering, Inside
<1>5. InEngine = {policy} BY <1>3, PolicyIn
<1>6. call \in [Calls -> CallSet] /\ call[c] \in CallSet BY CallTypes
<1>7. UNCHANGED <<session, parts>> BY <1>4 DEF Generate, Generated, Refuse, engineVars
<1>8. /\ call'[c].used = {policy} /\ call'[c].op = "generate"
      /\ \A d \in Calls : d # c => call'[d] = call[d]
  <2>1. CASE Generate(c)
    <3>1. PICK hit \in BOOLEAN :
            /\ ~hit
            /\ call' = [call EXCEPT ![c].state = "running",
                                    ![c].used = InEngine \cup IF hit THEN cached ELSE {}]
      BY <1>3, <2>1 DEF Generate
    <3>2. call' = [call EXCEPT ![c] = [call[c] EXCEPT !.state = "running", !.used = {policy}]]
      BY <1>5, <1>6, <3>1
    <3>3. [call[c] EXCEPT !.state = "running", !.used = {policy}].used = {policy}
          /\ [call[c] EXCEPT !.state = "running", !.used = {policy}].op = call[c].op
      BY <1>6 DEF CallSet
    <3>4. QED BY <1>3, <1>6, <3>2, <3>3
  <2>2. CASE Generated(c)
    <3>1. lock = c /\ call' = [call EXCEPT ![c].state = "ok", ![c].used = @ \cup InEngine]
      BY <2>2 DEF Generated, Inside
    <3>2. call[c].state = "running" BY <3>1 DEF SyncInv, LockInv
    <3>3. call[c].used = {policy} BY <1>3, <3>2 DEF Samples
    <3>4. call[c].used \cup InEngine = {policy} BY <1>5, <3>3
    <3>5. call' = [call EXCEPT ![c] = [call[c] EXCEPT !.state = "ok", !.used = {policy}]]
      BY <1>6, <3>1, <3>4
    <3>6. [call[c] EXCEPT !.state = "ok", !.used = {policy}].used = {policy}
          /\ [call[c] EXCEPT !.state = "ok", !.used = {policy}].op = call[c].op
      BY <1>6 DEF CallSet
    <3>7. QED BY <1>3, <1>6, <3>5, <3>6
  <2>3. QED BY <1>4, <2>1, <2>2
<1>9. Mine(r)' = call'[c] BY <1>2 DEF Mine
<1>10. Samples(r)'
  <2>1. Mine(r)'.op = "generate" /\ Mine(r)'.used = {policy'} /\ pc'[r] = pc[r]
    BY <1>8, <1>9
  <2>2. pc'[r] = "train" => generated'[r] = {policy'} BY <1>3 DEF Samples
  <2>3. QED BY <1>3, <2>1, <2>2 DEF Samples, Mine
<1>11. \A t \in Ranks : t # r => Mine(t)' = Mine(t)
  <2>1. \A t \in Ranks : t # r => <<t, life>> # c /\ <<t, life>> \in Calls
    BY <1>2, CallTypes
  <2>2. QED BY <1>8, <2>1 DEF Mine
<1>12. QED BY <1>7, <1>10, <1>11, RankSamples

LEMMA SyncingServes ==
    ASSUME Inv, SyncInv, RoundInv, life = 1, Syncing, NEW c \in Calls,
           Handler(c) \/ JoinTimesOut(c), UNCHANGED <<life, pc, policy, generated>>
    PROVE  Syncing'
<1>1. Asked(c)
  <2>1. call[c].state = "queued" \/ lock = c
    BY DEF Handler, Generate, Generated, StartSync, StartAnswered, Join, Mismatch,
           Finished, Aborted, JoinTimesOut, Entering, Inside
  <2>2. QED BY <2>1, OwnCalls DEF Asked
<1>2. c = lead
  <2>1. PICK r \in Ranks : c = <<r, life>> BY <1>1, OwnCalls, CallTypes
  <2>2. r = Lead BY <1>1, <2>1 DEF Syncing, SyncInv, ClientInv
  <2>3. QED BY <2>1, <2>2 DEF lead
<1>3. call'[lead].op = call[lead].op /\ lead' = lead
  <2>1. ServerShape BY DEF Inv, ServerInv
  <2>2. call'[c].op = call[c].op BY <2>1, HandlerMoves
  <2>3. QED BY <1>2, <2>2 DEF lead
<1>4. Synced' => session' = 0 /\ weightVersion' > 0
  <2> SUFFICES ASSUME Synced' PROVE session' = 0 /\ weightVersion' > 0 OBVIOUS
  <2>1. call[c].op = "finish" /\ call'[c].state = "ok" BY <1>2, <1>3 DEF Synced
  <2>2. Join(c, "finish") \/ Mismatch(c, "finish") \/ Finished(c) \/ JoinTimesOut(c)
    BY <2>1 DEF Handler, Generate, Generated, StartSync, StartAnswered, Join, Mismatch,
                Aborted, Entering, Inside
  <2>a. ASSUME NEW st \in CallStates, Answer(c, st) PROVE call'[c].state = st
    BY <2>a, AnswerMoves DEF Inv, ServerInv
  <2>b. {"ok", "error", "running"} \subseteq CallStates BY DEF CallStates
  <2>3. ~Join(c, "finish") /\ ~Mismatch(c, "finish") /\ ~JoinTimesOut(c)
    BY <2>1, <2>a, <2>b DEF Join, Mismatch, JoinTimesOut, Enter, Refuse, Leave
  <2>4. Finished(c) BY <2>2, <2>3
  <2>5. session' = 0 /\ weightVersion' = weightVersion + 1
    BY <2>1, <2>4, <2>a, <2>b DEF Finished, Leave
  <2>6. weightVersion \in Nat BY DEF RoundInv
  <2>7. QED BY <2>5, <2>6
<1>5. QED BY <1>3, <1>4 DEF Syncing

(* The ranks that were at the barrier, or trained, sample again: the engine *)
(* has the policy's weights and no request is under way.                    *)
LEMMA SamplesAgain ==
    ASSUME Inv, SyncInv, session' = 0, AllPolicy',
           \A r \in Ranks : pc'[r] \in {"rollout", "done"} /\ ~Asked(<<r, life>>)',
           UNCHANGED <<life, call>>
    PROVE  Sampling'
<1>1. ASSUME NEW r \in Ranks PROVE Samples(r)'
  <2>1. pc'[r] \in {"rollout", "done"} /\ ~Asked(<<r, life>>)' BY <1>1
  <2>2. Mine(r)'.state # "running" BY <2>1 DEF Mine, Asked
  <2>3. QED BY <2>1, <2>2 DEF Samples
<1>2. QED BY <1>1 DEF Sampling

LEMMA PhaseTogether ==
    ASSUME Inv, SyncInv, RoundInv, PhaseInv, Together PROVE PhaseInv'
<1>0. Lead \in Ranks /\ UNCHANGED <<serverVars, life>>
  BY CallTypes DEF Together, Train, Barrier
<1>1. \A r \in Ranks : ~Asked(<<r, life>>)'
  BY <1>0 DEF Together, Train, Barrier, SyncInv, ClientInv, Asked
<1>2. CASE Train
  <2>1. Sampling BY <1>0, <1>2 DEF Train, PhaseInv, Syncing
  <2>2. pc' = [r \in Ranks |-> IF Syncs(globalStep')
                               THEN IF r = Lead THEN "sync" ELSE "barrier"
                               ELSE AfterBatch']
    BY <1>2 DEF Train
  <2>3. CASE Syncs(globalStep')
    <3>1. pc'[Lead] = "sync" /\ \A r \in Ranks : r # Lead => pc'[r] = "barrier"
      BY <1>0, <2>2, <2>3
    <3>2. Syncing' BY <3>1 DEF Syncing, Synced
    <3>3. QED BY <1>0, <3>2 DEF PhaseInv
  <2>4. CASE ~Syncs(globalStep')
    <3>1. policy' = policy
      <4>1. lastSync \in -1 .. globalStep /\ globalStep \in Nat BY DEF RoundInv
      <4>2. globalStep' # globalStep + 1 BY <2>4, <4>1 DEF Syncs
      <4>3. QED BY <1>2, <4>2 DEF Train
    <3>2. \A r \in Ranks : pc'[r] \in {"rollout", "done"} BY <2>2, <2>4 DEF AfterBatch
    <3>3. session' = 0 /\ AllPolicy' BY <1>0, <2>1, <3>1 DEF Sampling, AllPolicy
    <3>4. Sampling' BY <1>0, <1>1, <3>2, <3>3, SamplesAgain
    <3>5. QED BY <1>0, <3>4 DEF PhaseInv
  <2>5. QED BY <2>3, <2>4
<1>3. CASE Barrier
  <2>1. pc[Lead] = "synced" /\ policy' = policy BY <1>0, <1>3 DEF Barrier
  <2>2. Syncing BY <1>0, <2>1 DEF PhaseInv, Sampling, Samples
  <2>3. Synced BY <2>1 DEF SyncInv, ClientInv, Synced
  <2>4. session = 0 /\ AllPolicy BY <2>2, <2>3 DEF Syncing, SyncInv, LoadInv
  <2>5. session' = 0 /\ AllPolicy' BY <1>0, <2>1, <2>4 DEF AllPolicy
  <2>6. \A r \in Ranks : pc'[r] \in {"rollout", "done"} BY <1>3 DEF Barrier, AfterBatch
  <2>7. Sampling' BY <1>0, <1>1, <2>5, <2>6, SamplesAgain
  <2>8. QED BY <1>0, <2>7 DEF PhaseInv
<1>4. QED BY <1>2, <1>3 DEF Together

(* A rank gets an answer, or none.                                          *)
LEMMA PhaseGoes ==
    ASSUME Inv, SyncInv, RoundInv, PhaseInv, NEW r \in Ranks, NEW place,
           Goto(r, place), pc[r] = "waiting", UNCHANGED <<life, policy>>,
           \/ place = "dead" /\ generated' = generated
           \/ /\ place = "train" /\ Got(r, "generate")
              /\ generated' = [generated EXCEPT ![r] = Mine(r).used]
           \/ place = "sending" /\ r = Lead /\ Got(r, "start") /\ generated' = generated
           \/ place = "synced" /\ r = Lead /\ Got(r, "finish") /\ generated' = generated
    PROVE  PhaseInv'
<1>0. /\ pc' = [pc EXCEPT ![r] = place] /\ UNCHANGED serverVars /\ Lead \in Ranks
      /\ pc \in [Ranks -> Places] /\ generated \in [Ranks -> SUBSET Nat]
  BY CallTypes DEF Goto, RoundInv
<1>1. /\ pc'[r] = place /\ \A t \in Ranks : t # r => pc'[t] = pc[t]
      /\ \A t \in Ranks : Mine(t)' = Mine(t)
      /\ \A t \in Ranks : t # r => generated'[t] = generated[t]
  BY <1>0 DEF Mine
<1>2. CASE Sampling
  <2>1. Samples(r) /\ Mine(r).op = "generate" BY <1>2 DEF Sampling, Samples
  <2>2. place \in {"dead", "train"} BY <2>1 DEF Got
  <2>3. place = "train" => (generated'[r] = {policy})
    BY <1>0, <2>1 DEF Samples, Got
  <2>4. Samples(r)'
    BY <1>0, <1>1, <2>1, <2>2, <2>3 DEF Samples, Asked, Mine
  <2>5. Sampling' BY <1>0, <1>1, <1>2, <2>4, RankSamples
  <2>6. QED BY <2>5 DEF PhaseInv
<1>3. CASE Syncing
  <2>1. r = Lead /\ Mine(r).op \in {"start", "finish", "abort"} BY <1>3 DEF Syncing, Mine, lead
  <2>2. place \in {"sending", "synced", "dead"} BY <2>1 DEF Got
  <2>3. lead' = lead /\ Synced' => Synced BY <1>0, <1>1, <2>1 DEF lead, Synced
  <2>4. lead' = lead BY DEF lead
  <2>5. Syncing' BY <1>0, <1>1, <1>3, <2>1, <2>2, <2>3, <2>4 DEF Syncing
  <2>6. QED BY <2>5 DEF PhaseInv
<1>4. QED BY <1>2, <1>3 DEF PhaseInv

(* Rank 0 asks for a step of the sync.                                      *)
LEMMA PhaseAsks ==
    ASSUME Inv, SyncInv, RoundInv, PhaseInv, NEW op \in {"start", "finish", "abort"}, NEW s,
           Ask(Lead, op, s), pc[Lead] \in {"sync", "sending"}, UNCHANGED <<life, policy>>
    PROVE  PhaseInv'
<1>0. /\ pc' = [pc EXCEPT ![Lead] = "waiting"] /\ Lead \in Ranks
      /\ call' = [call EXCEPT ![lead] = [op |-> op, session |-> s, state |-> "queued",
                                         used |-> {}]]
      /\ pc \in [Ranks -> Places] /\ call \in [Calls -> CallSet] /\ lead \in Calls /\ lead' = lead
  BY CallTypes DEF Ask, Request, RoundInv, lead
<1>1. Syncing BY <1>0 DEF PhaseInv, Sampling, Samples
<1>2. pc'[Lead] = "waiting" /\ call'[lead].op = op /\ call'[lead].state = "queued" BY <1>0
<1>3. Syncing' BY <1>0, <1>1, <1>2 DEF Syncing, Synced
<1>4. QED BY <1>3 DEF PhaseInv

LEMMA NextPhase ==
    ASSUME NothingRestarts
    PROVE  Inv /\ RoundInv /\ SyncInv /\ PhaseInv /\ [Next]_vars => PhaseInv'
<1> SUFFICES ASSUME Inv, RoundInv, SyncInv, PhaseInv, [Next]_vars PROVE PhaseInv' OBVIOUS
<1>0. Lead \in Ranks /\ life = 1 BY CallTypes DEF PhaseInv
<1>1. CASE \E r \in Ranks : Rank(r)
  <2>1. PICK r \in Ranks : Rank(r) BY <1>1
  <2>2. CASE AskRollout(r)
    <3>1. pc[r] = "rollout" /\ UNCHANGED <<life, policy, generated, session, parts>>
          /\ pc' = [pc EXCEPT ![r] = "waiting"]
          /\ call' = [call EXCEPT ![<<r, life>>] =
                         [op |-> "generate", session |-> 0, state |-> "queued", used |-> {}]]
      BY <2>2 DEF AskRollout, Ask, Request, engineVars
    <3>2. Sampling BY <1>0, <3>1 DEF PhaseInv, Syncing
    <3>3. /\ pc'[r] = "waiting" /\ Mine(r)'.op = "generate" /\ Mine(r)'.state = "queued"
          /\ \A t \in Ranks : t # r => Mine(t)' = Mine(t) /\ pc'[t] = pc[t]
      <4>1. call \in [Calls -> CallSet] /\ \A t \in Ranks : <<t, life>> \in Calls BY CallTypes
      <4>2. \A t \in Ranks : t # r => <<t, life>> # <<r, life>> OBVIOUS
      <4>3. QED BY <3>1, <4>1, <4>2 DEF Mine, RoundInv
    <3>4. Samples(r)' BY <3>3 DEF Samples
    <3>5. Sampling' BY <3>1, <3>2, <3>3, <3>4, RankSamples
    <3>6. QED BY <3>1, <3>5 DEF PhaseInv
  <2>3. CASE GotRollout(r) \/ Raises(r)
    BY <2>3, PhaseGoes DEF GotRollout, Raises, Got
  <2>4. QED BY <2>1, <2>2, <2>3 DEF Rank
<1>2. CASE Together BY <1>2, PhaseTogether
<1>3. CASE AskStart \/ AskFinish \/ SenderFails
  BY <1>3, PhaseAsks DEF AskStart, AskFinish, SenderFails
<1>4. CASE GotStart \/ GotFinish
  BY <1>0, <1>4, PhaseGoes DEF GotStart, GotFinish, Got
<1>5. CASE \E r \in Ranks : TimesOut(r)
  BY <1>5, PhaseGoes DEF TimesOut
<1>6. CASE \E c \in Calls : Serve(c) \/ AbortTimesOut(c) \/ FinishTimesOut(c)
  <2>1. PICK c \in Calls : Serve(c) \/ AbortTimesOut(c) \/ FinishTimesOut(c) BY <1>6
  <2>2. Handler(c) \/ JoinTimesOut(c) BY <2>1 DEF Serve, AbortTimesOut, FinishTimesOut
  <2>3. UNCHANGED <<life, pc, policy, generated>>
    BY <2>1 DEF Serve, AbortTimesOut, FinishTimesOut
  <2>4. QED BY <1>0, <2>2, <2>3, SamplingServes, SyncingServes DEF PhaseInv, NothingRestarts
<1>7. CASE SendBucket \/ \E s \in Sessions : Close(s) \/ ReceiverFails(s)
  <2>1. PICK s : /\ SendBucket => s = Mine(Lead).session
                 /\ SendBucket => LoadBucket(s, sent + 1, policy)
                 /\ ~SendBucket => s \in Sessions /\ (ReceiverEnds(s) \/ ReceiverRaises(s))
    BY <1>7 DEF SendBucket, Close, ReceiverFails
  <2>2. /\ UNCHANGED <<call, session, weightVersion>>
        /\ UNCHANGED <<life, pc, policy, generated>>
    BY <1>7 DEF SendBucket, Close, ReceiverFails, LoadBucket, ReceiverEnds, ReceiverRaises,
                engineVars
  <2>3. Syncing
    <3>1. SendBucket => pc[Lead] = "sending" BY DEF SendBucket
    <3>2. ~SendBucket => session # 0
      <4> SUFFICES ASSUME ~SendBucket PROVE session # 0 OBVIOUS
      <4>1. s \in Sessions /\ Alive(s) BY <2>1 DEF ReceiverEnds, ReceiverRaises, Alive
      <4>2. QED BY <4>1, CallTypes DEF Inv, ServerInv, Exclusion
    <3>3. QED BY <1>0, <3>1, <3>2 DEF PhaseInv, Sampling, Samples
  <2>4. lead' = lead BY <2>2 DEF lead
  <2>5. Syncing' BY <2>2, <2>3, <2>4 DEF Syncing, Synced
  <2>6. QED BY <2>2, <2>5 DEF PhaseInv
<1>8. CASE RestartServer BY <1>8 DEF RestartServer, Fail, NothingRestarts
<1>9. CASE TrainerRestarts BY <1>0, <1>9 DEF TrainerRestarts, Fail, NothingRestarts
<1>10. CASE UNCHANGED vars
  BY <1>10 DEF vars, PhaseInv, Sampling, Samples, Syncing, Synced, AllPolicy, Asked, Mine, lead
<1>11. QED
  BY <1>1, <1>2, <1>3, <1>4, <1>5, <1>6, <1>7, <1>8, <1>9, <1>10 DEF Next, Sync, Failure

(* The student samples its completions from the current policy (README):    *)
(* requests that time out, senders and receivers that fail, and syncs that  *)
(* are refused or given up can stop the training, but never make it train   *)
(* on another policy's rollouts.                                            *)
THEOREM SampledOnPolicy == ASSUME NothingRestarts PROVE Spec => []OnPolicy
<1>1. Init => PhaseInv
  <2> SUFFICES ASSUME Init PROVE PhaseInv OBVIOUS
  <2>1. AllPolicy /\ session = 0 /\ life = 1 BY DEF Init, ServerInit, AllPolicy, Base
  <2>2. ASSUME NEW r \in Ranks PROVE Samples(r)
    <3>1. Mine(r) = Idle /\ pc[r] = "rollout"
      BY TrainerAssumption DEF Init, ServerInit, Mine
    <3>2. QED BY <3>1 DEF Samples, Idle, Asked, Mine
  <2>3. QED BY <2>1, <2>2 DEF PhaseInv, Sampling
<1>2. Spec => [](Inv /\ RoundInv /\ SyncInv)
  BY StudentInvariant, PTL DEF StudentInv
<1>3. Inv /\ RoundInv /\ SyncInv /\ PhaseInv /\ [Next]_vars => PhaseInv' BY NextPhase
<1>4. Spec => []PhaseInv
  BY <1>1, <1>2, <1>3, PTL DEF Spec
<1>5. PhaseInv /\ SyncInv => OnPolicy
  BY CallTypes DEF PhaseInv, Sampling, Samples, Syncing, OnPolicy
<1>6. QED BY <1>2, <1>4, <1>5, PTL
=============================================================================

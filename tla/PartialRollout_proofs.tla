------------------------ MODULE PartialRollout_proofs ------------------------
(***************************************************************************)
(* Proofs about generation that survives weight updates, for every number  *)
(* of servers and requests, every size of the balancer's cache and every   *)
(* length: the requests are routed to servers that are awake and have the  *)
(* trainer's weights, no engine generates while its weights are replaced,  *)
(* the versions reported of a response enclose those of its tokens, the    *)
(* balancer's counts are those of the calls, and a response that was       *)
(* interrupted is not longer than its caller allows.                       *)
(*                                                                         *)
(* What the trainer's coroutine has still to do says where the servers     *)
(* are: At(n) is its stage when n of them are left.                        *)
(***************************************************************************)
EXTENDS PartialRollout, FiniteSetTheorems, SequenceTheorems, TLAPS

Validates == version % TestFreq = 0

\* The servers that take part in every weight update.
Core == Servers \ Guests

\* The stages of UpdatePlan, ValidatePlan and the others, the last one first.
UpdateAt(n, on) == CASE n = 3 -> Stage("abort", on)
                     [] n = 2 -> Stage("transfer", on)
                     [] n = 1 -> Stage("resume", on)

ValidateAt(n) == CASE n = 13 -> Stage("transfer", Hybrid)
                   [] n \in {12, 6} -> Stage("abort", Standalone)
                   [] n \in {11, 5} -> Stage("abort", Hybrid)
                   [] n = 10 -> Stage("add", Hybrid)
                   [] n \in {9, 2} -> Stage("resume", Standalone)
                   [] n \in {8, 1} -> Stage("resume", Hybrid)
                   [] n = 7 -> Stage("validate", {})
                   [] n = 4 -> Stage("remove", Hybrid)
                   [] n = 3 -> Stage("sleep", Hybrid)

TrainerAt(n) == CASE n = 3 -> Stage("remove", Hybrid)
                  [] n = 2 -> Stage("abort", Hybrid)
                  [] n = 1 -> Stage("sleep", Hybrid)

RolloutAt(n) == CASE n = 4 -> Stage("transfer", Hybrid)
                  [] n = 3 -> Stage("resume", Hybrid)
                  [] n = 2 -> Stage("add", Hybrid)
                  [] n = 1 -> Stage("validate", {})

ColocatedAt(n) == CASE n = 4 -> Stage("abort", Servers)
                    [] n = 3 -> Stage("sleep", Servers)
                    [] n = 2 -> Stage("transfer", Servers)
                    [] n = 1 -> Stage("resume", Servers)

At(n) ==
    CASE mode = "standalone" -> UpdateAt(n, Servers)
      [] mode = "colocated" -> ColocatedAt(n)
      [] mode = "validating" ->
             IF Validates THEN IF n > 13 THEN UpdateAt(n - 13, Standalone) ELSE ValidateAt(n)
             ELSE UpdateAt(n, Standalone)
      [] mode = "separate" ->
             IF Validates THEN IF n > 7 THEN TrainerAt(n - 7)
                               ELSE IF n > 4 THEN UpdateAt(n - 4, Standalone) ELSE RolloutAt(n)
             ELSE IF n > 3 THEN TrainerAt(n - 3) ELSE UpdateAt(n, Standalone)

\* The stages of the longest plan.
Longest == CASE mode = "standalone" -> 3
             [] mode = "colocated" -> 4
             [] mode = "validating" -> IF Validates THEN 16 ELSE 3
             [] mode = "separate" -> IF Validates THEN 10 ELSE 6

Left == Len(plan)

PlanInv ==
    /\ plan \in Seq([op : Ops, on : SUBSET Servers])
    /\ Left <= Longest
    /\ \A n \in 1 .. Left : plan[Left + 1 - n] = At(n)
    /\ todo \subseteq IF Left = 0 THEN {} ELSE plan[1].on
    /\ Left > 0 => version > 0

-----------------------------------------------------------------------------
(* The servers.                                                            *)

\* The stages left when the core servers take the new weights / resume for the
\* last time.
Swap == CASE mode = "validating" /\ Validates -> 15
          [] mode = "separate" /\ Validates -> 6
          [] OTHER -> 2

LastResume == CASE mode = "validating" /\ Validates -> 2
                [] mode = "separate" /\ Validates -> 5
                [] OTHER -> 1

\* The weights of whatever generates.
Current == IF Left >= Swap THEN version - 1 ELSE version

Serves(s, v) == weights[s] = v /\ steps[s] = v

\* The weights of a server that is about to receive those of the version.
Receiving(s) ==
    /\ weights[s] \in 0 .. version \cup {Torn}
    /\ weights[s] \in {version, Torn} => s \notin asleep

CoreInv == \A s \in Core :
    /\ s \in Pool
    /\ mode # "colocated" => s \notin asleep
    /\ Left > Swap => Serves(s, version - 1)
    /\ Left = Swap => /\ s \in paused
                      /\ s \in todo => Receiving(s) /\ steps[s] <= version
                      /\ s \notin todo => Serves(s, version) /\ s \notin asleep
    /\ Left < Swap => Serves(s, version) /\ s \notin asleep
    /\ Left = Swap + 1 => s \in paused \/ (s \in todo /\ mode # "colocated")
    /\ Left = Swap + 2 /\ mode = "colocated" => s \in paused \/ s \in todo
    /\ Left = LastResume => s \notin paused \/ s \in todo
    /\ Left < LastResume => s \notin paused

\* The guests of a pool that lends none outside of a validation.
ValidatingInv == mode = "validating" => \A s \in Hybrid :
    /\ s \in Pool <=> Validates /\ Left \in 4 .. 9
    /\ ~Validates \/ Left > 13 => s \notin paused /\ weights[s] \in 0 .. version
    /\ (~Validates /\ Left > 0) \/ Left > 13 => weights[s] # version
    /\ ~Validates \/ Left > 13 \/ Left < 3 => s \in asleep
    /\ Validates =>
         /\ Left = 13 => /\ s \notin paused
                         /\ s \in todo => Receiving(s)
                         /\ s \notin todo => Serves(s, version) /\ s \notin asleep
         /\ Left < 13 => Serves(s, version)
         /\ Left \in 4 .. 12 => s \notin asleep
         /\ Left = 3 => s \in asleep \/ s \in todo
         /\ Left = 1 => s \notin paused \/ s \in todo
         /\ Left = 0 => s \notin paused

\* The guests of a pool that they leave while the trainer trains.
SeparateInv == mode = "separate" => \A s \in Hybrid :
    /\ s \in Pool <=> IF Validates THEN Left \in {10, 1, 0} ELSE Left = 6
    /\ ~Validates =>
         /\ Left \in {5, 6} => Serves(s, version - 1)
         /\ Left = 6 => s \notin asleep
         /\ Left = 5 => s \in paused \/ s \in todo
         /\ Left < 5 => s \in paused /\ weights[s] \in 0 .. version - 1
    /\ Validates =>
         /\ Left \in {9, 10} => Serves(s, version - 1)
         /\ Left = 10 => s \notin asleep
         /\ Left = 9 => s \in paused \/ s \in todo
         /\ Left \in 4 .. 8 => s \in paused
         /\ Left \in 5 .. 8 => weights[s] \in 0 .. version - 1
         /\ Left = 4 => /\ s \in todo => Receiving(s)
                        /\ s \notin todo => Serves(s, version) /\ s \notin asleep
         /\ Left < 4 => Serves(s, version) /\ s \notin asleep
         /\ Left = 3 => s \notin paused \/ s \in todo
         /\ Left < 3 => s \notin paused

-----------------------------------------------------------------------------
(* The calls.                                                              *)

CallInv == \A r \in Requests :
    /\ at[r] = NoServer <=> cpc[r] \in {"idle", "backoff", "done"}
    /\ at[r] # NoServer => releasing[r] = NoServer
    /\ cpc[r] = "held" => at[r] \in paused
    /\ cpc[r] = "running" => at[r] \notin paused \cup asleep
    /\ mode = "validating" /\ Validates /\ Left > 9 /\ at[r] \in Hybrid => cpc[r] = "lost"

\* The tokens of a response that no server has labelled yet are those of the
\* weights that generate now.
LabelInv == \A r \in Requests :
    /\ \A i \in DOMAIN tokens[r] : tokens[r][i] \in 0 .. Current
    /\ minLabel[r] = NoLabel => IF cpc[r] = "running"
                                THEN \A i \in DOMAIN tokens[r] : tokens[r][i] = Current
                                ELSE tokens[r] = <<>> /\ cpc[r] \notin {"backoff", "done"}
    /\ minLabel[r] # NoLabel =>
         /\ minLabel[r] <= Current /\ maxLabel[r] \in 0 .. Current
         /\ \A i \in DOMAIN tokens[r] : minLabel[r] <= tokens[r][i]
         /\ cpc[r] # "running" => \A i \in DOMAIN tokens[r] : tokens[r][i] <= maxLabel[r]

RoomInv == \A r \in Limited :
    /\ cpc[r] = "idle" => tokens[r] = <<>>
    /\ cpc[r] \in {"idle", "sent", "backoff"} => Len(tokens[r]) < CallerLimit
    /\ cpc[r] \in {"held", "running", "lost"} =>
           room[r] > 0 /\ Len(tokens[r]) + room[r] <= CallerLimit
    /\ Len(tokens[r]) <= CallerLimit

CountInv == \A s \in Pool :
    /\ inflight[s] <= Cardinality(Outstanding(s))
    /\ s \notin Guests => inflight[s] = Cardinality(Outstanding(s))

-----------------------------------------------------------------------------
(* Where the trainer's coroutine is.                                       *)

LEMMA Deployment ==
    ASSUME mode \in Modes
    PROVE  /\ mode \in {"standalone", "validating", "separate", "colocated"}
           /\ mode \in {"standalone", "colocated"} => Guests = {} /\ Core = Servers
           /\ mode \in {"validating", "separate"} => Guests = Hybrid /\ Core = Standalone
           /\ Servers = Core \cup Guests /\ Core \cap Guests = {}
<1>1. /\ mode \in {"standalone", "validating", "separate", "colocated"}
      /\ Servers = Standalone \cup Hybrid /\ Standalone \cap Hybrid = {}
  BY RolloutServersAssumption
<1>2. /\ mode \in {"standalone", "colocated"} => Guests = {}
      /\ mode \in {"validating", "separate"} => Guests = Hybrid
  BY DEF Guests, Trainers
<1>3. QED BY <1>1, <1>2 DEF Core

\* What depends on the deployment and the version alone.
LEMMA SameUpdate ==
    ASSUME UNCHANGED <<mode, version>>
    PROVE  /\ Guests' = Guests /\ Core' = Core /\ (Validates <=> Validates')
           /\ Swap' = Swap /\ LastResume' = LastResume /\ Longest' = Longest
           /\ \A n : At(n)' = At(n)
BY DEF Guests, Trainers, Core, Validates, Swap, LastResume, Longest, At

\* The servers of each stage.
LEMMA OnAt ==
    ASSUME mode \in Modes
    PROVE  /\ mode = "standalone" => \A n \in 1 .. 3 : At(n).on = Core
           /\ mode = "colocated" => \A n \in 1 .. 4 : At(n).on = Core
           /\ mode = "validating" /\ ~Validates => \A n \in 1 .. 3 : At(n).on = Core
           /\ mode = "validating" /\ Validates =>
                  /\ \A n \in {16, 15, 14, 12, 9, 6, 2} : At(n).on = Core
                  /\ \A n \in {13, 11, 10, 8, 5, 4, 3, 1} : At(n).on = Hybrid
                  /\ At(7).on = {}
           /\ mode = "separate" /\ ~Validates => /\ \A n \in 1 .. 3 : At(n).on = Core
                                                 /\ \A n \in 4 .. 6 : At(n).on = Hybrid
           /\ mode = "separate" /\ Validates =>
                  /\ \A n \in 5 .. 7 : At(n).on = Core
                  /\ \A n \in {10, 9, 8, 4, 3, 2} : At(n).on = Hybrid
                  /\ At(1).on = {}
<1> USE Deployment DEF Stage
<1>1. CASE mode = "standalone" BY <1>1 DEF At, UpdateAt
<1>2. CASE mode = "colocated" BY <1>2 DEF At, ColocatedAt
<1>3. CASE mode = "validating" /\ ~Validates BY <1>3 DEF At, UpdateAt
<1>4. CASE mode = "validating" /\ Validates
  <2>1. \A n \in {16, 15, 14} : At(n).on = Core BY <1>4 DEF At, UpdateAt
  <2>2. /\ \A n \in {12, 9, 6, 2} : At(n).on = Core
        /\ \A n \in {13, 11, 10, 8, 5, 4, 3, 1} : At(n).on = Hybrid
        /\ At(7).on = {}
    BY <1>4 DEF At, ValidateAt
  <2>3. QED BY <1>4, <2>1, <2>2
<1>5. CASE mode = "separate" /\ ~Validates BY <1>5 DEF At, UpdateAt, TrainerAt
<1>6. CASE mode = "separate" /\ Validates BY <1>6 DEF At, UpdateAt, TrainerAt, RolloutAt
<1>7. QED BY <1>1, <1>2, <1>3, <1>4, <1>5, <1>6

\* The stages of each operation.
LEMMA OpAt ==
    ASSUME mode \in Modes, NEW n \in 1 .. Longest
    PROVE  /\ At(n).op = "abort" =>
                \/ mode = "standalone" /\ n = 3
                \/ mode = "colocated" /\ n = 4
                \/ mode = "validating" /\ IF Validates THEN n \in {16, 12, 11, 6, 5} ELSE n = 3
                \/ mode = "separate" /\ IF Validates THEN n \in {9, 7} ELSE n \in {5, 3}
           /\ At(n).op = "transfer" =>
                \/ mode = "standalone" /\ n = 2
                \/ mode = "colocated" /\ n = 2
                \/ mode = "validating" /\ IF Validates THEN n \in {15, 13} ELSE n = 2
                \/ mode = "separate" /\ IF Validates THEN n \in {6, 4} ELSE n = 2
           /\ At(n).op = "resume" =>
                \/ mode = "standalone" /\ n = 1
                \/ mode = "colocated" /\ n = 1
                \/ mode = "validating" /\ IF Validates THEN n \in {14, 9, 8, 2, 1} ELSE n = 1
                \/ mode = "separate" /\ IF Validates THEN n \in {5, 3} ELSE n = 1
           /\ At(n).op = "sleep" =>
                \/ mode = "colocated" /\ n = 3
                \/ mode = "validating" /\ Validates /\ n = 3
                \/ mode = "separate" /\ IF Validates THEN n = 8 ELSE n = 4
           /\ At(n).op = "add" =>
                \/ mode = "validating" /\ Validates /\ n = 10
                \/ mode = "separate" /\ Validates /\ n = 2
           /\ At(n).op = "remove" =>
                \/ mode = "validating" /\ Validates /\ n = 4
                \/ mode = "separate" /\ IF Validates THEN n = 10 ELSE n = 6
           /\ At(n).op = "validate" =>
                \/ mode = "validating" /\ Validates /\ n = 7
                \/ mode = "separate" /\ Validates /\ n = 1
<1> USE DEF Stage
<1>1. CASE mode = "standalone"
  <2>1. n \in {1, 2, 3} BY <1>1 DEF Longest
  <2>2. QED BY <1>1, <2>1 DEF At, UpdateAt
<1>2. CASE mode = "colocated"
  <2>1. n \in {1, 2, 3, 4} BY <1>2 DEF Longest
  <2>2. QED BY <1>2, <2>1 DEF At, ColocatedAt
<1>3. CASE mode = "validating" /\ ~Validates
  <2>1. n \in {1, 2, 3} BY <1>3 DEF Longest
  <2>2. QED BY <1>3, <2>1 DEF At, UpdateAt
<1>4. CASE mode = "validating" /\ Validates
  <2>1. n \in {1, 2, 3, 4, 5, 6, 7, 8, 9, 10, 11, 12, 13, 14, 15, 16} BY <1>4 DEF Longest
  <2>2. CASE n \in {14, 15, 16} BY <1>4, <2>2 DEF At, UpdateAt
  <2>3. CASE n \notin {14, 15, 16} BY <1>4, <2>1, <2>3 DEF At, ValidateAt
  <2>4. QED BY <2>2, <2>3
<1>5. CASE mode = "separate" /\ ~Validates
  <2>1. n \in {1, 2, 3, 4, 5, 6} BY <1>5 DEF Longest
  <2>2. QED BY <1>5, <2>1 DEF At, UpdateAt, TrainerAt
<1>6. CASE mode = "separate" /\ Validates
  <2>1. n \in {1, 2, 3, 4, 5, 6, 7, 8, 9, 10} BY <1>6 DEF Longest
  <2>2. QED BY <1>6, <2>1 DEF At, UpdateAt, TrainerAt, RolloutAt
<1>7. QED BY <1>1, <1>2, <1>3, <1>4, <1>5, <1>6, Deployment

\* The present stage.
LEMMA Present ==
    ASSUME PlanInv, mode \in Modes
    PROVE  /\ Left \in Nat /\ Longest \in Nat /\ Left <= Longest
           /\ plan = <<>> <=> Left = 0
           /\ plan # <<>> => /\ Left \in 1 .. Longest /\ plan[1] = At(Left)
                             /\ todo \subseteq At(Left).on
           /\ plan = <<>> => todo = {}
<1>1. plan \in Seq([op : Ops, on : SUBSET Servers]) BY DEF PlanInv
<1>2. Left \in Nat /\ (plan = <<>> <=> Left = 0) BY <1>1 DEF Left
<1>3. Longest \in Nat BY Deployment DEF Longest
<1>4. ASSUME plan # <<>>
      PROVE  Left \in 1 .. Longest /\ plan[1] = At(Left) /\ todo \subseteq At(Left).on
  <2>1. Left \in 1 .. Longest /\ Left \in 1 .. Left /\ Left + 1 - Left = 1
    BY <1>2, <1>3, <1>4 DEF PlanInv
  <2>2. plan[Left + 1 - Left] = At(Left) BY <2>1 DEF PlanInv
  <2>3. QED BY <2>1, <2>2 DEF PlanInv
<1>5. QED BY <1>2, <1>3, <1>4 DEF PlanInv

\* The coroutine goes on to the next stage.
LEMMA NextStage ==
    ASSUME PlanInv, mode \in Modes, plan # <<>>, Follow(Tail(plan)), UNCHANGED <<mode, version>>
    PROVE  /\ PlanInv' /\ Left' = Left - 1
           /\ todo' = IF Left' = 0 THEN {} ELSE At(Left').on
<1>1. /\ plan \in Seq([op : Ops, on : SUBSET Servers]) /\ plan # <<>>
      /\ Left \in Nat /\ Longest \in Nat /\ Left <= Longest /\ Left > 0 /\ version > 0
      /\ \A n \in 1 .. Left : plan[Left + 1 - n] = At(n)
  BY Present DEF PlanInv
<1>2. /\ plan' = Tail(plan) /\ plan' \in Seq([op : Ops, on : SUBSET Servers])
      /\ Left' = Left - 1 /\ Left' \in Nat
      /\ \A i \in 1 .. Left' : plan'[i] = plan[i + 1]
      /\ plan' = <<>> <=> Left' = 0
  <2>1. plan' = Tail(plan) /\ plan' \in Seq([op : Ops, on : SUBSET Servers])
    BY <1>1 DEF Follow
  <2>2. Len(plan') = Len(plan) - 1 BY <1>1, <2>1
  <2>3. plan' = <<>> <=> Len(plan') = 0
    <3>1. \A p \in Seq([op : Ops, on : SUBSET Servers]) : p = <<>> <=> Len(p) = 0 OBVIOUS
    <3>2. plan' \in Seq([op : Ops, on : SUBSET Servers]) BY <2>1
    <3>3. QED BY <3>1, <3>2
  <2>4. \A i \in 1 .. Len(plan') : plan'[i] = plan[i + 1] BY <1>1, <2>1
  <2>5. QED BY <1>1, <2>1, <2>2, <2>3, <2>4 DEF Left
<1>3. \A n \in 1 .. Left' : plan'[Left' + 1 - n] = At(n)
  <2> SUFFICES ASSUME NEW n \in 1 .. Left' PROVE plan'[Left' + 1 - n] = At(n)
    OBVIOUS
  <2>1. n \in 1 .. Left /\ Left' + 1 - n \in 1 .. Left' /\ (Left' + 1 - n) + 1 = Left + 1 - n
    BY <1>1, <1>2
  <2>2. plan'[Left' + 1 - n] = plan[Left + 1 - n] BY <1>2, <2>1
  <2>3. QED BY <1>1, <2>1, <2>2
<1>4. Left' <= Longest'
  <2>1. Longest' = Longest BY SameUpdate
  <2>2. QED BY <1>1, <1>2, <2>1
<1>5. \A n : At(n)' = At(n) BY SameUpdate
<1>6. \A n \in 1 .. Left' : plan'[Left' + 1 - n] = At(n)' BY <1>3, <1>5
<1>7. todo' = IF Left' = 0 THEN {} ELSE plan'[1].on BY <1>2 DEF Follow
<1>8. Left' # 0 => plan'[1] = At(Left')
  <2>1. \A n \in Nat \ {0} : n \in 1 .. n /\ n + 1 - n = 1 OBVIOUS
  <2>2. \A n \in Nat \ {0} : n = Left' => plan'[1] = At(n) BY <1>3, <2>1
  <2>3. QED BY <1>2, <2>2
<1>9. PlanInv' BY <1>1, <1>2, <1>4, <1>6, <1>7 DEF PlanInv
<1>10. QED BY <1>2, <1>7, <1>8, <1>9

\* A server is done with the stage.
LEMMA StageEnds ==
    ASSUME PlanInv, mode \in Modes, plan # <<>>, NEW s \in todo, StageDone(s), mode' = mode
    PROVE  /\ PlanInv' /\ version' = version
           /\ \/ Left' = Left /\ todo' = todo \ {s}
              \/ todo = {s} /\ Left' = Left - 1 /\ todo' = IF Left' = 0 THEN {} ELSE At(Left').on
<1>1. version' = version BY DEF StageDone
<1>2. CASE todo = {s}
  <2>1. Follow(Tail(plan)) BY <1>2 DEF StageDone
  <2>2. QED BY <1>1, <1>2, <2>1, NextStage
<1>3. CASE todo # {s}
  <2>1. plan' = plan /\ todo' = todo \ {s} BY <1>3 DEF StageDone
  <2>2. Left' = Left BY <2>1 DEF Left
  <2>3. \A n : At(n)' = At(n) BY <1>1, SameUpdate
  <2>4. Longest' = Longest BY <1>1, SameUpdate
  <2>5. PlanInv' BY <1>1, <2>1, <2>2, <2>3, <2>4 DEF PlanInv
  <2>6. QED BY <1>1, <2>1, <2>2, <2>5
<1>4. QED BY <1>2, <1>3

\* An update begins.
LEMMA Three ==
    ASSUME NEW S, NEW a \in S, NEW b \in S, NEW c \in S
    PROVE  /\ <<a, b, c>> \in Seq(S) /\ Len(<<a, b, c>>) = 3
           /\ <<a, b, c>>[1] = a /\ <<a, b, c>>[2] = b /\ <<a, b, c>>[3] = c
OBVIOUS

LEMMA Appended ==
    ASSUME NEW S, NEW a \in Seq(S), NEW e \in S, Len(a) = 3
    PROVE  /\ Append(a, e) \in Seq(S) /\ Len(Append(a, e)) = 4 /\ Append(a, e)[4] = e
           /\ \A i \in {1, 2, 3} : Append(a, e)[i] = a[i]
OBVIOUS

LEMMA PlansUsed ==
    ASSUME NEW on
    PROVE  /\ UpdatePlan(on) = <<Stage("abort", on), Stage("transfer", on), Stage("resume", on)>>
           /\ ColocatedStep = <<Stage("abort", Servers), Stage("sleep", Servers),
                                Stage("transfer", Servers), Stage("resume", Servers)>>
BY DEF UpdatePlan, ColocatedStep, InOrder

LEMMA StartPlan ==
    ASSUME mode \in Modes, version \in Nat, mode' = mode, version' = version + 1,
           Follow(StepPlan(version'))
    PROVE  /\ PlanInv'
           /\ mode = "standalone" => Left' = 3
           /\ mode = "colocated" => Left' = 4
           /\ mode = "validating" => Left' = IF Validates' THEN 16 ELSE 3
           /\ mode = "separate" => Left' = IF Hybrid \cap Pool = {}
                                           THEN IF Validates' THEN 7 ELSE 3
                                           ELSE IF Validates' THEN 10 ELSE 6
           /\ todo' = IF mode = "separate" /\ Hybrid \cap Pool # {} THEN Hybrid ELSE Core
<1> DEFINE S == [op : Ops, on : SUBSET Servers]
           p == StepPlan(version')
           val == version' % TestFreq = 0
           tr == <<Stage("remove", Hybrid), Stage("abort", Hybrid), Stage("sleep", Hybrid)>>
           up(on) == <<Stage("abort", on), Stage("transfer", on), Stage("resume", on)>>
           ro == Append(SwitchToRollout, Stage("validate", {}))
<1>1. /\ plan' = p /\ (p # <<>> => todo' = p[1].on) /\ version' > 0
      /\ Servers \subseteq Servers /\ Hybrid \subseteq Servers /\ Standalone \subseteq Servers
  BY RolloutServersAssumption DEF Follow
<1>2. (Validates' <=> val) /\ mode' = mode BY DEF Validates
<1>3. \A o \in Ops, on \in SUBSET Servers : Stage(o, on) \in S /\ Stage(o, on).on = on
  BY DEF Stage
<1>4. /\ \A on \in SUBSET Servers : up(on) \in Seq(S) /\ UpdatePlan(on) = up(on)
      /\ tr \in Seq(S) /\ SwitchToTrainer = tr
      /\ ro \in Seq(S) /\ Len(ro) = 4 /\ \A n \in 1 .. 4 : ro[5 - n] = RolloutAt(n)
      /\ ValidatePlan \in Seq(S) /\ Len(ValidatePlan) = 13
  <2> USE <1>1, <1>3 DEF Ops
  <2>1. \A on \in SUBSET Servers : up(on) \in Seq(S) BY DEF Ops
  <2>2. \A on \in SUBSET Servers : UpdatePlan(on) = up(on) BY PlansUsed
  <2>3. tr \in Seq(S) /\ SwitchToTrainer = tr BY DEF SwitchToTrainer
  <2>4. ro \in Seq(S) /\ Len(ro) = 4 /\ \A n \in 1 .. 4 : ro[5 - n] = RolloutAt(n)
    <3>1. /\ SwitchToRollout \in Seq(S) /\ Len(SwitchToRollout) = 3
          /\ SwitchToRollout[1] = Stage("transfer", Hybrid)
          /\ SwitchToRollout[2] = Stage("resume", Hybrid)
          /\ SwitchToRollout[3] = Stage("add", Hybrid)
      <4>1. /\ Stage("transfer", Hybrid) \in S /\ Stage("resume", Hybrid) \in S
            /\ Stage("add", Hybrid) \in S
        BY DEF Ops
      <4> HIDE DEF S
      <4>2. QED BY <4>1, Three DEF SwitchToRollout
    <3>2. Stage("validate", {}) \in S BY DEF Ops
    <3> HIDE DEF S
    <3>3. /\ ro \in Seq(S) /\ Len(ro) = 4 /\ ro[4] = Stage("validate", {})
          /\ \A i \in {1, 2, 3} : ro[i] = SwitchToRollout[i]
      BY <3>1, <3>2, Appended
    <3> HIDE DEF ro
    <3>4. QED BY <3>1, <3>3 DEF RolloutAt
  <2>5. ValidatePlan \in Seq(S) /\ Len(ValidatePlan) = 13 BY DEF ValidatePlan
  <2>6. QED BY <2>1, <2>2, <2>3, <2>4, <2>5
<1>5. ASSUME NEW k \in Nat \ {0}, p \in Seq(S), Len(p) = k, k <= Longest',
             \A n \in 1 .. k : p[k + 1 - n] = At(n)'
      PROVE  PlanInv' /\ Left' = k /\ todo' = p[1].on
  <2>1. Left' = k BY <1>1, <1>5 DEF Left
  <2>2. p # <<>> BY <1>5
  <2>3. plan' = p /\ todo' = p[1].on BY <1>1, <2>2
  <2>4. QED BY <1>1, <1>5, <2>1, <2>3 DEF PlanInv
<1>6. CASE mode = "standalone"
  <2>1. p = up(Servers) BY <1>1, <1>4, <1>6 DEF StepPlan
  <2>2. p \in Seq(S) /\ Len(p) = 3 /\ p[1].on = Servers
    <3>1. up(Servers) \in Seq(S) BY <1>1, <1>4
    <3>2. Len(up(Servers)) = 3 /\ up(Servers)[1].on = Servers BY DEF Stage
    <3> HIDE DEF p, up, S
    <3>3. QED BY <2>1, <3>1, <3>2
  <2>3. Longest' = 3 BY <1>2, <1>6 DEF Longest
  <2>4. \A n \in 1 .. 3 : p[3 + 1 - n] = At(n)'
    BY <1>2, <1>6, <2>1 DEF At, UpdateAt
  <2> HIDE DEF p, S
  <2>5. PlanInv' /\ Left' = 3 /\ todo' = Servers BY <1>5, <2>2, <2>3, <2>4
  <2>6. QED BY <1>6, <2>5, Deployment
<1>7. CASE mode = "colocated"
  <2>1. p = ColocatedStep BY <1>1, <1>4, <1>7 DEF StepPlan
  <2>2. p = <<Stage("abort", Servers), Stage("sleep", Servers),
              Stage("transfer", Servers), Stage("resume", Servers)>>
    BY <2>1, PlansUsed
  <2>3. p \in Seq(S) /\ Len(p) = 4 /\ p[1].on = Servers
    <3>1. /\ Stage("abort", Servers) \in S /\ Stage("sleep", Servers) \in S
          /\ Stage("transfer", Servers) \in S /\ Stage("resume", Servers) \in S
      BY <1>1, <1>3 DEF Ops
    <3>2. Stage("abort", Servers).on = Servers BY DEF Stage
    <3> HIDE DEF p, S
    <3>3. QED BY <2>2, <3>1, <3>2
  <2>4. Longest' = 4 BY <1>2, <1>7 DEF Longest
  <2>5. \A n \in 1 .. 4 : p[4 + 1 - n] = At(n)'
    BY <1>2, <1>7, <2>2 DEF At, ColocatedAt
  <2> HIDE DEF p, S
  <2>6. PlanInv' /\ Left' = 4 /\ todo' = Servers BY <1>5, <2>3, <2>4, <2>5
  <2>7. QED BY <1>7, <2>6, Deployment
<1>8. CASE mode = "validating" /\ ~val
  <2>1. p = up(Standalone)
    <3>1. p = UpdatePlan(Standalone) \o <<>> BY <1>8 DEF StepPlan
    <3>2. up(Standalone) \in Seq(S) /\ UpdatePlan(Standalone) = up(Standalone) BY <1>1, <1>4
    <3>3. QED BY <3>1, <3>2
  <2>2. p \in Seq(S) /\ Len(p) = 3 /\ p[1].on = Standalone
    <3>1. up(Standalone) \in Seq(S) BY <1>1, <1>4
    <3>2. Len(up(Standalone)) = 3 /\ up(Standalone)[1].on = Standalone BY DEF Stage
    <3> HIDE DEF p, up, S
    <3>3. QED BY <2>1, <3>1, <3>2
  <2>3. Longest' = 3 BY <1>2, <1>8 DEF Longest
  <2>4. \A n \in 1 .. 3 : p[3 + 1 - n] = At(n)'
    BY <1>2, <1>8, <2>1 DEF At, UpdateAt
  <2> HIDE DEF p, S
  <2>5. PlanInv' /\ Left' = 3 /\ todo' = Standalone BY <1>5, <2>2, <2>3, <2>4
  <2>6. QED BY <1>2, <1>8, <2>5, Deployment
<1>9. CASE mode = "validating" /\ val
  <2>1. /\ p = up(Standalone) \o ValidatePlan
        /\ up(Standalone) \in Seq(S) /\ ValidatePlan \in Seq(S)
    BY <1>1, <1>4, <1>9 DEF StepPlan
  <2>2. Len(up(Standalone)) = 3 /\ Len(ValidatePlan) = 13 BY <1>4
  <2>3. /\ p \in Seq(S) /\ Len(p) = 16
        /\ \A i \in 1 .. 3 : p[i] = up(Standalone)[i]
        /\ \A i \in 4 .. 16 : p[i] = ValidatePlan[i - 3]
    <3> HIDE DEF p, up, S
    <3>1. /\ p \in Seq(S) /\ Len(p) = 13 + 3
          /\ \A i \in 1 .. 3 : p[i] = up(Standalone)[i]
          /\ \A i \in 4 .. 13 + 3 : p[i] = ValidatePlan[i - 3]
      <4> DEFINE w == up(Standalone)
      <4>1. w \in Seq(S) /\ ValidatePlan \in Seq(S) /\ p = w \o ValidatePlan BY <2>1
      <4>2. Len(w) = 3 /\ Len(ValidatePlan) = 13 BY <2>2
      <4>3. /\ p \in Seq(S) /\ Len(p) = 13 + 3
            /\ \A i \in 1 .. 3 : p[i] = w[i]
            /\ \A i \in 4 .. 13 + 3 : p[i] = ValidatePlan[i - 3]
        <5> HIDE DEF w, tr, ro
        <5>1. p \in Seq(S) BY <4>1
        <5>2. Len(p) = Len(w) + Len(ValidatePlan) BY <4>1, <5>1
        <5>3. \A i \in 1 .. Len(w) : p[i] = w[i] BY <4>1, <5>1
        <5>4. \A i \in Len(w) + 1 .. Len(w) + Len(ValidatePlan) : p[i] = ValidatePlan[i - Len(w)]
          BY <4>1, <5>1
        <5>5. QED BY <4>2, <5>1, <5>2, <5>3, <5>4
      <4>4. QED BY <4>3
    <3>2. QED BY <3>1
  <2>4. Longest' = 16 BY <1>2, <1>9 DEF Longest
  <2>5. ASSUME NEW n \in 1 .. 16 PROVE p[16 + 1 - n] = At(n)'
    <3>1. CASE n \in {14, 15, 16}
      <4>1. p[17 - n] = up(Standalone)[17 - n]
        <5> HIDE DEF p, up
        <5>1. QED BY <2>3, <3>1
      <4>2. up(Standalone)[17 - n] = UpdateAt(n - 13, Standalone) BY <3>1 DEF UpdateAt
      <4>3. At(n)' = UpdateAt(n - 13, Standalone)
        BY <1>2, <1>9, <3>1 DEF At, UpdateAt
      <4> HIDE DEF p, up
      <4>4. QED BY <4>1, <4>2, <4>3
    <3>2. CASE n \in 1 .. 13
      <4>1. p[17 - n] = ValidatePlan[14 - n]
        <5> HIDE DEF p, up
        <5>1. 17 - n \in 4 .. 16 /\ 17 - n - 3 = 14 - n BY <3>2
        <5>2. QED BY <2>3, <5>1
      <4>2. ValidatePlan[14 - n] = ValidateAt(n) BY <3>2 DEF ValidatePlan, ValidateAt
      <4>3. At(n)' = ValidateAt(n) BY <1>2, <1>9, <3>2 DEF At, ValidateAt
      <4> HIDE DEF p
      <4>4. QED BY <4>1, <4>2, <4>3
    <3>3. QED BY <3>1, <3>2
  <2>6. p[1].on = Standalone BY <2>3 DEF Stage
  <2> HIDE DEF p, S
  <2>7. PlanInv' /\ Left' = 16 /\ todo' = Standalone BY <1>5, <2>3, <2>4, <2>5, <2>6
  <2>8. QED BY <1>2, <1>9, <2>7, Deployment
<1>10. CASE mode = "separate"
  <2> DEFINE u == up(Standalone)
             q == u \o (IF val THEN ro ELSE <<>>)
             k == IF val THEN 7 ELSE 3
  <2>1. /\ u \in Seq(S) /\ Len(u) = 3 /\ ro \in Seq(S) /\ Len(ro) = 4
        /\ tr \in Seq(S) /\ Len(tr) = 3
        /\ UpdatePlan(Standalone) = u /\ SwitchToTrainer = tr
    BY <1>1, <1>4
  <2>2. p = (IF Hybrid \cap Pool # {} THEN tr ELSE <<>>) \o q
    <3>1. p = (IF Hybrid \cap Pool # {} THEN SwitchToTrainer ELSE <<>>)
              \o UpdatePlan(Standalone)
              \o IF val THEN Append(SwitchToRollout, Stage("validate", {})) ELSE <<>>
      BY <1>10 DEF StepPlan
    <3> DEFINE a == IF Hybrid \cap Pool # {} THEN tr ELSE <<>>
               b == IF val THEN ro ELSE <<>>
    <3>2. p = (a \o u) \o b BY <2>1, <3>1
    <3>3. <<>> \in Seq(S) OBVIOUS
    <3>4. a \in Seq(S) /\ b \in Seq(S) /\ u \in Seq(S)
      <4> HIDE DEF S, tr, ro, u
      <4>1. QED BY <2>1, <3>3
    <3>5. q = u \o b OBVIOUS
    <3> HIDE DEF S, p, a, b, u, q
    <3>6. p = a \o q BY <3>2, <3>4, <3>5, ConcatAssociative
    <3>7. QED BY <3>6 DEF a
  <2>3. /\ q \in Seq(S) /\ Len(q) = k
        /\ \A i \in 1 .. 3 : q[i] = u[i]
        /\ val => \A i \in 4 .. 7 : q[i] = ro[i - 3]
    <3>0. q = u \o (IF val THEN ro ELSE <<>>) OBVIOUS
    <3> HIDE DEF u, ro, S, q, val
    <3>1. CASE val
      <4>1. q = u \o ro BY <3>0, <3>1
      <4>2. /\ q \in Seq(S) /\ Len(q) = 4 + 3
            /\ \A i \in 1 .. 3 : q[i] = u[i]
            /\ \A i \in 4 .. 4 + 3 : q[i] = ro[i - 3]
        <5>1. u \in Seq(S) /\ ro \in Seq(S) /\ q = u \o ro BY <2>1, <4>1
        <5>2. Len(u) = 3 /\ Len(ro) = 4 BY <2>1
        <5> HIDE DEF p, tr, up, k
        <5>3. q \in Seq(S) BY <5>1
        <5>4. Len(q) = Len(u) + Len(ro) BY <5>1, <5>3
        <5>5. \A i \in 1 .. Len(u) : q[i] = u[i] BY <5>1, <5>3
        <5>6. \A i \in Len(u) + 1 .. Len(u) + Len(ro) : q[i] = ro[i - Len(u)]
          BY <5>1, <5>3
        <5>7. QED BY <5>2, <5>3, <5>4, <5>5, <5>6
      <4>3. QED BY <3>1, <4>2
    <3>2. CASE ~val
      <4>1. q = u BY <2>1, <3>0, <3>2
      <4>2. QED BY <2>1, <3>2, <4>1
    <3>3. QED BY <3>1, <3>2
  <2>4. \A n \in 1 .. k : q[k + 1 - n] = At(n)'
    <3>1. CASE val
      <4>1. \A n \in 1 .. 4 : q[8 - n] = ro[5 - n] BY <2>3, <3>1
      <4>2. \A n \in 1 .. 4 : ro[5 - n] = RolloutAt(n) BY <1>4
      <4>3. \A n \in 5 .. 7 : q[8 - n] = u[8 - n] BY <2>3
      <4>4. \A n \in 5 .. 7 : u[8 - n] = UpdateAt(n - 4, Standalone) BY DEF UpdateAt
      <4>5. \A n \in 1 .. 4 : At(n)' = RolloutAt(n)
        BY <1>2, <1>10, <3>1 DEF At, RolloutAt
      <4>6. \A n \in 5 .. 7 : At(n)' = UpdateAt(n - 4, Standalone)
        BY <1>2, <1>10, <3>1 DEF At, UpdateAt
      <4> HIDE DEF q, u, ro
      <4>7. QED BY <3>1, <4>1, <4>2, <4>3, <4>4, <4>5, <4>6
    <3>2. CASE ~val
      <4>1. \A n \in 1 .. 3 : q[4 - n] = u[4 - n] BY <2>3
      <4>2. \A n \in 1 .. 3 : u[4 - n] = UpdateAt(n, Standalone) BY DEF UpdateAt
      <4>3. \A n \in 1 .. 3 : At(n)' = UpdateAt(n, Standalone)
        BY <1>2, <1>10, <3>2 DEF At, UpdateAt
      <4> HIDE DEF q, u
      <4>4. QED BY <3>2, <4>1, <4>2, <4>3
    <3>3. QED BY <3>1, <3>2
  <2>5. u[1].on = Standalone /\ tr[1].on = Hybrid BY DEF Stage
  <2>6. Longest' = IF val THEN 10 ELSE 6 BY <1>2, <1>10 DEF Longest
  <2>7. CASE Hybrid \cap Pool = {}
    <3>1. p = q
      <4>1. p = <<>> \o q BY <2>2, <2>7
      <4> HIDE DEF q, p, S
      <4>2. QED BY <2>3, <4>1
    <3>2. p[1].on = Standalone BY <2>3, <2>5, <3>1
    <3>3. p \in Seq(S) /\ Len(p) = k /\ \A n \in 1 .. k : p[k + 1 - n] = At(n)'
      BY <2>3, <2>4, <3>1
    <3>4. k \in Nat \ {0} /\ k <= Longest' BY <2>6
    <3>5. PlanInv' /\ Left' = k /\ todo' = p[1].on BY <1>5, <3>3, <3>4
    <3>6. QED BY <1>2, <1>10, <2>7, <3>2, <3>5, Deployment
  <2>8. CASE Hybrid \cap Pool # {}
    <3>1. /\ p \in Seq(S) /\ Len(p) = k + 3
          /\ \A i \in 1 .. 3 : p[i] = tr[i]
          /\ \A i \in 4 .. k + 3 : p[i] = q[i - 3]
      <4>1. p = tr \o q BY <2>2, <2>8
      <4>2. k \in Nat OBVIOUS
      <4> HIDE DEF q, p, S, tr, k
      <4>3. tr \in Seq(S) /\ q \in Seq(S) /\ p = tr \o q BY <2>1, <2>3, <4>1
      <4>4. Len(tr) = 3 /\ Len(q) = k /\ k \in Nat BY <2>1, <2>3, <4>2
      <4>5. p \in Seq(S) BY <4>3
      <4>6. Len(p) = Len(tr) + Len(q) BY <4>3, <4>5
      <4>7. \A i \in 1 .. Len(tr) : p[i] = tr[i] BY <4>3, <4>5
      <4>8. \A i \in Len(tr) + 1 .. Len(tr) + Len(q) : p[i] = q[i - Len(tr)]
        BY <4>3, <4>5
      <4>9. QED BY <4>4, <4>5, <4>6, <4>7, <4>8
    <3>2. ASSUME NEW n \in 1 .. k + 3 PROVE p[k + 3 + 1 - n] = At(n)'
      <4>1. k \in {3, 7} OBVIOUS
      <4>2. CASE n \in 1 .. k
        <5>1. k + 3 + 1 - n \in 4 .. k + 3 /\ k + 3 + 1 - n - 3 = k + 1 - n BY <4>1, <4>2
        <5>2. p[k + 3 + 1 - n] = q[k + 1 - n]
          <6> HIDE DEF p, q, k
          <6>1. QED BY <3>1, <5>1
        <5>3. QED BY <2>4, <4>2, <5>2
      <4>3. CASE n \in k + 1 .. k + 3
        <5>1. n - k \in {1, 2, 3} /\ k + 3 + 1 - n \in 1 .. 3 BY <4>1, <4>3
        <5>2. p[k + 3 + 1 - n] = tr[k + 3 + 1 - n] BY <3>1, <5>1
        <5>3. tr[k + 3 + 1 - n] = TrainerAt(n - k)
          <6>1. \A m \in {1, 2, 3} : tr[4 - m] = TrainerAt(m) BY DEF TrainerAt
          <6>2. k + 3 + 1 - n = 4 - (n - k) BY <4>1
          <6> HIDE DEF tr, k
          <6>3. QED BY <5>1, <6>1, <6>2
        <5>4. At(n)' = TrainerAt(n - k)
          BY <1>2, <1>10, <4>3 DEF At, TrainerAt
        <5>5. QED BY <5>2, <5>3, <5>4
      <4>4. QED BY <3>2, <4>1, <4>2, <4>3
    <3>3. k + 3 \in Nat \ {0} /\ k + 3 <= Longest' BY <2>6
    <3>4. PlanInv' /\ Left' = k + 3 /\ todo' = p[1].on
      <4> HIDE DEF k, p, S
      <4>1. QED BY <1>5, <3>1, <3>2, <3>3
    <3>5. p[1].on = Hybrid BY <2>5, <3>1
    <3>6. QED BY <1>2, <1>10, <2>8, <3>4, <3>5, Deployment
  <2>9. QED BY <2>7, <2>8
<1>11. QED BY <1>6, <1>7, <1>8, <1>9, <1>10, Deployment

LEMMA SamePlan ==
    ASSUME PlanInv, UNCHANGED <<mode, managerVars>>
    PROVE  PlanInv' /\ Left' = Left
<1>1. Left' = Left BY DEF Left, managerVars
<1>2. (\A n : At(n)' = At(n)) /\ Longest' = Longest BY SameUpdate DEF managerVars
<1>3. QED BY <1>1, <1>2 DEF PlanInv, managerVars

LEMMA PlanKept ==
    ASSUME TypeOK, PlanInv, [Next]_vars
    PROVE  PlanInv'
<1> USE DEF TypeOK
<1>1. ASSUME NEW r \in Requests, Client(r) PROVE PlanInv'
  BY <1>1, SamePlan DEF Client, Acquire, Arrive, Generate, DeliverRelease
<1>2. CASE StartUpdate BY <1>2, StartPlan DEF StartUpdate
<1>3. CASE AddReplicas \/ Validate \/ RemoveReplicas
  BY <1>3, NextStage DEF AddReplicas, Validate, RemoveReplicas, Stages
<1>4. ASSUME NEW s \in Servers, Abort(s) \/ Resume(s) \/ Sleep(s) \/ SetGlobalSteps(s)
      PROVE  PlanInv'
  <2>1. plan # <<>> /\ s \in todo /\ StageDone(s) /\ mode' = mode
    BY <1>4 DEF Abort, Resume, Sleep, SetGlobalSteps, Stages
  <2>2. QED BY <2>1, StageEnds
<1>5. ASSUME NEW s \in Servers, BeginTransfer(s) \/ EndTransfer(s) PROVE PlanInv'
  BY <1>5, SamePlan DEF BeginTransfer, EndTransfer
<1>6. CASE Terminated \/ UNCHANGED vars BY <1>6, SamePlan DEF Terminated, vars
<1>7. QED BY <1>1, <1>2, <1>3, <1>4, <1>5, <1>6 DEF Next, Manager

-----------------------------------------------------------------------------
(* The balancer.                                                           *)

LEMMA KeysTouched ==
    ASSUME NEW r \in Requests, recent \in Seq(Requests), Len(recent) <= CacheSize
    PROVE  /\ Touch(r) \in Seq(Requests) /\ Len(Touch(r)) <= CacheSize
           /\ Keys(Touch(r)) \subseteq Keys(recent) \cup {r}
<1> DEFINE o == Others(r)
           t == IF Len(o) = CacheSize THEN Tail(o) ELSE o
<1>1. CacheSize \in Nat \ {0} BY BalancerAssumption
<1>2. o \in Seq(Requests) /\ Len(o) <= CacheSize /\ Keys(o) \subseteq Keys(recent)
  <2>1. CASE r \in Keys(recent)
    <3> DEFINE i == CHOOSE i \in DOMAIN recent : recent[i] = r
               a == SubSeq(recent, 1, i - 1)
               b == SubSeq(recent, i + 1, Len(recent))
               c == a \o b
    <3>1. i \in DOMAIN recent BY <2>1 DEF Keys
    <3> HIDE DEF i
    <3>2. i \in 1 .. Len(recent) /\ Len(recent) \in Nat BY <3>1
    <3>3. /\ a \in Seq(Requests) /\ Len(a) = i - 1
          /\ \A j \in 1 .. i - 1 : a[j] = recent[j]
      BY <3>2
    <3>4. /\ b \in Seq(Requests) /\ Len(b) = Len(recent) - i
          /\ \A j \in 1 .. Len(recent) - i : b[j] = recent[j + i]
      BY <3>2
    <3>5. a \in Seq(Requests) /\ b \in Seq(Requests) BY <3>3, <3>4
    <3>6. o = c BY <2>1 DEF Others, i
    <3> HIDE DEF a, b
    <3>7. /\ c \in Seq(Requests) /\ Len(c) = Len(a) + Len(b)
          /\ \A j \in 1 .. Len(a) : c[j] = a[j]
          /\ \A j \in Len(a) + 1 .. Len(a) + Len(b) : c[j] = b[j - Len(a)]
      BY <3>5
    <3> HIDE DEF o, c
    <3>8. Len(c) = Len(recent) - 1 BY <3>2, <3>3, <3>4, <3>7
    <3>9. Keys(c) \subseteq Keys(recent)
      <4> SUFFICES ASSUME NEW j \in DOMAIN c PROVE c[j] \in Keys(recent)
        BY DEF Keys
      <4>1. j \in 1 .. Len(recent) - 1 BY <3>7, <3>8
      <4>2. CASE j <= i - 1
        <5>1. c[j] = recent[j] BY <3>2, <3>3, <3>7, <4>1, <4>2
        <5>2. j \in DOMAIN recent BY <3>2, <4>1
        <5>3. QED BY <5>1, <5>2 DEF Keys
      <4>3. CASE j >= i
        <5>1. c[j] = b[j - (i - 1)] BY <3>2, <3>3, <3>4, <3>7, <4>1, <4>3
        <5>2. j - (i - 1) \in 1 .. Len(recent) - i /\ j - (i - 1) + i = j + 1 BY <3>2, <4>1, <4>3
        <5>3. c[j] = recent[j + 1] BY <3>4, <5>1, <5>2
        <5>4. j + 1 \in DOMAIN recent BY <3>2, <4>1
        <5>5. QED BY <5>3, <5>4 DEF Keys
      <4>4. QED BY <3>2, <4>1, <4>2, <4>3
    <3>10. QED BY <3>2, <3>6, <3>7, <3>8, <3>9, <1>1
  <2>2. CASE r \notin Keys(recent) BY <2>2 DEF Others
  <2>3. QED BY <2>1, <2>2
<1> HIDE DEF o
<1>3. t \in Seq(Requests) /\ Len(t) < CacheSize /\ Keys(t) \subseteq Keys(o)
  <2>1. CASE Len(o) = CacheSize
    <3>1. o \in Seq(Requests) /\ o # <<>> BY <1>1, <1>2, <2>1
    <3> DEFINE u == Tail(o)
    <3>2. u \in Seq(Requests) /\ Len(u) = Len(o) - 1 BY <3>1
    <3>3. \A i \in 1 .. Len(o) - 1 : u[i] = o[i + 1] BY <3>1
    <3>4. t = u BY <2>1
    <3> HIDE DEF u, t
    <3>5. Keys(u) \subseteq Keys(o)
      <4> SUFFICES ASSUME NEW i \in DOMAIN u PROVE u[i] \in Keys(o)
        BY DEF Keys
      <4>1. i \in 1 .. Len(o) - 1 /\ i + 1 \in DOMAIN o BY <3>1, <3>2
      <4>2. QED BY <3>3, <4>1 DEF Keys
    <3>6. QED BY <1>1, <2>1, <3>2, <3>4, <3>5
  <2>2. CASE Len(o) # CacheSize
    <3>1. t = o BY <2>2
    <3>2. QED BY <1>1, <1>2, <2>2, <3>1
  <2>3. QED BY <2>1, <2>2
<1>4. Touch(r) = Append(t, r) BY DEF Touch, o
<1> HIDE DEF t
<1>5. /\ Append(t, r) \in Seq(Requests) /\ Len(Append(t, r)) = Len(t) + 1
      /\ Append(t, r)[Len(t) + 1] = r
      /\ \A i \in 1 .. Len(t) : Append(t, r)[i] = t[i]
  BY <1>3
<1> DEFINE v == Append(t, r)
<1>6. Keys(v) \subseteq Keys(t) \cup {r}
  <2>1. /\ v \in Seq(Requests) /\ Len(v) = Len(t) + 1 /\ v[Len(t) + 1] = r
        /\ \A i \in 1 .. Len(t) : v[i] = t[i] /\ t \in Seq(Requests)
    BY <1>3, <1>5
  <2> HIDE DEF v
  <2> SUFFICES ASSUME NEW i \in DOMAIN v PROVE v[i] \in Keys(t) \cup {r}
    BY DEF Keys
  <2>2. i \in 1 .. Len(t) + 1 /\ Len(t) \in Nat /\ DOMAIN t = 1 .. Len(t) BY <1>3, <2>1
  <2>3. CASE i = Len(t) + 1 BY <2>1, <2>3
  <2>4. CASE i \in 1 .. Len(t) BY <2>1, <2>2, <2>4 DEF Keys
  <2>5. QED BY <2>2, <2>3, <2>4
<1>7. QED BY <1>1, <1>2, <1>3, <1>4, <1>5, <1>6

LEMMA AcquireTypes ==
    ASSUME BalancerTypeOK, NEW r \in Requests, NEW s \in Servers, AcquireServer(r, s)
    PROVE  /\ BalancerTypeOK' /\ Pool' = Pool
           /\ \A t \in Pool : inflight'[t] = IF t = s THEN inflight[t] + 1 ELSE inflight[t]
           /\ s \in Pool
<1> USE DEF BalancerTypeOK
<1>1. s \in Pool
  <2>1. CASE r \in DOMAIN sticky /\ sticky[r] \in Pool BY <2>1 DEF AcquireServer, Route
  <2>2. CASE ~(r \in DOMAIN sticky /\ sticky[r] \in Pool)
    BY <2>2 DEF AcquireServer, Route, LeastLoaded
  <2>3. QED BY <2>1, <2>2
<1>2. inflight' = [inflight EXCEPT ![s] = @ + 1] /\ inflight \in [Pool -> Nat]
  BY DEF AcquireServer
<1>3. Pool' = Pool BY <1>2 DEF Pool
<1>4. \A t \in Pool : inflight'[t] = IF t = s THEN inflight[t] + 1 ELSE inflight[t]
  BY <1>1, <1>2
<1>5. inflight' \in [Pool -> Nat] BY <1>1, <1>2
<1>6. /\ recent' \in Seq(Requests) /\ Len(recent') <= CacheSize
      /\ Keys(recent') \subseteq Keys(recent) \cup {r}
  BY KeysTouched DEF AcquireServer
<1>7. sticky' \in [Keys(recent') -> Servers]
  <2>1. sticky' = [k \in Keys(recent') |-> IF k = r THEN s ELSE sticky[k]] BY DEF AcquireServer
  <2>2. \A k \in Keys(recent') : (IF k = r THEN s ELSE sticky[k]) \in Servers
    BY <1>6
  <2>3. QED BY <2>1, <2>2
<1>8. QED BY <1>1, <1>3, <1>4, <1>5, <1>6, <1>7

LEMMA ReleaseTypes ==
    ASSUME BalancerTypeOK, NEW s, ReleaseServer(s)
    PROVE  /\ BalancerTypeOK' /\ Pool' = Pool
           /\ \A t \in Pool : inflight'[t] = IF t = s /\ inflight[t] > 0
                                             THEN inflight[t] - 1 ELSE inflight[t]
<1> USE DEF BalancerTypeOK
<1>1. CASE s \in Pool /\ inflight[s] > 0
  <2>1. inflight' = [inflight EXCEPT ![s] = @ - 1] /\ inflight \in [Pool -> Nat]
    BY <1>1 DEF ReleaseServer
  <2>2. Pool' = Pool BY <2>1 DEF Pool
  <2>3. inflight[s] - 1 \in Nat BY <1>1, <2>1
  <2>4. inflight' \in [Pool -> Nat] BY <1>1, <2>1, <2>3
  <2>5. \A t \in Pool : inflight'[t] = IF t = s THEN inflight[t] - 1 ELSE inflight[t]
    BY <2>1
  <2>6. QED BY <1>1, <2>2, <2>4, <2>5 DEF ReleaseServer
<1>2. CASE ~(s \in Pool /\ inflight[s] > 0)
  <2>1. inflight' = inflight BY <1>2 DEF ReleaseServer
  <2>2. Pool' = Pool BY <2>1 DEF Pool
  <2>3. QED BY <1>2, <2>1, <2>2 DEF ReleaseServer
<1>3. QED BY <1>1, <1>2

LEMMA AddTypes ==
    ASSUME BalancerTypeOK, NEW added \in SUBSET Servers, AddServers(added)
    PROVE  /\ BalancerTypeOK' /\ Pool' = Pool \cup added
           /\ \A t \in Pool' : inflight'[t] = IF t \in added THEN 0 ELSE inflight[t]
<1> USE DEF BalancerTypeOK
<1>1. inflight' = [t \in Pool \cup added |-> IF t \in added THEN 0 ELSE inflight[t]]
  BY DEF AddServers
<1>2. Pool' = Pool \cup added BY <1>1 DEF Pool
<1>3. \A t \in Pool' : inflight'[t] = IF t \in added THEN 0 ELSE inflight[t]
  BY <1>1, <1>2
<1>4. \A t \in Pool \cup added : (IF t \in added THEN 0 ELSE inflight[t]) \in Nat
  OBVIOUS
<1>5. inflight' \in [Pool \cup added -> Nat] BY <1>1, <1>4
<1>6. QED BY <1>2, <1>3, <1>5 DEF AddServers

LEMMA RemoveTypes ==
    ASSUME BalancerTypeOK, NEW removed, RemoveServers(removed)
    PROVE  /\ BalancerTypeOK' /\ Pool' = Pool \ removed
           /\ \A t \in Pool' : inflight'[t] = inflight[t]
<1> USE DEF BalancerTypeOK
<1>1. inflight' = [t \in Pool \ removed |-> inflight[t]] BY DEF RemoveServers
<1>2. Pool' = Pool \ removed BY <1>1 DEF Pool
<1>3. \A t \in Pool' : inflight'[t] = inflight[t] BY <1>1, <1>2
<1>4. inflight' \in [Pool \ removed -> Nat] BY <1>1
<1>5. QED BY <1>2, <1>3, <1>4 DEF RemoveServers

LEMMA SameBalancer ==
    ASSUME UNCHANGED balancerVars
    PROVE  Pool' = Pool /\ inflight' = inflight /\ (BalancerTypeOK => BalancerTypeOK')
BY DEF balancerVars, Pool, Keys, BalancerTypeOK

-----------------------------------------------------------------------------
(* Types.                                                                  *)

LEMMA AnswerTypes ==
    ASSUME TypeOK, NEW rs \in SUBSET Requests, NEW response \in [Requests -> Seq(Nat \cup {Torn})],
           NEW aborted, AnswerWith(rs, response, aborted),
           \A r \in rs : at[r] \in Servers
    PROVE  /\ cpc' \in [Requests -> {"idle", "sent", "held", "running", "lost", "backoff",
                              "done"}]
           /\ at' \in [Requests -> Servers \cup {NoServer}]
           /\ releasing' \in [Requests -> Servers \cup {NoServer}]
           /\ tokens' \in [Requests -> Seq(Nat \cup {Torn})]
           /\ room' \in [Requests -> Nat]
           /\ minLabel' \in [Requests -> Nat \cup {NoLabel}]
           /\ maxLabel' \in [Requests -> Nat \cup {NoLabel}]
<1> USE DEF TypeOK, AnswerWith
<1>1. tokens' \in [Requests -> Seq(Nat \cup {Torn})] OBVIOUS
<1>2. cpc' \in [Requests -> {"idle", "sent", "held", "running", "lost", "backoff", "done"}]
  OBVIOUS
<1>3. /\ at' \in [Requests -> Servers \cup {NoServer}]
      /\ releasing' \in [Requests -> Servers \cup {NoServer}]
      /\ room' \in [Requests -> Nat]
  OBVIOUS
<1>4. \A r \in rs : steps[at[r]] \in Nat OBVIOUS
<1>5. /\ minLabel' \in [Requests -> Nat \cup {NoLabel}]
      /\ maxLabel' \in [Requests -> Nat \cup {NoLabel}]
  BY <1>4
<1>6. QED BY <1>1, <1>2, <1>3, <1>5

LEMMA PlanTypes ==
    ASSUME NEW p \in Seq([op : Ops, on : SUBSET Servers]), p # <<>>
    PROVE  p[1].on \in SUBSET Servers
<1> DEFINE S == [op : Ops, on : SUBSET Servers]
<1>1. p[1] \in S
  <2>1. p \in Seq(S) OBVIOUS
  <2> HIDE DEF S
  <2>2. QED BY <2>1
<1>2. QED BY <1>1

\* The longest answer a call may still have.
LEMMA MaxTokensBounds ==
    ASSUME NEW r \in Requests, tokens[r] \in Seq(Nat \cup {Torn})
    PROVE  /\ MaxTokens(r) \in Nat \ {0}
           /\ r \in Limited /\ Len(tokens[r]) < CallerLimit =>
                  Len(tokens[r]) + MaxTokens(r) <= CallerLimit
<1> DEFINE n == Len(tokens[r])
<1>1. n \in Nat OBVIOUS
<1>2. /\ PromptLength \in Nat /\ ResponseLength \in Nat /\ MaxModelLen \in Nat
      /\ PromptTokens \in Nat /\ CallerLimit \in Nat
  BY LengthAssumption
<1> HIDE DEF n
<1> DEFINE used == PromptTokens + n
           asked == IF r \in Limited THEN CallerLimit - n
                    ELSE Smaller(ResponseLength, PromptLength + ResponseLength - used)
           m == Larger(1, Smaller(asked, MaxModelLen - used))
<1>3. asked \in Int /\ used \in Int BY <1>1, <1>2 DEF Smaller
<1>4. m \in Nat \ {0} /\ (asked >= 1 => m <= asked)
  <2> HIDE DEF asked, used
  <2>1. QED BY <1>2, <1>3 DEF Larger, Smaller
<1>5. MaxTokens(r) = m BY DEF MaxTokens, n
<1>6. r \in Limited /\ n < CallerLimit => asked >= 1 /\ n + asked = CallerLimit BY <1>1, <1>2
<1> HIDE DEF m, asked
<1>7. r \in Limited /\ n < CallerLimit => n + m <= CallerLimit BY <1>1, <1>2, <1>3, <1>4, <1>6
<1>8. QED BY <1>4, <1>5, <1>7 DEF n

LEMMA TypesKept ==
    ASSUME TypeOK, PlanInv, CallInv, [Next]_vars
    PROVE  TypeOK'
<1>1. PlanInv' /\ plan' \in Seq([op : Ops, on : SUBSET Servers]) /\ todo' \subseteq Servers
  <2>1. PlanInv' BY PlanKept
  <2>2. plan' \in Seq([op : Ops, on : SUBSET Servers]) BY <2>1 DEF PlanInv
  <2>3. CASE plan' = <<>> BY <2>1, <2>3 DEF PlanInv, Left
  <2>4. CASE plan' # <<>>
    <3>1. plan'[1].on \in SUBSET Servers BY <2>2, <2>4, PlanTypes
    <3>2. QED BY <2>1, <2>2, <3>1 DEF PlanInv
  <2>5. QED BY <2>3, <2>4
<1>2. version \in Nat /\ version \in 0 .. MaxVersion /\ MaxVersion \in Nat
  BY RolloutServersAssumption DEF TypeOK
<1>3. ASSUME NEW r \in Requests, Acquire(r) PROVE TypeOK'
  <2>1. PICK s \in Servers : AcquireServer(r, s) /\ at' = [at EXCEPT ![r] = s]
    BY <1>3 DEF Acquire
  <2>2. BalancerTypeOK' BY <2>1, AcquireTypes DEF TypeOK
  <2>3. at' \in [Requests -> Servers \cup {NoServer}] BY <2>1 DEF TypeOK
  <2>4. cpc' \in [Requests -> {"idle", "sent", "held", "running", "lost", "backoff", "done"}]
    BY <1>3 DEF Acquire, TypeOK
  <2>5. UNCHANGED <<mode, releasing, tokens, room, minLabel, maxLabel, engineVars, managerVars>>
    BY <1>3 DEF Acquire
  <2>6. QED BY <2>2, <2>3, <2>4, <2>5 DEF TypeOK, engineVars, managerVars
<1>4. ASSUME NEW r \in Requests, Arrive(r) PROVE TypeOK'
  <2>1. MaxTokens(r) \in Nat BY MaxTokensBounds DEF TypeOK
  <2>2. room' \in [Requests -> Nat] BY <1>4, <2>1 DEF Arrive, TypeOK
  <2>3. cpc' \in [Requests -> {"idle", "sent", "held", "running", "lost", "backoff", "done"}]
    BY <1>4 DEF Arrive, TypeOK, Started
  <2>4. /\ BalancerTypeOK'
        /\ UNCHANGED <<mode, at, releasing, tokens, minLabel, maxLabel, engineVars, managerVars>>
    BY <1>4, SameBalancer DEF Arrive, TypeOK
  <2>5. QED BY <2>2, <2>3, <2>4 DEF TypeOK, engineVars, managerVars
<1>5. ASSUME NEW r \in Requests, Generate(r) PROVE TypeOK'
  <2> DEFINE longer == [tokens EXCEPT ![r] = Append(@, weights[at[r]])]
  <2>1. at[r] \in Servers /\ weights[at[r]] \in Nat \cup {Torn}
    BY <1>5 DEF Generate, CallInv, TypeOK
  <2>2. longer \in [Requests -> Seq(Nat \cup {Torn})] BY <2>1 DEF TypeOK
  <2>3. BalancerTypeOK' /\ UNCHANGED <<mode, engineVars, managerVars>>
    BY <1>5, SameBalancer DEF Generate, TypeOK
  <2>4. CASE AnswerWith({r}, longer, FALSE)
    <3> HIDE DEF longer
    <3>1. {r} \in SUBSET Requests /\ \A q \in {r} : at[q] \in Servers BY <2>1
    <3>2. /\ cpc' \in [Requests -> {"idle", "sent", "held", "running", "lost", "backoff",
                                    "done"}]
          /\ at' \in [Requests -> Servers \cup {NoServer}]
          /\ releasing' \in [Requests -> Servers \cup {NoServer}]
          /\ tokens' \in [Requests -> Seq(Nat \cup {Torn})]
          /\ room' \in [Requests -> Nat]
          /\ minLabel' \in [Requests -> Nat \cup {NoLabel}]
          /\ maxLabel' \in [Requests -> Nat \cup {NoLabel}]
      BY <2>2, <2>4, <3>1, AnswerTypes
    <3>3. QED BY <2>3, <3>2 DEF TypeOK, engineVars, managerVars
  <2>5. CASE /\ room[r] > 1 /\ room' = [room EXCEPT ![r] = @ - 1] /\ tokens' = longer
             /\ UNCHANGED <<cpc, at, releasing, minLabel, maxLabel>>
    <3>1. tokens' \in [Requests -> Seq(Nat \cup {Torn})] BY <2>2, <2>5
    <3> HIDE DEF longer
    <3>2. room' \in [Requests -> Nat] BY <2>5 DEF TypeOK
    <3>3. QED BY <2>3, <2>5, <3>1, <3>2 DEF TypeOK, engineVars, managerVars
  <2>6. QED BY <1>5, <2>4, <2>5 DEF Generate
<1>6. ASSUME NEW r \in Requests, DeliverRelease(r) PROVE TypeOK'
  <2>1. BalancerTypeOK' BY <1>6, ReleaseTypes DEF DeliverRelease, TypeOK
  <2>2. releasing' \in [Requests -> Servers \cup {NoServer}] BY <1>6 DEF DeliverRelease, TypeOK
  <2>3. UNCHANGED <<mode, cpc, at, tokens, room, minLabel, maxLabel, engineVars, managerVars>>
    BY <1>6 DEF DeliverRelease
  <2>4. QED BY <2>1, <2>2, <2>3 DEF TypeOK, engineVars, managerVars
<1>7. CASE StartUpdate
  <2>1. version' \in 0 .. MaxVersion BY <1>2, <1>7 DEF StartUpdate
  <2>2. BalancerTypeOK' /\ UNCHANGED <<mode, clientVars, engineVars>>
    BY <1>7, SameBalancer DEF StartUpdate, TypeOK
  <2>3. QED BY <1>1, <2>1, <2>2 DEF TypeOK, clientVars, engineVars
<1>8. CASE AddReplicas
  <2>1. plan[1].on \in SUBSET Servers
    <3>1. plan # <<>> BY <1>8 DEF AddReplicas, Stages
    <3>2. QED BY <3>1, PlanTypes DEF TypeOK
  <2>2. BalancerTypeOK' BY <1>8, <2>1, AddTypes DEF AddReplicas, TypeOK
  <2>3. UNCHANGED <<mode, clientVars, engineVars, version>> BY <1>8 DEF AddReplicas
  <2>4. QED BY <1>1, <2>2, <2>3 DEF TypeOK, clientVars, engineVars
<1>9. CASE RemoveReplicas
  <2>1. BalancerTypeOK' BY <1>9, RemoveTypes DEF RemoveReplicas, TypeOK
  <2>2. UNCHANGED <<mode, clientVars, engineVars, version>> BY <1>9 DEF RemoveReplicas
  <2>3. QED BY <1>1, <2>1, <2>2 DEF TypeOK, clientVars, engineVars
<1>10. CASE Validate
  <2>1. BalancerTypeOK' /\ UNCHANGED <<mode, clientVars, engineVars, version>>
    BY <1>10, SameBalancer DEF Validate, TypeOK
  <2>2. QED BY <1>1, <2>1 DEF TypeOK, clientVars, engineVars
<1>11. ASSUME NEW s \in Servers, Abort(s) PROVE TypeOK'
  <2> DEFINE rs == {r \in Requests : cpc[r] = "running" /\ at[r] = s}
  <2>1. AnswerWith(rs, tokens, TRUE) BY <1>11 DEF Abort
  <2>2. rs \in SUBSET Requests /\ \A r \in rs : at[r] \in Servers OBVIOUS
  <2>3. tokens \in [Requests -> Seq(Nat \cup {Torn})] BY DEF TypeOK
  <2> HIDE DEF rs
  <2>4. /\ cpc' \in [Requests -> {"idle", "sent", "held", "running", "lost", "backoff",
                                  "done"}]
        /\ at' \in [Requests -> Servers \cup {NoServer}]
        /\ releasing' \in [Requests -> Servers \cup {NoServer}]
        /\ tokens' \in [Requests -> Seq(Nat \cup {Torn})]
        /\ room' \in [Requests -> Nat]
        /\ minLabel' \in [Requests -> Nat \cup {NoLabel}]
        /\ maxLabel' \in [Requests -> Nat \cup {NoLabel}]
    BY <2>1, <2>2, <2>3, AnswerTypes
  <2>5. paused' \subseteq Servers BY <1>11 DEF Abort, TypeOK
  <2>6. BalancerTypeOK' /\ UNCHANGED <<mode, asleep, weights, steps, version>>
    BY <1>11, SameBalancer DEF Abort, TypeOK, StageDone
  <2>7. QED BY <1>1, <2>4, <2>5, <2>6 DEF TypeOK
<1>12. ASSUME NEW s \in Servers, BeginTransfer(s) \/ EndTransfer(s) PROVE TypeOK'
  <2>1. weights' \in [Servers -> Nat \cup {Torn}] /\ asleep' \subseteq Servers
    BY <1>2, <1>12 DEF BeginTransfer, EndTransfer, TypeOK
  <2>2. BalancerTypeOK' /\ UNCHANGED <<mode, clientVars, paused, steps, managerVars>>
    BY <1>12, SameBalancer DEF BeginTransfer, EndTransfer, TypeOK
  <2>3. QED BY <1>1, <2>1, <2>2 DEF TypeOK, clientVars, managerVars
<1>13. ASSUME NEW s \in Servers, SetGlobalSteps(s) PROVE TypeOK'
  <2>1. steps' \in [Servers -> Nat] BY <1>2, <1>13 DEF SetGlobalSteps, TypeOK
  <2>2. BalancerTypeOK' /\ UNCHANGED <<mode, clientVars, paused, asleep, weights, version>>
    BY <1>13, SameBalancer DEF SetGlobalSteps, TypeOK, StageDone
  <2>3. QED BY <1>1, <2>1, <2>2 DEF TypeOK, clientVars
<1>14. ASSUME NEW s \in Servers, Resume(s) PROVE TypeOK'
  <2>1. cpc' \in [Requests -> {"idle", "sent", "held", "running", "lost", "backoff", "done"}]
    BY <1>14 DEF Resume, TypeOK, Started
  <2>2. paused' \subseteq Servers BY <1>14 DEF Resume, TypeOK
  <2>3. /\ BalancerTypeOK'
        /\ UNCHANGED <<mode, at, releasing, tokens, room, minLabel, maxLabel, asleep, weights,
                       steps, version>>
    BY <1>14, SameBalancer DEF Resume, TypeOK, StageDone
  <2>4. QED BY <1>1, <2>1, <2>2, <2>3 DEF TypeOK
<1>15. ASSUME NEW s \in Servers, Sleep(s) PROVE TypeOK'
  <2>1. asleep' \subseteq Servers BY <1>15 DEF Sleep, TypeOK
  <2>2. BalancerTypeOK' /\ UNCHANGED <<mode, clientVars, paused, weights, steps, version>>
    BY <1>15, SameBalancer DEF Sleep, TypeOK, StageDone
  <2>3. QED BY <1>1, <2>1, <2>2 DEF TypeOK, clientVars
<1>16. CASE Terminated \/ UNCHANGED vars
  <2>1. UNCHANGED vars BY <1>16 DEF Terminated
  <2>2. BalancerTypeOK' BY <2>1, SameBalancer DEF vars, TypeOK
  <2>3. QED BY <2>1, <2>2 DEF vars, TypeOK, clientVars, engineVars, managerVars
<1>17. QED
  BY <1>3, <1>4, <1>5, <1>6, <1>7, <1>8, <1>9, <1>10, <1>11, <1>12, <1>13, <1>14, <1>15, <1>16
  DEF Next, Client, Manager

-----------------------------------------------------------------------------
(* The servers.                                                            *)

LEMMA SameServers ==
    ASSUME CoreInv, ValidatingInv, SeparateInv, Pool' = Pool,
           UNCHANGED <<mode, engineVars, managerVars>>
    PROVE  CoreInv' /\ ValidatingInv' /\ SeparateInv'
<1>1. /\ Left' = Left /\ Swap' = Swap /\ LastResume' = LastResume
      /\ Core' = Core /\ (Validates <=> Validates')
  BY SameUpdate DEF Left, managerVars
<1>2. UNCHANGED <<mode, paused, asleep, weights, steps, version, todo>>
  BY DEF engineVars, managerVars
<1>3. CoreInv' BY <1>1, <1>2 DEF CoreInv, Serves, Receiving
<1>4. ValidatingInv' BY <1>1, <1>2 DEF ValidatingInv, Serves, Receiving
<1>5. SeparateInv' BY <1>1, <1>2 DEF SeparateInv, Serves, Receiving
<1>6. QED BY <1>3, <1>4, <1>5

LEMMA StartServers ==
    ASSUME TypeOK, PlanInv, CoreInv, ValidatingInv, SeparateInv, StartUpdate
    PROVE  CoreInv' /\ ValidatingInv' /\ SeparateInv'
<1>1. /\ mode \in Modes /\ version \in Nat /\ version' = version + 1 /\ mode' = mode
      /\ UNCHANGED <<paused, asleep, weights, steps>> /\ Pool' = Pool /\ Left = 0
      /\ Servers = Core \cup Guests /\ Core' = Core
      /\ mode \in {"standalone", "validating", "separate", "colocated"}
      /\ mode \in {"validating", "separate"} => Core = Standalone
  <2>1. UNCHANGED <<mode, balancerVars, engineVars>> /\ version' = version + 1 /\ plan = <<>>
    BY DEF StartUpdate
  <2>2. Core' = Core BY <2>1 DEF Core, Guests, Trainers
  <2>3. QED BY <2>1, <2>2, SameBalancer, Present, Deployment DEF TypeOK, engineVars
<1>2. /\ mode = "standalone" => Left' = 3
      /\ mode = "colocated" => Left' = 4
      /\ mode = "validating" => Left' = IF Validates' THEN 16 ELSE 3
      /\ mode = "separate" => Left' = IF Hybrid \cap Pool = {}
                                      THEN IF Validates' THEN 7 ELSE 3
                                      ELSE IF Validates' THEN 10 ELSE 6
      /\ todo' = IF mode = "separate" /\ Hybrid \cap Pool # {} THEN Hybrid ELSE Core
  BY <1>1, StartPlan DEF StartUpdate
<1>3. CoreInv'
  <2> SUFFICES ASSUME NEW s \in Core
               PROVE  /\ s \in Pool'
                      /\ mode' # "colocated" => s \notin asleep'
                      /\ weights'[s] = version' - 1 /\ steps'[s] = version' - 1
                      /\ Left' > Swap'
                      /\ Left' = Swap' + 1 => s \in todo' /\ mode' # "colocated"
                      /\ Left' = Swap' + 2 /\ mode' = "colocated" => s \in todo'
                      /\ Left' > LastResume'
    BY <1>1, <1>2 DEF CoreInv, Swap, LastResume, Serves
  <2>1. /\ s \in Pool /\ Serves(s, version) /\ s \notin asleep
    BY <1>1 DEF CoreInv, Swap, LastResume
  <2>2. weights'[s] = version' - 1 /\ steps'[s] = version' - 1 BY <1>1, <2>1 DEF Serves
  <2>3. QED BY <1>1, <1>2, <2>1, <2>2 DEF Swap, LastResume
<1>4. ValidatingInv'
  <2> SUFFICES ASSUME mode = "validating", NEW s \in Hybrid
               PROVE  /\ s \notin Pool /\ s \notin paused /\ s \in asleep
                      /\ weights[s] \in 0 .. version
    BY <1>1, <1>2 DEF ValidatingInv
  <2>1. QED BY <1>1 DEF ValidatingInv, Serves
<1>5. SeparateInv'
  <2> SUFFICES ASSUME mode = "separate" PROVE SeparateInv'
    BY <1>1 DEF SeparateInv
  <2>1. CASE Hybrid \cap Pool = {}
    <3>1. \A s \in Hybrid : s \notin Pool /\ s \in paused /\ weights[s] \in 0 .. version
      BY <1>1, <2>1 DEF SeparateInv
    <3>2. QED BY <1>1, <1>2, <2>1, <3>1 DEF SeparateInv
  <2>2. CASE Hybrid \cap Pool # {}
    <3>1. Validates BY <1>1, <2>2 DEF SeparateInv
    <3>2. \A s \in Hybrid : s \in Pool /\ Serves(s, version) /\ s \notin asleep
      BY <1>1, <3>1 DEF SeparateInv
    <3>3. \A s \in Hybrid : weights'[s] = version' - 1 /\ steps'[s] = version' - 1
      BY <1>1, <3>2 DEF Serves
    <3>4. QED BY <1>1, <1>2, <2>2, <3>2, <3>3 DEF SeparateInv, Serves
  <2>3. QED BY <2>1, <2>2
<1>6. QED BY <1>3, <1>4, <1>5

\* Where the coroutine is: at a stage with operation op.
AtStage(op) ==
    /\ mode \in Modes /\ version \in Nat \ {0} /\ Torn \notin Nat
    /\ Left \in 1 .. Longest /\ plan[1] = At(Left) /\ At(Left).op = op
    /\ todo \subseteq At(Left).on
    /\ mode \in {"standalone", "validating", "separate", "colocated"}
    /\ mode \in {"standalone", "colocated"} => Guests = {} /\ Core = Servers
    /\ mode \in {"validating", "separate"} =>
           Guests = Hybrid /\ Core = Standalone /\ Core \cap Hybrid = {}
    /\ Core \subseteq Servers /\ Hybrid \subseteq Servers

\* What a step of the coroutine leaves alone, unless an update begins ...
SamePhase ==
    /\ mode' = mode /\ version' = version /\ Core' = Core
    /\ (Validates <=> Validates') /\ Swap' = Swap /\ LastResume' = LastResume

\* ... where it is after server s is done with the stage, or all are.
Stays(s) == Left' = Left /\ todo' = todo \ {s}
GoesOnTo == Left' = Left - 1 /\ todo' = IF Left' = 0 THEN {} ELSE At(Left').on

LEMMA StageNow ==
    ASSUME TypeOK, PlanInv, plan # <<>>, NEW op, Stages(op)
    PROVE  AtStage(op)
<1>1. mode \in Modes /\ version \in Nat BY DEF TypeOK
<1>2. /\ Left \in 1 .. Longest /\ plan[1] = At(Left) /\ todo \subseteq At(Left).on
  BY <1>1, Present
<1>3. version > 0 BY <1>2 DEF PlanInv
<1>4. At(Left).op = op BY <1>2 DEF Stages
<1>5. Core \subseteq Servers /\ Hybrid \subseteq Servers /\ Torn \notin Nat
  BY RolloutServersAssumption DEF Core
<1>6. QED BY <1>1, <1>2, <1>3, <1>4, <1>5, Deployment DEF AtStage

LEMMA StageStep ==
    ASSUME TypeOK, PlanInv, NEW s \in todo, plan # <<>>, StageDone(s), mode' = mode
    PROVE  SamePhase /\ (Stays(s) \/ (todo = {s} /\ GoesOnTo))
<1>1. mode \in Modes BY DEF TypeOK
<1>2. version' = version /\ (Stays(s) \/ (todo = {s} /\ GoesOnTo))
  BY <1>1, StageEnds DEF Stays, GoesOnTo
<1>3. QED BY <1>2, SameUpdate DEF SamePhase

LEMMA AbortServers ==
    ASSUME TypeOK, PlanInv, CoreInv, ValidatingInv, SeparateInv, NEW s \in Servers, Abort(s)
    PROVE  CoreInv' /\ ValidatingInv' /\ SeparateInv'
<1>1. /\ s \in todo /\ plan # <<>> /\ StageDone(s) /\ mode' = mode /\ Stages("abort")
      /\ paused' = paused \cup {s} /\ Pool' = Pool
      /\ UNCHANGED <<asleep, weights, steps>>
  BY SameBalancer DEF Abort, Stages
<1>2. AtStage("abort") /\ SamePhase /\ (Stays(s) \/ (todo = {s} /\ GoesOnTo))
  BY <1>1, StageNow, StageStep
<1> USE <1>1, <1>2 DEF AtStage, SamePhase, Stays, GoesOnTo
<1>3. CASE mode = "standalone"
  <2>1. Left = 3 /\ At(3).on = Core /\ At(2).on = Core BY <1>3, OpAt, OnAt
  <2>2. CoreInv' BY <1>3, <2>1 DEF CoreInv, Swap, LastResume, Serves, Receiving
  <2>3. QED BY <1>3, <2>2 DEF ValidatingInv, SeparateInv
<1>4. CASE mode = "colocated"
  <2>1. Left = 4 /\ At(4).on = Core /\ At(3).on = Core BY <1>4, OpAt, OnAt
  <2>2. CoreInv' BY <1>4, <2>1 DEF CoreInv, Swap, LastResume, Serves, Receiving
  <2>3. QED BY <1>4, <2>2 DEF ValidatingInv, SeparateInv
<1>5. CASE mode = "validating" /\ ~Validates
  <2>1. Left = 3 /\ At(3).on = Core /\ At(2).on = Core BY <1>5, OpAt, OnAt
  <2>2. CoreInv' BY <1>5, <2>1 DEF CoreInv, Swap, LastResume, Serves, Receiving
  <2>3. ValidatingInv' BY <1>5, <2>1 DEF ValidatingInv, Serves, Receiving
  <2>4. QED BY <1>5, <2>2, <2>3 DEF SeparateInv
<1>6. CASE mode = "validating" /\ Validates
  <2>1. /\ Left \in {16, 12, 11, 6, 5}
        /\ \A n \in {16, 15, 12} : At(n).on = Core
        /\ \A n \in {11, 10, 5, 4} : At(n).on = Hybrid
        /\ At(6).on = Core
    BY <1>6, OpAt, OnAt
  <2>2. CoreInv' BY <1>6, <2>1 DEF CoreInv, Swap, LastResume, Serves, Receiving
  <2>3. ValidatingInv' BY <1>6, <2>1 DEF ValidatingInv, Serves, Receiving
  <2>4. QED BY <1>6, <2>2, <2>3 DEF SeparateInv
<1>7. CASE mode = "separate" /\ ~Validates
  <2>1. /\ Left \in {5, 3} /\ At(5).on = Hybrid /\ At(4).on = Hybrid
        /\ At(3).on = Core /\ At(2).on = Core
    BY <1>7, OpAt, OnAt
  <2>2. CoreInv' BY <1>7, <2>1 DEF CoreInv, Swap, LastResume, Serves, Receiving
  <2>3. SeparateInv' BY <1>7, <2>1 DEF SeparateInv, Serves, Receiving
  <2>4. QED BY <1>7, <2>2, <2>3 DEF ValidatingInv
<1>8. CASE mode = "separate" /\ Validates
  <2>1. /\ Left \in {9, 7} /\ At(9).on = Hybrid /\ At(8).on = Hybrid
        /\ At(7).on = Core /\ At(6).on = Core
    BY <1>8, OpAt, OnAt
  <2>2. CoreInv' BY <1>8, <2>1 DEF CoreInv, Swap, LastResume, Serves, Receiving
  <2>3. SeparateInv' BY <1>8, <2>1 DEF SeparateInv, Serves, Receiving
  <2>4. QED BY <1>8, <2>2, <2>3 DEF ValidatingInv
<1>9. QED BY <1>3, <1>4, <1>5, <1>6, <1>7, <1>8

LEMMA ResumeServers ==
    ASSUME TypeOK, PlanInv, CoreInv, ValidatingInv, SeparateInv, NEW s \in Servers, Resume(s)
    PROVE  CoreInv' /\ ValidatingInv' /\ SeparateInv'
<1>1. /\ s \in todo /\ plan # <<>> /\ StageDone(s) /\ mode' = mode /\ Stages("resume")
      /\ paused' = paused \ {s} /\ Pool' = Pool
      /\ UNCHANGED <<asleep, weights, steps>>
  BY SameBalancer DEF Resume, Stages, TypeOK
<1>2. AtStage("resume") /\ SamePhase /\ (Stays(s) \/ (todo = {s} /\ GoesOnTo))
  BY <1>1, StageNow, StageStep
<1> USE <1>1, <1>2 DEF AtStage, SamePhase, Stays, GoesOnTo
<1>3. CASE mode = "standalone"
  <2>1. /\ Left = 1
        /\ At(1).on = Core
    BY <1>3, OpAt, OnAt
  <2>2. CoreInv' BY <1>3, <2>1 DEF CoreInv, Swap, LastResume, Serves, Receiving
  <2>3. QED BY <1>3, <2>2 DEF ValidatingInv, SeparateInv
<1>4. CASE mode = "colocated"
  <2>1. /\ Left = 1
        /\ At(1).on = Core
    BY <1>4, OpAt, OnAt
  <2>2. CoreInv' BY <1>4, <2>1 DEF CoreInv, Swap, LastResume, Serves, Receiving
  <2>3. QED BY <1>4, <2>2 DEF ValidatingInv, SeparateInv
<1>5. CASE mode = "validating" /\ ~Validates
  <2>1. /\ Left = 1
        /\ At(1).on = Core
    BY <1>5, OpAt, OnAt
  <2>2. CoreInv' BY <1>5, <2>1 DEF CoreInv, Swap, LastResume, Serves, Receiving
  <2>3. ValidatingInv' BY <1>5, <2>1 DEF ValidatingInv, Serves, Receiving
  <2>4. QED BY <1>5, <2>2, <2>3 DEF SeparateInv
<1>6. CASE mode = "validating" /\ Validates
  <2>1. /\ Left \in {14, 9, 8, 2, 1}
        /\ \A n \in {2, 9, 14} : At(n).on = Core
        /\ \A n \in {1, 8, 13} : At(n).on = Hybrid
        /\ At(7).on = {}
    BY <1>6, OpAt, OnAt
  <2>2. CoreInv' BY <1>6, <2>1 DEF CoreInv, Swap, LastResume, Serves, Receiving
  <2>3. ValidatingInv' BY <1>6, <2>1 DEF ValidatingInv, Serves, Receiving
  <2>4. QED BY <1>6, <2>2, <2>3 DEF SeparateInv
<1>7. CASE mode = "separate" /\ ~Validates
  <2>1. /\ Left = 1
        /\ At(1).on = Core
    BY <1>7, OpAt, OnAt
  <2>2. CoreInv' BY <1>7, <2>1 DEF CoreInv, Swap, LastResume, Serves, Receiving
  <2>3. SeparateInv' BY <1>7, <2>1 DEF SeparateInv, Serves, Receiving
  <2>4. QED BY <1>7, <2>2, <2>3 DEF ValidatingInv
<1>8. CASE mode = "separate" /\ Validates
  <2>1. /\ Left \in {5, 3}
        /\ At(5).on = Core
        /\ \A n \in {2, 3, 4} : At(n).on = Hybrid
    BY <1>8, OpAt, OnAt
  <2>2. CoreInv' BY <1>8, <2>1 DEF CoreInv, Swap, LastResume, Serves, Receiving
  <2>3. SeparateInv' BY <1>8, <2>1 DEF SeparateInv, Serves, Receiving
  <2>4. QED BY <1>8, <2>2, <2>3 DEF ValidatingInv
<1>9. QED BY <1>3, <1>4, <1>5, <1>6, <1>7, <1>8

LEMMA SleepServers ==
    ASSUME TypeOK, PlanInv, CoreInv, ValidatingInv, SeparateInv, NEW s \in Servers, Sleep(s)
    PROVE  CoreInv' /\ ValidatingInv' /\ SeparateInv'
<1>1. /\ s \in todo /\ plan # <<>> /\ StageDone(s) /\ mode' = mode /\ Stages("sleep")
      /\ asleep' = asleep \cup {s} /\ Pool' = Pool
      /\ UNCHANGED <<paused, weights, steps>>
  BY SameBalancer DEF Sleep, Stages, TypeOK
<1>2. AtStage("sleep") /\ SamePhase /\ (Stays(s) \/ (todo = {s} /\ GoesOnTo))
  BY <1>1, StageNow, StageStep
<1> USE <1>1, <1>2 DEF AtStage, SamePhase, Stays, GoesOnTo
<1>3. CASE mode = "colocated"
  <2>1. /\ Left = 3
        /\ \A n \in {2, 3} : At(n).on = Core
    BY <1>3, OpAt, OnAt
  <2>2. CoreInv' BY <1>3, <2>1 DEF CoreInv, Swap, LastResume, Serves, Receiving
  <2>3. QED BY <1>3, <2>2 DEF ValidatingInv, SeparateInv
<1>4. CASE mode = "validating" /\ Validates
  <2>1. /\ Left = 3
        /\ At(2).on = Core
        /\ At(3).on = Hybrid
    BY <1>4, OpAt, OnAt
  <2>2. CoreInv' BY <1>4, <2>1 DEF CoreInv, Swap, LastResume, Serves, Receiving
  <2>3. ValidatingInv' BY <1>4, <2>1 DEF ValidatingInv, Serves, Receiving
  <2>4. QED BY <1>4, <2>2, <2>3 DEF SeparateInv
<1>5. CASE mode = "separate" /\ ~Validates
  <2>1. /\ Left = 4
        /\ At(3).on = Core
        /\ At(4).on = Hybrid
    BY <1>5, OpAt, OnAt
  <2>2. CoreInv' BY <1>5, <2>1 DEF CoreInv, Swap, LastResume, Serves, Receiving
  <2>3. SeparateInv' BY <1>5, <2>1 DEF SeparateInv, Serves, Receiving
  <2>4. QED BY <1>5, <2>2, <2>3 DEF ValidatingInv
<1>6. CASE mode = "separate" /\ Validates
  <2>1. /\ Left = 8
        /\ At(7).on = Core
        /\ At(8).on = Hybrid
    BY <1>6, OpAt, OnAt
  <2>2. CoreInv' BY <1>6, <2>1 DEF CoreInv, Swap, LastResume, Serves, Receiving
  <2>3. SeparateInv' BY <1>6, <2>1 DEF SeparateInv, Serves, Receiving
  <2>4. QED BY <1>6, <2>2, <2>3 DEF ValidatingInv
<1>7. ~(mode = "standalone") /\ ~(mode = "validating" /\ ~Validates) BY OpAt
<1>8. QED BY <1>3, <1>4, <1>5, <1>6, <1>7

LEMMA SetGlobalStepsServers ==
    ASSUME TypeOK, PlanInv, CoreInv, ValidatingInv, SeparateInv,
           NEW s \in Servers, SetGlobalSteps(s)
    PROVE  CoreInv' /\ ValidatingInv' /\ SeparateInv'
<1>1. /\ s \in todo /\ plan # <<>> /\ StageDone(s) /\ mode' = mode /\ Stages("transfer")
      /\ weights[s] = version /\ Pool' = Pool
      /\ \A t \in Servers : steps'[t] = IF t = s THEN version ELSE steps[t]
      /\ UNCHANGED <<asleep, paused, weights>>
  BY SameBalancer DEF SetGlobalSteps, Stages, TypeOK
<1>2. AtStage("transfer") /\ SamePhase /\ (Stays(s) \/ (todo = {s} /\ GoesOnTo))
  BY <1>1, StageNow, StageStep
<1> USE <1>1, <1>2 DEF AtStage, SamePhase, Stays, GoesOnTo
<1>3. CASE mode = "standalone"
  <2>1. /\ Left = 2
        /\ \A n \in {1, 2} : At(n).on = Core
    BY <1>3, OpAt, OnAt
  <2>2. CoreInv' BY <1>3, <2>1 DEF CoreInv, Swap, LastResume, Serves, Receiving
  <2>3. QED BY <1>3, <2>2 DEF ValidatingInv, SeparateInv
<1>4. CASE mode = "colocated"
  <2>1. /\ Left = 2
        /\ \A n \in {1, 2} : At(n).on = Core
    BY <1>4, OpAt, OnAt
  <2>2. CoreInv' BY <1>4, <2>1 DEF CoreInv, Swap, LastResume, Serves, Receiving
  <2>3. QED BY <1>4, <2>2 DEF ValidatingInv, SeparateInv
<1>5. CASE mode = "validating" /\ ~Validates
  <2>1. /\ Left = 2
        /\ \A n \in {1, 2} : At(n).on = Core
    BY <1>5, OpAt, OnAt
  <2>2. CoreInv' BY <1>5, <2>1 DEF CoreInv, Swap, LastResume, Serves, Receiving
  <2>3. ValidatingInv' BY <1>5, <2>1 DEF ValidatingInv, Serves, Receiving
  <2>4. QED BY <1>5, <2>2, <2>3 DEF SeparateInv
<1>6. CASE mode = "validating" /\ Validates
  <2>1. /\ Left \in {15, 13}
        /\ \A n \in {12, 14, 15} : At(n).on = Core
        /\ At(13).on = Hybrid
    BY <1>6, OpAt, OnAt
  <2>2. CoreInv' BY <1>6, <2>1 DEF CoreInv, Swap, LastResume, Serves, Receiving
  <2>3. ValidatingInv' BY <1>6, <2>1 DEF ValidatingInv, Serves, Receiving
  <2>4. QED BY <1>6, <2>2, <2>3 DEF SeparateInv
<1>7. CASE mode = "separate" /\ ~Validates
  <2>1. /\ Left = 2
        /\ \A n \in {1, 2} : At(n).on = Core
    BY <1>7, OpAt, OnAt
  <2>2. CoreInv' BY <1>7, <2>1 DEF CoreInv, Swap, LastResume, Serves, Receiving
  <2>3. SeparateInv' BY <1>7, <2>1 DEF SeparateInv, Serves, Receiving
  <2>4. QED BY <1>7, <2>2, <2>3 DEF ValidatingInv
<1>8. CASE mode = "separate" /\ Validates
  <2>1. /\ Left \in {6, 4}
        /\ \A n \in {5, 6} : At(n).on = Core
        /\ \A n \in {3, 4} : At(n).on = Hybrid
    BY <1>8, OpAt, OnAt
  <2>2. CoreInv' BY <1>8, <2>1 DEF CoreInv, Swap, LastResume, Serves, Receiving
  <2>3. SeparateInv' BY <1>8, <2>1 DEF SeparateInv, Serves, Receiving
  <2>4. QED BY <1>8, <2>2, <2>3 DEF ValidatingInv
<1>9. QED BY <1>3, <1>4, <1>5, <1>6, <1>7, <1>8

LEMMA BeginTransferServers ==
    ASSUME TypeOK, PlanInv, CoreInv, ValidatingInv, SeparateInv, NEW s \in Servers, BeginTransfer(s)
    PROVE  CoreInv' /\ ValidatingInv' /\ SeparateInv'
<1>1. /\ s \in todo /\ plan # <<>> /\ mode' = mode /\ Stages("transfer")
      /\ weights[s] \notin {Torn, version} /\ asleep' = asleep \ {s} /\ Pool' = Pool
      /\ UNCHANGED <<mode, steps, paused, version, plan, todo>>
      /\ \A t \in Servers : weights'[t] = IF t = s THEN Torn ELSE weights[t]
  BY SameBalancer DEF BeginTransfer, Stages, TypeOK, managerVars
<1>2. AtStage("transfer") /\ SamePhase /\ Left' = Left
  BY <1>1, StageNow, SameUpdate DEF SamePhase, Left
<1> USE <1>1, <1>2 DEF AtStage, SamePhase
<1>3. CASE mode = "standalone"
  <2>1. /\ Left = 2
        /\ \A n \in {1, 2} : At(n).on = Core
    BY <1>3, OpAt, OnAt
  <2>2. CoreInv' BY <1>3, <2>1 DEF CoreInv, Swap, LastResume, Serves, Receiving
  <2>3. QED BY <1>3, <2>2 DEF ValidatingInv, SeparateInv
<1>4. CASE mode = "colocated"
  <2>1. /\ Left = 2
        /\ \A n \in {1, 2} : At(n).on = Core
    BY <1>4, OpAt, OnAt
  <2>2. CoreInv' BY <1>4, <2>1 DEF CoreInv, Swap, LastResume, Serves, Receiving
  <2>3. QED BY <1>4, <2>2 DEF ValidatingInv, SeparateInv
<1>5. CASE mode = "validating" /\ ~Validates
  <2>1. /\ Left = 2
        /\ \A n \in {1, 2} : At(n).on = Core
    BY <1>5, OpAt, OnAt
  <2>2. CoreInv' BY <1>5, <2>1 DEF CoreInv, Swap, LastResume, Serves, Receiving
  <2>3. ValidatingInv' BY <1>5, <2>1 DEF ValidatingInv, Serves, Receiving
  <2>4. QED BY <1>5, <2>2, <2>3 DEF SeparateInv
<1>6. CASE mode = "validating" /\ Validates
  <2>1. /\ Left \in {15, 13}
        /\ \A n \in {12, 14, 15} : At(n).on = Core
        /\ At(13).on = Hybrid
    BY <1>6, OpAt, OnAt
  <2>2. CoreInv' BY <1>6, <2>1 DEF CoreInv, Swap, LastResume, Serves, Receiving
  <2>3. ValidatingInv' BY <1>6, <2>1 DEF ValidatingInv, Serves, Receiving
  <2>4. QED BY <1>6, <2>2, <2>3 DEF SeparateInv
<1>7. CASE mode = "separate" /\ ~Validates
  <2>1. /\ Left = 2
        /\ \A n \in {1, 2} : At(n).on = Core
    BY <1>7, OpAt, OnAt
  <2>2. CoreInv' BY <1>7, <2>1 DEF CoreInv, Swap, LastResume, Serves, Receiving
  <2>3. SeparateInv' BY <1>7, <2>1 DEF SeparateInv, Serves, Receiving
  <2>4. QED BY <1>7, <2>2, <2>3 DEF ValidatingInv
<1>8. CASE mode = "separate" /\ Validates
  <2>1. /\ Left \in {6, 4}
        /\ \A n \in {5, 6} : At(n).on = Core
        /\ \A n \in {3, 4} : At(n).on = Hybrid
    BY <1>8, OpAt, OnAt
  <2>2. CoreInv' BY <1>8, <2>1 DEF CoreInv, Swap, LastResume, Serves, Receiving
  <2>3. SeparateInv' BY <1>8, <2>1 DEF SeparateInv, Serves, Receiving
  <2>4. QED BY <1>8, <2>2, <2>3 DEF ValidatingInv
<1>9. QED BY <1>3, <1>4, <1>5, <1>6, <1>7, <1>8

LEMMA EndTransferServers ==
    ASSUME TypeOK, PlanInv, CoreInv, ValidatingInv, SeparateInv, NEW s \in Servers, EndTransfer(s)
    PROVE  CoreInv' /\ ValidatingInv' /\ SeparateInv'
<1>1. /\ s \in todo /\ plan # <<>> /\ mode' = mode /\ Stages("transfer")
      /\ weights[s] = Torn /\ Pool' = Pool
      /\ UNCHANGED <<asleep, steps, paused, version, plan, todo>>
      /\ \A t \in Servers : weights'[t] = IF t = s THEN version ELSE weights[t]
  BY SameBalancer DEF EndTransfer, Stages, TypeOK, managerVars
<1>2. AtStage("transfer") /\ SamePhase /\ Left' = Left
  BY <1>1, StageNow, SameUpdate DEF SamePhase, Left
<1> USE <1>1, <1>2 DEF AtStage, SamePhase
<1>3. CASE mode = "standalone"
  <2>1. /\ Left = 2
        /\ \A n \in {1, 2} : At(n).on = Core
    BY <1>3, OpAt, OnAt
  <2>2. CoreInv' BY <1>3, <2>1 DEF CoreInv, Swap, LastResume, Serves, Receiving
  <2>3. QED BY <1>3, <2>2 DEF ValidatingInv, SeparateInv
<1>4. CASE mode = "colocated"
  <2>1. /\ Left = 2
        /\ \A n \in {1, 2} : At(n).on = Core
    BY <1>4, OpAt, OnAt
  <2>2. CoreInv' BY <1>4, <2>1 DEF CoreInv, Swap, LastResume, Serves, Receiving
  <2>3. QED BY <1>4, <2>2 DEF ValidatingInv, SeparateInv
<1>5. CASE mode = "validating" /\ ~Validates
  <2>1. /\ Left = 2
        /\ \A n \in {1, 2} : At(n).on = Core
    BY <1>5, OpAt, OnAt
  <2>2. CoreInv' BY <1>5, <2>1 DEF CoreInv, Swap, LastResume, Serves, Receiving
  <2>3. ValidatingInv' BY <1>5, <2>1 DEF ValidatingInv, Serves, Receiving
  <2>4. QED BY <1>5, <2>2, <2>3 DEF SeparateInv
<1>6. CASE mode = "validating" /\ Validates
  <2>1. /\ Left \in {15, 13}
        /\ \A n \in {12, 14, 15} : At(n).on = Core
        /\ At(13).on = Hybrid
    BY <1>6, OpAt, OnAt
  <2>2. CoreInv' BY <1>6, <2>1 DEF CoreInv, Swap, LastResume, Serves, Receiving
  <2>3. ValidatingInv' BY <1>6, <2>1 DEF ValidatingInv, Serves, Receiving
  <2>4. QED BY <1>6, <2>2, <2>3 DEF SeparateInv
<1>7. CASE mode = "separate" /\ ~Validates
  <2>1. /\ Left = 2
        /\ \A n \in {1, 2} : At(n).on = Core
    BY <1>7, OpAt, OnAt
  <2>2. CoreInv' BY <1>7, <2>1 DEF CoreInv, Swap, LastResume, Serves, Receiving
  <2>3. SeparateInv' BY <1>7, <2>1 DEF SeparateInv, Serves, Receiving
  <2>4. QED BY <1>7, <2>2, <2>3 DEF ValidatingInv
<1>8. CASE mode = "separate" /\ Validates
  <2>1. /\ Left \in {6, 4}
        /\ \A n \in {5, 6} : At(n).on = Core
        /\ \A n \in {3, 4} : At(n).on = Hybrid
    BY <1>8, OpAt, OnAt
  <2>2. CoreInv' BY <1>8, <2>1 DEF CoreInv, Swap, LastResume, Serves, Receiving
  <2>3. SeparateInv' BY <1>8, <2>1 DEF SeparateInv, Serves, Receiving
  <2>4. QED BY <1>8, <2>2, <2>3 DEF ValidatingInv
<1>9. QED BY <1>3, <1>4, <1>5, <1>6, <1>7, <1>8

LEMMA AddReplicasServers ==
    ASSUME TypeOK, PlanInv, CoreInv, ValidatingInv, SeparateInv, AddReplicas
    PROVE  CoreInv' /\ ValidatingInv' /\ SeparateInv'
<1>1. /\ plan # <<>> /\ mode' = mode /\ version' = version /\ Stages("add")
      /\ Follow(Tail(plan)) /\ UNCHANGED <<asleep, weights, steps, paused>>
      /\ mode \in Modes /\ version \in Nat
  BY DEF AddReplicas, Stages, TypeOK, engineVars
<1>2. AtStage("add") /\ SamePhase /\ GoesOnTo
  <2>1. SamePhase BY <1>1, SameUpdate DEF SamePhase
  <2>2. QED BY <1>1, <2>1, StageNow, NextStage DEF GoesOnTo
<1> USE <1>1, <1>2 DEF AtStage, SamePhase, GoesOnTo
<1>3. Pool' = Pool \cup At(Left).on
  <2>1. At(Left).on \in SUBSET Servers
    <3>1. plan \in Seq([op : Ops, on : SUBSET Servers]) BY DEF PlanInv
    <3>2. QED BY <3>1, PlanTypes
  <2>2. QED BY <2>1, AddTypes DEF AddReplicas, TypeOK
<1>4. CASE mode = "validating" /\ Validates
  <2>1. /\ Left = 10
        /\ At(9).on = Core
        /\ At(10).on = Hybrid
    BY <1>4, OpAt, OnAt
  <2>2. CoreInv' BY <1>4, <1>3, <2>1 DEF CoreInv, Swap, LastResume, Serves, Receiving
  <2>3. ValidatingInv' BY <1>4, <1>3, <2>1 DEF ValidatingInv, Serves, Receiving
  <2>4. QED BY <1>4, <2>2, <2>3 DEF SeparateInv
<1>5. CASE mode = "separate" /\ Validates
  <2>1. /\ Left = 2
        /\ At(2).on = Hybrid
        /\ At(1).on = {}
    BY <1>5, OpAt, OnAt
  <2>2. CoreInv' BY <1>5, <1>3, <2>1 DEF CoreInv, Swap, LastResume, Serves, Receiving
  <2>3. SeparateInv' BY <1>5, <1>3, <2>1 DEF SeparateInv, Serves, Receiving
  <2>4. QED BY <1>5, <2>2, <2>3 DEF ValidatingInv
<1>6. mode \in {"validating", "separate"} /\ Validates
  BY OpAt
<1>7. QED BY <1>4, <1>5, <1>6

LEMMA RemoveReplicasServers ==
    ASSUME TypeOK, PlanInv, CoreInv, ValidatingInv, SeparateInv, RemoveReplicas
    PROVE  CoreInv' /\ ValidatingInv' /\ SeparateInv'
<1>1. /\ plan # <<>> /\ mode' = mode /\ version' = version /\ Stages("remove")
      /\ Follow(Tail(plan)) /\ UNCHANGED <<asleep, weights, steps, paused>>
      /\ mode \in Modes /\ version \in Nat
  BY DEF RemoveReplicas, Stages, TypeOK, engineVars
<1>2. AtStage("remove") /\ SamePhase /\ GoesOnTo
  <2>1. SamePhase BY <1>1, SameUpdate DEF SamePhase
  <2>2. QED BY <1>1, <2>1, StageNow, NextStage DEF GoesOnTo
<1> USE <1>1, <1>2 DEF AtStage, SamePhase, GoesOnTo
<1>3. Pool' = Pool \ At(Left).on
  BY RemoveTypes DEF RemoveReplicas, TypeOK
<1>4. CASE mode = "validating" /\ Validates
  <2>1. /\ Left = 4
        /\ \A n \in {3, 4} : At(n).on = Hybrid
    BY <1>4, OpAt, OnAt
  <2>2. CoreInv' BY <1>4, <1>3, <2>1 DEF CoreInv, Swap, LastResume, Serves, Receiving
  <2>3. ValidatingInv' BY <1>4, <1>3, <2>1 DEF ValidatingInv, Serves, Receiving
  <2>4. QED BY <1>4, <2>2, <2>3 DEF SeparateInv
<1>5. CASE mode = "separate" /\ ~Validates
  <2>1. /\ Left = 6
        /\ \A n \in {5, 6} : At(n).on = Hybrid
    BY <1>5, OpAt, OnAt
  <2>2. CoreInv' BY <1>5, <1>3, <2>1 DEF CoreInv, Swap, LastResume, Serves, Receiving
  <2>3. SeparateInv' BY <1>5, <1>3, <2>1 DEF SeparateInv, Serves, Receiving
  <2>4. QED BY <1>5, <2>2, <2>3 DEF ValidatingInv
<1>6. CASE mode = "separate" /\ Validates
  <2>1. /\ Left = 10
        /\ \A n \in {9, 10} : At(n).on = Hybrid
    BY <1>6, OpAt, OnAt
  <2>2. CoreInv' BY <1>6, <1>3, <2>1 DEF CoreInv, Swap, LastResume, Serves, Receiving
  <2>3. SeparateInv' BY <1>6, <1>3, <2>1 DEF SeparateInv, Serves, Receiving
  <2>4. QED BY <1>6, <2>2, <2>3 DEF ValidatingInv
<1>7. ~(mode = "standalone") /\ ~(mode = "colocated") /\ ~(mode = "validating" /\ ~Validates)
  BY OpAt
<1>8. QED BY <1>4, <1>5, <1>6, <1>7

LEMMA ValidateServers ==
    ASSUME TypeOK, PlanInv, CoreInv, ValidatingInv, SeparateInv, Validate
    PROVE  CoreInv' /\ ValidatingInv' /\ SeparateInv'
<1>1. /\ plan # <<>> /\ mode' = mode /\ version' = version /\ Stages("validate")
      /\ Follow(Tail(plan)) /\ UNCHANGED <<asleep, weights, steps, paused>>
      /\ mode \in Modes /\ version \in Nat
  BY DEF Validate, Stages, TypeOK, engineVars
<1>2. AtStage("validate") /\ SamePhase /\ GoesOnTo
  <2>1. SamePhase BY <1>1, SameUpdate DEF SamePhase
  <2>2. QED BY <1>1, <2>1, StageNow, NextStage DEF GoesOnTo
<1> USE <1>1, <1>2 DEF AtStage, SamePhase, GoesOnTo
<1>3. Pool' = Pool
  BY SameBalancer DEF Validate
<1>4. CASE mode = "validating" /\ Validates
  <2>1. /\ Left = 7
        /\ At(6).on = Core
        /\ At(7).on = {}
    BY <1>4, OpAt, OnAt
  <2>2. CoreInv' BY <1>4, <1>3, <2>1 DEF CoreInv, Swap, LastResume, Serves, Receiving
  <2>3. ValidatingInv' BY <1>4, <1>3, <2>1 DEF ValidatingInv, Serves, Receiving
  <2>4. QED BY <1>4, <2>2, <2>3 DEF SeparateInv
<1>5. CASE mode = "separate" /\ Validates
  <2>1. /\ Left = 1
        /\ At(1).on = {}
    BY <1>5, OpAt, OnAt
  <2>2. CoreInv' BY <1>5, <1>3, <2>1 DEF CoreInv, Swap, LastResume, Serves, Receiving
  <2>3. SeparateInv' BY <1>5, <1>3, <2>1 DEF SeparateInv, Serves, Receiving
  <2>4. QED BY <1>5, <2>2, <2>3 DEF ValidatingInv
<1>6. mode \in {"validating", "separate"} /\ Validates
  BY OpAt
<1>7. QED BY <1>4, <1>5, <1>6

LEMMA ServersKept ==
    ASSUME TypeOK, PlanInv, CoreInv, ValidatingInv, SeparateInv, [Next]_vars
    PROVE  CoreInv' /\ ValidatingInv' /\ SeparateInv'
<1>1. ASSUME NEW r \in Requests, Acquire(r) PROVE CoreInv' /\ ValidatingInv' /\ SeparateInv'
  <2>1. Pool' = Pool BY <1>1, AcquireTypes DEF Acquire, TypeOK
  <2>2. UNCHANGED <<mode, engineVars, managerVars>> BY <1>1 DEF Acquire
  <2>3. QED BY <2>1, <2>2, SameServers
<1>2. ASSUME NEW r \in Requests, Arrive(r) \/ Generate(r)
      PROVE  CoreInv' /\ ValidatingInv' /\ SeparateInv'
  BY <1>2, SameServers, SameBalancer DEF Arrive, Generate
<1>3. ASSUME NEW r \in Requests, DeliverRelease(r)
      PROVE  CoreInv' /\ ValidatingInv' /\ SeparateInv'
  <2>1. Pool' = Pool BY <1>3, ReleaseTypes DEF DeliverRelease, TypeOK
  <2>2. UNCHANGED <<mode, engineVars, managerVars>> BY <1>3 DEF DeliverRelease
  <2>3. QED BY <2>1, <2>2, SameServers
<1>4. CASE Terminated \/ UNCHANGED vars
  <2>1. UNCHANGED vars BY <1>4 DEF Terminated
  <2>2. QED BY <2>1, SameServers, SameBalancer DEF vars
<1>5. QED
  BY <1>1, <1>2, <1>3, <1>4, StartServers, AddReplicasServers, ValidateServers,
     RemoveReplicasServers, AbortServers, ResumeServers, SleepServers, BeginTransferServers,
     EndTransferServers, SetGlobalStepsServers
  DEF Next, Client, Manager

-----------------------------------------------------------------------------
(* The calls.                                                              *)

LEMMA AnsweredCalls ==
    ASSUME TypeOK, CallInv, NEW rs \in SUBSET Requests, NEW response, NEW aborted,
           AnswerWith(rs, response, aborted), \A r \in rs : cpc[r] = "running"
    PROVE  \A r \in Requests :
               /\ at'[r] = NoServer <=> cpc'[r] \in {"idle", "backoff", "done"}
               /\ at'[r] # NoServer => releasing'[r] = NoServer
               /\ cpc'[r] \in {"held", "running"} =>
                      at'[r] = at[r] /\ cpc'[r] = cpc[r] /\ r \notin rs
               /\ at'[r] # NoServer => at'[r] = at[r] /\ cpc'[r] = cpc[r]
<1> SUFFICES ASSUME NEW r \in Requests
             PROVE  /\ at'[r] = NoServer <=> cpc'[r] \in {"idle", "backoff", "done"}
                    /\ at'[r] # NoServer => releasing'[r] = NoServer
                    /\ cpc'[r] \in {"held", "running"} =>
                           at'[r] = at[r] /\ cpc'[r] = cpc[r] /\ r \notin rs
                    /\ at'[r] # NoServer => at'[r] = at[r] /\ cpc'[r] = cpc[r]
  OBVIOUS
<1>1. CASE r \in rs
  <2>1. at'[r] = NoServer /\ cpc'[r] \in {"backoff", "done"} BY <1>1 DEF AnswerWith
  <2>2. QED BY <2>1
<1>2. CASE r \notin rs
  <2>1. at'[r] = at[r] /\ cpc'[r] = cpc[r] /\ releasing'[r] = releasing[r]
    BY <1>2 DEF AnswerWith
  <2>2. QED BY <1>2, <2>1 DEF CallInv
<1>3. QED BY <1>1, <1>2

\* The trainer's coroutine is not earlier in its plan, unless an update begins.
LEMMA NotEarlier ==
    ASSUME TypeOK, PlanInv, [Next]_vars
    PROVE  \/ StartUpdate
           \/ mode' = mode /\ (Validates' <=> Validates) /\ Left' <= Left /\ version' = version
<1>1. mode \in Modes BY DEF TypeOK
<1>2. Left \in Nat BY <1>1, Present
<1>3. CASE UNCHANGED <<mode, managerVars>>
  BY <1>2, <1>3, SamePlan, SameUpdate DEF managerVars
<1>4. ASSUME NEW s \in Servers, Abort(s) \/ Resume(s) \/ Sleep(s) \/ SetGlobalSteps(s)
      PROVE  mode' = mode /\ (Validates' <=> Validates) /\ Left' <= Left /\ version' = version
  <2>1. plan # <<>> /\ s \in todo /\ StageDone(s) /\ mode' = mode
    BY <1>4 DEF Abort, Resume, Sleep, SetGlobalSteps, Stages
  <2>2. QED BY <1>2, <2>1, StageStep DEF SamePhase, Stays, GoesOnTo
<1>5. CASE AddReplicas \/ Validate \/ RemoveReplicas
  <2>1. plan # <<>> /\ Follow(Tail(plan)) /\ UNCHANGED <<mode, version>>
    BY <1>5 DEF AddReplicas, Validate, RemoveReplicas, Stages
  <2>2. QED BY <1>1, <1>2, <2>1, NextStage, SameUpdate
<1>6. ASSUME NEW r \in Requests, Client(r) PROVE UNCHANGED <<mode, managerVars>>
  BY <1>6 DEF Client, Acquire, Arrive, Generate, DeliverRelease
<1>7. ASSUME NEW s \in Servers, BeginTransfer(s) \/ EndTransfer(s)
      PROVE  UNCHANGED <<mode, managerVars>>
  BY <1>7 DEF BeginTransfer, EndTransfer
<1>8. CASE Terminated \/ UNCHANGED vars BY <1>3, <1>8 DEF Terminated, vars
<1>9. QED BY <1>3, <1>4, <1>5, <1>6, <1>7, <1>8 DEF Next, Manager

LEMMA CallsKept ==
    ASSUME TypeOK, PlanInv, CoreInv, ValidatingInv, SeparateInv, CallInv, [Next]_vars
    PROVE  CallInv'
<1> DEFINE Away == mode = "validating" /\ Validates /\ Left > 9
<1>1. /\ NoServer \notin Servers /\ NoServer \notin Hybrid /\ Hybrid \subseteq Servers
      /\ Left \in Nat /\ mode \in Modes
  <2>1. mode \in Modes BY DEF TypeOK
  <2>2. QED BY <2>1, Present, RolloutServersAssumption
<1>2. StartUpdate \/ (Away' => Away)
  <2>1. CASE StartUpdate BY <2>1
  <2>2. CASE mode' = mode /\ (Validates' <=> Validates) /\ Left' <= Left /\ version' = version
    <3>1. Left' \in Nat
      <4>1. PlanInv' BY PlanKept
      <4>2. plan' \in Seq([op : Ops, on : SUBSET Servers]) BY <4>1 DEF PlanInv
      <4>3. QED BY <4>2 DEF Left
    <3>2. QED BY <1>1, <2>2, <3>1
  <2>3. QED BY <2>1, <2>2, NotEarlier
<1>3. Away => \A s \in Hybrid : s \notin Pool
  BY <1>1 DEF ValidatingInv
<1>4. CASE StartUpdate
  <2>1. /\ UNCHANGED <<mode, balancerVars, cpc, at, releasing, paused, asleep>> /\ plan = <<>>
        /\ \A r \in Requests : cpc[r] = "sent" => at[r] \in Pool
    BY <1>4 DEF StartUpdate, clientVars, engineVars
  <2>2. Left = 0 BY <1>1, <2>1, Present
  <2>3. ASSUME mode = "validating", NEW r \in Requests, at[r] \in Hybrid
        PROVE  cpc[r] = "lost"
    <3>1. at[r] \notin Pool /\ at[r] \notin paused /\ at[r] \in asleep
      BY <2>2, <2>3 DEF ValidatingInv
    <3>2. cpc[r] \notin {"idle", "sent", "held", "running", "backoff", "done"}
      BY <1>1, <2>1, <2>3, <3>1 DEF CallInv
    <3>3. QED BY <3>2 DEF TypeOK
  <2>4. QED BY <1>1, <2>1, <2>3 DEF CallInv
<1>5. CASE ~StartUpdate
  <2> USE <1>1, <1>3
  <2>0. Away' => Away BY <1>2, <1>5
  <2> HIDE DEF Away
  <2>1. CallInv' <=> \A r \in Requests :
            /\ at'[r] = NoServer <=> cpc'[r] \in {"idle", "backoff", "done"}
            /\ at'[r] # NoServer => releasing'[r] = NoServer
            /\ cpc'[r] = "held" => at'[r] \in paused'
            /\ cpc'[r] = "running" => at'[r] \notin paused' \cup asleep'
            /\ Away' /\ at'[r] \in Hybrid => cpc'[r] = "lost"
    BY DEF CallInv, Away
  <2>2. \A r \in Requests :
            /\ at[r] = NoServer <=> cpc[r] \in {"idle", "backoff", "done"}
            /\ at[r] # NoServer => releasing[r] = NoServer
            /\ cpc[r] = "held" => at[r] \in paused
            /\ cpc[r] = "running" => at[r] \notin paused \cup asleep
            /\ Away /\ at[r] \in Hybrid => cpc[r] = "lost"
    BY DEF CallInv, Away
  <2>3. ASSUME UNCHANGED <<cpc, at, releasing>>,
               \A r \in Requests : cpc[r] = "held" => at[r] \in paused',
               \A r \in Requests : cpc[r] = "running" => at[r] \notin paused' \cup asleep'
        PROVE  CallInv'
    BY <2>0, <2>1, <2>2, <2>3
  <2>4. ASSUME NEW r \in Requests, Acquire(r) PROVE CallInv'
    <3>1. PICK s \in Servers : AcquireServer(r, s) /\ at' = [at EXCEPT ![r] = s]
      BY <2>4 DEF Acquire
    <3>2. s \in Pool BY <3>1, AcquireTypes DEF TypeOK
    <3>3. /\ cpc' = [cpc EXCEPT ![r] = "sent"] /\ releasing[r] = NoServer
          /\ UNCHANGED <<releasing, paused, asleep>>
      BY <2>4 DEF Acquire, engineVars
    <3>4. \A q \in Requests : /\ cpc'[q] = IF q = r THEN "sent" ELSE cpc[q]
                              /\ at'[q] = IF q = r THEN s ELSE at[q]
      BY <3>1, <3>3 DEF TypeOK
    <3>5. QED BY <2>0, <2>1, <2>2, <3>2, <3>3, <3>4
  <2>5. ASSUME NEW r \in Requests, Arrive(r) PROVE CallInv'
    <3>1. /\ cpc' = [cpc EXCEPT ![r] = IF at[r] \in paused THEN "held" ELSE Started(at[r])]
          /\ cpc[r] = "sent" /\ UNCHANGED <<at, releasing, paused, asleep>>
      BY <2>5 DEF Arrive, engineVars
    <3>2. \A q \in Requests : cpc'[q] = IF q # r THEN cpc[q]
                                        ELSE IF at[r] \in paused THEN "held"
                                        ELSE IF at[r] \in asleep THEN "lost" ELSE "running"
      BY <3>1 DEF Started, TypeOK
    <3>3. QED BY <2>0, <2>1, <2>2, <3>1, <3>2
  <2>6. ASSUME NEW r \in Requests, Generate(r) PROVE CallInv'
    <3>1. CASE UNCHANGED <<cpc, at, releasing>> /\ UNCHANGED engineVars
      BY <2>2, <2>3, <3>1 DEF engineVars
    <3>2. CASE AnswerWith({r}, [tokens EXCEPT ![r] = Append(@, weights[at[r]])], FALSE)
      <4>1. cpc[r] = "running" /\ UNCHANGED <<paused, asleep>>
        BY <2>6 DEF Generate, engineVars
      <4>2. {r} \in SUBSET Requests /\ \A q \in {r} : cpc[q] = "running" BY <4>1
      <4>3. \A q \in Requests :
               /\ at'[q] = NoServer <=> cpc'[q] \in {"idle", "backoff", "done"}
               /\ at'[q] # NoServer => releasing'[q] = NoServer
               /\ cpc'[q] \in {"held", "running"} =>
                      at'[q] = at[q] /\ cpc'[q] = cpc[q] /\ q \notin {r}
               /\ at'[q] # NoServer => at'[q] = at[q] /\ cpc'[q] = cpc[q]
        BY <3>2, <4>2, AnsweredCalls
      <4>4. QED BY <2>0, <2>1, <2>2, <4>1, <4>3
    <3>3. QED BY <2>6, <3>1, <3>2 DEF Generate
  <2>7. ASSUME NEW r \in Requests, DeliverRelease(r) PROVE CallInv'
    <3>1. /\ releasing' = [releasing EXCEPT ![r] = NoServer]
          /\ UNCHANGED <<cpc, at, paused, asleep>>
      BY <2>7 DEF DeliverRelease, engineVars
    <3>2. \A q \in Requests : releasing'[q] = IF q = r THEN NoServer ELSE releasing[q]
      BY <3>1 DEF TypeOK
    <3>3. QED BY <2>0, <2>1, <2>2, <3>1, <3>2
  <2>8. ASSUME NEW s \in Servers, Abort(s) PROVE CallInv'
    <3> DEFINE rs == {r \in Requests : cpc[r] = "running" /\ at[r] = s}
    <3>1. AnswerWith(rs, tokens, TRUE) /\ paused' = paused \cup {s} /\ asleep' = asleep
      BY <2>8 DEF Abort
    <3>2. rs \in SUBSET Requests /\ \A r \in rs : cpc[r] = "running" OBVIOUS
    <3>3. \A r \in Requests : cpc[r] = "running" /\ at[r] = s => r \in rs OBVIOUS
    <3> HIDE DEF rs
    <3>4. \A q \in Requests :
             /\ at'[q] = NoServer <=> cpc'[q] \in {"idle", "backoff", "done"}
             /\ at'[q] # NoServer => releasing'[q] = NoServer
             /\ cpc'[q] \in {"held", "running"} =>
                    at'[q] = at[q] /\ cpc'[q] = cpc[q] /\ q \notin rs
             /\ at'[q] # NoServer => at'[q] = at[q] /\ cpc'[q] = cpc[q]
      BY <3>1, <3>2, AnsweredCalls
    <3>5. QED BY <2>0, <2>1, <2>2, <3>1, <3>3, <3>4
  <2>9. ASSUME NEW s \in Servers, BeginTransfer(s) \/ EndTransfer(s) PROVE CallInv'
    <3>1. UNCHANGED <<cpc, at, releasing, paused>> /\ asleep' \subseteq asleep
      BY <2>9 DEF BeginTransfer, EndTransfer, clientVars
    <3>2. QED BY <2>2, <2>3, <3>1
  <2>10. ASSUME NEW s \in Servers, SetGlobalSteps(s) PROVE CallInv'
    <3>1. UNCHANGED <<cpc, at, releasing, paused, asleep>>
      BY <2>10 DEF SetGlobalSteps, clientVars
    <3>2. QED BY <2>2, <2>3, <3>1
  <2>11. ASSUME NEW s \in Servers, Resume(s) PROVE CallInv'
    <3>1. /\ paused' = paused \ {s} /\ UNCHANGED <<at, releasing, asleep>>
          /\ \A r \in Requests : cpc'[r] = IF ~(cpc[r] = "held" /\ at[r] = s) THEN cpc[r]
                                           ELSE IF s \in asleep THEN "lost" ELSE "running"
      BY <2>11 DEF Resume, Started
    <3>2. QED BY <2>0, <2>1, <2>2, <3>1
  <2>12. ASSUME NEW s \in Servers, Sleep(s) PROVE CallInv'
    <3>1. /\ asleep' = asleep \cup {s} /\ UNCHANGED <<cpc, at, releasing, paused>>
          /\ ~ \E r \in Requests : cpc[r] = "running" /\ at[r] = s
      BY <2>12 DEF Sleep, clientVars
    <3>2. QED BY <2>2, <2>3, <3>1
  <2>13. CASE AddReplicas \/ Validate \/ RemoveReplicas \/ Terminated \/ UNCHANGED vars
    <3>1. UNCHANGED <<cpc, at, releasing, paused, asleep>>
      BY <2>13 DEF AddReplicas, Validate, RemoveReplicas, Terminated, vars, clientVars, engineVars
    <3>2. QED BY <2>2, <2>3, <3>1
  <2>14. QED
    BY <1>5, <2>4, <2>5, <2>6, <2>7, <2>8, <2>9, <2>10, <2>11, <2>12, <2>13
    DEF Next, Client, Manager
<1>6. QED BY <1>4, <1>5

-----------------------------------------------------------------------------
(* The versions of the tokens.                                             *)

LEMMA CurrentVersion ==
    ASSUME TypeOK, PlanInv
    PROVE  /\ Current \in Nat /\ Left \in Nat /\ version \in Nat
           /\ Current = IF Left >= Swap THEN version - 1 ELSE version
           /\ Swap \in {2, 6, 15} /\ Torn \notin Nat /\ NoLabel \notin Nat
<1>1. mode \in Modes /\ version \in Nat BY DEF TypeOK
<1>2. Left \in Nat BY <1>1, Present
<1>3. Swap \in {2, 6, 15} BY DEF Swap
<1>4. Left > 0 => version > 0 BY DEF PlanInv
<1>5. QED BY <1>1, <1>2, <1>3, <1>4, RolloutServersAssumption DEF Current

\* Whatever generates has the current weights and knows of them.
LEMMA AwakeServes ==
    ASSUME TypeOK, PlanInv, CoreInv, ValidatingInv, SeparateInv, CallInv,
           NEW r \in Requests, cpc[r] = "running"
    PROVE  at[r] \in Servers /\ Serves(at[r], Current)
<1> DEFINE s == at[r]
<1>1. /\ s \in Servers /\ s \notin paused /\ s \notin asleep
      /\ ~(mode = "validating" /\ Validates /\ Left > 9 /\ s \in Hybrid)
  BY DEF CallInv, TypeOK
<1>2. /\ mode \in {"standalone", "validating", "separate", "colocated"}
      /\ mode \in {"standalone", "colocated"} => Guests = {} /\ Core = Servers
      /\ mode \in {"validating", "separate"} => Guests = Hybrid /\ Core = Standalone
      /\ Servers = Core \cup Guests /\ mode \in Modes
  BY Deployment DEF TypeOK
<1>3. /\ Left \in Nat /\ Swap \in {2, 6, 15} /\ version \in Nat
      /\ Current = IF Left >= Swap THEN version - 1 ELSE version
  BY CurrentVersion
<1>4. Longest \in Nat /\ Left <= Longest BY <1>2, Present
<1> HIDE DEF s
<1>5. s \in Core => Serves(s, Current) BY <1>1, <1>3 DEF CoreInv, Serves
<1>6. s \in Hybrid /\ mode = "validating" => Serves(s, Current)
  BY <1>1, <1>3, <1>4 DEF ValidatingInv, Serves, Swap, Longest
<1>7. s \in Hybrid /\ mode = "separate" => Serves(s, Current)
  BY <1>1, <1>3, <1>4 DEF SeparateInv, Serves, Swap, Longest
<1>8. Serves(s, Current) BY <1>1, <1>2, <1>5, <1>6, <1>7
<1>9. QED BY <1>1, <1>8 DEF s

\* Nothing generates while the weights of the core servers are replaced.
LEMMA NoneRuns ==
    ASSUME TypeOK, PlanInv, CoreInv, ValidatingInv, SeparateInv, CallInv, Left = Swap,
           NEW r \in Requests
    PROVE  cpc[r] # "running"
<1> SUFFICES ASSUME cpc[r] = "running" PROVE FALSE
  OBVIOUS
<1> DEFINE s == at[r]
<1>1. /\ s \in Servers /\ s \notin paused /\ s \notin asleep
      /\ ~(mode = "validating" /\ Validates /\ Left > 9 /\ s \in Hybrid)
  BY DEF CallInv, TypeOK
<1>2. /\ mode \in {"standalone", "validating", "separate", "colocated"}
      /\ mode \in {"standalone", "colocated"} => Guests = {} /\ Core = Servers
      /\ mode \in {"validating", "separate"} => Guests = Hybrid /\ Core = Standalone
      /\ Servers = Core \cup Guests /\ mode \in Modes
  BY Deployment DEF TypeOK
<1> HIDE DEF s
<1>3. CASE s \in Core BY <1>1, <1>3 DEF CoreInv
<1>4. CASE s \in Hybrid /\ mode = "validating"
  BY <1>1, <1>4 DEF ValidatingInv, Swap
<1>5. CASE s \in Hybrid /\ mode = "separate"
  BY <1>1, <1>5 DEF SeparateInv, Swap
<1>6. QED BY <1>1, <1>2, <1>3, <1>4, <1>5

LEMMA CurrentStep ==
    ASSUME TypeOK, PlanInv, CoreInv, ValidatingInv, SeparateInv, CallInv, [Next]_vars
    PROVE  \/ Current' = Current
           \/ /\ Current' = Current + 1 /\ UNCHANGED clientVars
              /\ \A r \in Requests : cpc[r] # "running"
<1>1. /\ Left \in Nat /\ Swap \in {2, 6, 15} /\ version \in Nat /\ mode \in Modes
      /\ Current = IF Left >= Swap THEN version - 1 ELSE version
  BY CurrentVersion DEF TypeOK
<1>2. Current' = IF Left' >= Swap' THEN version' - 1 ELSE version'
  BY DEF Current
<1>3. CASE UNCHANGED <<mode, managerVars>>
  BY <1>1, <1>2, <1>3, SamePlan, SameUpdate DEF managerVars
<1>4. CASE StartUpdate
  <2>1. /\ version' = version + 1 /\ mode' = mode /\ plan = <<>>
        /\ Follow(StepPlan(version'))
    BY <1>4 DEF StartUpdate
  <2>2. Left = 0 BY <1>1, <2>1, Present
  <2>3. /\ mode = "standalone" => Left' = 3
        /\ mode = "colocated" => Left' = 4
        /\ mode = "validating" => Left' = IF Validates' THEN 16 ELSE 3
        /\ mode = "separate" => Left' = IF Hybrid \cap Pool = {}
                                        THEN IF Validates' THEN 7 ELSE 3
                                        ELSE IF Validates' THEN 10 ELSE 6
    BY <1>1, <2>1, StartPlan
  <2>4. Left' >= Swap'
    <3>1. mode \in {"standalone", "validating", "separate", "colocated"} BY <1>1, Deployment
    <3>2. QED BY <2>1, <2>3, <3>1 DEF Swap
  <2>5. QED BY <1>1, <1>2, <2>1, <2>2, <2>4
<1>5. ASSUME NEW s \in Servers, Abort(s) \/ Resume(s) \/ Sleep(s) PROVE Current' = Current
  <2>1. /\ s \in todo /\ plan # <<>> /\ StageDone(s) /\ mode' = mode
        /\ Stages("abort") \/ Stages("resume") \/ Stages("sleep")
    BY <1>5 DEF Abort, Resume, Sleep, Stages
  <2>2. /\ Left \in 1 .. Longest /\ At(Left).op \in {"abort", "resume", "sleep"}
        /\ Left' \in {Left, Left - 1} /\ Swap' = Swap /\ version' = version
    BY <2>1, StageNow, StageStep DEF AtStage, SamePhase, Stays, GoesOnTo
  <2>3. Left # Swap BY <1>1, <2>2, OpAt DEF Swap
  <2>4. QED BY <1>1, <1>2, <2>2, <2>3
<1>6. CASE AddReplicas \/ Validate \/ RemoveReplicas
  <2>1. /\ plan # <<>> /\ Follow(Tail(plan)) /\ UNCHANGED <<mode, version>>
        /\ Stages("add") \/ Stages("validate") \/ Stages("remove")
    BY <1>6 DEF AddReplicas, Validate, RemoveReplicas, Stages
  <2>2. Left' = Left - 1 /\ Swap' = Swap BY <1>1, <2>1, NextStage, SameUpdate
  <2>3. Left \in 1 .. Longest /\ At(Left).op \in {"add", "validate", "remove"}
    BY <1>1, <2>1, Present DEF Stages
  <2>4. Left # Swap BY <1>1, <2>3, OpAt DEF Swap
  <2>5. QED BY <1>1, <1>2, <2>1, <2>2, <2>4
<1>7. ASSUME NEW s \in Servers, SetGlobalSteps(s)
      PROVE  \/ Current' = Current
             \/ /\ Current' = Current + 1 /\ UNCHANGED clientVars
                /\ \A r \in Requests : cpc[r] # "running"
  <2>1. /\ s \in todo /\ plan # <<>> /\ StageDone(s) /\ mode' = mode /\ UNCHANGED clientVars
    BY <1>7 DEF SetGlobalSteps, Stages
  <2>2. Left' \in {Left, Left - 1} /\ Swap' = Swap /\ version' = version
    BY <2>1, StageStep DEF SamePhase, Stays, GoesOnTo
  <2>3. CASE Left = Swap
    <3>1. \A r \in Requests : cpc[r] # "running" BY <2>3, NoneRuns
    <3>2. QED BY <1>1, <1>2, <2>1, <2>2, <2>3, <3>1
  <2>4. CASE Left # Swap BY <1>1, <1>2, <2>2, <2>4
  <2>5. QED BY <2>3, <2>4
<1>8. ASSUME NEW r \in Requests, Client(r) PROVE UNCHANGED <<mode, managerVars>>
  BY <1>8 DEF Client, Acquire, Arrive, Generate, DeliverRelease
<1>9. ASSUME NEW s \in Servers, BeginTransfer(s) \/ EndTransfer(s)
      PROVE  UNCHANGED <<mode, managerVars>>
  BY <1>9 DEF BeginTransfer, EndTransfer
<1>10. CASE Terminated \/ UNCHANGED vars BY <1>3, <1>10 DEF Terminated, vars
<1>11. QED BY <1>3, <1>4, <1>5, <1>6, <1>7, <1>8, <1>9, <1>10 DEF Next, Manager

\* One token more.
LEMMA LongerTokens ==
    ASSUME NEW S, NEW t \in Seq(S), NEW v \in S
    PROVE  /\ Append(t, v) \in Seq(S) /\ Len(Append(t, v)) = Len(t) + 1
           /\ \A i \in DOMAIN Append(t, v) :
                  Append(t, v)[i] = v \/ (i \in DOMAIN t /\ Append(t, v)[i] = t[i])
OBVIOUS

LEMMA AnsweredLabels ==
    ASSUME TypeOK, PlanInv, CoreInv, ValidatingInv, SeparateInv, CallInv, LabelInv,
           Current' = Current,
           NEW rs \in SUBSET Requests, NEW response, NEW aborted,
           AnswerWith(rs, response, aborted), \A r \in rs : cpc[r] = "running",
           \A r \in Requests \ rs : response[r] = tokens[r],
           \A r \in rs : \A i \in DOMAIN response[r] :
               \/ response[r][i] = Current
               \/ i \in DOMAIN tokens[r] /\ response[r][i] = tokens[r][i]
    PROVE  LabelInv'
<1>1. Current \in Nat /\ NoLabel \notin Nat BY CurrentVersion
<1>2. SUFFICES ASSUME NEW r \in Requests
      PROVE  /\ \A i \in DOMAIN tokens'[r] : tokens'[r][i] \in 0 .. Current
             /\ minLabel'[r] = NoLabel => IF cpc'[r] = "running"
                                THEN \A i \in DOMAIN tokens'[r] : tokens'[r][i] = Current
                                ELSE tokens'[r] = <<>> /\ cpc'[r] \notin {"backoff", "done"}
             /\ minLabel'[r] # NoLabel =>
                  /\ minLabel'[r] <= Current /\ maxLabel'[r] \in 0 .. Current
                  /\ \A i \in DOMAIN tokens'[r] : minLabel'[r] <= tokens'[r][i]
                  /\ cpc'[r] # "running" =>
                         \A i \in DOMAIN tokens'[r] : tokens'[r][i] <= maxLabel'[r]
  BY DEF LabelInv
<1>3. /\ \A i \in DOMAIN tokens[r] : tokens[r][i] \in 0 .. Current
      /\ minLabel[r] = NoLabel => IF cpc[r] = "running"
                                  THEN \A i \in DOMAIN tokens[r] : tokens[r][i] = Current
                                  ELSE tokens[r] = <<>> /\ cpc[r] \notin {"backoff", "done"}
      /\ minLabel[r] # NoLabel =>
           /\ minLabel[r] <= Current /\ maxLabel[r] \in 0 .. Current
           /\ \A i \in DOMAIN tokens[r] : minLabel[r] <= tokens[r][i]
           /\ cpc[r] # "running" => \A i \in DOMAIN tokens[r] : tokens[r][i] <= maxLabel[r]
  BY DEF LabelInv
<1>4. tokens' = response BY DEF AnswerWith
<1>5. CASE r \notin rs
  <2>1. /\ cpc'[r] = cpc[r] /\ minLabel'[r] = minLabel[r] /\ maxLabel'[r] = maxLabel[r]
        /\ tokens'[r] = tokens[r]
    BY <1>4, <1>5 DEF AnswerWith
  <2>2. QED BY <1>3, <2>1
<1>6. CASE r \in rs
  <2>1. steps[at[r]] = Current BY <1>6, AwakeServes DEF Serves
  <2>2. /\ cpc'[r] \in {"backoff", "done"} /\ maxLabel'[r] = Current
        /\ minLabel'[r] = IF minLabel[r] = NoLabel THEN Current ELSE minLabel[r]
    BY <1>6, <2>1 DEF AnswerWith
  <2>3. \A i \in DOMAIN tokens'[r] :
            \/ tokens'[r][i] = Current
            \/ i \in DOMAIN tokens[r] /\ tokens'[r][i] = tokens[r][i]
    BY <1>4, <1>6
  <2>4. minLabel[r] \in Nat \cup {NoLabel} /\ cpc[r] = "running" BY <1>6 DEF TypeOK
  <2>5. \A i \in DOMAIN tokens'[r] : tokens'[r][i] \in 0 .. Current BY <1>1, <1>3, <2>3
  <2>6. minLabel'[r] # NoLabel /\ minLabel'[r] <= Current BY <1>1, <1>3, <2>2, <2>4
  <2>7. \A i \in DOMAIN tokens'[r] : minLabel'[r] <= tokens'[r][i]
    <3>1. CASE minLabel[r] = NoLabel
      <4>1. \A i \in DOMAIN tokens'[r] : tokens'[r][i] = Current BY <1>3, <2>3, <2>4, <3>1
      <4>2. QED BY <1>1, <2>2, <3>1, <4>1
    <3>2. CASE minLabel[r] # NoLabel BY <1>1, <1>3, <2>2, <2>3, <2>4, <3>2
    <3>3. QED BY <3>1, <3>2
  <2>8. \A i \in DOMAIN tokens'[r] : tokens'[r][i] <= maxLabel'[r] BY <1>1, <2>2, <2>5
  <2>9. QED BY <1>1, <2>2, <2>5, <2>6, <2>7, <2>8
<1>7. QED BY <1>5, <1>6

LEMMA LabelsKept ==
    ASSUME TypeOK, PlanInv, CoreInv, ValidatingInv, SeparateInv, CallInv, LabelInv, [Next]_vars
    PROVE  LabelInv'
<1>1. Current \in Nat /\ NoLabel \notin Nat BY CurrentVersion
<1>2. ASSUME Current' = Current, UNCHANGED <<tokens, minLabel, maxLabel>>,
             \A r \in Requests :
                 \/ cpc'[r] = cpc[r]
                 \/ /\ cpc[r] # "running"
                    /\ cpc'[r] = "running" => cpc[r] \in {"sent", "held"}
                    /\ cpc'[r] \notin {"backoff", "done"}
      PROVE  LabelInv'
  <2> SUFFICES ASSUME NEW r \in Requests
      PROVE  /\ \A i \in DOMAIN tokens[r] : tokens[r][i] \in 0 .. Current
             /\ minLabel[r] = NoLabel => IF cpc'[r] = "running"
                                THEN \A i \in DOMAIN tokens[r] : tokens[r][i] = Current
                                ELSE tokens[r] = <<>> /\ cpc'[r] \notin {"backoff", "done"}
             /\ minLabel[r] # NoLabel =>
                  /\ minLabel[r] <= Current /\ maxLabel[r] \in 0 .. Current
                  /\ \A i \in DOMAIN tokens[r] : minLabel[r] <= tokens[r][i]
                  /\ cpc'[r] # "running" => \A i \in DOMAIN tokens[r] : tokens[r][i] <= maxLabel[r]
    BY <1>2 DEF LabelInv
  <2>1. CASE cpc'[r] = cpc[r] BY <2>1 DEF LabelInv
  <2>2. CASE /\ cpc[r] # "running"
             /\ cpc'[r] = "running" => cpc[r] \in {"sent", "held"}
             /\ cpc'[r] \notin {"backoff", "done"}
    BY <2>2 DEF LabelInv
  <2>3. QED BY <1>2, <2>1, <2>2
<1>3. CASE /\ Current' = Current + 1 /\ UNCHANGED clientVars
           /\ \A r \in Requests : cpc[r] # "running"
  <2> DEFINE c == Current + 1
  <2>1. c \in Nat /\ \A v \in 0 .. Current : v \in 0 .. c BY <1>1
  <2>2. \A v \in Nat : v <= Current => v <= c BY <1>1
  <2>3. Current' = c BY <1>3
  <2> HIDE DEF c
  <2>4. ASSUME NEW r \in Requests
        PROVE  /\ \A i \in DOMAIN tokens[r] : tokens[r][i] \in 0 .. c
               /\ minLabel[r] = NoLabel => tokens[r] = <<>> /\ cpc[r] \notin {"backoff", "done"}
               /\ minLabel[r] # NoLabel =>
                    /\ minLabel[r] <= c /\ maxLabel[r] \in 0 .. c
                    /\ \A i \in DOMAIN tokens[r] : minLabel[r] <= tokens[r][i]
                    /\ \A i \in DOMAIN tokens[r] : tokens[r][i] <= maxLabel[r]
    BY <1>1, <1>3, <2>1, <2>2 DEF LabelInv, TypeOK
  <2>5. UNCHANGED <<cpc, tokens, minLabel, maxLabel>> BY <1>3 DEF clientVars
  <2>6. QED BY <1>3, <2>3, <2>4, <2>5 DEF LabelInv
<1>4. CASE Current' = Current
  <2>1. ASSUME NEW r \in Requests, Acquire(r) PROVE LabelInv'
    <3>1. /\ UNCHANGED <<tokens, minLabel, maxLabel>> /\ cpc[r] \in {"idle", "backoff"}
          /\ \A q \in Requests : cpc'[q] = IF q = r THEN "sent" ELSE cpc[q]
      BY <2>1 DEF Acquire, TypeOK
    <3>2. QED BY <1>2, <1>4, <3>1
  <2>2. ASSUME NEW r \in Requests, Arrive(r) PROVE LabelInv'
    <3>1. /\ UNCHANGED <<tokens, minLabel, maxLabel>> /\ cpc[r] = "sent"
          /\ \A q \in Requests : IF q = r THEN cpc'[q] \in {"held", "lost", "running"}
                                 ELSE cpc'[q] = cpc[q]
      BY <2>2 DEF Arrive, Started, TypeOK
    <3>2. QED BY <1>2, <1>4, <3>1
  <2>3. ASSUME NEW r \in Requests, Generate(r) PROVE LabelInv'
    <3> DEFINE longer == [tokens EXCEPT ![r] = Append(@, weights[at[r]])]
    <3>1. cpc[r] = "running" BY <2>3 DEF Generate
    <3>2. weights[at[r]] = Current BY <3>1, AwakeServes DEF Serves
    <3>3. tokens[r] \in Seq(Nat \cup {Torn}) /\ Current \in Nat \cup {Torn}
      BY <1>1 DEF TypeOK
    <3>4. longer = [tokens EXCEPT ![r] = Append(tokens[r], Current)] BY <3>2
    <3>5. \A q \in Requests : longer[q] = IF q = r THEN Append(tokens[r], Current) ELSE tokens[q]
      BY <3>4 DEF TypeOK
    <3> HIDE DEF longer
    <3>6. \A i \in DOMAIN longer[r] :
              longer[r][i] = Current \/ (i \in DOMAIN tokens[r] /\ longer[r][i] = tokens[r][i])
      <4> DEFINE t == tokens[r]
                 u == Append(t, Current)
      <4>1. t \in Seq(Nat \cup {Torn}) BY <3>3
      <4>2. \A i \in DOMAIN u : u[i] = Current \/ (i \in DOMAIN t /\ u[i] = t[i])
        <5> HIDE DEF t
        <5>1. QED BY <3>3, <4>1, LongerTokens
      <4>3. longer[r] = u BY <3>5
      <4> HIDE DEF u
      <4>4. QED BY <4>2, <4>3
    <3>7. CASE AnswerWith({r}, longer, FALSE)
      <4>1. {r} \in SUBSET Requests /\ \A q \in {r} : cpc[q] = "running" BY <3>1
      <4>2. \A q \in Requests \ {r} : longer[q] = tokens[q] BY <3>5
      <4>3. \A q \in {r} : \A i \in DOMAIN longer[q] :
                \/ longer[q][i] = Current
                \/ i \in DOMAIN tokens[q] /\ longer[q][i] = tokens[q][i]
        BY <3>6
      <4>4. QED BY <1>4, <3>7, <4>1, <4>2, <4>3, AnsweredLabels
    <3>8. CASE tokens' = longer /\ UNCHANGED <<cpc, at, releasing, minLabel, maxLabel>>
      <4> SUFFICES ASSUME NEW q \in Requests
          PROVE  /\ \A i \in DOMAIN longer[q] : longer[q][i] \in 0 .. Current
                 /\ minLabel[q] = NoLabel => IF cpc[q] = "running"
                                    THEN \A i \in DOMAIN longer[q] : longer[q][i] = Current
                                    ELSE longer[q] = <<>> /\ cpc[q] \notin {"backoff", "done"}
                 /\ minLabel[q] # NoLabel =>
                      /\ minLabel[q] <= Current /\ maxLabel[q] \in 0 .. Current
                      /\ \A i \in DOMAIN longer[q] : minLabel[q] <= longer[q][i]
                      /\ cpc[q] # "running" =>
                             \A i \in DOMAIN longer[q] : longer[q][i] <= maxLabel[q]
        BY <1>4, <3>8 DEF LabelInv
      <4>1. CASE q # r
        <5>1. longer[q] = tokens[q] BY <3>5, <4>1
        <5>2. QED BY <5>1 DEF LabelInv
      <4>2. CASE q = r
        <5>1. /\ \A i \in DOMAIN tokens[r] : tokens[r][i] \in 0 .. Current
              /\ minLabel[r] = NoLabel => \A i \in DOMAIN tokens[r] : tokens[r][i] = Current
              /\ minLabel[r] # NoLabel =>
                   /\ minLabel[r] <= Current /\ maxLabel[r] \in 0 .. Current
                   /\ \A i \in DOMAIN tokens[r] : minLabel[r] <= tokens[r][i]
          BY <3>1 DEF LabelInv
        <5>2. QED BY <1>1, <3>1, <3>6, <4>2, <5>1
      <4>3. QED BY <4>1, <4>2
    <3>9. QED BY <2>3, <3>7, <3>8 DEF Generate, longer
  <2>4. ASSUME NEW s \in Servers, Abort(s) PROVE LabelInv'
    <3> DEFINE rs == {r \in Requests : cpc[r] = "running" /\ at[r] = s}
    <3>1. AnswerWith(rs, tokens, TRUE) BY <2>4 DEF Abort
    <3>2. rs \in SUBSET Requests /\ \A r \in rs : cpc[r] = "running" OBVIOUS
    <3> HIDE DEF rs
    <3>3. QED BY <1>4, <3>1, <3>2, AnsweredLabels
  <2>5. ASSUME NEW s \in Servers, Resume(s) PROVE LabelInv'
    <3>1. /\ UNCHANGED <<tokens, minLabel, maxLabel>>
          /\ \A r \in Requests : \/ cpc'[r] = cpc[r]
                                 \/ cpc[r] = "held" /\ cpc'[r] \in {"lost", "running"}
      BY <2>5 DEF Resume, Started
    <3>2. QED BY <1>2, <1>4, <3>1
  <2>6. CASE UNCHANGED <<cpc, tokens, minLabel, maxLabel>> BY <1>2, <1>4, <2>6
  <2>7. ASSUME NEW r \in Requests, DeliverRelease(r)
        PROVE  UNCHANGED <<cpc, tokens, minLabel, maxLabel>>
    BY <2>7 DEF DeliverRelease
  <2>8. ASSUME NEW s \in Servers, \/ Sleep(s) \/ BeginTransfer(s) \/ EndTransfer(s)
                                  \/ SetGlobalSteps(s)
        PROVE  UNCHANGED <<cpc, tokens, minLabel, maxLabel>>
    BY <2>8 DEF Sleep, BeginTransfer, EndTransfer, SetGlobalSteps, clientVars
  <2>9. CASE \/ StartUpdate \/ AddReplicas \/ Validate \/ RemoveReplicas
             \/ Terminated \/ UNCHANGED vars
    BY <2>6, <2>9
    DEF StartUpdate, AddReplicas, Validate, RemoveReplicas, Terminated, vars, clientVars
  <2>10. QED BY <2>1, <2>2, <2>3, <2>4, <2>5, <2>6, <2>7, <2>8, <2>9 DEF Next, Client, Manager
<1>5. QED BY <1>3, <1>4, CurrentStep

-----------------------------------------------------------------------------
(* The lengths of the responses.                                           *)

LEMMA RoomKept ==
    ASSUME TypeOK, RoomInv, [Next]_vars
    PROVE  RoomInv'
<1>1. CallerLimit \in Nat \ {0} /\ Limited \subseteq Requests BY LengthAssumption
<1>2. \A r \in Requests : /\ tokens[r] \in Seq(Nat \cup {Torn}) /\ Len(tokens[r]) \in Nat
                          /\ room[r] \in Nat
  <2>1. \A t \in Seq(Nat \cup {Torn}) : Len(t) \in Nat OBVIOUS
  <2>2. QED BY <2>1 DEF TypeOK
<1>3. CASE UNCHANGED <<cpc, tokens, room>> BY <1>3 DEF RoomInv
<1>4. ASSUME NEW q \in Requests, Acquire(q) PROVE RoomInv'
  <2>1. /\ UNCHANGED <<tokens, room>> /\ cpc[q] \in {"idle", "backoff"}
        /\ \A r \in Requests : cpc'[r] = IF r = q THEN "sent" ELSE cpc[r]
    BY <1>4 DEF Acquire, TypeOK
  <2>2. QED BY <1>1, <2>1 DEF RoomInv
<1>5. ASSUME NEW q \in Requests, Arrive(q) PROVE RoomInv'
  <2>1. /\ cpc[q] = "sent" /\ tokens' = tokens
        /\ \A r \in Requests : /\ r # q => cpc'[r] = cpc[r]
                               /\ room'[r] = IF r = q THEN MaxTokens(q) ELSE room[r]
    BY <1>5 DEF Arrive, Started, TypeOK
  <2>2. cpc'[q] \in {"held", "running", "lost"} BY <1>5 DEF Arrive, Started, TypeOK
  <2> DEFINE m == MaxTokens(q)
  <2>3. m \in Nat \ {0} /\ (q \in Limited /\ Len(tokens[q]) < CallerLimit =>
                                Len(tokens[q]) + m <= CallerLimit)
    BY <1>2, MaxTokensBounds
  <2> HIDE DEF m
  <2>4. \A r \in Requests : room'[r] = IF r = q THEN m ELSE room[r] BY <2>1 DEF m
  <2>5. QED BY <1>1, <1>2, <2>1, <2>2, <2>3, <2>4 DEF RoomInv
<1>6. ASSUME NEW rs \in SUBSET Requests, NEW response, NEW aborted \in BOOLEAN,
             AnswerWith(rs, response, aborted),
             \A r \in Requests : r \notin rs => response[r] = tokens[r],
             \A r \in rs : r \in Limited =>
                 Len(response[r]) \in Nat /\ Len(response[r]) <= CallerLimit
      PROVE  RoomInv'
  <2>1. SUFFICES ASSUME NEW r \in Limited
                 PROVE  /\ cpc'[r] = "idle" => tokens'[r] = <<>>
                        /\ cpc'[r] \in {"idle", "sent", "backoff"} => Len(tokens'[r]) < CallerLimit
                        /\ cpc'[r] \in {"held", "running", "lost"} =>
                               room'[r] > 0 /\ Len(tokens'[r]) + room'[r] <= CallerLimit
                        /\ Len(tokens'[r]) <= CallerLimit
    BY DEF RoomInv
  <2>2. r \in Requests /\ tokens' = response BY <1>1, <1>6 DEF AnswerWith
  <2>3. CASE r \in rs
    <3>1. cpc'[r] = IF GoesOn(r, response[r], aborted) THEN "backoff" ELSE "done"
      BY <1>6, <2>2, <2>3 DEF AnswerWith
    <3>2. GoesOn(r, response[r], aborted) => Len(response[r]) < CallerLimit
      BY <1>1, <1>6, <2>3 DEF GoesOn
    <3>3. Len(response[r]) <= CallerLimit BY <1>6, <2>3
    <3>4. QED BY <2>2, <3>1, <3>2, <3>3
  <2>4. CASE r \notin rs
    <3>1. cpc'[r] = cpc[r] /\ room'[r] = room[r] /\ tokens'[r] = tokens[r]
      BY <1>6, <2>2, <2>4 DEF AnswerWith
    <3>2. QED BY <3>1 DEF RoomInv
  <2>5. QED BY <2>3, <2>4
<1>7. ASSUME NEW q \in Requests, Generate(q) PROVE RoomInv'
  <2> DEFINE longer == [tokens EXCEPT ![q] = Append(@, weights[at[q]])]
             n == Len(tokens[q])
  <2>1. cpc[q] = "running" BY <1>7 DEF Generate
  <2>2. q \in Limited => room[q] > 0 /\ n + room[q] <= CallerLimit BY <2>1 DEF RoomInv
  <2>3. n \in Nat /\ room[q] \in Nat BY <1>2
  <2>4. Len(longer[q]) = n + 1 /\ \A r \in Requests : r # q => longer[r] = tokens[r]
    <3> DEFINE t == tokens[q]
               v == weights[at[q]]
               S == Nat \cup {Torn, v}
    <3>1. longer[q] = Append(t, v) /\ \A r \in Requests : r # q => longer[r] = tokens[r]
      BY DEF TypeOK
    <3>2. t \in Seq(Nat \cup {Torn}) BY <1>2
    <3> HIDE DEF t, v
    <3>3. Len(Append(t, v)) = Len(t) + 1 BY <3>2
    <3> HIDE DEF longer
    <3>4. QED BY <3>1, <3>3 DEF t
  <2> HIDE DEF longer, n
  <2>5. CASE AnswerWith({q}, longer, FALSE)
    <3>1. {q} \in SUBSET Requests /\ \A r \in Requests : r \notin {q} => longer[r] = tokens[r]
      BY <2>4
    <3>2. \A r \in {q} : r \in Limited => Len(longer[r]) \in Nat /\ Len(longer[r]) <= CallerLimit
      BY <1>1, <2>2, <2>3, <2>4
    <3>3. QED BY <1>6, <2>5, <3>1, <3>2
  <2>6. CASE /\ room[q] > 1 /\ room' = [room EXCEPT ![q] = @ - 1] /\ tokens' = longer
             /\ UNCHANGED <<cpc, at, releasing, minLabel, maxLabel>>
    <3>1. \A r \in Requests : room'[r] = IF r = q THEN room[r] - 1 ELSE room[r]
      BY <2>6 DEF TypeOK
    <3>2. ASSUME NEW r \in Limited
          PROVE  /\ cpc[r] = "idle" => tokens'[r] = <<>>
                 /\ cpc[r] \in {"idle", "sent", "backoff"} => Len(tokens'[r]) < CallerLimit
                 /\ cpc[r] \in {"held", "running", "lost"} =>
                        room'[r] > 0 /\ Len(tokens'[r]) + room'[r] <= CallerLimit
                 /\ Len(tokens'[r]) <= CallerLimit
      <4>1. CASE r # q
        <5>1. tokens'[r] = tokens[r] /\ room'[r] = room[r] BY <1>1, <2>4, <2>6, <3>1, <4>1
        <5>2. QED BY <5>1 DEF RoomInv
      <4>2. CASE r = q
        <5>1. Len(tokens'[r]) = n + 1 /\ room'[r] = room[q] - 1 BY <2>4, <2>6, <3>1, <4>2
        <5>2. QED BY <1>1, <2>1, <2>2, <2>3, <2>6, <4>2, <5>1
      <4>3. QED BY <4>1, <4>2
    <3>3. QED BY <2>6, <3>2 DEF RoomInv
  <2>7. QED BY <1>7, <2>5, <2>6 DEF Generate, longer
<1>8. ASSUME NEW s \in Servers, Abort(s) PROVE RoomInv'
  <2> DEFINE rs == {r \in Requests : cpc[r] = "running" /\ at[r] = s}
  <2>1. AnswerWith(rs, tokens, TRUE) BY <1>8 DEF Abort
  <2>2. rs \in SUBSET Requests OBVIOUS
  <2>3. \A r \in rs : r \in Limited => Len(tokens[r]) \in Nat /\ Len(tokens[r]) <= CallerLimit
    BY <1>2 DEF RoomInv
  <2> HIDE DEF rs
  <2>4. QED BY <1>6, <2>1, <2>2, <2>3
<1>9. ASSUME NEW s \in Servers, Resume(s) PROVE RoomInv'
  <2>1. /\ UNCHANGED <<tokens, room>>
        /\ \A r \in Requests : \/ cpc'[r] = cpc[r]
                               \/ cpc[r] = "held" /\ cpc'[r] \in {"lost", "running"}
    BY <1>9 DEF Resume, Started
  <2>2. QED BY <1>1, <2>1 DEF RoomInv
<1>10. ASSUME NEW r \in Requests, DeliverRelease(r) PROVE RoomInv'
  BY <1>3, <1>10 DEF DeliverRelease
<1>11. ASSUME NEW s \in Servers, \/ Sleep(s) \/ BeginTransfer(s) \/ EndTransfer(s)
                                 \/ SetGlobalSteps(s)
       PROVE  RoomInv'
  BY <1>3, <1>11 DEF Sleep, BeginTransfer, EndTransfer, SetGlobalSteps, clientVars
<1>12. CASE StartUpdate \/ AddReplicas \/ Validate \/ RemoveReplicas \/ Terminated \/ UNCHANGED vars
  BY <1>3, <1>12
  DEF StartUpdate, AddReplicas, Validate, RemoveReplicas, Terminated, vars, clientVars
<1>13. QED BY <1>4, <1>5, <1>7, <1>8, <1>9, <1>10, <1>11, <1>12 DEF Next, Client, Manager

-----------------------------------------------------------------------------
(* The counts of the balancer.                                             *)

LEMMA Counted ==
    ASSUME NEW s
    PROVE  IsFiniteSet(Outstanding(s)) /\ Cardinality(Outstanding(s)) \in Nat
<1>1. IsFiniteSet(Requests) /\ Outstanding(s) \subseteq Requests
  BY RolloutServersAssumption DEF Outstanding
<1>2. QED BY <1>1, FS_Subset, FS_CardinalityType

LEMMA CountsKept ==
    ASSUME TypeOK, PlanInv, CallInv, CountInv, [Next]_vars
    PROVE  CountInv'
<1>1. \A s : IsFiniteSet(Outstanding(s)) /\ Cardinality(Outstanding(s)) \in Nat BY Counted
<1>2. inflight \in [Pool -> Nat] /\ Pool \subseteq Servers /\ NoServer \notin Servers
  BY RolloutServersAssumption DEF TypeOK, BalancerTypeOK
<1>3. Guests' = Guests
  <2>1. mode' = mode BY NotEarlier DEF StartUpdate
  <2>2. QED BY <2>1 DEF Guests, Trainers
<1>4. ASSUME Pool' = Pool, inflight' = inflight,
             \A s \in Servers : Outstanding(s)' = Outstanding(s)
      PROVE  CountInv'
  BY <1>2, <1>3, <1>4 DEF CountInv
<1>5. ASSUME UNCHANGED <<balancerVars, at, releasing>> PROVE CountInv'
  <2>1. \A s : Outstanding(s)' = Outstanding(s) BY <1>5 DEF Outstanding
  <2>2. QED BY <1>4, <1>5, <2>1, SameBalancer
<1>6. ASSUME NEW r \in Requests, Acquire(r) PROVE CountInv'
  <2>1. PICK s \in Servers : AcquireServer(r, s) /\ at' = [at EXCEPT ![r] = s]
    BY <1>6 DEF Acquire
  <2>2. /\ Pool' = Pool /\ s \in Pool
        /\ \A t \in Pool : inflight'[t] = IF t = s THEN inflight[t] + 1 ELSE inflight[t]
    BY <2>1, AcquireTypes DEF TypeOK
  <2>3. at[r] = NoServer /\ releasing[r] = NoServer /\ releasing' = releasing
    BY <1>6 DEF Acquire, CallInv
  <2>4. \A q \in Requests : at'[q] = IF q = r THEN s ELSE at[q] BY <2>1 DEF TypeOK
  <2>5. Outstanding(s)' = Outstanding(s) \cup {r} /\ r \notin Outstanding(s)
    BY <1>2, <2>3, <2>4 DEF Outstanding
  <2>6. \A t \in Servers \ {s} : Outstanding(t)' = Outstanding(t)
    BY <1>2, <2>3, <2>4 DEF Outstanding
  <2>7. Cardinality(Outstanding(s) \cup {r}) = Cardinality(Outstanding(s)) + 1
    BY <1>1, <2>5, FS_AddElement
  <2>8. ASSUME NEW t \in Pool
        PROVE  /\ inflight'[t] <= Cardinality(Outstanding(t)')
               /\ t \notin Guests => inflight'[t] = Cardinality(Outstanding(t)')
    <3>1. /\ inflight[t] <= Cardinality(Outstanding(t)) /\ inflight[t] \in Nat
          /\ t \notin Guests => inflight[t] = Cardinality(Outstanding(t))
      BY <1>2 DEF CountInv
    <3>2. CASE t = s
      <4>1. inflight'[t] = inflight[t] + 1 /\ Outstanding(t)' = Outstanding(t) \cup {r}
        BY <2>2, <2>5, <3>2
      <4>2. Cardinality(Outstanding(t) \cup {r}) = Cardinality(Outstanding(t)) + 1
        BY <2>7, <3>2
      <4>3. Cardinality(Outstanding(t)') = Cardinality(Outstanding(t)) + 1 BY <4>1, <4>2
      <4>4. QED BY <1>1, <3>1, <4>1, <4>3
    <3>3. CASE t # s
      <4>1. inflight'[t] = inflight[t] /\ Outstanding(t)' = Outstanding(t) BY <1>2, <2>2, <2>6, <3>3
      <4>2. QED BY <3>1, <4>1
    <3>4. QED BY <3>2, <3>3
  <2>9. QED BY <1>3, <2>2, <2>8 DEF CountInv
<1>7. ASSUME NEW r \in Requests, DeliverRelease(r) PROVE CountInv'
  <2>0. PICK s \in Servers : releasing[r] = s BY <1>7 DEF DeliverRelease, TypeOK
  <2>1. s # NoServer /\ ReleaseServer(s) /\ at' = at /\ at[r] = NoServer
    BY <1>2, <1>7, <2>0 DEF DeliverRelease, TypeOK, CallInv
  <2>2. /\ Pool' = Pool
        /\ \A t \in Pool : inflight'[t] = IF t = s /\ inflight[t] > 0
                                          THEN inflight[t] - 1 ELSE inflight[t]
    BY <2>1, ReleaseTypes DEF TypeOK
  <2>3. \A q \in Requests : releasing'[q] = IF q = r THEN NoServer ELSE releasing[q]
    BY <1>7 DEF DeliverRelease, TypeOK
  <2>4. releasing[r] = s BY <2>0
  <2>5. Outstanding(s)' = Outstanding(s) \ {r} /\ r \in Outstanding(s)
    BY <1>2, <2>1, <2>3, <2>4 DEF Outstanding
  <2>6. \A t \in Servers \ {s} : Outstanding(t)' = Outstanding(t)
    <3>1. ASSUME NEW t \in Servers \ {s}, NEW q \in Requests
          PROVE  (at'[q] = t \/ releasing'[q] = t) <=> (at[q] = t \/ releasing[q] = t)
      BY <1>2, <2>1, <2>3, <2>4
    <3>2. QED BY <3>1 DEF Outstanding
  <2>7. Cardinality(Outstanding(s) \ {r}) = Cardinality(Outstanding(s)) - 1
    BY <1>1, <2>5, FS_RemoveElement
  <2>8. Cardinality(Outstanding(s)) > 0
    <3>1. Cardinality(Outstanding(s) \ {r}) \in Nat
      BY <1>1, FS_RemoveElement, FS_Subset, FS_CardinalityType
    <3>2. QED BY <1>1, <2>7, <3>1
  <2>9. ASSUME NEW t \in Pool
        PROVE  /\ inflight'[t] <= Cardinality(Outstanding(t)')
               /\ t \notin Guests => inflight'[t] = Cardinality(Outstanding(t)')
    <3>1. /\ inflight[t] <= Cardinality(Outstanding(t)) /\ inflight[t] \in Nat
          /\ t \notin Guests => inflight[t] = Cardinality(Outstanding(t))
      BY <1>2 DEF CountInv
    <3>2. CASE t = s
      <4>1. inflight'[t] = IF inflight[t] > 0 THEN inflight[t] - 1 ELSE inflight[t]
        BY <2>2, <3>2
      <4>2. /\ Cardinality(Outstanding(t) \ {r}) = Cardinality(Outstanding(t)) - 1
            /\ Cardinality(Outstanding(t)) > 0
        BY <2>7, <2>8, <3>2
      <4>3. Cardinality(Outstanding(t)') = Cardinality(Outstanding(t)) - 1
        <5>1. Outstanding(t)' = Outstanding(t) \ {r} BY <2>5, <3>2
        <5>2. QED BY <4>2, <5>1
      <4>4. QED BY <1>1, <3>1, <4>1, <4>2, <4>3
    <3>3. CASE t # s
      <4>1. inflight'[t] = inflight[t] /\ Outstanding(t)' = Outstanding(t) BY <1>2, <2>2, <2>6, <3>3
      <4>2. QED BY <3>1, <4>1
    <3>4. QED BY <3>2, <3>3
  <2>10. QED BY <1>3, <2>2, <2>9 DEF CountInv
<1>8. ASSUME NEW rs \in SUBSET Requests, NEW response, NEW aborted,
             AnswerWith(rs, response, aborted), \A r \in rs : cpc[r] = "running",
             UNCHANGED balancerVars
      PROVE  CountInv'
  <2>1. ASSUME NEW s \in Servers, NEW r \in Requests
        PROVE  (at'[r] = s \/ releasing'[r] = s) <=> (at[r] = s \/ releasing[r] = s)
    <3>1. CASE r \in rs
      <4>1. at[r] # NoServer /\ releasing[r] = NoServer BY <1>8, <3>1 DEF CallInv
      <4>2. at'[r] = NoServer /\ releasing'[r] = at[r] BY <1>8, <3>1 DEF AnswerWith
      <4>3. QED BY <1>2, <4>1, <4>2
    <3>2. CASE r \notin rs
      <4>1. at'[r] = at[r] /\ releasing'[r] = releasing[r] BY <1>8, <3>2 DEF AnswerWith
      <4>2. QED BY <4>1
    <3>3. QED BY <3>1, <3>2
  <2>2. \A s \in Servers : Outstanding(s)' = Outstanding(s) BY <2>1 DEF Outstanding
  <2>3. QED BY <1>4, <1>8, <2>2, SameBalancer
<1>9. ASSUME NEW r \in Requests, Generate(r) PROVE CountInv'
  <2>1. CASE UNCHANGED <<cpc, at, releasing, minLabel, maxLabel>>
    BY <1>5, <1>9, <2>1 DEF Generate
  <2>2. CASE AnswerWith({r}, [tokens EXCEPT ![r] = Append(@, weights[at[r]])], FALSE)
    <3>1. {r} \in SUBSET Requests /\ (\A q \in {r} : cpc[q] = "running") /\ UNCHANGED balancerVars
      BY <1>9 DEF Generate
    <3>2. QED BY <1>8, <2>2, <3>1
  <2>3. QED BY <1>9, <2>1, <2>2 DEF Generate
<1>10. ASSUME NEW s \in Servers, Abort(s) PROVE CountInv'
  <2> DEFINE rs == {r \in Requests : cpc[r] = "running" /\ at[r] = s}
  <2>1. AnswerWith(rs, tokens, TRUE) /\ UNCHANGED balancerVars BY <1>10 DEF Abort
  <2>2. rs \in SUBSET Requests /\ \A r \in rs : cpc[r] = "running" OBVIOUS
  <2> HIDE DEF rs
  <2>3. QED BY <1>8, <2>1, <2>2
<1>11. CASE AddReplicas
  <2>1. /\ plan # <<>> /\ Stages("add") /\ AddServers(plan[1].on) /\ UNCHANGED <<at, releasing>>
        /\ mode \in Modes
    BY <1>11 DEF AddReplicas, Stages, clientVars, TypeOK
  <2>2. Left \in 1 .. Longest /\ plan[1] = At(Left) /\ At(Left).op = "add"
    BY <2>1, Present DEF Stages
  <2>3. plan[1].on = Hybrid /\ Guests = Hybrid
    <3>1. \/ mode = "validating" /\ Validates /\ Left = 10
          \/ mode = "separate" /\ Validates /\ Left = 2
      BY <2>1, <2>2, OpAt
    <3>2. At(Left).on = Hybrid BY <2>1, <3>1, OnAt
    <3>3. QED BY <2>1, <2>2, <3>1, <3>2, Deployment
  <2>4. Hybrid \in SUBSET Servers BY RolloutServersAssumption
  <2>5. /\ Pool' = Pool \cup Hybrid
        /\ \A t \in Pool' : inflight'[t] = IF t \in Hybrid THEN 0 ELSE inflight[t]
    BY <2>1, <2>3, <2>4, AddTypes DEF TypeOK
  <2>6. \A s : Outstanding(s)' = Outstanding(s) BY <2>1 DEF Outstanding
  <2>7. ASSUME NEW t \in Pool'
        PROVE  /\ inflight'[t] <= Cardinality(Outstanding(t))
               /\ t \notin Guests => inflight'[t] = Cardinality(Outstanding(t))
    BY <1>1, <2>3, <2>5 DEF CountInv
  <2>8. QED BY <1>3, <2>6, <2>7 DEF CountInv
<1>12. CASE RemoveReplicas
  <2>1. RemoveServers(plan[1].on) /\ UNCHANGED <<at, releasing>>
    BY <1>12 DEF RemoveReplicas, clientVars
  <2>2. Pool' \subseteq Pool /\ \A t \in Pool' : inflight'[t] = inflight[t]
    BY <2>1, RemoveTypes DEF TypeOK
  <2>3. \A s : Outstanding(s)' = Outstanding(s) BY <2>1 DEF Outstanding
  <2>4. QED BY <1>3, <2>2, <2>3 DEF CountInv
<1>13. ASSUME NEW r \in Requests, Arrive(r) PROVE CountInv'
  BY <1>5, <1>13 DEF Arrive
<1>14. ASSUME NEW s \in Servers, \/ Sleep(s) \/ BeginTransfer(s) \/ EndTransfer(s)
                                 \/ SetGlobalSteps(s) \/ Resume(s)
       PROVE  CountInv'
  BY <1>5, <1>14 DEF Sleep, BeginTransfer, EndTransfer, SetGlobalSteps, Resume, clientVars
<1>15. CASE StartUpdate \/ Validate \/ Terminated \/ UNCHANGED vars
  BY <1>5, <1>15 DEF StartUpdate, Validate, Terminated, vars, clientVars
<1>16. QED
  BY <1>6, <1>7, <1>9, <1>10, <1>11, <1>12, <1>13, <1>14, <1>15 DEF Next, Client, Manager

-----------------------------------------------------------------------------
(* The inductive invariant.                                                *)

RolloutInv ==
    /\ TypeOK /\ PlanInv
    /\ CoreInv /\ ValidatingInv /\ SeparateInv
    /\ CallInv /\ LabelInv /\ RoomInv /\ CountInv

LEMMA InitRollout ==
    ASSUME Init
    PROVE  RolloutInv
<1> USE DEF Init
<1>1. /\ mode \in {"standalone", "validating", "separate", "colocated"} /\ mode \in Modes
      /\ mode \in {"standalone", "colocated"} => Guests = {} /\ Core = Servers
      /\ mode \in {"validating", "separate"} =>
             Guests = Hybrid /\ Core = Standalone /\ Core \cap Hybrid = {}
      /\ Core \subseteq Servers /\ Hybrid \subseteq Servers /\ NoServer \notin Servers
      /\ mode = "validating" => Rollouts = Servers \ Hybrid
  <2>1. mode \in Modes OBVIOUS
  <2>2. mode = "validating" => Rollouts = Servers \ Hybrid BY DEF Rollouts, Trainers
  <2>3. QED BY <2>1, <2>2, Deployment, RolloutServersAssumption DEF Core
<1>2. /\ Left = 0 /\ version = 0 /\ todo = {} /\ plan = <<>> BY DEF Left
<1>3. /\ Pool = IF mode = "validating" THEN Servers \ Hybrid ELSE Servers
      /\ \A s \in Pool : inflight[s] = 0
  BY <1>1 DEF BalancerInit, Pool
<1>4. BalancerTypeOK
  <2>1. /\ recent = <<>> /\ sticky = <<>> /\ Keys(recent) = {}
    BY DEF BalancerInit, Keys
  <2>2. recent \in Seq(Requests) /\ Len(recent) <= CacheSize
    BY <2>1, BalancerAssumption
  <2>3. sticky \in [Keys(recent) -> Servers] BY <2>1
  <2>4. Pool \subseteq Servers BY <1>3
  <2>5. inflight \in [Pool -> Nat] BY <1>1, <1>3 DEF BalancerInit, Pool
  <2>6. QED BY <2>2, <2>3, <2>4, <2>5 DEF BalancerTypeOK
<1>5. TypeOK
  <2>1. /\ plan \in Seq([op : Ops, on : SUBSET Servers]) /\ todo \subseteq Servers
        /\ version \in 0 .. MaxVersion
    BY RolloutServersAssumption
  <2>2. tokens \in [Requests -> Seq(Nat \cup {Torn})] OBVIOUS
  <2>3. QED BY <1>1, <1>4, <2>1, <2>2 DEF TypeOK
<1>6. PlanInv
  <2>1. Longest \in Nat BY <1>1 DEF Longest
  <2>2. plan \in Seq([op : Ops, on : SUBSET Servers]) OBVIOUS
  <2>3. QED BY <1>2, <2>1, <2>2 DEF PlanInv
<1>15. /\ \A s \in Servers : weights[s] = 0 /\ steps[s] = 0 /\ s \notin paused
      /\ \A s \in Servers : s \in asleep <=> mode = "validating" /\ s \in Hybrid
  BY <1>1
<1>7. CoreInv
  <2> HIDE DEF Init
  <2>1. \A s \in Core : s \in Pool /\ Serves(s, version) /\ s \notin paused
                        /\ s \notin asleep
    BY <1>1, <1>2, <1>3, <1>15 DEF Serves
  <2>2. Swap \in Nat \ {0, 1} /\ LastResume \in Nat \ {0} BY DEF Swap, LastResume
  <2>3. QED BY <1>2, <2>1, <2>2 DEF CoreInv
<1>8. ValidatingInv
  <2> HIDE DEF Init
  <2>1. ASSUME mode = "validating", NEW s \in Hybrid
        PROVE  /\ s \notin Pool /\ s \notin paused /\ s \in asleep
               /\ weights[s] = 0 /\ steps[s] = 0
    BY <1>1, <1>3, <1>15, <2>1
  <2>2. QED BY <1>2, <2>1 DEF ValidatingInv, Serves
<1>9. SeparateInv
  <2>1. Validates
    <3>1. TestFreq \in Nat \ {0} BY RolloutServersAssumption
    <3>2. 0 % TestFreq = 0 BY <3>1
    <3>3. QED BY <3>2 DEF Validates
  <2> HIDE DEF Init
  <2>2. ASSUME mode = "separate", NEW s \in Hybrid
        PROVE  /\ s \in Pool /\ s \notin paused /\ s \notin asleep
               /\ weights[s] = 0 /\ steps[s] = 0
    BY <1>1, <1>3, <1>15, <2>2
  <2>3. QED BY <1>2, <2>1, <2>2 DEF SeparateInv, Serves
<1>10. CallInv BY <1>1, <1>2 DEF CallInv
<1>11. LabelInv BY <1>2 DEF LabelInv
<1>12. RoomInv BY LengthAssumption DEF RoomInv
<1>13. CountInv
  <2>1. \A s \in Servers : Outstanding(s) = {} BY <1>1 DEF Outstanding
  <2>2. \A s \in Pool : Cardinality(Outstanding(s)) = 0 /\ inflight[s] = 0
    BY <1>3, <2>1, FS_EmptySet
  <2> HIDE DEF Init
  <2>3. QED BY <2>2 DEF CountInv
<1>14. QED BY <1>5, <1>6, <1>7, <1>8, <1>9, <1>10, <1>11, <1>12, <1>13 DEF RolloutInv

LEMMA Inductive == Spec => []RolloutInv
<1>1. Init => RolloutInv BY InitRollout
<1>2. RolloutInv /\ [Next]_vars => RolloutInv'
  BY TypesKept, PlanKept, ServersKept, CallsKept, LabelsKept, RoomKept, CountsKept
  DEF RolloutInv
<1>3. QED BY <1>1, <1>2, PTL DEF Spec

\* Every variable keeps its type: the calls name servers of the deployment, the
\* cache of the balancer is not larger than its capacity.
THEOREM Types == Spec => []TypeOK
<1>1. RolloutInv => TypeOK BY DEF RolloutInv
<1>2. QED BY <1>1, Inductive, PTL

\* acquire_server counts the calls a server has or is about to be released
\* from, except for older calls of a server that left the pool and came back.
THEOREM Loads == Spec => []LoadExact
<1>1. RolloutInv => LoadExact
  <2> SUFFICES ASSUME RolloutInv, NEW s \in Pool
               PROVE  \/ inflight[s] = Cardinality(Outstanding(s))
                      \/ s \in Guests /\ inflight[s] < Cardinality(Outstanding(s))
    BY DEF LoadExact
  <2>1. inflight[s] \in Nat BY DEF RolloutInv, TypeOK, BalancerTypeOK
  <2>2. Cardinality(Outstanding(s)) \in Nat BY Counted
  <2>3. /\ inflight[s] <= Cardinality(Outstanding(s))
        /\ s \notin Guests => inflight[s] = Cardinality(Outstanding(s))
    BY DEF RolloutInv, CountInv
  <2>4. QED BY <2>1, <2>2, <2>3
<1>2. QED BY <1>1, Inductive, PTL

\* No token of a response comes from torn weights, and min_global_steps and
\* max_global_steps enclose the versions of all of them.
THEOREM Labels == Spec => []LabelsEncloseTokens
<1>1. RolloutInv => LabelsEncloseTokens
  <2> SUFFICES ASSUME RolloutInv, NEW r \in Requests, NEW i \in DOMAIN tokens[r]
               PROVE  /\ tokens[r][i] # Torn
                      /\ cpc[r] \in {"backoff", "done"} =>
                             minLabel[r] <= tokens[r][i] /\ tokens[r][i] <= maxLabel[r]
    BY DEF LabelsEncloseTokens
  <2>1. Current \in Nat /\ Torn \notin Nat BY CurrentVersion DEF RolloutInv
  <2>2. tokens[r][i] \in 0 .. Current BY DEF RolloutInv, LabelInv
  <2>3. tokens[r][i] # Torn BY <2>1, <2>2
  <2>4. CASE cpc[r] \in {"backoff", "done"}
    <3>1. minLabel[r] # NoLabel BY <2>4 DEF RolloutInv, LabelInv
    <3>2. minLabel[r] <= tokens[r][i] /\ tokens[r][i] <= maxLabel[r]
      BY <2>4, <3>1 DEF RolloutInv, LabelInv
    <3>3. QED BY <2>3, <3>2
  <2>5. QED BY <2>3, <2>4
<1>2. QED BY <1>1, Inductive, PTL

\* No engine generates while update_weights replaces its weights.
THEOREM Quiet == Spec => []QuietTransfer
<1>1. RolloutInv => QuietTransfer
  <2> SUFFICES ASSUME RolloutInv, NEW s \in Servers, weights[s] = Torn,
                      NEW r \in Requests, cpc[r] = "running", at[r] = s
               PROVE  FALSE
    BY DEF QuietTransfer
  <2>1. Serves(at[r], Current) BY AwakeServes DEF RolloutInv
  <2>2. Current \in Nat /\ Torn \notin Nat BY CurrentVersion DEF RolloutInv
  <2>3. QED BY <2>1, <2>2 DEF Serves
<1>2. QED BY <1>1, Inductive, PTL

\* A response that was interrupted and resumed is not longer than the
\* max_tokens of its caller.
THEOREM Limits == Spec => []WithinCallerLimit
<1>1. RolloutInv => WithinCallerLimit BY DEF RolloutInv, RoomInv, WithinCallerLimit
<1>2. QED BY <1>1, Inductive, PTL

\* The servers of the pool are awake, and between the updates they all have
\* the trainer's version, know of it and are resumed.
THEOREM InSync == Spec => []PoolInSync
<1>1. RolloutInv => PoolInSync
  <2> SUFFICES ASSUME RolloutInv, NEW s \in Pool
               PROVE  /\ mode # "colocated" => s \notin asleep
                      /\ plan = <<>> => /\ weights[s] = version /\ steps[s] = version
                                        /\ s \notin asleep \cup paused
    BY DEF PoolInSync
  <2>1. /\ s \in Servers /\ mode \in Modes BY DEF RolloutInv, TypeOK, BalancerTypeOK
  <2>2. /\ mode \in {"standalone", "validating", "separate", "colocated"}
        /\ mode \in {"standalone", "colocated"} => Guests = {} /\ Core = Servers
        /\ mode \in {"validating", "separate"} => Guests = Hybrid /\ Core = Standalone
        /\ Servers = Core \cup Guests
    BY <2>1, Deployment
  <2>3. (plan = <<>> => Left = 0) /\ Left \in Nat BY <2>1, Present DEF RolloutInv
  <2>4. CASE s \in Core
    BY <2>2, <2>3, <2>4 DEF RolloutInv, CoreInv, Swap, LastResume, Serves
  <2>5. CASE s \in Hybrid /\ mode = "validating"
    BY <2>3, <2>5 DEF RolloutInv, ValidatingInv
  <2>6. CASE s \in Hybrid /\ mode = "separate"
    BY <2>3, <2>6 DEF RolloutInv, SeparateInv, Serves
  <2>7. QED BY <2>1, <2>2, <2>4, <2>5, <2>6
<1>2. QED BY <1>1, Inductive, PTL
=============================================================================

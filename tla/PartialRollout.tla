--------------------------- MODULE PartialRollout ---------------------------
(***************************************************************************)
(* Generation that survives weight updates: the clients of the rollout     *)
(* servers (FullyAsyncLLMServerClient, verl/workers/rollout/llm_server.py) *)
(* acquire a server, generate, and go on elsewhere when they are aborted;  *)
(* the trainer's CheckpointEngineManager aborts the servers, replaces      *)
(* their weights and resumes them.                                         *)
(*                                                                         *)
(* The same servers are deployed in one of four modes:                     *)
(*   standalone  only generate (fully asynchronous training);              *)
(*   validating  the hybrid ones belong to the trainer and join the pool   *)
(*               for a validation on its side (_trainer_side_validate);    *)
(*   separate    the hybrid ones are in the pool until the first batch is  *)
(*               sampled, then only for validations (separate_async);      *)
(*   colocated   all belong to the trainer and sleep while it trains       *)
(*               (colocate_async).                                         *)
(*                                                                         *)
(* The inference engine is vLLM >= 0.12 as the code uses it: a paused      *)
(* engine keeps new calls waiting until it is resumed, pausing aborts the  *)
(* calls it runs, and they return before the abort call does.              *)
(***************************************************************************)
EXTENDS LoadBalancer, FiniteSets

CONSTANTS Modes,                \* the deployments that are considered
          Standalone, Hybrid,   \* the servers: always rolling out / the trainer's own
          Validation,           \* the requests only a validation makes
          NoServer, Torn, NoLabel,
          MaxVersion,           \* bound on the weight updates
          TestFreq,             \* a validation after every TestFreq updates
          PromptLength, ResponseLength, MaxModelLen,
          PromptTokens,         \* tokens of the prompts
          Limited,              \* the requests whose caller gives max_tokens ...
          CallerLimit           \* ... which is this

ASSUME RolloutServersAssumption ==
    /\ Servers = Standalone \cup Hybrid /\ Standalone \cap Hybrid = {}
    /\ Standalone # {} /\ NoServer \notin Servers
    /\ IsFiniteSet(Requests) /\ Validation \subseteq Requests
    /\ Modes \subseteq {"standalone", "validating", "separate", "colocated"}
    /\ MaxVersion \in Nat /\ TestFreq \in Nat \ {0}
    /\ Torn \notin Nat /\ NoLabel \notin Nat

ASSUME LengthAssumption ==
    /\ {PromptLength, ResponseLength, MaxModelLen, PromptTokens} \subseteq Nat \ {0}
    /\ CallerLimit \in Nat \ {0} /\ Limited \subseteq Requests
    /\ PromptTokens <= PromptLength
    /\ PromptLength + ResponseLength <= MaxModelLen

VARIABLES
    mode,       \* the deployment
    cpc,        \* where each client is
    at,         \* the server its call was given
    releasing,  \* the server of its release call on the way to the balancer
    tokens,     \* the response: the version of the weights of each token
    room,       \* tokens the current call may still generate
    minLabel, maxLabel,   \* min_global_steps, max_global_steps
    paused,     \* the engines that keep new calls waiting
    asleep,     \* the engines without weights
    weights,    \* the version of the weights of each engine, Torn while replaced
    steps,      \* global_steps of each server
    version,    \* current_param_version of the trainer
    plan,       \* the stages its coroutine has still to do
    todo        \* the servers the first of them has still to reach

clientVars == <<cpc, at, releasing, tokens, room, minLabel, maxLabel>>
engineVars == <<paused, asleep, weights, steps>>
managerVars == <<version, plan, todo>>
vars == <<mode, balancerVars, clientVars, engineVars, managerVars>>

Stage(op, on) == [op |-> op, on |-> on]

Ops == {"abort", "transfer", "resume", "add", "validate", "remove", "sleep"}

TypeOK ==
    /\ BalancerTypeOK
    /\ mode \in Modes
    /\ cpc \in [Requests -> {"idle", "sent", "held", "running", "lost", "backoff",
                              "done"}]
    /\ at \in [Requests -> Servers \cup {NoServer}]
    /\ releasing \in [Requests -> Servers \cup {NoServer}]
    /\ tokens \in [Requests -> Seq(Nat \cup {Torn})]
    /\ room \in [Requests -> Nat]
    /\ minLabel \in [Requests -> Nat \cup {NoLabel}]
    /\ maxLabel \in [Requests -> Nat \cup {NoLabel}]
    /\ paused \subseteq Servers /\ asleep \subseteq Servers
    /\ weights \in [Servers -> Nat \cup {Torn}]
    /\ steps \in [Servers -> Nat]
    /\ version \in 0 .. MaxVersion
    /\ plan \in Seq([op : Ops, on : SUBSET Servers])
    /\ todo \subseteq Servers

\* The servers that belong to the trainer, and the others.
Trainers == CASE mode = "standalone" -> {}
              [] mode = "colocated" -> Servers
              [] OTHER -> Hybrid

Rollouts == Servers \ Trainers

\* Those that join the pool for a validation.
Guests == IF mode = "colocated" THEN {} ELSE Trainers

Init ==
    /\ mode \in Modes
    /\ BalancerInit(IF mode = "validating" THEN Rollouts ELSE Servers)
    /\ cpc = [r \in Requests |-> "idle"]
    /\ at = [r \in Requests |-> NoServer]
    /\ releasing = [r \in Requests |-> NoServer]
    /\ tokens = [r \in Requests |-> <<>>]
    /\ room = [r \in Requests |-> 0]
    /\ minLabel = [r \in Requests |-> NoLabel]
    /\ maxLabel = [r \in Requests |-> NoLabel]
    /\ paused = {} /\ asleep = IF mode = "validating" THEN Hybrid ELSE {}
    /\ weights = [s \in Servers |-> 0]
    /\ steps = [s \in Servers |-> 0]
    /\ version = 0 /\ plan = <<>> /\ todo = {}

-----------------------------------------------------------------------------
(* The clients. *)

Stages(op) == plan # <<>> /\ plan[1].op = op

WaitsForValidation(r) == r \in Validation /\ cpc[r] = "idle" /\ Guests # {}

\* Ray delivers the calls of one caller in order: the release comes first.
Acquire(r) ==
    /\ cpc[r] \in {"idle", "backoff"}
    /\ WaitsForValidation(r) => Stages("validate")
    /\ releasing[r] = NoServer
    /\ \E s \in Servers : AcquireServer(r, s) /\ at' = [at EXCEPT ![r] = s]
    /\ cpc' = [cpc EXCEPT ![r] = "sent"]
    /\ UNCHANGED <<mode, releasing, tokens, room, minLabel, maxLabel, engineVars, managerVars>>

Smaller(a, b) == IF a < b THEN a ELSE b
Larger(a, b) == IF a > b THEN a ELSE b

\* Mutant: a resumed call may generate as many tokens as the first.
MaxTokensAnew(r) == Smaller(CallerLimit, MaxModelLen - PromptTokens)

\* The max_tokens of a call: the caller's, less what it has already, or the
\* server's default; in any case what the context leaves, and at least one.
MaxTokens(r) ==
    LET used == PromptTokens + Len(tokens[r])
        asked == IF r \in Limited
                 THEN CallerLimit - Len(tokens[r])
                 ELSE Smaller(ResponseLength, PromptLength + ResponseLength - used)
    IN Larger(1, Smaller(asked, MaxModelLen - used))

\* A call an engine starts without weights is not answered.
Started(s) == IF s \in asleep THEN "lost" ELSE "running"

\* The call reaches the server.
Arrive(r) ==
    /\ cpc[r] = "sent"
    /\ room' = [room EXCEPT ![r] = MaxTokens(r)]
    /\ cpc' = [cpc EXCEPT ![r] = IF at[r] \in paused THEN "held" ELSE Started(at[r])]
    /\ UNCHANGED <<mode, balancerVars, at, releasing, tokens, minLabel, maxLabel,
                   engineVars, managerVars>>

\* Does client r go on after an answer that leaves it the response t?
GoesOn(r, t, aborted) == aborted /\ ~(r \in Limited /\ Len(t) >= CallerLimit)

\* The calls of rs are answered: the server reads its global_steps, the client
\* merges the answer and releases the server without waiting for it.
AnswerWith(rs, response, aborted) ==
    /\ tokens' = response
    /\ cpc' = [r \in Requests |->
                 IF r \notin rs THEN cpc[r]
                 ELSE IF GoesOn(r, response[r], aborted) THEN "backoff" ELSE "done"]
    /\ releasing' = [r \in Requests |-> IF r \in rs THEN at[r] ELSE releasing[r]]
    /\ at' = [r \in Requests |-> IF r \in rs THEN NoServer ELSE at[r]]
    /\ room' = [r \in Requests |-> IF r \in rs THEN 0 ELSE room[r]]
    /\ minLabel' = [r \in Requests |-> IF r \in rs /\ minLabel[r] = NoLabel
                                       THEN steps[at[r]] ELSE minLabel[r]]
    /\ maxLabel' = [r \in Requests |-> IF r \in rs THEN steps[at[r]] ELSE maxLabel[r]]

\* One more token; with the last one, or a stop token, the call is answered.
Generate(r) ==
    /\ cpc[r] = "running"
    /\ LET longer == [tokens EXCEPT ![r] = Append(@, weights[at[r]])]
       IN \/ AnswerWith({r}, longer, FALSE)
          \/ /\ room[r] > 1
             /\ room' = [room EXCEPT ![r] = @ - 1]
             /\ tokens' = longer
             /\ UNCHANGED <<cpc, at, releasing, minLabel, maxLabel>>
    /\ UNCHANGED <<mode, balancerVars, engineVars, managerVars>>

DeliverRelease(r) ==
    /\ releasing[r] # NoServer
    /\ ReleaseServer(releasing[r])
    /\ releasing' = [releasing EXCEPT ![r] = NoServer]
    /\ UNCHANGED <<mode, cpc, at, tokens, room, minLabel, maxLabel, engineVars, managerVars>>

-----------------------------------------------------------------------------
(* The weight update and the validation: a list of stages, each of which    *)
(* reaches its servers in any order (asyncio.gather, ray.get of a list).    *)

\* Each server of on takes these stages, one stage after the other.
InOrder(ops, on) == [i \in DOMAIN ops |-> Stage(ops[i], on)]

\* Mutants: the servers are resumed before the transfer, are not aborted, are
\* not resumed.
ResumeFirst(on) == InOrder(<<"abort", "resume", "transfer">>, on)
TransferOnly(on) == InOrder(<<"transfer">>, on)
NeverResumes(on) == InOrder(<<"abort", "transfer">>, on)

\* CheckpointEngineManager.update_weights with a backend of its own
UpdatePlan(on) == InOrder(<<"abort", "transfer", "resume">>, on)

\* Mutant: the hybrid servers are not resumed for the validation.
HybridKeptPaused == <<Stage("transfer", Hybrid), Stage("abort", Hybrid),
                      Stage("add", Hybrid), Stage("validate", {}),
                      Stage("remove", Hybrid), Stage("sleep", Hybrid),
                      Stage("resume", Hybrid)>>

\* _trainer_side_validate; the weights of the hybrid servers are set in their
\* own process, which wakes them.
ValidatePlan == <<Stage("transfer", Hybrid),
                  Stage("abort", Standalone), Stage("abort", Hybrid),
                  Stage("add", Hybrid),
                  Stage("resume", Standalone), Stage("resume", Hybrid),
                  Stage("validate", {}),
                  Stage("abort", Standalone), Stage("abort", Hybrid),
                  Stage("remove", Hybrid), Stage("sleep", Hybrid),
                  Stage("resume", Standalone), Stage("resume", Hybrid)>>

\* Mutant: the hybrid servers join the pool before they have the new weights.
AddStale == <<Stage("resume", Hybrid), Stage("add", Hybrid), Stage("transfer", Hybrid)>>

\* separate_async: the hybrid servers sleep while the trainer trains ...
SwitchToTrainer == <<Stage("remove", Hybrid), Stage("abort", Hybrid), Stage("sleep", Hybrid)>>

\* ... and wake for a validation.
SwitchToRollout == <<Stage("transfer", Hybrid), Stage("resume", Hybrid), Stage("add", Hybrid)>>

\* colocate_async: from the end of sampling to the end of the step.
ColocatedStep == InOrder(<<"abort", "sleep", "transfer", "resume">>, Servers)

\* What happens to the servers in the training step(s) up to version v.
StepPlan(v) ==
    LET validates == v % TestFreq = 0
    IN CASE mode = "standalone" -> UpdatePlan(Servers)
         [] mode = "colocated" -> ColocatedStep
         [] mode = "validating" ->
                UpdatePlan(Standalone) \o IF validates THEN ValidatePlan ELSE <<>>
         [] mode = "separate" ->
                (IF Hybrid \cap Pool # {} THEN SwitchToTrainer ELSE <<>>)
                \o UpdatePlan(Standalone)
                \o IF validates THEN Append(SwitchToRollout, Stage("validate", {})) ELSE <<>>

Follow(stages) == /\ plan' = stages
                  /\ todo' = IF stages = <<>> THEN {} ELSE stages[1].on

\* The training steps up to the next update begin.  A call is under way for
\* less than a training step.
StartUpdate ==
    /\ plan = <<>>
    /\ \A r \in Requests : cpc[r] = "sent" => at[r] \in Pool
    /\ version < MaxVersion
    /\ version' = version + 1
    /\ Follow(StepPlan(version'))
    /\ UNCHANGED <<mode, balancerVars, clientVars, engineVars>>

\* Server s is done with the present stage; the last one ends it.
StageDone(s) ==
    /\ IF todo = {s} THEN Follow(Tail(plan)) ELSE todo' = todo \ {s} /\ UNCHANGED plan
    /\ UNCHANGED version

Abort(s) ==
    /\ Stages("abort") /\ s \in todo
    /\ paused' = paused \cup {s}
    /\ AnswerWith({r \in Requests : cpc[r] = "running" /\ at[r] = s}, tokens, TRUE)
    /\ StageDone(s)
    /\ UNCHANGED <<mode, balancerVars, asleep, weights, steps>>

\* Buckets of the new weights arrive ...
BeginTransfer(s) ==
    /\ Stages("transfer") /\ s \in todo
    /\ weights[s] \notin {Torn, version}
    /\ weights' = [weights EXCEPT ![s] = Torn]
    /\ asleep' = asleep \ {s}
    /\ UNCHANGED <<mode, balancerVars, clientVars, paused, steps, managerVars>>

\* ... all of them have ...
EndTransfer(s) ==
    /\ Stages("transfer") /\ s \in todo
    /\ weights[s] = Torn
    /\ weights' = [weights EXCEPT ![s] = version]
    /\ UNCHANGED <<mode, balancerVars, clientVars, paused, asleep, steps, managerVars>>

\* ... and the server is told the version.
SetGlobalSteps(s) ==
    /\ Stages("transfer") /\ s \in todo
    /\ weights[s] = version
    /\ steps' = [steps EXCEPT ![s] = version]
    /\ StageDone(s)
    /\ UNCHANGED <<mode, balancerVars, clientVars, paused, asleep, weights>>

\* The calls that waited start.
Resume(s) ==
    /\ Stages("resume") /\ s \in todo
    /\ paused' = paused \ {s}
    /\ cpc' = [r \in Requests |-> IF cpc[r] = "held" /\ at[r] = s
                                  THEN Started(s) ELSE cpc[r]]
    /\ StageDone(s)
    /\ UNCHANGED <<mode, balancerVars, at, releasing, tokens, room, minLabel, maxLabel,
                   asleep, weights, steps>>

AddReplicas ==
    /\ Stages("add")
    /\ AddServers(plan[1].on)
    /\ Follow(Tail(plan))
    /\ UNCHANGED <<mode, clientVars, engineVars, version>>

\* do_validate returns when its requests are answered.
Validate ==
    /\ Stages("validate")
    /\ \A r \in Validation : cpc[r] = "done"
    /\ Follow(Tail(plan))
    /\ UNCHANGED <<mode, balancerVars, clientVars, engineVars, version>>

RemoveReplicas ==
    /\ Stages("remove")
    /\ RemoveServers(plan[1].on)
    /\ Follow(Tail(plan))
    /\ UNCHANGED <<mode, clientVars, engineVars, version>>

\* The calls the engine runs are waited for, not those that wait at its door.
Sleep(s) ==
    /\ Stages("sleep") /\ s \in todo
    /\ ~ \E r \in Requests : cpc[r] = "running" /\ at[r] = s
    /\ asleep' = asleep \cup {s}
    /\ StageDone(s)
    /\ UNCHANGED <<mode, balancerVars, clientVars, paused, weights, steps>>

-----------------------------------------------------------------------------
Client(r) == Acquire(r) \/ Arrive(r) \/ Generate(r) \/ DeliverRelease(r)

Manager == \/ StartUpdate \/ AddReplicas \/ Validate \/ RemoveReplicas
           \/ \E s \in Servers : \/ Abort(s) \/ Resume(s) \/ Sleep(s)
                                 \/ BeginTransfer(s) \/ EndTransfer(s)
                                 \/ SetGlobalSteps(s)

\* After the last update within the bound the trainer does nothing more.
Terminated == plan = <<>> /\ version = MaxVersion /\ UNCHANGED vars

Next == (\E r \in Requests : Client(r)) \/ Manager \/ Terminated

Spec == Init /\ [][Next]_vars

(* Ray delivers the calls, the engines generate, the trainer's coroutine   *)
(* goes on.                                                                *)
Fairness == (\A r \in Requests : WF_vars(Client(r))) /\ WF_vars(Manager)

FairSpec == Spec /\ Fairness

-----------------------------------------------------------------------------
\* The calls the balancer should count for s.
Outstanding(s) == {r \in Requests : at[r] = s \/ releasing[r] = s}

(* The count acquire_server chooses by is the number of calls a server has *)
(* or is about to be released from; a server that left the pool and came   *)
(* back may have older calls that are not counted, never the reverse.      *)
LoadExact ==
    \A s \in Pool : \/ inflight[s] = Cardinality(Outstanding(s))
                    \/ s \in Guests /\ inflight[s] < Cardinality(Outstanding(s))

(* Every token of a response was generated under one complete version of   *)
(* the weights, and min_global_steps and max_global_steps, by which the    *)
(* trainer judges its staleness, enclose it, although the server reads     *)
(* global_steps only when the call ends.                                   *)
LabelsEncloseTokens ==
    \A r \in Requests : \A i \in DOMAIN tokens[r] :
        /\ tokens[r][i] # Torn
        /\ cpc[r] \in {"backoff", "done"} =>
               minLabel[r] <= tokens[r][i] /\ tokens[r][i] <= maxLabel[r]

(* No engine generates while its weights are replaced.                     *)
QuietTransfer ==
    \A s \in Servers : weights[s] = Torn =>
        ~ \E r \in Requests : cpc[r] = "running" /\ at[r] = s

(* The servers requests are routed to are awake (colocated ones sleep while *)
(* the trainer trains), and serve the trainer's current version whenever no *)
(* update is under way (the one variable the pipeline has for the weights  *)
(* of all replicas).                                                       *)
PoolInSync ==
    \A s \in Pool : /\ mode # "colocated" => s \notin asleep
                    /\ plan = <<>> => weights[s] = version /\ steps[s] = version
                                      /\ s \notin asleep \cup paused

(* An interrupted response is never longer than max_tokens allows.         *)
WithinCallerLimit == \A r \in Limited : Len(tokens[r]) <= CallerLimit

(* Every request is answered, however often it is interrupted: only a call *)
(* that comes late to a server that has left the pool waits for ever.      *)
LeftBehind(r) ==
    at[r] \in Guests /\ (cpc[r] = "lost" \/ (cpc[r] = "held" /\ at[r] \notin Pool))

RequestsEnd == \A r \in Requests : <>[](cpc[r] = "done" \/ LeftBehind(r))

(* Every weight update ends, with the validation that follows it.          *)
UpdatesEnd == plan # <<>> ~> plan = <<>>
=============================================================================

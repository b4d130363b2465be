---------------------------- MODULE LoadBalancer ----------------------------
(***************************************************************************)
(* The router of generation requests (the Ray actor                        *)
(* GlobalRequestLoadBalancer, verl/workers/rollout/llm_server.py): sticky  *)
(* sessions in an LRU cache, the least loaded server otherwise, and a pool *)
(* of servers that grows and shrinks.  The actor serves one call at a      *)
(* time, so each call is one step.                                         *)
(***************************************************************************)
EXTENDS Integers, Sequences

CONSTANTS Servers, Requests,
          CacheSize      \* entries of the LRU cache

ASSUME BalancerAssumption == CacheSize \in Nat \ {0}

VARIABLES inflight,  \* _inflight_requests: the count of every server in the pool
          sticky,    \* _request_id_to_server
          recent     \* its keys, the least recently used first

balancerVars == <<inflight, sticky, recent>>

Pool == DOMAIN inflight

Keys(s) == {s[i] : i \in DOMAIN s}

BalancerTypeOK ==
    /\ Pool \subseteq Servers
    /\ inflight \in [Pool -> Nat]
    /\ recent \in Seq(Requests) /\ Len(recent) <= CacheSize
    /\ sticky \in [Keys(recent) -> Servers]

BalancerInit(pool) ==
    /\ inflight = [s \in pool |-> 0]
    /\ sticky = <<>>
    /\ recent = <<>>

-----------------------------------------------------------------------------
LeastLoaded == {s \in Pool : \A t \in Pool : inflight[s] <= inflight[t]}

\* The servers acquire_server may answer; a server that left the pool is
\* replaced by a new choice.
Route(r) == IF r \in DOMAIN sticky /\ sticky[r] \in Pool
            THEN {sticky[r]} ELSE LeastLoaded

\* The keys but r.
Others(r) ==
    IF r \in Keys(recent)
    THEN LET i == CHOOSE i \in DOMAIN recent : recent[i] = r
         IN SubSeq(recent, 1, i - 1) \o SubSeq(recent, i + 1, Len(recent))
    ELSE recent

\* Mutant: the cache grows without a bound.
TouchGrows(r) == Append(Others(r), r)

\* The key becomes the most recent; a new one may push out the oldest.
Touch(r) == Append(IF Len(Others(r)) = CacheSize THEN Tail(Others(r)) ELSE Others(r), r)

AcquireServer(r, s) ==
    /\ s \in Route(r)
    /\ inflight' = [inflight EXCEPT ![s] = @ + 1]
    /\ recent' = Touch(r)
    /\ sticky' = [k \in Keys(recent') |-> IF k = r THEN s ELSE sticky[k]]

\* Mutant: the release is lost.
ReleaseForgets(s) == UNCHANGED balancerVars

ReleaseServer(s) ==
    /\ inflight' = IF s \in Pool /\ inflight[s] > 0
                   THEN [inflight EXCEPT ![s] = @ - 1] ELSE inflight
    /\ UNCHANGED <<sticky, recent>>

\* An added server starts from zero, whatever was counted for it.
AddServers(added) ==
    /\ inflight' = [s \in Pool \cup added |-> IF s \in added THEN 0 ELSE inflight[s]]
    /\ UNCHANGED <<sticky, recent>>

RemoveServers(removed) ==
    /\ inflight' = [s \in Pool \ removed |-> inflight[s]]
    /\ UNCHANGED <<sticky, recent>>
=============================================================================

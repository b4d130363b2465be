---------------------------- MODULE SampleStream ----------------------------
(***************************************************************************)
(* What the fully asynchronous pipeline promises, without its actors: a    *)
(* stream of samples between a rollout that may run ahead of the training  *)
(* by a budget (and one sample more), and a training that uses a fixed     *)
(* number of samples under every version of the weights.  A generation     *)
(* that fails breaks the stream: it loses its sample, and from then on     *)
(* samples may be lost, but none is used that was not admitted, and the    *)
(* budget and the versions are kept as before.                             *)
(***************************************************************************)
EXTENDS Naturals

CONSTANTS Budget,      \* samples the rollout may be ahead
          PerUpdate    \* samples used between two versions

VARIABLES ahead,       \* samples admitted and neither used nor lost
          used,        \* samples used in training
          current,     \* version of the weights
          broken       \* whether a generation has failed

streamVars == <<ahead, used, current, broken>>

StreamInit == ahead = 0 /\ used = 0 /\ current = 0 /\ broken = FALSE

Admit == /\ ahead <= Budget
         /\ ahead' = ahead + 1
         /\ UNCHANGED <<used, current, broken>>

Use == /\ ahead > 0
       /\ used < PerUpdate * (current + 1)
       /\ ahead' = ahead - 1
       /\ used' = used + 1
       /\ UNCHANGED <<current, broken>>

\* A sample is lost only while the rollout has used up its budget ...
Lose == /\ ahead >= Budget
        /\ ahead > 0
        /\ ahead' = ahead - 1
        /\ UNCHANGED <<used, current, broken>>

\* ... or when its generation fails ...
Break == /\ ahead > 0
         /\ ahead' = ahead - 1
         /\ broken' = TRUE
         /\ UNCHANGED <<used, current>>

\* ... after which any may be.
Abandon == /\ broken
           /\ ahead' \in 0 .. ahead
           /\ UNCHANGED <<used, current, broken>>

Update == /\ used = PerUpdate * (current + 1)
          /\ current' = current + 1
          /\ UNCHANGED <<ahead, used, broken>>

StreamNext == Admit \/ Use \/ Lose \/ Break \/ Abandon \/ Update

StreamSpec == StreamInit /\ [][StreamNext]_streamVars
=============================================================================

---------------------------- MODULE BatchBalance ----------------------------
(***************************************************************************)
(* How a batch is divided among the data-parallel ranks (_balance_batch of *)
(* the V1 trainers): it is filled up with padding to a multiple of the     *)
(* ranks and of the mini-batches (upsample_batch_to_divisible_size), then  *)
(* partitioned into shares of equal size and about equal work by the       *)
(* Karmarkar-Karp differencing method (verl/utils/seqlen_balancing.py).    *)
(*                                                                         *)
(* The method keeps a heap of states.  A state gives each rank a set of    *)
(* rows, the one with the most work first; its spread is the difference    *)
(* between the first and the last.                                         *)
(***************************************************************************)
EXTENDS Integers, Sequences, FiniteSets

CONSTANTS Ranks,         \* data-parallel size
          MiniBatch      \* trajectories of a mini-batch: ppo_mini_batch_size * rollout.n

ASSUME BalanceAssumption == Ranks \in Nat \ {0} /\ MiniBatch \in Nat \ {0}

VARIABLES
    rows,   \* the batch: the prompt and the length of each row
    heap    \* the states of the partition, none before and after it

balanceVars == <<rows, heap>>

BalanceInit == rows = <<>> /\ heap = {}

-----------------------------------------------------------------------------
Multiple(m) == m % Ranks = 0 /\ m % MiniBatch = 0

\* _get_required_batch_multiple
RequiredMultiple ==
    CHOOSE m \in 1 .. Ranks * MiniBatch : Multiple(m) /\ \A k \in 1 .. m - 1 : ~Multiple(k)

\* Mutant: the remainder itself is added.
PadByRemainder(n) == n % RequiredMultiple

\* The padding a batch of n rows needs.
PadSize(n) == (-n) % RequiredMultiple

\* A padding row has two tokens and belongs to no prompt.
PaddingRow == [prompt |-> 0, length |-> 2]

\* calculate_workload
Work(i) == 24576 * rows[i].length + rows[i].length * rows[i].length

Single(i, work) == [items |-> {i}, sum |-> work]

Union2(a, b) == [items |-> a.items \cup b.items, sum |-> a.sum + b.sum]

Orders == {f \in [1 .. Ranks -> 1 .. Ranks] : \A i, j \in 1 .. Ranks : f[i] = f[j] => i = j}

\* The sets in decreasing order of their work.
Sorted(sets) ==
    {s \in {[i \in 1 .. Ranks |-> sets[f[i]]] : f \in Orders} :
        \A i, j \in 1 .. Ranks : i <= j => s[i].sum >= s[j].sum}

Spread(state) == state[1].sum - state[Ranks].sum

-----------------------------------------------------------------------------
\* The batch is padded; fewer rows than ranks cannot be partitioned.
Fill(batchRows) ==
    /\ rows' = batchRows \o [i \in 1 .. PadSize(Len(batchRows)) |-> PaddingRow]
    /\ UNCHANGED heap

\* The rows in increasing order of their work are cut into the first states.
StartPartition ==
    /\ heap = {} /\ Len(rows) >= Ranks
    /\ LET before(i, j) == Work(i) < Work(j) \/ (Work(i) = Work(j) /\ i < j)
           at(k) == CHOOSE i \in DOMAIN rows :
                        Cardinality({j \in DOMAIN rows : before(j, i)}) = k - 1
       IN heap' = {[i \in 1 .. Ranks |-> Single(at(c * Ranks - i + 1), Work(at(c * Ranks - i + 1)))]
                     : c \in 1 .. Len(rows) \div Ranks}
    /\ UNCHANGED rows

\* Mutant: the sets with the most work meet.
MergeAligned(s, t) == [i \in 1 .. Ranks |-> Union2(s[i], t[i])]

\* The largest set of one meets the smallest of the other.
Merge(s, t) == [i \in 1 .. Ranks |-> Union2(s[i], t[Ranks + 1 - i])]

\* The two states of the largest spread become one.
MergeStates ==
    \E s \in heap : \E t \in heap \ {s} : \E u \in Sorted(Merge(s, t)) :
        /\ \A v \in heap : Spread(v) <= Spread(s)
        /\ \A v \in heap \ {s} : Spread(v) <= Spread(t)
        /\ heap' = (heap \ {s, t}) \cup {u}
        /\ UNCHANGED rows

Partitioned == Cardinality(heap) = 1

\* The rows of each rank.
Shares == LET final == CHOOSE s \in heap : TRUE
          IN [r \in 1 .. Ranks |-> final[r].items]

-----------------------------------------------------------------------------
\* The rows of more work than j and less than i.
Between(i, j) == {k \in DOMAIN rows : Work(j) < Work(k) /\ Work(k) < Work(i)}

(* What the partition promises: every row is in exactly one share, the      *)
(* shares are equally large, and the work of two ranks differs by no more   *)
(* than that of two rows among Ranks rows of neighbouring work.             *)
Balanced ==
    Partitioned =>
        /\ UNION {Shares[r] : r \in 1 .. Ranks} = DOMAIN rows
        /\ \A r \in 1 .. Ranks : Cardinality(Shares[r]) * Ranks = Len(rows)
        /\ \A s \in heap : \E i, j \in DOMAIN rows :
               /\ Spread(s) <= Work(i) - Work(j)
               /\ Ranks > 1 => Cardinality(Between(i, j)) <= Ranks - 2
=============================================================================

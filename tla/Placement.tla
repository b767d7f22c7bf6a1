------------------------------ MODULE Placement ------------------------------
(***************************************************************************)
(* ElementsDistribution: which volume (or node) the replicas of a shard    *)
(* are put on.  The volumes are numbered 0..pv-1 and seen as two sides     *)
(* around a middle; when there are more volumes than replicas each shard   *)
(* leaves out pairs of volumes, one on either side, the most used first.   *)
(*                                                                         *)
(* The loops are written as recursive functions of their counters.         *)
(***************************************************************************)
EXTENDS Integers, FiniteSets

Side(n) == (n - 1) \div 2
Extra(pv, repl) == Side(pv) - Side(repl)

\* Mutant: the least used pair is left out.
HeaviestLeast(weights, popped, side, shards) ==
    LET free == (0..(side - 1)) \ popped
    IN CHOOSE x \in free : \A y \in free : weights[x] <= weights[y]

\* __max: the heaviest index that is not popped yet; of several the first
\* one, or the last one when there is a single shard.
Heaviest(weights, popped, side, shards) ==
    LET free == (0..(side - 1)) \ popped
        top  == {x \in free : \A y \in free : weights[y] <= weights[x]}
    IN IF shards # 1 THEN CHOOSE x \in top : \A y \in top : x <= y
                     ELSE CHOOSE x \in top : \A y \in top : y <= x

\* The indexes popped for one shard, given the weights so far.
Popped(weights, pv, repl, shards) ==
    LET pop[k \in 0..Extra(pv, repl)] ==
            IF k = 0 THEN {}
            ELSE pop[k - 1] \cup {Heaviest(weights, pop[k - 1], Side(pv), shards)}
    IN pop[Extra(pv, repl)]

\* The weights before the shard with number s.
Weights(pv, repl, shards, s) ==
    LET w[k \in 0..shards] ==
            IF k = 0 THEN [i \in 0..(Side(pv) - 1) |-> 0]
            ELSE LET gone == Popped(w[k - 1], pv, repl, shards)
                 IN [i \in 0..(Side(pv) - 1) |->
                       IF i \in gone THEN w[k - 1][i] ELSE w[k - 1][i] + 1]
    IN w[s]

\* Mutant: the mirrored volume of a popped one is kept.
KeptOneSided(pv, repl, shards, s) ==
    (0..(pv - 1)) \ Popped(Weights(pv, repl, shards, s), pv, repl, shards)

\* The volumes shard number s keeps, and the one its replica i gets: the
\* i-th of them in order.  A replica beyond them is an index out of range.
Kept(pv, repl, shards, s) ==
    LET gone == Popped(Weights(pv, repl, shards, s), pv, repl, shards)
    IN (0..(pv - 1)) \ (gone \cup {pv - 1 - x : x \in gone})

OutOfRange == -1

\* Mutant: replicas are counted from 1.
ElementsDistributionOneBased(pv, repl, i, shards, s) ==
    LET kept == Kept(pv, repl, shards, s)
    IN IF i + 1 >= Cardinality(kept) THEN OutOfRange
       ELSE CHOOSE x \in kept : Cardinality({y \in kept : y < x}) = i + 1

ElementsDistribution(pv, repl, i, shards, s) ==
    LET kept == Kept(pv, repl, shards, s)
    IN IF i >= Cardinality(kept) THEN OutOfRange
       ELSE CHOOSE x \in kept : Cardinality({y \in kept : y < x}) = i

-----------------------------------------------------------------------------
(* The callers. *)

\* CalculateMaxReplicaSizeStep: volumes of a deployment that is not single.
MaxPVCCount(cnfSize, dataSize) == IF cnfSize > dataSize THEN cnfSize ELSE dataSize

\* Its Validate: only outside DR are the sizes checked further.
ValidSizes(dr, cnfSize, dataSize, shards) ==
    /\ cnfSize # 0 /\ dataSize # 0 /\ shards # 0
    /\ dr \/ (cnfSize % 2 = 1 /\ dataSize % 2 = 1)

CnfVolume(cnfSize, dataSize, i) ==
    ElementsDistribution(MaxPVCCount(cnfSize, dataSize), cnfSize, i, 1, 0)

\* The claim of replica i of shard number s.
DataVolume(cnfSize, dataSize, shards, s, i) ==
    ElementsDistribution(MaxPVCCount(cnfSize, dataSize), dataSize, i, shards, s)

=============================================================================

---------------------------- MODULE PlacementCheck ----------------------------
(***************************************************************************)
(* The loop of CreateDataStep over the shards of one deployment: every     *)
(* step places the members of one shard.  The deployments are all the ones *)
(* the validation lets through, up to the bounds.                          *)
(***************************************************************************)
EXTENDS Placement

CONSTANTS MaxSize,    \* bound: replicas of a set
          MaxShards,  \* bound: shards
          DR          \* schemaType is dr

ASSUME PlacementAssumption ==
    MaxSize \in Nat \ {0} /\ MaxShards \in Nat \ {0} /\ DR \in BOOLEAN

VARIABLES cnfSize, dataSize, shards,  \* schemaSettings
          placed,   \* shards placed so far
          used      \* used[v]: data members on volume v

vars == <<cnfSize, dataSize, shards, placed, used>>

Volumes == 0..(MaxPVCCount(cnfSize, dataSize) - 1)
Members == 0..(dataSize - 1)

Init ==
    /\ cnfSize \in 1..MaxSize /\ dataSize \in 1..MaxSize /\ shards \in 1..MaxShards
    /\ ValidSizes(DR, cnfSize, dataSize, shards)
    /\ placed = 0
    /\ used = [v \in Volumes |-> 0]

\* Mutant: the loop over the shards runs once too often.
PlaceShardLate ==
    /\ placed <= shards
    /\ placed' = placed + 1
    /\ UNCHANGED <<cnfSize, dataSize, shards, used>>

PlaceShard ==
    /\ placed < shards
    /\ used' = [v \in Volumes |->
                  used[v] + Cardinality({i \in Members :
                      DataVolume(cnfSize, dataSize, shards, placed, i) = v})]
    /\ placed' = placed + 1
    /\ UNCHANGED <<cnfSize, dataSize, shards>>

Next == PlaceShard
Spec == Init /\ [][Next]_vars

-----------------------------------------------------------------------------
\* Types of the variables.
TypeOK ==
    /\ cnfSize \in 1..MaxSize /\ dataSize \in 1..MaxSize /\ shards \in 1..MaxShards
    /\ placed \in 0..shards
    /\ used \in [Volumes -> 0..shards]

\* No member is left without a volume and no two members of a set share one:
\* neither in the config set nor in the shard that is placed next.
EveryMemberPlaced ==
    LET cnf == [i \in 0..(cnfSize - 1) |-> CnfVolume(cnfSize, dataSize, i)]
        data == [i \in Members |-> DataVolume(cnfSize, dataSize, shards, placed, i)]
        Apart(at) == /\ \A i \in DOMAIN at : at[i] \in Volumes
                     /\ \A i, j \in DOMAIN at : i # j => at[i] # at[j]
    IN Apart(cnf) /\ (placed < shards => Apart(data))

\* The two sides of the deployment carry the same load: the loss of one side
\* takes as many members of every set as the loss of the other.
SidesAreEqual ==
    \A v \in Volumes :
        used[v] = used[MaxPVCCount(cnfSize, dataSize) - 1 - v]

\* The volumes of a side are used evenly: the weights spread the shards so
\* that no volume of a side carries more than one shard more than another.
SidesAreEven ==
    \A v, w \in 0..(Side(MaxPVCCount(cnfSize, dataSize)) - 1) :
        used[v] - used[w] <= 1

=============================================================================

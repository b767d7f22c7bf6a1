--------------------------- MODULE VolumeExpansion ---------------------------
(***************************************************************************)
(* Growing the volumes of a running cluster, and the rebuild of the        *)
(* StatefulSets that follows in the same compound.  A volume grows only    *)
(* while no pod mounts it, so OnNeedsRestart takes the members that share  *)
(* a volume down together, waits, scales them up, and waits for the        *)
(* cluster to be Up before it turns to the next volume.  Then CreateCNF    *)
(* and CreateData delete and create every StatefulSet, one after another.  *)
(*                                                                         *)
(* Modelled: every Kubernetes call as a step that can fail; the operator   *)
(* that stops anywhere and starts the compound again; members that take    *)
(* their time to rejoin, elections, volumes that detach too late.          *)
(*                                                                         *)
(* A member is a StatefulSet of one pod.  It is "off", "starting" (its pod *)
(* is Ready, it is neither PRIMARY nor SECONDARY yet) or "serving".        *)
(* The single schema, in which one pod is all there is, is left out.       *)
(***************************************************************************)
EXTENDS ClusterStatus, Placement

CONSTANTS Deployments, \* the schemaSettings considered
          MaxFaults    \* bound: failing calls, stops, members that fail

ASSUME ExpansionAssumption ==
    /\ \A d \in Deployments :
         /\ d.shards \in Nat \ {0} /\ d.cnf \in Nat \ {0} /\ d.data \in Nat \ {0}
         /\ d.sharded \in BOOLEAN /\ (d.sharded \/ d.shards = 1)
    /\ MaxFaults \in Nat

VARIABLE settings  \* schemaSettings of this deployment

ShardCount == settings.shards
CnfSize    == settings.cnf
DataSize   == settings.data
Sharded    == settings.sharded

Cnf    == 0
Shards == 1..ShardCount
RS     == IF Sharded THEN Shards \cup {Cnf} ELSE Shards
Size(rs) == IF rs = Cnf THEN CnfSize ELSE DataSize
Members == {m \in RS \X (0..(MaxPVCCount(CnfSize, DataSize) - 1)) :
               m[2] < Size(m[1])}
PVCs   == 0..(MaxPVCCount(CnfSize, DataSize) - 1)
None   == -1

VARIABLES
    pc,       \* "idle", "down", "detach", "up", "gate", "delete", "create", "done"
    pvc,      \* N: the volume whose group is restarted
    at,       \* the set whose member is next (Cnf first, then the shards)
    member,   \* index of the StatefulSet that is rebuilt
    original, \* originalReplicas of the group
    replicas, \* replicas[m]: spec.replicas of the StatefulSet
    state,    \* state[m]: the member
    prim,     \* prim[rs]: index of the primary, or None
    resized,  \* volumes that have grown
    timedOut, \* history: some wait of the gate ran out
    faults

loopVars == <<pc, pvc, at, member>>
kubeVars == <<replicas, state, prim, resized>>
vars == <<settings, loopVars, original, kubeVars, timedOut, faults>>

Serving(rs) == {i \in 0..(Size(rs) - 1) : state[<<rs, i>>] = "serving"}
Majority(rs) == 2 * Cardinality(Serving(rs)) > Size(rs)

\* The claims as CreateCNFStep and CreateDataStep made them.
Mounts(m) == IF m[1] = Cnf THEN CnfVolume(CnfSize, DataSize, m[2])
             ELSE DataVolume(CnfSize, DataSize, ShardCount, m[1] - 1, m[2])
MountedBy(v) == {m \in Members : Mounts(m) = v /\ state[m] # "off"}

\* The group of a volume as OnNeedsRestart derives it from the schema.  The
\* config StatefulSet is named whether or not the cluster is sharded.
InGroup(rs, n) == n < Size(rs)
GroupSets(n) == {rs \in Shards \cup {Cnf} : InGroup(rs, n)}
NextIn(n, rs) ==
    LET later == {x \in GroupSets(n) : x > rs}
    IN IF later = {} THEN None ELSE CHOOSE x \in later : \A y \in later : x <= y

FirstIn(n) == CHOOSE x \in GroupSets(n) : \A y \in GroupSets(n) : x <= y

RSStatus(rs) ==
    GetReplicaSetStatus(Active, \E i \in 0..(Size(rs) - 1) : state[<<rs, i>>] # "off",
                        IF prim[rs] = None THEN 0 ELSE 1,
                        Cardinality(Serving(rs) \ {prim[rs]}), Size(rs))

ClusterIs ==
    GetClusterStatus(Active, Sharded, IF Sharded THEN RSStatus(Cnf) ELSE NoPods,
                     [d \in Shards |-> RSStatus(d)], TRUE)

Fault == faults < MaxFaults /\ faults' = faults + 1

-----------------------------------------------------------------------------
Init ==
    /\ settings \in Deployments
    /\ pc = "idle" /\ pvc = 0 /\ at = Cnf /\ member = 0
    /\ original = [rs \in Shards \cup {Cnf} |-> 1]
    /\ replicas = [m \in Members |-> 1]
    /\ state = [m \in Members |-> "serving"]
    /\ prim = [rs \in RS |-> 0]
    /\ resized = {}
    /\ timedOut = FALSE /\ faults = 0

FirstRS == IF Sharded THEN Cnf ELSE 1

\* The compound starts, or starts again after an error: WaitForPVCExpansion
\* calls OnNeedsRestart while a volume has not grown yet.
Start ==
    /\ pc = "idle"
    /\ IF resized # PVCs
       THEN pc' = "down" /\ pvc' = 0 /\ at' = FirstIn(0) /\ UNCHANGED member
       ELSE pc' = "delete" /\ at' = FirstRS /\ member' = 0 /\ UNCHANGED pvc
    /\ UNCHANGED <<settings, original, kubeVars, timedOut, faults>>

\* The step returns an error: the reconcile is over and will be repeated.
Return == pc' = "idle" /\ pvc' = 0 /\ at' = Cnf /\ member' = 0

StopMember(m) ==
    /\ state' = [state EXCEPT ![m] = "off"]
    /\ prim' = [prim EXCEPT ![m[1]] =
                  IF @ = m[2] \/ ~(2 * Cardinality(Serving(m[1]) \ {m[2]}) > Size(m[1]))
                  THEN None ELSE @]

\* Scale down the group, member by member; the replicas to go back to are
\* those the StatefulSet has now.
ScaleDown ==
    /\ pc = "down"
    /\ LET m == <<at, pvc>>
       IN \/ /\ m \in Members
             /\ original' = [original EXCEPT ![at] = replicas[m]]
             /\ replicas' = [replicas EXCEPT ![m] = 0]
             /\ StopMember(m)
             /\ IF NextIn(pvc, at) # None
                THEN at' = NextIn(pvc, at) /\ UNCHANGED pc
                ELSE at' = FirstIn(pvc) /\ pc' = "detach"
             /\ UNCHANGED <<pvc, member, faults>>
          \/ /\ m \notin Members /\ Return
             /\ UNCHANGED <<original, replicas, state, prim, faults>>
          \/ /\ m \in Members /\ Fault /\ Return
             /\ \/ /\ replicas' = [replicas EXCEPT ![m] = 0]
                   /\ StopMember(m)
                \/ UNCHANGED <<replicas, state, prim>>
             /\ UNCHANGED original
    /\ UNCHANGED <<settings, resized, timedOut>>

\* The fixed wait for the volume to be detached and resized.
Detach ==
    /\ pc = "detach" /\ pc' = "up"
    /\ \/ /\ MountedBy(pvc) = {}
          /\ resized' = resized \cup {pvc} /\ UNCHANGED faults
       \/ MountedBy(pvc) # {} /\ UNCHANGED <<resized, faults>>
       \/ MountedBy(pvc) = {} /\ Fault /\ UNCHANGED resized
    /\ UNCHANGED <<settings, pvc, at, member, original, replicas, state, prim, timedOut>>

StartMember(m, n) ==
    /\ replicas' = [replicas EXCEPT ![m] = n]
    /\ state' = [state EXCEPT ![m] = IF n = 0 THEN @ ELSE "starting"]

ScaleUp ==
    /\ pc = "up"
    /\ LET m == <<at, pvc>>
       IN \/ /\ StartMember(m, original[at])
             /\ IF NextIn(pvc, at) # None
                THEN at' = NextIn(pvc, at) /\ UNCHANGED pc
                ELSE pc' = "gate" /\ UNCHANGED at
             /\ UNCHANGED <<pvc, member, faults>>
          \/ /\ Fault /\ Return
             /\ \/ StartMember(m, original[at]) \/ UNCHANGED <<replicas, state>>
    /\ UNCHANGED <<settings, original, prim, resized, timedOut>>

\* Mutant: the poll takes a degraded cluster for a healthy one.
HealthyOrDegraded == ClusterIs \in {Up, Degraded}

\* Mutant: the poll waits for a status the helper never answers.
HealthyNever == ClusterIs = "running"

Healthy == ClusterIs = Up

\* The gate before the next volume.
Gate ==
    /\ pc = "gate" /\ Healthy
    /\ IF pvc + 1 \in PVCs
       THEN pc' = "down" /\ pvc' = pvc + 1 /\ at' = FirstIn(pvc + 1) /\ UNCHANGED member
       ELSE pc' = "delete" /\ pvc' = 0 /\ at' = FirstRS /\ member' = 0
    /\ UNCHANGED <<settings, original, kubeVars, timedOut, faults>>

GateTimeout ==
    /\ pc = "gate" /\ ~Healthy
    /\ Return /\ timedOut' = TRUE
    /\ UNCHANGED <<settings, original, kubeVars, faults>>

-----------------------------------------------------------------------------
(* CreateCNFStep, then CreateDataStep: every StatefulSet is deleted with its *)
(* pod and created with one replica; the step waits for the pod to be Ready. *)

DeleteStatefulSet ==
    /\ pc = "delete"
    /\ \/ StopMember(<<at, member>>) /\ pc' = "create"
          /\ UNCHANGED <<pvc, at, member, faults>>
       \/ Fault /\ Return
          /\ (StopMember(<<at, member>>) \/ UNCHANGED <<state, prim>>)
    /\ UNCHANGED <<settings, original, replicas, resized, timedOut>>

\* Mutant: the loop over the members runs once too often.
AfterMemberLate ==
    IF member < Size(at)
    THEN pc' = "delete" /\ member' = member + 1 /\ UNCHANGED at
    ELSE IF at + 1 \in RS
    THEN pc' = "delete" /\ at' = at + 1 /\ member' = 0
    ELSE pc' = "done" /\ UNCHANGED <<at, member>>

\* Mutant: only the config set is rebuilt.
AfterMemberEarly ==
    IF member + 1 < Size(at)
    THEN pc' = "delete" /\ member' = member + 1 /\ UNCHANGED at
    ELSE pc' = "done" /\ UNCHANGED <<at, member>>

AfterMember ==
    IF member + 1 < Size(at)
    THEN pc' = "delete" /\ member' = member + 1 /\ UNCHANGED at
    ELSE IF at + 1 \in RS
    THEN pc' = "delete" /\ at' = at + 1 /\ member' = 0
    ELSE pc' = "done" /\ UNCHANGED <<at, member>>

CreateStatefulSet ==
    /\ pc = "create"
    /\ \/ StartMember(<<at, member>>, 1) /\ AfterMember /\ UNCHANGED <<pvc, faults>>
       \/ Fault /\ Return /\ (StartMember(<<at, member>>, 1) \/ UNCHANGED <<replicas, state>>)
    /\ UNCHANGED <<settings, original, prim, resized, timedOut>>

\* The operator's pod is killed; the new one starts the compound again.
Crash ==
    /\ pc \notin {"idle", "done"} /\ Fault /\ Return
    /\ UNCHANGED <<settings, original, kubeVars, timedOut>>

-----------------------------------------------------------------------------
(* mongod processes (external). *)

Rejoin(m) ==
    /\ state[m] = "starting"
    /\ state' = [state EXCEPT ![m] = "serving"]
    /\ UNCHANGED <<settings, loopVars, original, replicas, prim, resized, timedOut, faults>>

Elect(rs) ==
    /\ prim[rs] = None /\ Majority(rs)
    /\ \E i \in Serving(rs) : prim' = [prim EXCEPT ![rs] = i]
    /\ UNCHANGED <<settings, loopVars, original, replicas, state, resized, timedOut, faults>>

MemberFails(m) ==
    /\ state[m] = "serving" /\ Fault
    /\ state' = [state EXCEPT ![m] = "starting"]
    /\ prim' = [prim EXCEPT ![m[1]] =
                  IF @ = m[2] \/ ~(2 * Cardinality(Serving(m[1]) \ {m[2]}) > Size(m[1]))
                  THEN None ELSE @]
    /\ UNCHANGED <<settings, loopVars, original, replicas, resized, timedOut>>

-----------------------------------------------------------------------------
Work ==
    \/ Start \/ ScaleDown \/ Detach \/ ScaleUp \/ Gate
    \/ DeleteStatefulSet \/ CreateStatefulSet

Operator == Work \/ GateTimeout

Next ==
    \/ Operator \/ Crash
    \/ \E m \in Members : Rejoin(m) \/ MemberFails(m)
    \/ \E rs \in RS : Elect(rs)

Spec == Init /\ [][Next]_vars

\* The reconcile loop goes on; members rejoin and sets elect a primary.
AnyMember == UNION {(0..d.shards) \X (0..(d.cnf + d.data)) : d \in Deployments}

Environment ==
    \A m \in AnyMember : /\ WF_vars(m \in Members /\ Rejoin(m))
                         /\ m[2] = 0 => WF_vars(m[1] \in RS /\ Elect(m[1]))

FairSpec == Spec /\ WF_vars(Operator) /\ Environment

\* As FairSpec, with a gate that may give up but does not have to: its wait
\* can be as long as the cluster needs.
PatientSpec == Spec /\ WF_vars(Work) /\ Environment

-----------------------------------------------------------------------------
Restarting == pc \in {"down", "detach", "up", "gate"}
Smooth == faults = 0 /\ ~timedOut

\* Types of the variables.
TypeOK ==
    /\ pc \in {"idle", "down", "detach", "up", "gate", "delete", "create", "done"}
    /\ pvc \in PVCs /\ at \in Shards \cup {Cnf} /\ member \in PVCs
    /\ original \in [Shards \cup {Cnf} -> {0, 1}]
    /\ replicas \in [Members -> {0, 1}]
    /\ state \in [Members -> {"off", "starting", "serving"}]
    /\ prim \in [RS -> PVCs \cup {None}]
    /\ resized \subseteq PVCs /\ timedOut \in BOOLEAN /\ faults \in 0..MaxFaults

\* While volumes are restarted and nothing fails by itself, the config set
\* misses at most the one member that is being restarted: the gate does not
\* let the next one go before the set is complete.
OneConfigMemberAtATime ==
    (Restarting /\ Smooth /\ Sharded) => Cardinality(Serving(Cnf)) >= CnfSize - 1

\* The placement leaves out no pair of volumes: member n of every set mounts
\* volume n, as OnNeedsRestart takes for granted.
MountsByNumber == Side(CnfSize) = Side(DataSize)

\* A compound that is through has every StatefulSet at one replica, whatever
\* failed on the way: what an interrupted restart left at 0 is repaired by the
\* rebuild.  And it has grown every volume, unless something failed or the
\* sets are not equally large (then OnNeedsRestart does not know who mounts a
\* volume).
DoneIsWhole ==
    pc = "done" => /\ \A m \in Members : replicas[m] = 1
                   /\ faults = 0 /\ MountsByNumber => resized = PVCs

\* When nothing fails and no wait runs out, the expansion of a sharded cluster
\* is completed: the procedure of the installation guide comes to its end.
Completes == <>(pc = "done" \/ ~Smooth \/ ~Sharded)

\* "Operator Scales all four StatefulSets back up" (installation_guide.md): a
\* member the restart took down comes back, also when the restart is retried.
ScaledBack ==
    \A m \in AnyMember :
        (m \in Members /\ replicas[m] = 0) ~> (m \in Members /\ replicas[m] = 1)

=============================================================================

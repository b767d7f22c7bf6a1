------------------------ MODULE VolumeExpansionProofs ------------------------
(***************************************************************************)
(* Theorems about VolumeExpansion for any deployments and any number of    *)
(* faults: the types, that a compound that is through left nothing scaled  *)
(* down and grew every volume it could, and that the gate lets only one    *)
(* member of the config set go at a time.                                  *)
(***************************************************************************)
EXTENDS VolumeExpansion, FiniteSetTheorems, TLAPS

AllSets == Shards \cup {Cnf}

\* The loops are at a member of the group, and at a member that exists.  The
\* restart of an unsharded cluster does not get past its first look.
LoopAt ==
    /\ Restarting => at \in GroupSets(pvc)
    /\ Restarting /\ ~Sharded => pc = "down" /\ at = Cnf
    /\ pc = "detach" => at = FirstIn(pvc)
    /\ pc \in {"delete", "create"} => at \in RS /\ member < Size(at)

\* Whom the loops have taken down is down: the group while its volume is
\* detached, and the member between its deletion and its creation.
Off ==
    /\ pc = "down" => \A m \in Members : m[2] = pvc /\ m[1] < at => state[m] = "off"
    /\ pc = "detach" => \A m \in Members : m[2] = pvc => state[m] = "off"
    /\ pc = "up" => \A m \in Members : m[2] = pvc /\ m[1] >= at => state[m] = "off"
    /\ pc = "create" => state[<<at, member>>] = "off"

\* A primary is a serving member of its set.
PrimaryServes == \A rs \in RS : prim[rs] # None => prim[rs] \in Serving(rs)

\* The volumes that must have grown by now.
Grown ==
    /\ pc \in {"down", "detach"} => \A v \in PVCs : v < pvc => v \in resized
    /\ pc \in {"up", "gate"} => \A v \in PVCs : v <= pvc => v \in resized
    /\ pc \in {"delete", "create", "done"} => resized = PVCs

\* The members that the rebuild has passed have their replica.
Rebuilt ==
    /\ pc \in {"delete", "create"} =>
         \A m \in Members : m[1] < at \/ (m[1] = at /\ m[2] < member) => replicas[m] = 1
    /\ pc = "done" => \A m \in Members : replicas[m] = 1

\* The config members that must be serving while nothing fails.
ConfigServes ==
    \A i \in 0..(CnfSize - 1) :
        (pc = "idle" \/ (Restarting /\ (i # pvc \/ (pc = "down" /\ at = Cnf))))
            => state[<<Cnf, i>>] = "serving"

XInv ==
    /\ settings \in Deployments /\ TypeOK
    /\ LoopAt /\ Off /\ PrimaryServes /\ Rebuilt
    /\ faults = 0 /\ MountsByNumber => Grown
    /\ Smooth /\ Sharded => ConfigServes

-----------------------------------------------------------------------------
(* The deployment: sets, members and volumes. *)

LEMMA Sizes ==
    ASSUME settings \in Deployments
    PROVE  /\ ShardCount \in Nat \ {0} /\ CnfSize \in Nat \ {0} /\ DataSize \in Nat \ {0}
           /\ Sharded \in BOOLEAN /\ (Sharded \/ ShardCount = 1)
BY ExpansionAssumption DEF ShardCount, CnfSize, DataSize, Sharded

LEMMA Sets ==
    ASSUME settings \in Deployments
    PROVE  /\ RS \subseteq AllSets /\ FirstRS \in RS /\ Cnf = 0
           /\ Sharded => RS = AllSets
           /\ ~Sharded => RS = {1} /\ AllSets = {0, 1}
           /\ AllSets = 0..ShardCount /\ Shards = AllSets \ {0} /\ 1 \in Shards
           /\ \A rs \in RS : rs = FirstRS \/ rs - 1 \in RS
           /\ \A rs \in RS : FirstRS <= rs
BY Sizes DEF RS, AllSets, FirstRS, Cnf, Shards

LEMMA Volumes ==
    ASSUME settings \in Deployments
    PROVE  /\ 0 \in PVCs /\ PVCs \subseteq Nat /\ None \notin PVCs
           /\ \A n \in PVCs : n < CnfSize \/ n < DataSize
           /\ \A n \in PVCs : n - 1 \in PVCs \/ n = 0
           /\ \A v, n \in PVCs : n + 1 \notin PVCs => v <= n
           /\ \A rs \in AllSets : /\ Size(rs) \in Nat \ {0}
                                  /\ 0..(Size(rs) - 1) \subseteq PVCs
BY Sizes DEF PVCs, MaxPVCCount, Size, None, AllSets

LEMMA MemberFacts ==
    ASSUME settings \in Deployments
    PROVE  /\ \A rs, i : <<rs, i>> \in Members <=> (rs \in RS /\ i \in 0..(Size(rs) - 1))
           /\ \A m \in Members : /\ m = <<m[1], m[2]>> /\ m[1] \in RS
                                 /\ m[2] \in 0..(Size(m[1]) - 1) /\ m[2] \in PVCs
<1>1. Members \subseteq RS \X PVCs
  BY DEF Members, PVCs
<1>2. ASSUME NEW rs, NEW i PROVE <<rs, i>> \in Members <=> (rs \in RS /\ i \in 0..(Size(rs) - 1))
  <2>1. <<rs, i>> \in Members <=> (rs \in RS /\ i \in PVCs /\ i < Size(rs))
    BY DEF Members, PVCs
  <2>2. rs \in RS => /\ Size(rs) \in Nat \ {0}
                     /\ 0..(Size(rs) - 1) \subseteq PVCs
    BY Sets, Volumes
  <2> QED
    BY <2>1, <2>2, Volumes
<1>3. \A m \in Members : m = <<m[1], m[2]>> /\ m[1] \in RS /\ m[2] \in PVCs
  BY <1>1
<1> QED
  BY <1>2, <1>3

\* The group of a volume, in the order of the loops.
LEMMA GroupFacts ==
    ASSUME settings \in Deployments, NEW n \in PVCs
    PROVE  /\ GroupSets(n) \subseteq AllSets
           /\ FirstIn(n) = IF n < CnfSize THEN Cnf ELSE 1
           /\ FirstIn(n) \in GroupSets(n)
           /\ \A rs \in GroupSets(n) : FirstIn(n) <= rs
           /\ \A rs \in GroupSets(n) : n \in 0..(Size(rs) - 1)
           /\ \A rs \in AllSets : n \in 0..(Size(rs) - 1) => rs \in GroupSets(n)
<1>0. /\ \A rs : rs \in GroupSets(n) <=> (rs \in 0..ShardCount /\ n < Size(rs))
      /\ AllSets = 0..ShardCount /\ Cnf = 0 /\ 1 \in 0..ShardCount /\ 0 \in 0..ShardCount
      /\ ShardCount \in Nat
  BY Sets, Sizes DEF GroupSets, InGroup, AllSets
<1>1. Size(0) = CnfSize /\ \A rs \in 0..ShardCount : rs # 0 => Size(rs) = DataSize
  BY DEF Size, Cnf
<1>2. n \in Nat /\ (n < CnfSize \/ n < DataSize) /\ CnfSize \in Nat /\ DataSize \in Nat
  BY Volumes, Sizes
<1> DEFINE f == IF n < CnfSize THEN 0 ELSE 1
<1>3. f \in GroupSets(n) /\ \A y \in GroupSets(n) : f <= y
  BY <1>0, <1>1, <1>2
<1>4. \A x \in GroupSets(n) : (\A y \in GroupSets(n) : x <= y) => x = f
  BY <1>0, <1>3
<1>5. FirstIn(n) = f
  <2> DEFINE Least(x) == x \in GroupSets(n) /\ \A y \in GroupSets(n) : x <= y
  <2>1. FirstIn(n) = CHOOSE x : Least(x)
    BY DEF FirstIn
  <2>2. Least(f) /\ \A x : Least(x) => x = f
    BY <1>3, <1>4
  <2> QED
    BY <2>1, <2>2
<1> QED
  BY <1>0, <1>1, <1>2, <1>3, <1>5

LEMMA NextInFacts ==
    ASSUME settings \in Deployments, NEW n \in PVCs, NEW rs \in GroupSets(n)
    PROVE  /\ NextIn(n, rs) # None =>
                /\ NextIn(n, rs) \in GroupSets(n) /\ NextIn(n, rs) > rs
                /\ \A x \in GroupSets(n) : x < NextIn(n, rs) => x <= rs
           /\ NextIn(n, rs) = None => \A x \in GroupSets(n) : x <= rs
<1>0. GroupSets(n) \subseteq 0..ShardCount /\ ShardCount \in Nat
  BY GroupFacts, Sets, Sizes
<1>1. \A x, y \in AllSets : (x # 0 /\ y # 0) => (x \in GroupSets(n) <=> y \in GroupSets(n))
  BY Sets DEF GroupSets, InGroup, Size, AllSets
<1> DEFINE later == {x \in GroupSets(n) : x > rs}
<1>2. CASE later = {}
  BY <1>0, <1>2 DEF NextIn
<1>3. CASE later # {}
  <2>1. PICK z \in GroupSets(n) : z > rs
    BY <1>3
  <2>2. rs + 1 \in GroupSets(n)
    <3>1. rs \in Nat /\ z \in Nat /\ z <= ShardCount /\ rs + 1 \in AllSets /\ z \in AllSets
      BY <1>0, <2>1, Sets
    <3> QED
      BY <1>1, <2>1, <3>1
  <2>3. rs + 1 \in later /\ \A y \in later : rs + 1 <= y
    BY <1>0, <2>2
  <2> DEFINE Least(x) == x \in later /\ \A y \in later : x <= y
  <2>4. NextIn(n, rs) = CHOOSE x : Least(x)
    BY <1>3 DEF NextIn
  <2>5. Least(rs + 1) /\ \A x : Least(x) => x = rs + 1
    <3>1. Least(rs + 1)
      BY <2>3
    <3>2. ASSUME NEW x, Least(x) PROVE x = rs + 1
      BY <1>0, <2>3, <3>2
    <3> QED
      BY <3>1, <3>2
  <2>6. NextIn(n, rs) = rs + 1
    BY <2>4, <2>5
  <2> QED
    BY <1>0, <2>2, <2>6 DEF None
<1> QED
  BY <1>2, <1>3

\* What depends on the deployment alone stays with it.
LEMMA Same ==
    ASSUME UNCHANGED settings
    PROVE  /\ Members' = Members /\ RS' = RS /\ PVCs' = PVCs /\ Shards' = Shards
           /\ AllSets' = AllSets /\ CnfSize' = CnfSize /\ Sharded' = Sharded
           /\ DataSize' = DataSize /\ MountsByNumber' = MountsByNumber
           /\ FirstRS' = FirstRS
           /\ \A rs : Size(rs)' = Size(rs)
           /\ \A n : GroupSets(n)' = GroupSets(n) /\ FirstIn(n)' = FirstIn(n)
<1>1. /\ Shards' = Shards /\ CnfSize' = CnfSize /\ Sharded' = Sharded /\ DataSize' = DataSize
      /\ ShardCount' = ShardCount
  BY DEF Shards, CnfSize, Sharded, DataSize, ShardCount
<1>2. RS' = RS /\ PVCs' = PVCs /\ AllSets' = AllSets /\ FirstRS' = FirstRS
      /\ MountsByNumber' = MountsByNumber /\ \A rs : Size(rs)' = Size(rs)
  BY <1>1 DEF RS, PVCs, AllSets, FirstRS, MountsByNumber, Size
<1>3. Members' = Members
  BY <1>1, <1>2 DEF Members
<1>4. \A n : GroupSets(n)' = GroupSets(n)
  BY <1>1, <1>2 DEF GroupSets, InGroup
<1>5. \A n : FirstIn(n)' = FirstIn(n)
  BY <1>4 DEF FirstIn
<1> QED
  BY <1>1, <1>2, <1>3, <1>4, <1>5

\* Without pairs to leave out every member mounts the volume of its number.
LEMMA NothingPopped ==
    ASSUME NEW w, NEW pv, NEW repl, NEW n, Extra(pv, repl) = 0
    PROVE  Popped(w, pv, repl, n) = {}
<1> DEFINE S == Side(pv)
           D(f) == [k \in 0..0 |-> IF k = 0 THEN {}
                                   ELSE f[k - 1] \cup {Heaviest(w, f[k - 1], S, n)}]
           g == [k \in 0..0 |-> {}]
<1>1. \A f : D(f) = g
  OBVIOUS
<1>2. Popped(w, pv, repl, n) = (CHOOSE f : f = D(f))[0]
  BY DEF Popped
<1> HIDE DEF D
<1>3. (CHOOSE f : f = D(f)) = g
  BY <1>1
<1>4. g[0] = {}
  OBVIOUS
<1> HIDE DEF g
<1> QED
  BY <1>2, <1>3, <1>4

\* The i-th volume of 0..pv-1 in order is volume i.
LEMMA InOrder ==
    ASSUME NEW pv \in Nat, NEW i \in 0..(pv - 1)
    PROVE  (CHOOSE x \in 0..(pv - 1) : Cardinality({y \in 0..(pv - 1) : y < x}) = i) = i
<1>1. ASSUME NEW x \in 0..(pv - 1)
      PROVE  Cardinality({y \in 0..(pv - 1) : y < x}) = x
  <2>1. {y \in 0..(pv - 1) : y < x} = 0..(x - 1)
    OBVIOUS
  <2>2. 0 \in Int /\ x - 1 \in Int /\ (0 > x - 1 => x = 0) /\ (x - 1) - 0 + 1 = x
    OBVIOUS
  <2> QED
    BY <2>1, <2>2, FS_Interval
<1> DEFINE P(x) == x \in 0..(pv - 1) /\ Cardinality({y \in 0..(pv - 1) : y < x}) = i
<1>2. P(i) /\ \A x : P(x) => x = i
  BY <1>1
<1>3. (CHOOSE x : P(x)) = i
  BY <1>2
<1> QED
  BY <1>3

LEMMA PlacedByNumber ==
    ASSUME NEW pv \in Nat, NEW repl, NEW n, NEW s, Extra(pv, repl) = 0, NEW i \in 0..(pv - 1)
    PROVE  ElementsDistribution(pv, repl, i, n, s) = i
<1>1. Kept(pv, repl, n, s) = 0..(pv - 1)
  BY NothingPopped DEF Kept
<1>2. Cardinality(0..(pv - 1)) = pv
  <2>1. 0 \in Int /\ pv - 1 \in Int /\ ~(0 > pv - 1) /\ (pv - 1) - 0 + 1 = pv
    OBVIOUS
  <2> QED
    BY <2>1, FS_Interval
<1>3. ~(i >= Cardinality(0..(pv - 1)))
  BY <1>2
<1> QED
  BY <1>1, <1>3, InOrder DEF ElementsDistribution

LEMMA MountsFacts ==
    ASSUME settings \in Deployments, MountsByNumber, NEW m \in Members
    PROVE  Mounts(m) = m[2]
<1> DEFINE pv == MaxPVCCount(CnfSize, DataSize)
<1>1. m[2] \in 0..(pv - 1) /\ pv \in Nat
  BY MemberFacts, Sizes DEF PVCs, MaxPVCCount
<1>2. Extra(pv, CnfSize) = 0 /\ Extra(pv, DataSize) = 0
  BY Sizes DEF MountsByNumber, Extra, MaxPVCCount, Side
<1> HIDE DEF pv
<1>3. /\ ElementsDistribution(pv, CnfSize, m[2], 1, 0) = m[2]
      /\ ElementsDistribution(pv, DataSize, m[2], ShardCount, m[1] - 1) = m[2]
  BY <1>1, <1>2, PlacedByNumber
<1> QED
  BY <1>3 DEF Mounts, CnfVolume, DataVolume, pv

-----------------------------------------------------------------------------
(* Members that stop and start, and the end of a reconcile. *)

KubeTypes ==
    /\ original \in [AllSets -> {0, 1}] /\ replicas \in [Members -> {0, 1}]
    /\ state \in [Members -> {"off", "starting", "serving"}]
    /\ prim \in [RS -> PVCs \cup {None}]
    /\ resized \subseteq PVCs /\ timedOut \in BOOLEAN /\ faults \in 0..MaxFaults

LoopTypes ==
    /\ pc \in {"idle", "down", "detach", "up", "gate", "delete", "create", "done"}
    /\ pvc \in PVCs /\ at \in AllSets /\ member \in PVCs

LEMMA TypeParts == TypeOK <=> KubeTypes /\ LoopTypes
BY DEF TypeOK, KubeTypes, LoopTypes, AllSets

LEMMA FaultFacts == ASSUME XInv, Fault PROVE faults' \in 0..MaxFaults /\ faults' # 0
BY ExpansionAssumption DEF XInv, TypeOK, Fault

LEMMA StopFacts ==
    ASSUME XInv, UNCHANGED settings, NEW m \in Members,
           state' \in [Members -> {"off", "starting", "serving"}], state'[m] # "serving",
           \A x \in Members \ {m} : state'[x] = state[x],
           prim' = [prim EXCEPT ![m[1]] =
                      IF @ = m[2] \/ ~(2 * Cardinality(Serving(m[1]) \ {m[2]}) > Size(m[1]))
                      THEN None ELSE @]
    PROVE  prim' \in [RS -> PVCs \cup {None}] /\ PrimaryServes'
<1>0. /\ prim \in [RS -> PVCs \cup {None}] /\ PrimaryServes /\ settings \in Deployments
      /\ m = <<m[1], m[2]>> /\ m[1] \in RS
  BY MemberFacts DEF XInv, TypeOK
<1>1. /\ prim' \in [RS -> PVCs \cup {None}]
      /\ \A rs \in RS : prim'[rs] # None => prim'[rs] = prim[rs] /\ (rs = m[1] => prim[rs] # m[2])
  BY <1>0
<1>2. ASSUME NEW rs \in RS', prim'[rs] # None PROVE prim'[rs] \in Serving(rs)'
  <2>1. rs \in RS /\ Size(rs)' = Size(rs)
    BY Same
  <2>2. prim[rs] \in 0..(Size(rs) - 1) /\ state[<<rs, prim[rs]>>] = "serving"
    BY <1>0, <1>1, <1>2, <2>1 DEF PrimaryServes, Serving
  <2>3. <<rs, prim[rs]>> \in Members /\ <<rs, prim[rs]>> # m
    BY <1>0, <1>1, <1>2, <2>1, <2>2, MemberFacts
  <2> QED
    BY <1>1, <1>2, <2>1, <2>2, <2>3 DEF Serving
<1> QED
  BY <1>1, <1>2 DEF PrimaryServes

LEMMA StopMemberFacts ==
    ASSUME XInv, UNCHANGED settings, NEW m \in Members, StopMember(m)
    PROVE  /\ state' \in [Members -> {"off", "starting", "serving"}] /\ state'[m] = "off"
           /\ \A x \in Members \ {m} : state'[x] = state[x]
           /\ prim' \in [RS -> PVCs \cup {None}] /\ PrimaryServes'
<1>1. /\ state' \in [Members -> {"off", "starting", "serving"}] /\ state'[m] = "off"
      /\ \A x \in Members \ {m} : state'[x] = state[x]
  BY DEF XInv, TypeOK, StopMember
<1> QED
  BY <1>1, StopFacts DEF StopMember

\* What keeps the serving members serving keeps the primaries.
LEMMA ServingKeeps ==
    ASSUME XInv, UNCHANGED <<settings, prim>>,
           \A x \in Members : state[x] = "serving" => state'[x] = "serving"
    PROVE  PrimaryServes'
<1> SUFFICES ASSUME NEW rs \in RS, prim[rs] # None PROVE prim[rs] \in Serving(rs)'
  BY Same DEF PrimaryServes
<1>1. prim[rs] \in 0..(Size(rs) - 1) /\ state[<<rs, prim[rs]>>] = "serving"
  BY DEF XInv, PrimaryServes, Serving
<1>2. <<rs, prim[rs]>> \in Members
  BY <1>1, MemberFacts DEF XInv
<1> QED
  BY <1>1, <1>2, Same DEF Serving

LEMMA StartMemberFacts ==
    ASSUME XInv, UNCHANGED <<settings, prim>>, NEW m \in Members, NEW n \in {0, 1},
           StartMember(m, n), state[m] = "off"
    PROVE  /\ state' \in [Members -> {"off", "starting", "serving"}]
           /\ \A x \in Members \ {m} : state'[x] = state[x]
           /\ replicas' \in [Members -> {0, 1}] /\ replicas'[m] = n
           /\ \A x \in Members \ {m} : replicas'[x] = replicas[x]
           /\ PrimaryServes'
<1>1. /\ state' \in [Members -> {"off", "starting", "serving"}]
      /\ \A x \in Members \ {m} : state'[x] = state[x]
  BY DEF XInv, TypeOK, StartMember
<1>2. /\ replicas' \in [Members -> {0, 1}] /\ replicas'[m] = n
      /\ \A x \in Members \ {m} : replicas'[x] = replicas[x]
  BY DEF XInv, TypeOK, StartMember
<1>3. PrimaryServes'
  BY <1>1, ServingKeeps
<1> QED
  BY <1>1, <1>2, <1>3

\* The step returns an error: only a cluster that nothing failed in, and that
\* is sharded, has something to lose.
LEMMA ReturnKeeps ==
    ASSUME XInv, UNCHANGED settings, Return, KubeTypes', PrimaryServes',
           faults' # 0 \/ timedOut' \/ ~Sharded
    PROVE  XInv'
<1>0. settings \in Deployments
  BY DEF XInv
<1>1. LoopTypes'
  BY <1>0, Same, Volumes DEF Return, LoopTypes, AllSets
<1>2. TypeOK'
  BY <1>1, TypeParts, PTL
<1>3. /\ LoopAt' /\ Off' /\ Rebuilt' /\ Grown'
      /\ ~(Smooth /\ Sharded)'
  BY Same DEF Return, LoopAt, Off, Rebuilt, Grown, Restarting, Smooth
<1> QED
  BY <1>2, <1>3 DEF XInv

LEMMA CrashKeeps == ASSUME XInv, Crash PROVE XInv'
<1>1. KubeTypes'
  BY TypeParts, FaultFacts, Same DEF XInv, KubeTypes, Crash, kubeVars
<1>2. PrimaryServes'
  BY ServingKeeps DEF Crash, kubeVars
<1> QED
  BY <1>1, <1>2, FaultFacts, ReturnKeeps DEF Crash

LEMMA GateTimeoutKeeps == ASSUME XInv, GateTimeout PROVE XInv'
<1>1. KubeTypes'
  BY TypeParts, Same DEF XInv, KubeTypes, GateTimeout, kubeVars
<1>2. PrimaryServes'
  BY ServingKeeps DEF GateTimeout, kubeVars
<1> QED
  BY <1>1, <1>2, ReturnKeeps DEF GateTimeout

-----------------------------------------------------------------------------
(* The restart of the group of a volume. *)

\* Put together again, for the steps that do not change the deployment.
LEMMA Composed ==
    ASSUME settings' \in Deployments, KubeTypes', LoopTypes', LoopAt', Off', PrimaryServes',
           Rebuilt', (faults = 0 /\ MountsByNumber)' => Grown',
           (Smooth /\ Sharded)' => ConfigServes'
    PROVE  XInv'
<1>1. TypeOK'
  BY TypeParts, PTL
<1> QED
  BY <1>1 DEF XInv

\* The rebuild has passed nobody when it starts.
LEMMA FirstFacts ==
    ASSUME settings \in Deployments, NEW m \in Members
    PROVE  ~(m[1] < FirstRS \/ (m[1] = FirstRS /\ m[2] < 0))
<1>1. FirstRS <= m[1] /\ m[1] \in Nat /\ FirstRS \in Nat /\ m[2] \in Nat
  BY MemberFacts, Sets, Sizes, Volumes
<1> QED
  BY <1>1

LEMMA StartKeeps == ASSUME XInv, Start PROVE XInv'
<1>0. /\ settings \in Deployments /\ settings' = settings /\ pc = "idle"
      /\ UNCHANGED <<original, kubeVars, timedOut, faults>>
  BY DEF XInv, Start
<1>1. KubeTypes' /\ PrimaryServes'
  BY <1>0, TypeParts, Same, ServingKeeps DEF XInv, KubeTypes, kubeVars
<1>2. CASE resized # PVCs
  <2>1. pc' = "down" /\ pvc' = 0 /\ at' = FirstIn(0) /\ UNCHANGED member
    BY <1>2 DEF Start
  <2>2. /\ at' = Cnf /\ at' \in GroupSets(0) /\ at' \in AllSets /\ 0 \in PVCs /\ Cnf = 0
    BY <1>0, <2>1, GroupFacts, Volumes, Sets, Sizes
  <2>3. LoopTypes' /\ LoopAt'
    BY <1>0, <2>1, <2>2, Same, TypeParts DEF XInv, LoopTypes, LoopAt, Restarting
  <2>4. Off' /\ Rebuilt' /\ Grown'
    <3>1. \A m \in Members : ~(m[1] < 0)
      BY <1>0, MemberFacts, Sets, Sizes
    <3>2. \A v \in PVCs : ~(v < 0)
      BY <1>0, Volumes
    <3> QED
      BY <1>0, <2>1, <2>2, <3>1, <3>2, Same DEF Off, Rebuilt, Grown
  <2>5. (Smooth /\ Sharded)' => ConfigServes'
    BY <1>0, <2>1, <2>2, Same DEF XInv, ConfigServes, Smooth, kubeVars
  <2> QED
    BY <1>0, <1>1, <2>3, <2>4, <2>5, Composed
<1>3. CASE resized = PVCs
  <2>1. pc' = "delete" /\ at' = FirstRS /\ member' = 0 /\ UNCHANGED pvc
    BY <1>3 DEF Start
  <2>2. LoopTypes' /\ LoopAt'
    BY <1>0, <2>1, Same, Volumes, Sets, TypeParts DEF XInv, LoopTypes, LoopAt, Restarting
  <2>3. Off' /\ Grown' /\ ConfigServes'
    BY <1>0, <1>3, <2>1, Same DEF Off, Grown, ConfigServes, Restarting, kubeVars
  <2>4. Rebuilt'
    BY <1>0, <2>1, FirstFacts, Same DEF Rebuilt
  <2> QED
    BY <1>0, <1>1, <2>2, <2>3, <2>4, Composed
<1> QED
  BY <1>2, <1>3

LEMMA ScaleDownKeeps == ASSUME XInv, ScaleDown PROVE XInv'
<1> DEFINE m == <<at, pvc>>
<1>0. /\ settings \in Deployments /\ settings' = settings /\ pc = "down" /\ Restarting
      /\ KubeTypes /\ LoopTypes /\ pvc \in PVCs /\ at \in AllSets /\ at \in GroupSets(pvc)
      /\ UNCHANGED <<resized, timedOut>>
  BY TypeParts DEF XInv, ScaleDown, LoopAt, Restarting, LoopTypes
<1>1. pvc \in 0..(Size(at) - 1) /\ (Sharded => m \in Members) /\ at \in Nat /\ pvc \in Nat
  BY <1>0, GroupFacts, MemberFacts, Sets, Sizes, Volumes
<1>2. CASE m \notin Members /\ Return /\ UNCHANGED <<original, replicas, state, prim, faults>>
  <2>1. KubeTypes' /\ PrimaryServes'
    BY <1>0, <1>2, Same, ServingKeeps DEF KubeTypes
  <2> QED
    BY <1>0, <1>1, <1>2, <2>1, ReturnKeeps
<1>3. CASE /\ m \in Members /\ Fault /\ Return /\ UNCHANGED original
           /\ \/ replicas' = [replicas EXCEPT ![m] = 0] /\ StopMember(m)
              \/ UNCHANGED <<replicas, state, prim>>
  <2>1. replicas' \in [Members -> {0, 1}]
    BY <1>0, <1>3 DEF KubeTypes
  <2>2. /\ state' \in [Members -> {"off", "starting", "serving"}]
        /\ prim' \in [RS -> PVCs \cup {None}] /\ PrimaryServes'
    BY <1>0, <1>3, StopMemberFacts, ServingKeeps DEF KubeTypes
  <2>3. KubeTypes'
    BY <1>0, <1>3, <2>1, <2>2, Same, FaultFacts DEF KubeTypes
  <2> QED
    BY <1>0, <1>3, <2>2, <2>3, FaultFacts, ReturnKeeps
<1>4. CASE /\ m \in Members /\ StopMember(m)
           /\ original' = [original EXCEPT ![at] = replicas[m]]
           /\ replicas' = [replicas EXCEPT ![m] = 0]
           /\ IF NextIn(pvc, at) # None
              THEN at' = NextIn(pvc, at) /\ UNCHANGED pc
              ELSE at' = FirstIn(pvc) /\ pc' = "detach"
           /\ UNCHANGED <<pvc, member, faults>>
  <2>1. /\ state' \in [Members -> {"off", "starting", "serving"}] /\ state'[m] = "off"
        /\ \A x \in Members \ {m} : state'[x] = state[x]
        /\ prim' \in [RS -> PVCs \cup {None}] /\ PrimaryServes'
    BY <1>0, <1>4, StopMemberFacts
  <2>2. KubeTypes'
    <3>1. original' \in [AllSets -> {0, 1}] /\ replicas' \in [Members -> {0, 1}]
      BY <1>0, <1>4 DEF KubeTypes
    <3> QED
      BY <1>0, <1>4, <2>1, <3>1, Same DEF KubeTypes
  <2>3. Sharded
    <3>1. at \in RS
      BY <1>0, <1>4, MemberFacts
    <3> QED
      BY <1>0, <3>1, Sets DEF XInv, LoopAt
  <2>4. at' \in GroupSets(pvc) /\ at' \in AllSets
    BY <1>0, <1>4, NextInFacts, GroupFacts
  <2>5. LoopTypes' /\ LoopAt'
    BY <1>0, <1>4, <2>3, <2>4, Same DEF LoopTypes, LoopAt, Restarting
  <2>6. \A x \in Members : x[2] = pvc =>
           /\ x = <<x[1], x[2]>> /\ x[1] \in GroupSets(pvc) /\ x[1] \in Nat
    BY <1>0, MemberFacts, GroupFacts, Sets, Sizes
  <2>7. \A x \in Members : x[2] = pvc /\ x[1] <= at => state'[x] = "off"
    BY <1>0, <1>1, <2>1, <2>6 DEF XInv, Off
  <2>8. Off'
    <3>1. CASE NextIn(pvc, at) # None
      BY <1>0, <1>4, <2>6, <2>7, <3>1, Same, NextInFacts DEF Off
    <3>2. CASE NextIn(pvc, at) = None
      BY <1>0, <1>4, <2>6, <2>7, <3>2, Same, NextInFacts DEF Off
    <3> QED
      BY <3>1, <3>2
  <2>9. /\ Rebuilt'
        /\ (faults = 0 /\ MountsByNumber)' => Grown'
    BY <1>0, <1>4, Same DEF XInv, Rebuilt, Grown
  <2>10. pc' # "idle" /\ ~(pc' = "down" /\ at' = Cnf)
    <3>1. CASE NextIn(pvc, at) # None
      <4>1. at' > at
        BY <1>0, <1>4, <3>1, NextInFacts
      <4> QED
        BY <1>0, <1>1, <1>4, <3>1, <4>1 DEF Cnf
    <3>2. CASE NextIn(pvc, at) = None
      BY <1>4, <3>2
    <3> QED
      BY <3>1, <3>2
  <2>11. ASSUME Smooth', NEW i \in 0..(CnfSize - 1), i # pvc
         PROVE  state'[<<Cnf, i>>] = "serving"
    <3>1. state[<<Cnf, i>>] = "serving"
      BY <1>0, <1>4, <2>3, <2>11 DEF XInv, ConfigServes, Smooth
    <3>2. <<Cnf, i>> \in Members /\ <<Cnf, i>> # m
      BY <1>0, <2>3, <2>11, MemberFacts, Sets DEF Size, AllSets
    <3> QED
      BY <2>1, <3>1, <3>2
  <2>12. (Smooth /\ Sharded)' => ConfigServes'
    BY <1>0, <1>4, <2>10, <2>11, Same DEF ConfigServes
  <2> QED
    BY <1>0, <2>1, <2>2, <2>5, <2>8, <2>9, <2>12, Composed
<1> QED
  BY <1>2, <1>3, <1>4 DEF ScaleDown

LEMMA DetachKeeps == ASSUME XInv, Detach PROVE XInv'
<1>0. /\ settings \in Deployments /\ settings' = settings /\ pc = "detach" /\ pc' = "up"
      /\ KubeTypes /\ LoopTypes /\ pvc \in PVCs
      /\ UNCHANGED <<pvc, at, member, original, replicas, state, prim, timedOut>>
  BY TypeParts DEF XInv, Detach, LoopTypes
<1>1. /\ faults' \in 0..MaxFaults /\ resized \subseteq resized' /\ resized' \subseteq PVCs
      /\ faults' = 0 => faults = 0 /\ (MountedBy(pvc) = {} => pvc \in resized')
  BY <1>0, FaultFacts DEF Detach, KubeTypes
<1>2. KubeTypes' /\ PrimaryServes' /\ LoopTypes'
  BY <1>0, <1>1, Same, ServingKeeps DEF KubeTypes, LoopTypes
<1>3. LoopAt' /\ Off' /\ Rebuilt'
  BY <1>0, Same DEF XInv, LoopAt, Off, Rebuilt, Restarting
<1>4. (faults = 0 /\ MountsByNumber)' => Grown'
  <2> SUFFICES ASSUME faults' = 0, MountsByNumber PROVE Grown'
    BY <1>0, Same
  <2>1. MountedBy(pvc) = {}
    BY <1>0, MountsFacts DEF XInv, Off, MountedBy
  <2>2. \A v \in PVCs : v <= pvc => v < pvc \/ v = pvc
    BY <1>0, Volumes
  <2> QED
    BY <1>0, <1>1, <2>1, <2>2, Same DEF XInv, Grown
<1>5. (Smooth /\ Sharded)' => ConfigServes'
  BY <1>0, <1>1, Same DEF XInv, Smooth, ConfigServes, Restarting
<1> QED
  BY <1>0, <1>2, <1>3, <1>4, <1>5, Composed

LEMMA ScaleUpKeeps == ASSUME XInv, ScaleUp PROVE XInv'
<1> DEFINE m == <<at, pvc>>
<1>0. /\ settings \in Deployments /\ settings' = settings /\ pc = "up" /\ Restarting
      /\ KubeTypes /\ LoopTypes /\ pvc \in PVCs /\ at \in AllSets /\ at \in GroupSets(pvc)
      /\ Sharded /\ UNCHANGED <<original, prim, resized, timedOut>>
  BY TypeParts DEF XInv, ScaleUp, LoopAt, Restarting, LoopTypes
<1>1. m \in Members /\ m[1] = at /\ m[2] = pvc /\ at \in Nat /\ original[at] \in {0, 1}
  BY <1>0, GroupFacts, MemberFacts, Sets, Sizes DEF KubeTypes
<1>2. state[m] = "off"
  BY <1>0, <1>1 DEF XInv, Off
<1>3. CASE Fault /\ Return /\ (StartMember(m, original[at]) \/ UNCHANGED <<replicas, state>>)
  <2>1. KubeTypes' /\ PrimaryServes'
    BY <1>0, <1>1, <1>2, <1>3, Same, FaultFacts, StartMemberFacts, ServingKeeps DEF KubeTypes
  <2> QED
    BY <1>0, <1>3, <2>1, FaultFacts, ReturnKeeps
<1>4. CASE /\ StartMember(m, original[at])
           /\ IF NextIn(pvc, at) # None
              THEN at' = NextIn(pvc, at) /\ UNCHANGED pc
              ELSE pc' = "gate" /\ UNCHANGED at
           /\ UNCHANGED <<pvc, member, faults>>
  <2>1. /\ state' \in [Members -> {"off", "starting", "serving"}]
        /\ \A x \in Members \ {m} : state'[x] = state[x]
        /\ replicas' \in [Members -> {0, 1}] /\ PrimaryServes'
    BY <1>0, <1>1, <1>2, <1>4, StartMemberFacts
  <2>2. KubeTypes'
    BY <1>0, <1>4, <2>1, Same DEF KubeTypes
  <2>3. at' \in GroupSets(pvc) /\ at' \in AllSets
    BY <1>0, <1>4, NextInFacts, GroupFacts
  <2>4. LoopTypes' /\ LoopAt'
    BY <1>0, <1>4, <2>3, Same DEF LoopTypes, LoopAt, Restarting
  <2>5. Off'
    <3>1. CASE NextIn(pvc, at) # None
      <4>1. at' \in Nat /\ at' > at /\ pc' = "up"
        BY <1>0, <1>1, <1>4, <2>3, <3>1, NextInFacts, Sets, Sizes
      <4>2. ASSUME NEW x \in Members, x[2] = pvc, x[1] >= at' PROVE state'[x] = "off"
        <5>1. x[1] \in Nat /\ x # m
          BY <1>0, <1>1, <4>1, <4>2, MemberFacts, Sets, Sizes
        <5> QED
          BY <1>0, <1>1, <2>1, <4>1, <4>2, <5>1 DEF XInv, Off
      <4> QED
        BY <1>0, <1>4, <4>1, <4>2, Same DEF Off
    <3>2. CASE NextIn(pvc, at) = None
      BY <1>4, <3>2 DEF Off
    <3> QED
      BY <3>1, <3>2
  <2>6. pc' \in {"up", "gate"}
    BY <1>0, <1>4
  <2>7. /\ Rebuilt'
        /\ (faults = 0 /\ MountsByNumber)' => Grown'
    BY <1>0, <1>4, <2>6, Same DEF XInv, Rebuilt, Grown
  <2>8. ASSUME Smooth', NEW i \in 0..(CnfSize - 1), i # pvc
        PROVE  state'[<<Cnf, i>>] = "serving"
    <3>1. state[<<Cnf, i>>] = "serving"
      BY <1>0, <1>4, <2>8 DEF XInv, ConfigServes, Smooth
    <3>2. <<Cnf, i>> \in Members /\ <<Cnf, i>> # m
      BY <1>0, <2>8, MemberFacts, Sets DEF Size, AllSets
    <3> QED
      BY <2>1, <3>1, <3>2
  <2>9. (Smooth /\ Sharded)' => ConfigServes'
    BY <1>0, <1>4, <2>6, <2>8, Same DEF ConfigServes
  <2> QED
    BY <1>0, <2>1, <2>2, <2>4, <2>5, <2>7, <2>9, Composed
<1> QED
  BY <1>3, <1>4 DEF ScaleUp

-----------------------------------------------------------------------------
(* The gate. *)

\* A healthy cluster misses no member of its config set.
LEMMA HealthyFacts ==
    ASSUME XInv, Healthy, Sharded
    PROVE  \A i \in 0..(CnfSize - 1) : state[<<Cnf, i>>] = "serving"
<1>0. settings \in Deployments /\ Cnf \in RS /\ CnfSize \in Nat \ {0} /\ Size(Cnf) = CnfSize
  BY Sets, Sizes DEF XInv, AllSets, Size
<1>1. RSStatus(Cnf) = Up
  BY DEF Healthy, ClusterIs, GetClusterStatus, ShardedStatus, Up, Down, Degraded
<1>2. prim[Cnf] # None /\ Cardinality(Serving(Cnf) \ {prim[Cnf]}) = CnfSize - 1
  BY <1>0, <1>1 DEF RSStatus, GetReplicaSetStatus, ActiveStatus, Up, Down, Degraded, NoPods
<1>3. prim[Cnf] \in Serving(Cnf)
  BY <1>0, <1>2 DEF XInv, PrimaryServes
<1>4. /\ IsFiniteSet(0..(CnfSize - 1)) /\ Cardinality(0..(CnfSize - 1)) = CnfSize
  BY <1>0, FS_Interval
<1>5. Serving(Cnf) \in SUBSET (0..(CnfSize - 1))
  BY <1>0 DEF Serving
<1>6. IsFiniteSet(Serving(Cnf)) /\ Cardinality(Serving(Cnf)) \in Nat
  BY <1>4, <1>5, FS_Subset, FS_CardinalityType
<1>7. Cardinality(Serving(Cnf)) = CnfSize
  <2>1. Cardinality(Serving(Cnf) \ {prim[Cnf]}) = Cardinality(Serving(Cnf)) - 1
    BY <1>3, <1>6, FS_RemoveElement
  <2> QED
    BY <1>0, <1>2, <1>6, <2>1
<1>8. Serving(Cnf) = 0..(CnfSize - 1)
  BY <1>4, <1>5, <1>7, FS_Subset
<1> QED
  BY <1>8 DEF Serving

LEMMA GateKeeps == ASSUME XInv, Gate PROVE XInv'
<1>0. /\ settings \in Deployments /\ settings' = settings /\ pc = "gate" /\ Healthy
      /\ KubeTypes /\ LoopTypes /\ pvc \in PVCs /\ pvc \in Nat /\ Sharded
      /\ UNCHANGED <<original, replicas, state, prim, resized, timedOut, faults>>
  BY TypeParts, Volumes DEF XInv, Gate, LoopTypes, LoopAt, Restarting, kubeVars
<1>1. KubeTypes' /\ PrimaryServes'
  BY <1>0, Same, ServingKeeps DEF KubeTypes
<1>2. faults = 0 /\ MountsByNumber => \A v \in PVCs : v <= pvc => v \in resized
  BY <1>0 DEF XInv, Grown
<1>3. CASE pvc + 1 \in PVCs
  <2>1. pc' = "down" /\ pvc' = pvc + 1 /\ at' = FirstIn(pvc + 1) /\ UNCHANGED member
    BY <1>3 DEF Gate
  <2>2. at' \in GroupSets(pvc + 1) /\ at' \in AllSets
    BY <1>0, <1>3, <2>1, GroupFacts
  <2>3. LoopTypes' /\ LoopAt'
    BY <1>0, <1>3, <2>1, <2>2, Same DEF LoopTypes, LoopAt, Restarting
  <2>4. Off'
    <3>1. ASSUME NEW x \in Members, x[2] = pvc + 1, x[1] < at' PROVE FALSE
      <4>1. x[1] \in GroupSets(pvc + 1) /\ x[1] \in Nat /\ at' \in Nat
        BY <1>0, <1>3, <2>2, <3>1, MemberFacts, GroupFacts, Sets, Sizes
      <4>2. at' <= x[1]
        BY <1>0, <1>3, <2>1, <4>1, GroupFacts
      <4> QED
        BY <3>1, <4>1, <4>2
    <3> QED
      BY <1>0, <2>1, <3>1, Same DEF Off
  <2>5. Rebuilt' /\ ((faults = 0 /\ MountsByNumber)' => Grown')
    <3>1. \A v \in PVCs : v < pvc + 1 => v <= pvc
      BY <1>0, Volumes
    <3>2. Rebuilt'
      BY <2>1 DEF Rebuilt
    <3>3. ASSUME faults = 0, MountsByNumber PROVE Grown'
      <4>1. \A v \in PVCs : v < pvc + 1 => v \in resized
        BY <1>2, <3>1, <3>3
      <4> QED
        BY <1>0, <2>1, <4>1, Same DEF Grown
    <3> QED
      BY <1>0, <3>2, <3>3, Same
  <2>6. (Smooth /\ Sharded)' => ConfigServes'
    BY <1>0, HealthyFacts, Same DEF ConfigServes
  <2> QED
    BY <1>0, <1>1, <2>3, <2>4, <2>5, <2>6, Composed
<1>4. CASE pvc + 1 \notin PVCs
  <2>1. pc' = "delete" /\ pvc' = 0 /\ at' = FirstRS /\ member' = 0
    BY <1>4 DEF Gate
  <2>2. LoopTypes' /\ LoopAt'
    BY <1>0, <2>1, Same, Volumes, Sets DEF LoopTypes, LoopAt, Restarting
  <2>3. Off' /\ ConfigServes'
    BY <1>0, <2>1, Same DEF Off, ConfigServes, Restarting
  <2>4. (faults = 0 /\ MountsByNumber)' => Grown'
    <3>1. \A v \in PVCs : v <= pvc
      BY <1>0, <1>4, Volumes
    <3> QED
      BY <1>0, <1>2, <2>1, <3>1, Same DEF Grown, KubeTypes
  <2>5. Rebuilt'
    BY <1>0, <2>1, FirstFacts, Same DEF Rebuilt
  <2> QED
    BY <1>0, <1>1, <2>2, <2>3, <2>4, <2>5, Composed
<1> QED
  BY <1>3, <1>4

-----------------------------------------------------------------------------
(* The rebuild of the StatefulSets. *)

LEMMA DeleteKeeps == ASSUME XInv, DeleteStatefulSet PROVE XInv'
<1> DEFINE m == <<at, member>>
<1>0. /\ settings \in Deployments /\ settings' = settings /\ pc = "delete"
      /\ KubeTypes /\ LoopTypes /\ at \in RS /\ at \in AllSets /\ member < Size(at) /\ member \in Nat
      /\ UNCHANGED <<original, replicas, resized, timedOut>>
  BY TypeParts, Volumes DEF XInv, DeleteStatefulSet, LoopAt, LoopTypes
<1>1. m \in Members
  <2>1. Size(at) \in Nat
    BY <1>0, Volumes
  <2> QED
    BY <1>0, <2>1, MemberFacts
<1>2. CASE Fault /\ Return /\ (StopMember(m) \/ UNCHANGED <<state, prim>>)
  <2>1. /\ state' \in [Members -> {"off", "starting", "serving"}]
        /\ prim' \in [RS -> PVCs \cup {None}] /\ PrimaryServes'
    BY <1>0, <1>1, <1>2, StopMemberFacts, ServingKeeps DEF KubeTypes
  <2>2. KubeTypes'
    BY <1>0, <1>2, <2>1, Same, FaultFacts DEF KubeTypes
  <2> QED
    BY <1>0, <1>2, <2>1, <2>2, FaultFacts, ReturnKeeps
<1>3. CASE StopMember(m) /\ pc' = "create" /\ UNCHANGED <<pvc, at, member, faults>>
  <2>1. /\ state' \in [Members -> {"off", "starting", "serving"}] /\ state'[m] = "off"
        /\ prim' \in [RS -> PVCs \cup {None}] /\ PrimaryServes'
    BY <1>0, <1>1, <1>3, StopMemberFacts
  <2>2. KubeTypes' /\ LoopTypes'
    BY <1>0, <1>3, <2>1, Same DEF KubeTypes, LoopTypes
  <2>3. LoopAt' /\ Off' /\ ConfigServes'
    BY <1>0, <1>3, <2>1, Same DEF LoopAt, Off, ConfigServes, Restarting
  <2>4. Rebuilt' /\ ((faults = 0 /\ MountsByNumber)' => Grown')
    BY <1>0, <1>3, Same DEF XInv, Rebuilt, Grown
  <2> QED
    BY <1>0, <2>1, <2>2, <2>3, <2>4, Composed
<1> QED
  BY <1>2, <1>3 DEF DeleteStatefulSet

LEMMA CreateKeeps == ASSUME XInv, CreateStatefulSet PROVE XInv'
<1> DEFINE m == <<at, member>>
<1>0. /\ settings \in Deployments /\ settings' = settings /\ pc = "create"
      /\ KubeTypes /\ LoopTypes /\ at \in RS /\ at \in AllSets /\ member < Size(at) /\ member \in Nat
      /\ Size(at) \in Nat /\ at \in Nat
      /\ state[m] = "off" /\ UNCHANGED <<original, prim, resized, timedOut>>
  <2>1. settings \in Deployments /\ at \in RS /\ at \in AllSets
    BY TypeParts DEF XInv, CreateStatefulSet, LoopAt, LoopTypes
  <2>2. at \in Nat /\ Size(at) \in Nat
    BY <2>1, Volumes, Sets, Sizes
  <2> QED
    BY <2>1, <2>2, TypeParts, Volumes DEF XInv, CreateStatefulSet, LoopAt, LoopTypes, Off
<1>1. m \in Members
  BY <1>0, MemberFacts
<1>2. CASE Fault /\ Return /\ (StartMember(m, 1) \/ UNCHANGED <<replicas, state>>)
  <2>1. /\ state' \in [Members -> {"off", "starting", "serving"}]
        /\ replicas' \in [Members -> {0, 1}] /\ PrimaryServes'
    BY <1>0, <1>1, <1>2, StartMemberFacts, ServingKeeps DEF KubeTypes
  <2>2. KubeTypes'
    BY <1>0, <1>2, <2>1, Same, FaultFacts DEF KubeTypes
  <2> QED
    BY <1>0, <1>2, <2>1, <2>2, FaultFacts, ReturnKeeps
<1>3. CASE StartMember(m, 1) /\ AfterMember /\ UNCHANGED <<pvc, faults>>
  <2>1. /\ state' \in [Members -> {"off", "starting", "serving"}]
        /\ replicas' \in [Members -> {0, 1}] /\ replicas'[m] = 1
        /\ \A x \in Members \ {m} : replicas'[x] = replicas[x]
        /\ PrimaryServes'
    BY <1>0, <1>1, <1>3, StartMemberFacts
  <2>2. KubeTypes'
    BY <1>0, <1>3, <2>1, Same DEF KubeTypes
  <2>3. \A x \in Members : x[1] < at \/ (x[1] = at /\ x[2] <= member) => replicas'[x] = 1
    <3> SUFFICES ASSUME NEW x \in Members, x[1] < at \/ (x[1] = at /\ x[2] <= member), x # m
                 PROVE  replicas'[x] = 1
      BY <2>1
    <3>1. x = <<x[1], x[2]>> /\ x[2] \in Nat
      BY <1>0, MemberFacts, Volumes
    <3>2. x[1] < at \/ (x[1] = at /\ x[2] < member)
      BY <1>0, <3>1
    <3> QED
      BY <1>0, <2>1, <3>2 DEF XInv, Rebuilt
  <2>4. pc' \in {"delete", "done"} /\ Off' /\ ConfigServes'
        /\ ((faults = 0 /\ MountsByNumber)' => Grown')
    BY <1>0, <1>3, Same DEF AfterMember, XInv, Off, ConfigServes, Grown, Restarting
  <2>5. \A x \in Members : /\ x[1] \in RS /\ x[1] \in Nat /\ x[2] \in Nat
                           /\ Size(x[1]) \in Nat /\ x[2] < Size(x[1])
    <3> SUFFICES ASSUME NEW x \in Members
                 PROVE  /\ x[1] \in RS /\ x[1] \in Nat /\ x[2] \in Nat
                        /\ Size(x[1]) \in Nat /\ x[2] < Size(x[1])
      OBVIOUS
    <3>1. x[1] \in RS /\ x[1] \in AllSets /\ x[2] \in 0..(Size(x[1]) - 1)
      BY <1>0, MemberFacts, Sets
    <3>2. Size(x[1]) \in Nat
      BY <1>0, <3>1, Volumes
    <3> QED
      BY <1>0, <3>1, <3>2, Sets, Sizes
  <2>6. CASE member + 1 < Size(at)
    <3>1. pc' = "delete" /\ member' = member + 1 /\ UNCHANGED at
      BY <1>3, <2>6 DEF AfterMember
    <3>2. member + 1 \in PVCs
      <4>1. member + 1 \in 0..(Size(at) - 1)
        BY <1>0, <2>6
      <4> QED
        BY <1>0, <4>1, Volumes
    <3>3. LoopTypes' /\ LoopAt'
      BY <1>0, <1>3, <2>6, <3>1, <3>2, Same DEF LoopTypes, LoopAt, Restarting
    <3>4. \A x \in Members : x[2] < member + 1 => x[2] <= member
      BY <1>0, <2>5
    <3>5. Rebuilt'
      BY <1>0, <2>3, <3>1, <3>4, Same DEF Rebuilt
    <3> QED
      BY <1>0, <2>1, <2>2, <2>4, <3>3, <3>5, Composed
  <2>7. CASE ~(member + 1 < Size(at)) /\ at + 1 \in RS
    <3>1. pc' = "delete" /\ at' = at + 1 /\ member' = 0
      BY <1>3, <2>7 DEF AfterMember
    <3>2. Size(at + 1) \in Nat \ {0} /\ at + 1 \in AllSets /\ 0 \in PVCs
      BY <1>0, <2>7, Volumes, Sets
    <3>3. LoopTypes' /\ LoopAt'
      BY <1>0, <1>3, <2>7, <3>1, <3>2, Same DEF LoopTypes, LoopAt, Restarting
    <3>4. \A x \in Members : x[1] < at + 1 \/ (x[1] = at + 1 /\ x[2] < 0) =>
                                x[1] < at \/ (x[1] = at /\ x[2] <= member)
      BY <1>0, <2>5, <2>7
    <3>5. Rebuilt'
      BY <1>0, <2>3, <3>1, <3>4, Same DEF Rebuilt
    <3> QED
      BY <1>0, <2>1, <2>2, <2>4, <3>3, <3>5, Composed
  <2>8. CASE ~(member + 1 < Size(at)) /\ at + 1 \notin RS
    <3>1. pc' = "done" /\ UNCHANGED <<at, member>>
      BY <1>3, <2>8 DEF AfterMember
    <3>2. LoopTypes' /\ LoopAt'
      BY <1>0, <1>3, <3>1, Same DEF LoopTypes, LoopAt, Restarting
    <3>3. \A rs \in RS : rs <= at
      BY <1>0, <2>8, Sets, Sizes
    <3>4. \A x \in Members : x[1] < at \/ (x[1] = at /\ x[2] <= member)
      BY <1>0, <2>5, <2>8, <3>3
    <3>5. Rebuilt'
      BY <1>0, <2>3, <3>1, <3>4, Same DEF Rebuilt
    <3> QED
      BY <1>0, <2>1, <2>2, <2>4, <3>2, <3>5, Composed
  <2> QED
    BY <2>6, <2>7, <2>8
<1> QED
  BY <1>2, <1>3 DEF CreateStatefulSet

-----------------------------------------------------------------------------
(* The members by themselves. *)

\* A member that leaves or joins its set while the loops are where they are;
\* none that is off is touched, and none stops serving while nothing fails.
LEMMA MembersKeep ==
    ASSUME XInv, UNCHANGED <<settings, loopVars, original, replicas, resized, timedOut>>,
           state' \in [Members -> {"off", "starting", "serving"}],
           prim' \in [RS -> PVCs \cup {None}], PrimaryServes', faults' \in 0..MaxFaults,
           \A x \in Members : state[x] = "off" => state'[x] = "off",
           \/ faults' # 0
           \/ faults' = faults /\ \A x \in Members : state[x] = "serving" => state'[x] = "serving"
    PROVE  XInv'
<1>0. settings \in Deployments /\ settings' = settings /\ KubeTypes /\ LoopTypes
      /\ UNCHANGED <<pc, pvc, at, member>>
  BY TypeParts DEF XInv, loopVars
<1>1. KubeTypes' /\ LoopTypes'
  BY <1>0, Same DEF KubeTypes, LoopTypes
<1>2. LoopAt' /\ Rebuilt'
  BY <1>0, Same DEF XInv, LoopAt, Rebuilt, Restarting
<1>3. Off'
  <2>1. pc = "create" => <<at, member>> \in Members
    <3>1. pc = "create" => at \in RS /\ at \in AllSets /\ member \in Nat /\ member < Size(at)
      BY <1>0, Volumes DEF XInv, LoopAt, LoopTypes
    <3> QED
      BY <1>0, <3>1, Volumes, MemberFacts
  <2> QED
    BY <1>0, <2>1, Same DEF XInv, Off
<1>4. (faults = 0 /\ MountsByNumber)' => Grown'
  BY <1>0, Same DEF XInv, Grown
<1>5. (Smooth /\ Sharded)' => ConfigServes'
  <2> SUFFICES ASSUME Smooth', Sharded PROVE ConfigServes'
    BY <1>0, Same
  <2>1. Smooth /\ ConfigServes /\ \A x \in Members : state[x] = "serving" => state'[x] = "serving"
    BY <1>0 DEF XInv, Smooth
  <2>2. \A i \in 0..(CnfSize - 1) : <<Cnf, i>> \in Members
    BY <1>0, MemberFacts, Sets DEF Size, AllSets
  <2> QED
    BY <1>0, <2>1, <2>2, Same DEF ConfigServes, Restarting
<1> QED
  BY <1>0, <1>1, <1>2, <1>3, <1>4, <1>5, Composed

LEMMA RejoinKeeps == ASSUME XInv, NEW m \in Members, Rejoin(m) PROVE XInv'
<1>1. /\ state' \in [Members -> {"off", "starting", "serving"}] /\ UNCHANGED <<settings, prim>>
      /\ \A x \in Members : state[x] = "off" => state'[x] = "off"
      /\ \A x \in Members : state[x] = "serving" => state'[x] = "serving"
      /\ prim \in [RS -> PVCs \cup {None}] /\ faults' = faults /\ faults \in 0..MaxFaults
  BY DEF XInv, TypeOK, Rejoin
<1> QED
  BY <1>1, ServingKeeps, MembersKeep DEF Rejoin

LEMMA MemberFailsKeeps == ASSUME XInv, NEW m \in Members, MemberFails(m) PROVE XInv'
<1>1. /\ state' \in [Members -> {"off", "starting", "serving"}] /\ state'[m] # "serving"
      /\ \A x \in Members \ {m} : state'[x] = state[x]
      /\ \A x \in Members : state[x] = "off" => state'[x] = "off"
  BY DEF XInv, TypeOK, MemberFails
<1>2. prim' \in [RS -> PVCs \cup {None}] /\ PrimaryServes'
  BY <1>1, StopFacts DEF MemberFails
<1> QED
  BY <1>1, <1>2, FaultFacts, MembersKeep DEF MemberFails

LEMMA ElectKeeps == ASSUME XInv, NEW rs \in RS, Elect(rs) PROVE XInv'
<1>0. /\ settings \in Deployments /\ UNCHANGED <<settings, state, faults>>
      /\ prim \in [RS -> PVCs \cup {None}] /\ faults \in 0..MaxFaults
      /\ state \in [Members -> {"off", "starting", "serving"}]
  BY DEF XInv, TypeOK, Elect
<1>1. PICK i \in Serving(rs) : prim' = [prim EXCEPT ![rs] = i]
  BY DEF Elect
<1>2. i \in PVCs
  BY <1>0, <1>1, Volumes, Sets DEF Serving
<1>3. prim' \in [RS -> PVCs \cup {None}]
  BY <1>0, <1>1, <1>2
<1>4. PrimaryServes'
  <2>1. \A x \in RS : Serving(x)' = Serving(x)
    BY <1>0, Same DEF Serving
  <2>2. \A x \in RS : prim[x] # None => prim[x] \in Serving(x)
    BY DEF XInv, PrimaryServes
  <2> QED
    BY <1>0, <1>1, <2>1, <2>2, Same DEF PrimaryServes
<1> QED
  BY <1>0, <1>3, <1>4, MembersKeep DEF Elect

-----------------------------------------------------------------------------
(* The invariant is inductive. *)

LEMMA XInit == Init => XInv
<1> SUFFICES ASSUME Init PROVE XInv
  OBVIOUS
<1>0. settings \in Deployments
  BY DEF Init
<1>1. KubeTypes
  <2>1. /\ original \in [AllSets -> {0, 1}] /\ replicas \in [Members -> {0, 1}]
        /\ state \in [Members -> {"off", "starting", "serving"}]
    BY DEF Init, AllSets
  <2>2. prim \in [RS -> PVCs \cup {None}] /\ resized \subseteq PVCs
    BY <1>0, Volumes DEF Init
  <2>3. faults \in 0..MaxFaults
    <3>1. faults = 0 /\ MaxFaults \in Nat
      BY ExpansionAssumption DEF Init
    <3> QED
      BY <3>1
  <2>4. timedOut \in BOOLEAN
    BY DEF Init
  <2> QED
    BY <2>1, <2>2, <2>3, <2>4 DEF KubeTypes
<1>2. LoopTypes
  BY <1>0, Volumes DEF Init, LoopTypes, AllSets
<1>3. LoopAt /\ Off /\ Rebuilt /\ Grown
  BY DEF Init, LoopAt, Off, Rebuilt, Grown, Restarting
<1>4. PrimaryServes
  <2> SUFFICES ASSUME NEW rs \in RS PROVE 0 \in Serving(rs)
    BY DEF Init, PrimaryServes
  <2>1. 0 \in 0..(Size(rs) - 1)
    BY <1>0, Volumes, Sets
  <2>2. <<rs, 0>> \in Members
    BY <1>0, <2>1, MemberFacts
  <2> QED
    BY <2>1, <2>2 DEF Init, Serving
<1>5. Sharded => ConfigServes
  <2>1. Sharded => \A i \in 0..(CnfSize - 1) : <<Cnf, i>> \in Members
    BY <1>0, MemberFacts, Sets DEF Size, AllSets
  <2> QED
    BY <2>1 DEF Init, ConfigServes
<1> QED
  BY <1>0, <1>1, <1>2, <1>3, <1>4, <1>5, TypeParts DEF XInv

LEMMA XStep == XInv /\ [Next]_vars => XInv'
<1> SUFFICES ASSUME XInv, [Next]_vars PROVE XInv'
  OBVIOUS
<1>1. CASE Operator
  BY <1>1, StartKeeps, ScaleDownKeeps, DetachKeeps, ScaleUpKeeps, GateKeeps, DeleteKeeps,
     CreateKeeps, GateTimeoutKeeps DEF Operator, Work
<1>2. CASE Crash
  BY <1>2, CrashKeeps
<1>3. ASSUME NEW m \in Members, Rejoin(m) \/ MemberFails(m) PROVE XInv'
  BY <1>3, RejoinKeeps, MemberFailsKeeps
<1>4. ASSUME NEW rs \in RS, Elect(rs) PROVE XInv'
  BY <1>4, ElectKeeps
<1>5. CASE UNCHANGED vars
  <2>1. /\ UNCHANGED <<settings, loopVars, original, replicas, resized, timedOut, state, prim, faults>>
    BY <1>5 DEF vars, kubeVars
  <2> QED
    BY <2>1, ServingKeeps, MembersKeep DEF XInv, TypeOK
<1> QED
  BY <1>1, <1>2, <1>3, <1>4, <1>5 DEF Next

LEMMA XAlways == Spec => []XInv
BY XInit, XStep, PTL DEF Spec

\* Every variable keeps its type: the loops of the restart and of the rebuild
\* stay within the members and the volumes of the deployment.
THEOREM ExpansionTypeCorrect == Spec => []TypeOK
<1>1. XInv => TypeOK
  BY DEF XInv
<1> QED
  BY <1>1, XAlways, PTL

\* A compound that is through has every StatefulSet at one replica, whatever
\* failed on the way, and has grown every volume if nothing failed and member
\* n of every set mounts volume n.
THEOREM DoneIsWholeAlways == Spec => []DoneIsWhole
<1>1. XInv => DoneIsWhole
  BY DEF XInv, Rebuilt, Grown, DoneIsWhole
<1> QED
  BY <1>1, XAlways, PTL

\* While nothing fails the restart has at most one member of the config set
\* away: the gate waits for the cluster to be Up.
THEOREM OneConfigMemberAlways == Spec => []OneConfigMemberAtATime
<1>1. ASSUME XInv, Restarting, Smooth, Sharded
      PROVE  Cardinality(Serving(Cnf)) >= CnfSize - 1
  <2> DEFINE S == 0..(CnfSize - 1)
  <2>0. settings \in Deployments /\ CnfSize \in Nat \ {0} /\ Size(Cnf) = CnfSize
    BY <1>1, Sizes DEF XInv, Size
  <2>1. IsFiniteSet(S) /\ Cardinality(S) = CnfSize
    BY <2>0, FS_Interval
  <2>2. /\ IsFiniteSet(S \ {pvc}) /\ Cardinality(S \ {pvc}) \in Nat
        /\ Cardinality(S \ {pvc}) >= CnfSize - 1
    <3> HIDE DEF S
    <3>1. /\ IsFiniteSet(S \ {pvc})
          /\ Cardinality(S \ {pvc}) = IF pvc \in S THEN CnfSize - 1 ELSE CnfSize
      BY <2>1, FS_RemoveElement
    <3> QED
      BY <2>0, <3>1
  <2>3. Serving(Cnf) \in SUBSET S /\ S \ {pvc} \in SUBSET Serving(Cnf)
    BY <1>1, <2>0 DEF XInv, ConfigServes, Serving
  <2>4. IsFiniteSet(Serving(Cnf)) /\ Cardinality(Serving(Cnf)) \in Nat
    BY <2>1, <2>3, FS_Subset, FS_CardinalityType
  <2>5. Cardinality(S \ {pvc}) <= Cardinality(Serving(Cnf))
    BY <2>3, <2>4, FS_Subset
  <2> QED
    BY <2>0, <2>2, <2>4, <2>5
<1>2. XInv => OneConfigMemberAtATime
  BY <1>1 DEF OneConfigMemberAtATime
<1> QED
  BY <1>2, XAlways, PTL

=============================================================================

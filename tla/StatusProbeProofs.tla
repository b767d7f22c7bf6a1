-------------------------- MODULE StatusProbeProofs --------------------------
(***************************************************************************)
(* Theorems about StatusProbe for any number of shards, members and        *)
(* changes during the call: the types, that a verdict "up" was earned, and *)
(* that a healthy cluster is never reported as anything else.              *)
(***************************************************************************)
EXTENDS StatusProbe, FiniteSetTheorems, TLAPS

LEMMA RSFacts ==
    /\ Shards \subseteq RS /\ 1 \in Shards
    /\ Sharded => RS = Shards \cup {Cnf}
    /\ ~Sharded => RS = Shards /\ Shards = {1}
  BY ProbeAssumption DEF RS, Shards, Cnf

LEMMA StatusNowType == ASSUME NEW rs PROVE StatusNow(rs) \in RSStatuses
  BY DEF StatusNow, GetReplicaSetStatus, ActiveStatus, StandbyStatus, RSStatuses

\* The history at every instant of the call covers the present, an answer
\* is covered by the history, and the verdict only comes with the last step.
Covered ==
    /\ phase # "returned" => verdict = None
    /\ phase = "idle" => answer = [rs \in RS |-> Pending]
    /\ phase = "reading" => \A rs \in RS :
          /\ StatusNow(rs) = Up => rs \in wasUp
          /\ StatusNow(rs) # Down => rs \in wasServing
    /\ \A rs \in RS :
          /\ answer[rs] = Up => rs \in wasUp
          /\ answer[rs] \in RSStatuses \ {Down} => rs \in wasServing

ProbeInv == TypeOK /\ Covered /\ UpIsEarned

LEMMA ProbeInit == Init => ProbeInv
<1> SUFFICES ASSUME Init PROVE ProbeInv
  OBVIOUS
<1>1. TypeOK
  <2>1. members \in [RS -> [1..N -> MemberStates]]
    BY DEF Init, MemberConfigs
  <2>2. changes \in 0..MaxChanges
    BY ProbeAssumption DEF Init
  <2>3. verdict \in {Up, Down, Degraded, None}
    BY DEF Init
  <2> QED BY <2>1, <2>2, <2>3 DEF Init, TypeOK
<1>2. Covered /\ UpIsEarned
  BY DEF Init, Covered, UpIsEarned, None, Up, Pending, RSStatuses, Down, Degraded, NoPods
<1> QED BY <1>1, <1>2 DEF ProbeInv

LEMMA StartKeeps == ProbeInv /\ StartProbe => ProbeInv'
<1> SUFFICES ASSUME ProbeInv, StartProbe PROVE ProbeInv'
  OBVIOUS
<1>1. \A rs : StatusNow(rs)' = StatusNow(rs)
  BY DEF StartProbe, StatusNow
<1>2. verdict' = None /\ answer' = [rs \in RS |-> Pending] /\ phase' = "reading"
  BY DEF StartProbe, ProbeInv, Covered
<1>3. steady' \in BOOLEAN
  BY DEF StartProbe, AllHealthy
<1>4. TypeOK'
  BY <1>3 DEF StartProbe, ProbeInv, TypeOK
<1>5. Covered'
  <2>1. \A rs \in RS : answer'[rs] \notin RSStatuses
    BY <1>2 DEF Pending, RSStatuses, Up, Down, Degraded, NoPods
  <2>2. \A rs \in RS : /\ StatusNow(rs)' = Up => rs \in wasUp'
                       /\ StatusNow(rs)' # Down => rs \in wasServing'
    BY <1>1 DEF StartProbe
  <2> QED BY <1>2, <2>1, <2>2 DEF Covered, RSStatuses
<1>6. UpIsEarned'
  BY <1>2 DEF UpIsEarned, None, Up
<1> QED BY <1>4, <1>5, <1>6 DEF ProbeInv

LEMMA ReadKeeps == ASSUME ProbeInv, NEW rs \in RS, ReadRS(rs) PROVE ProbeInv'
<1>1. \A x : StatusNow(x)' = StatusNow(x)
  BY DEF ReadRS, StatusNow
<1>2. PICK a \in RSStatuses \cup {ReadError} :
        /\ answer' = [answer EXCEPT ![rs] = a]
        /\ a = StatusNow(rs) \/ a = ReadError
  BY StatusNowType DEF ReadRS
<1>3. TypeOK'
  BY <1>2 DEF ReadRS, ProbeInv, TypeOK
<1>4. Covered'
  <2>1. ReadError \notin RSStatuses /\ Up # ReadError
    BY DEF ReadError, RSStatuses, Up, Down, Degraded, NoPods
  <2>2. ASSUME NEW x \in RS
        PROVE  /\ answer'[x] = Up => x \in wasUp
               /\ answer'[x] \in RSStatuses \ {Down} => x \in wasServing
    BY <1>2, <2>1 DEF ProbeInv, TypeOK, Covered, ReadRS
  <2>3. UNCHANGED <<phase, verdict, wasUp, wasServing>> /\ phase = "reading"
    BY DEF ReadRS
  <2> QED BY <1>1, <2>2, <2>3 DEF ProbeInv, Covered
<1>5. UpIsEarned'
  BY DEF ReadRS, ProbeInv, UpIsEarned
<1> QED BY <1>3, <1>4, <1>5 DEF ProbeInv

LEMMA ReturnKeeps == ProbeInv /\ Return => ProbeInv'
<1> SUFFICES ASSUME ProbeInv, Return PROVE ProbeInv'
  OBVIOUS
<1> DEFINE data == [d \in Shards |-> answer[d]]
           cnf == IF Sharded THEN answer[Cnf] ELSE None
<1>1. verdict' = GetClusterStatus(mode, Sharded, cnf, data, mongos)
  BY DEF Return
<1>2. DOMAIN data = Shards /\ \A d \in Shards : data[d] = answer[d]
  OBVIOUS
<1>3. \A d \in RS : answer[d] \in RSStatuses \cup {ReadError}
  BY DEF Return, ProbeInv, TypeOK
<1> HIDE DEF data, cnf
<1>4. CASE Sharded
  <2>1. cnf = answer[Cnf] /\ Cnf \in RS
    BY <1>4, RSFacts DEF cnf
  <2>2. verdict' \in {Up, Down, Degraded}
    BY <1>1, <1>4 DEF GetClusterStatus, ShardedStatus
  <2>3. ASSUME verdict' = Up PROVE UpIsEarned'
    <3>1. /\ \A d \in Shards : answer[d] # ReadError
          /\ cnf = Up /\ DataDown(data) = {} /\ (mode = Active => mongos)
      BY <1>1, <1>2, <1>4, <2>3 DEF GetClusterStatus, ShardedStatus, Up, Down, Degraded
    <3>2. \A d \in Shards : answer[d] \in RSStatuses \ {Down}
      BY <1>2, <1>3, <3>1, RSFacts DEF DataDown
    <3> QED BY <1>4, <2>1, <3>1, <3>2, RSFacts DEF Return, UpIsEarned, ProbeInv, Covered
  <2>4. UpIsEarned'
    BY <2>3 DEF UpIsEarned
  <2>5. TypeOK'
    BY <2>2 DEF Return, ProbeInv, TypeOK
  <2>6. Covered'
    BY DEF Return, ProbeInv, Covered
  <2> QED BY <2>4, <2>5, <2>6 DEF ProbeInv
<1>5. CASE ~Sharded
  <2>1. verdict' = Down \/ (verdict' = answer[1] /\ answer[1] # ReadError)
    BY <1>1, <1>2, <1>5, RSFacts DEF GetClusterStatus
  <2>2. 1 \in RS
    BY RSFacts
  <2>3. verdict' \in {Up, Down, Degraded, NoPods}
    BY <1>3, <2>1, <2>2 DEF RSStatuses
  <2>4. UpIsEarned'
    BY <1>5, <2>1, <2>2 DEF Return, UpIsEarned, ProbeInv, Covered, Up, Down
  <2>5. TypeOK'
    BY <1>5, <2>3 DEF Return, ProbeInv, TypeOK
  <2>6. Covered'
    BY DEF Return, ProbeInv, Covered
  <2> QED BY <2>4, <2>5, <2>6 DEF ProbeInv
<1> QED BY <1>4, <1>5

\* The changes of the environment only add to the history.
LEMMA ObserveKeeps ==
    ASSUME ProbeInv, phase = "reading", Observe,
           members' \in [RS -> [1..N -> MemberStates]], listed' \in [RS -> BOOLEAN],
           mongos' \in BOOLEAN
    PROVE  ProbeInv'
<1>1. changes' \in 0..MaxChanges
  BY ProbeAssumption DEF Observe, ProbeInv, TypeOK
<1>2. steady' \in BOOLEAN /\ wasUp' \subseteq RS /\ wasServing' \subseteq RS
  BY DEF Observe, ProbeInv, TypeOK
<1>3. TypeOK'
  BY <1>1, <1>2 DEF Observe, ProbeInv, TypeOK
<1>4. Covered'
  <2>1. /\ wasUp \subseteq wasUp' /\ wasServing \subseteq wasServing'
        /\ \A rs \in RS : /\ StatusNow(rs)' = Up => rs \in wasUp'
                          /\ StatusNow(rs)' # Down => rs \in wasServing'
    BY DEF Observe
  <2>2. verdict' = verdict /\ answer' = answer /\ phase' = phase
    BY DEF Observe
  <2> QED BY <2>1, <2>2 DEF ProbeInv, Covered
<1>5. UpIsEarned'
  BY DEF Observe, ProbeInv, Covered, UpIsEarned, None, Up
<1> QED BY <1>3, <1>4, <1>5 DEF ProbeInv

LEMMA ProbeStep == ProbeInv /\ [Next]_vars => ProbeInv'
<1> SUFFICES ASSUME ProbeInv, [Next]_vars PROVE ProbeInv'
  OBVIOUS
<1>1. ASSUME NEW rs \in RS, NEW i \in 1..N, NEW s \in MemberStates, MemberBecomes(rs, i, s)
      PROVE  ProbeInv'
  <2>1. members' \in [RS -> [1..N -> MemberStates]]
    BY <1>1 DEF MemberBecomes, ProbeInv, TypeOK
  <2> QED BY <1>1, <2>1, ObserveKeeps DEF MemberBecomes, ProbeInv, TypeOK
<1>2. ASSUME NEW rs \in RS, PodsGone(rs) PROVE ProbeInv'
  <2>1. [i \in 1..N |-> "OTHER"] \in [1..N -> MemberStates]
    BY DEF MemberStates
  <2>2. members' \in [RS -> [1..N -> MemberStates]] /\ listed' \in [RS -> BOOLEAN]
    BY <1>2, <2>1 DEF PodsGone, ProbeInv, TypeOK
  <2> QED BY <1>2, <2>2, ObserveKeeps DEF PodsGone, ProbeInv, TypeOK
<1>3. CASE MongosChanges
  BY <1>3, ObserveKeeps DEF MongosChanges, ProbeInv, TypeOK
<1>4. CASE UNCHANGED vars
  BY <1>4 DEF vars, ProbeInv, TypeOK, Covered, UpIsEarned, StatusNow
<1> QED BY <1>1, <1>2, <1>3, <1>4, StartKeeps, ReadKeeps, ReturnKeeps DEF Next

LEMMA ProbeAlways == Spec => []ProbeInv
  BY ProbeInit, ProbeStep, PTL DEF Spec

\* Every variable keeps its type; in particular the verdict of a sharded
\* cluster is "up", "down" or "degraded", never an empty string.
THEOREM ProbeTypeCorrect == Spec => []TypeOK
<1>1. ProbeInv => TypeOK
  BY DEF ProbeInv
<1> QED BY <1>1, ProbeAlways, PTL

\* A verdict "up" of GetClusterStatus was earned during the call, however many
\* shards, members and changes there are.
THEOREM UpIsEarnedAlways == Spec => []UpIsEarned
<1>1. ProbeInv => UpIsEarned
  BY DEF ProbeInv
<1> QED BY <1>1, ProbeAlways, PTL

-----------------------------------------------------------------------------
(* No false alarm.  The statuses are counts, so the argument is about the    *)
(* cardinalities of the PRIMARY and SECONDARY members of a set.              *)

With(m, s) == {i \in 1..N : m[i] = s}

LEMMA CountFacts ==
    ASSUME NEW m, NEW s
    PROVE  /\ Count(m, s) = Cardinality(With(m, s)) /\ IsFiniteSet(With(m, s))
           /\ Count(m, s) \in Nat
<1>1. IsFiniteSet(1..N) /\ With(m, s) \subseteq 1..N
  BY ProbeAssumption, FS_Interval DEF With
<1>2. IsFiniteSet(With(m, s))
  BY <1>1, FS_Subset
<1> QED BY <1>2, FS_CardinalityType DEF Count, With

\* A set whose members are all PRIMARY or SECONDARY, with one PRIMARY at most
\* and one for certain on an active site, is Up.
LEMMA HealthyUp ==
    ASSUME N > 1, NEW rs \in RS, Healthy(rs), Count(members[rs], "PRIMARY") <= 1,
           members \in [RS -> [1..N -> MemberStates]]
    PROVE  StatusNow(rs) = Up
<1> DEFINE m == members[rs]
           p == Count(m, "PRIMARY")
           s == Count(m, "SECONDARY")
<1>1. /\ p \in Nat /\ s \in Nat /\ p = Cardinality(With(m, "PRIMARY"))
      /\ s = Cardinality(With(m, "SECONDARY")) /\ IsFiniteSet(With(m, "PRIMARY"))
      /\ IsFiniteSet(With(m, "SECONDARY"))
  BY CountFacts
<1>2. /\ With(m, "PRIMARY") \cup With(m, "SECONDARY") = 1..N
      /\ With(m, "PRIMARY") \cap With(m, "SECONDARY") = {}
  BY DEF With, Healthy, MemberStates
<1>3. Cardinality(1..N) = N
  BY ProbeAssumption, FS_Interval
<1>4. Cardinality({}) = 0
  BY FS_EmptySet
<1>5. p + s = N
  <2>1. Cardinality(With(m, "PRIMARY") \cup With(m, "SECONDARY")) =
          Cardinality(With(m, "PRIMARY")) + Cardinality(With(m, "SECONDARY"))
            - Cardinality(With(m, "PRIMARY") \cap With(m, "SECONDARY"))
    BY <1>1, FS_Union
  <2>2. N = p + s - 0
    BY <1>1, <1>2, <1>3, <1>4, <2>1
  <2> HIDE DEF p, s
  <2> QED BY <1>1, <2>2, ProbeAssumption
<1>6. listed[rs] /\ (mode = Active => p = 1) /\ p <= 1
  BY DEF Healthy
<1> HIDE DEF p, s, m
<1>7. StatusNow(rs) = GetReplicaSetStatus(mode, listed[rs], p, s, N)
  BY DEF StatusNow, p, s, m
<1> QED BY <1>1, <1>5, <1>6, <1>7, ProbeAssumption
        DEF GetReplicaSetStatus, ActiveStatus, StandbyStatus

\* At most one PRIMARY per set; during a steady call every set is healthy now
\* and every answer so far is Up.
Steady ==
    /\ \A rs \in RS : Count(members[rs], "PRIMARY") <= 1
    /\ (phase = "reading" /\ steady) =>
          AllHealthy /\ \A rs \in RS : answer[rs] \in {Pending, Up}
    /\ HealthyIsUp

\* A change of one member leaves at most one PRIMARY in its set.
LEMMA OnePrimary ==
    ASSUME TypeOK, NEW rs \in RS, NEW i \in 1..N, NEW s \in MemberStates,
           MemberBecomes(rs, i, s), \A x \in RS : Count(members[x], "PRIMARY") <= 1,
           NEW x \in RS
    PROVE  Count(members'[x], "PRIMARY") <= 1
<1>1. members' = [members EXCEPT ![rs][i] = s] /\ members \in [RS -> [1..N -> MemberStates]]
  BY DEF MemberBecomes, TypeOK
<1>2. CASE x # rs
  BY <1>1, <1>2
<1>3. CASE x = rs /\ s # "PRIMARY"
  <2>1. With(members'[x], "PRIMARY") \subseteq With(members[x], "PRIMARY")
    BY <1>1, <1>3 DEF With
  <2>2. Cardinality(With(members'[x], "PRIMARY")) <= Cardinality(With(members[x], "PRIMARY"))
    BY <2>1, CountFacts, FS_Subset
  <2>3. /\ Count(members[x], "PRIMARY") = Cardinality(With(members[x], "PRIMARY"))
        /\ Count(members'[x], "PRIMARY") = Cardinality(With(members'[x], "PRIMARY"))
        /\ Count(members[x], "PRIMARY") \in Nat /\ Count(members'[x], "PRIMARY") \in Nat
    BY CountFacts
  <2>4. Count(members[x], "PRIMARY") <= 1
    OBVIOUS
  <2> QED BY <2>2, <2>3, <2>4
<1>4. CASE x = rs /\ s = "PRIMARY"
  <2>1. Cardinality(With(members[x], "PRIMARY")) = 0 /\ IsFiniteSet(With(members[x], "PRIMARY"))
    BY <1>4, CountFacts DEF MemberBecomes
  <2>2. With(members[x], "PRIMARY") = {}
    BY <2>1, FS_EmptySet
  <2>3. With(members'[x], "PRIMARY") = {i}
    BY <1>1, <1>4, <2>2 DEF With
  <2>4. Cardinality(With(members'[x], "PRIMARY")) = 1
    BY <2>3, FS_Singleton
  <2> QED BY <2>4, CountFacts
<1> QED BY <1>2, <1>3, <1>4

LEMMA SteadyInit == Init => Steady
  BY DEF Init, Steady, HealthyIsUp, MemberConfigs

LEMMA SteadyStep ==
    ASSUME N > 1, ProbeInv, Steady, [Next]_vars
    PROVE  Steady'
<1>0. members \in [RS -> [1..N -> MemberStates]] /\ answer \in [RS -> RSStatuses \cup {ReadError, Pending}]
  BY DEF ProbeInv, TypeOK
<1>1. ASSUME NEW rs \in RS, AllHealthy PROVE StatusNow(rs) = Up
  BY <1>0, <1>1, HealthyUp DEF AllHealthy, Steady
<1>2. CASE StartProbe
  <2>1. answer' = [rs \in RS |-> Pending] /\ phase' = "reading" /\ UNCHANGED <<members, listed, mongos, mode>>
    BY <1>2 DEF StartProbe, ProbeInv, Covered
  <2>2. steady' => AllHealthy'
    <3>1. steady' = AllHealthy
      BY <1>2 DEF StartProbe
    <3>2. AllHealthy <=> AllHealthy'
      BY <2>1 DEF AllHealthy, Healthy
    <3> QED BY <3>1, <3>2
  <2> QED BY <2>1, <2>2 DEF Steady, HealthyIsUp
<1>3. ASSUME NEW rs \in RS, ReadRS(rs) PROVE Steady'
  <2>1. UNCHANGED <<members, listed, mongos, mode, phase, verdict, steady>> /\ phase = "reading"
    BY <1>3 DEF ReadRS
  <2>2. AllHealthy' <=> AllHealthy
    BY <2>1 DEF AllHealthy, Healthy
  <2>3. ASSUME steady PROVE \A x \in RS : answer'[x] \in {Pending, Up}
    <3>1. AllHealthy /\ \A x \in RS : answer[x] \in {Pending, Up}
      BY <2>1, <2>3 DEF Steady
    <3>2. members[rs][1] # "OTHER"
      BY <3>1, ProbeAssumption DEF AllHealthy, Healthy
    <3>3. answer' = [answer EXCEPT ![rs] = Up]
      BY <1>1, <1>3, <3>1, <3>2 DEF ReadRS
    <3> QED BY <1>0, <3>1, <3>3
  <2> QED BY <2>1, <2>2, <2>3 DEF Steady, HealthyIsUp
<1>4. CASE Return
  <2>1. UNCHANGED <<members, answer, steady, mongos>> /\ phase' = "returned" /\ phase = "reading"
    BY <1>4 DEF Return
  <2>2. ASSUME steady PROVE verdict' = Up
    <3> DEFINE data == [d \in Shards |-> answer[d]]
               cnf == IF Sharded THEN answer[Cnf] ELSE None
    <3>1. mongos /\ \A x \in RS : answer[x] = Up
      BY <1>4, <2>1, <2>2 DEF Steady, AllHealthy, Return
    <3>2. verdict' = GetClusterStatus(mode, Sharded, cnf, data, mongos)
      BY <1>4 DEF Return
    <3>3. DOMAIN data = Shards /\ \A d \in Shards : data[d] = Up
      BY <3>1, RSFacts
    <3>4. Sharded => cnf = Up
      BY <3>1, RSFacts
    <3> HIDE DEF data, cnf
    <3>5. DataDown(data) = {} /\ DOMAIN data # {} /\ \A d \in DOMAIN data : data[d] # ReadError
      BY <3>3, RSFacts DEF DataDown, Up, Down, ReadError
    <3>6. CASE Sharded
      BY <3>1, <3>2, <3>4, <3>5, <3>6 DEF GetClusterStatus, ShardedStatus, Up, Down, Degraded, ReadError
    <3>7. CASE ~Sharded
      BY <3>2, <3>3, <3>5, <3>7, RSFacts DEF GetClusterStatus
    <3> QED BY <3>6, <3>7
  <2> QED BY <2>1, <2>2 DEF Steady, HealthyIsUp
<1>5. ASSUME phase = "reading", Observe, \A rs \in RS : Count(members'[rs], "PRIMARY") <= 1
      PROVE  Steady'
  <2>1. phase' = phase /\ answer' = answer /\ (steady' => steady /\ AllHealthy')
    BY <1>5 DEF Observe
  <2> QED BY <1>5, <2>1 DEF Steady, HealthyIsUp
<1>6. ASSUME NEW rs \in RS, PodsGone(rs) PROVE Steady'
  <2>1. members' = [members EXCEPT ![rs] = [i \in 1..N |-> "OTHER"]]
    BY <1>6 DEF PodsGone
  <2>2. ASSUME NEW x \in RS PROVE Count(members'[x], "PRIMARY") <= 1
    <3>1. CASE x = rs
      <4>1. With(members'[x], "PRIMARY") = {}
        BY <1>0, <2>1, <3>1 DEF With
      <4> QED BY <4>1, CountFacts, FS_EmptySet
    <3>2. CASE x # rs
      BY <1>0, <2>1, <3>2 DEF Steady
    <3> QED BY <3>1, <3>2
  <2> QED BY <1>5, <1>6, <2>2 DEF PodsGone
<1>7. ASSUME NEW rs \in RS, NEW i \in 1..N, NEW s \in MemberStates, MemberBecomes(rs, i, s)
      PROVE  Steady'
  <2>1. \A x \in RS : Count(members'[x], "PRIMARY") <= 1
    BY <1>7, OnePrimary DEF ProbeInv, Steady
  <2> QED BY <1>5, <1>7, <2>1 DEF MemberBecomes
<1>8. CASE MongosChanges
  BY <1>5, <1>8 DEF MongosChanges, Steady
<1>9. CASE UNCHANGED vars
  BY <1>9 DEF vars, Steady, HealthyIsUp, AllHealthy, Healthy
<1> QED BY <1>2, <1>3, <1>4, <1>6, <1>7, <1>8, <1>9 DEF Next

\* No false alarm, for any number of shards, changes and members above one: a
\* cluster that was healthy during the whole call is reported "up".  (A
\* standby whose only member is still PRIMARY is reported "down".)
THEOREM HealthyIsUpAlways == ASSUME N > 1 PROVE Spec => []HealthyIsUp
<1>1. ProbeInv /\ Steady /\ [Next]_vars => Steady'
  BY SteadyStep
<1>2. Steady => HealthyIsUp
  BY DEF Steady
<1> QED BY <1>1, <1>2, SteadyInit, ProbeAlways, PTL DEF Spec

=============================================================================

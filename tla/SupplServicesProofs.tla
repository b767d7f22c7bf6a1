------------------------- MODULE SupplServicesProofs -------------------------
(***************************************************************************)
(* Theorems about SupplServices for every set of deployments and every     *)
(* number of changes, faults and disturbances: the types, that an adapter  *)
(* finds its role, and that "done" means users and deployments in place.   *)
(***************************************************************************)
EXTENDS SupplServices, TLAPS

Statuses == {"new", "running", "failed", "done"}

-----------------------------------------------------------------------------
(* The control flow. *)

\* Where a step may go on to: StepAfter stays within the steps.
LEMMA StepAfterFacts ==
    ASSUME NEW st \in DOMAIN StepAfter
    PROVE  StepAfter[st] \in Steps /\ st \in Steps
BY DEF StepAfter, Steps

\* What every step of the compound does to the control variables.
Moved ==
    /\ pc' \in Steps \cup {"idle"}
    /\ status' \in Statuses
    /\ faults' \in 0..MaxFaults

\* A fault stays within its bound.
LEMMA FaultFacts ==
    ASSUME TypeOK, Fault
    PROVE  faults' \in 0..MaxFaults
BY SupplAssumption DEF TypeOK, Fault

\* A step that goes on.
LEMMA GoOnFacts ==
    ASSUME TypeOK, pc \in DOMAIN StepAfter, GoOn
    PROVE  /\ pc' \in Steps \cup {"idle"} /\ pc' = StepAfter[pc]
           /\ status' \in Statuses
BY StepAfterFacts DEF GoOn, To, TypeOK, Statuses

\* A step that ends the reconcile.
LEMMA AbortFacts ==
    ASSUME Abort
    PROVE  pc' \in Steps \cup {"idle"} /\ pc' = "idle" /\ status' \in Statuses
BY DEF Abort, Statuses

\* A jump within the compound.
LEMMA ToFacts ==
    ASSUME TypeOK, NEW st \in Steps \cup {"idle"}, To(st)
    PROVE  pc' \in Steps \cup {"idle"} /\ pc' = st /\ status' \in Statuses
BY DEF To, TypeOK, Statuses

\* Every action of the operator but StartReconcile and Finish moves so.
LEMMA OperatorMoves ==
    ASSUME TypeOK,
           \/ MainReady \/ Requeue \/ Build \/ SkipStep
           \/ AddServicesUsers("users") \/ AddServicesUsers("usersAgain")
           \/ CreatePVC \/ ScaleDown \/ Drained \/ ScaleUp \/ Started \/ NotStarted
           \/ DrainedAgain \/ AwaitGrown
           \/ BackupService \/ DbaasService \/ PrometheusExporterService
           \/ BackupDeployment \/ DbaasDeployment \/ PrometheusExporterDeployment
           \/ \E st \in {"awaitBackup", "awaitDbaas", "awaitExporter"} : Await(st)
           \/ GrantRoleToUser \/ RobotDeployment
    PROVE  Moved
<1> DEFINE Same == faults' = faults
<1>0. Same => faults' \in 0..MaxFaults
  BY DEF TypeOK
<1>1. \/ GoOn /\ pc \in DOMAIN StepAfter
      \/ Abort
      \/ \E st \in Steps \cup {"idle"} : To(st)
  <2>1. CASE MainReady \/ Requeue \/ Build \/ SkipStep
    BY <2>1 DEF MainReady, Requeue, Build, SkipStep, Steps
  <2>2. CASE AddServicesUsers("users") \/ AddServicesUsers("usersAgain")
    BY <2>2 DEF AddServicesUsers, RoleFailed, At, StepAfter
  <2>3. CASE CreatePVC \/ ScaleDown
    BY <2>3 DEF CreatePVC, ScaleDown, At, StepAfter, Steps
  <2>4. CASE Drained \/ ScaleUp \/ Started \/ NotStarted \/ DrainedAgain \/ AwaitGrown
    BY <2>4 DEF Drained, ScaleUp, Started, NotStarted, DrainedAgain, AwaitGrown,
                OrFails, At, StepAfter, Steps
  <2>5. CASE BackupService \/ DbaasService \/ PrometheusExporterService
    BY <2>5 DEF BackupService, DbaasService, PrometheusExporterService,
                CreateService, At, StepAfter
  <2>6. CASE BackupDeployment \/ DbaasDeployment \/ PrometheusExporterDeployment
    BY <2>6 DEF BackupDeployment, DbaasDeployment, PrometheusExporterDeployment,
                CreateDeployment, At, StepAfter
  <2>7. CASE \E st \in {"awaitBackup", "awaitDbaas", "awaitExporter"} : Await(st)
    BY <2>7 DEF Await, OrFails, At, StepAfter
  <2>8. CASE GrantRoleToUser \/ RobotDeployment
    BY <2>8 DEF GrantRoleToUser, RobotDeployment, OrFails, At, StepAfter
  <2> QED
    BY <2>1, <2>2, <2>3, <2>4, <2>5, <2>6, <2>7, <2>8
<1>2. Same \/ Fault
  BY DEF MainReady, Requeue, Build, SkipStep, AddServicesUsers, CreatePVC, ScaleDown,
         Drained, ScaleUp, Started, NotStarted, DrainedAgain, AwaitGrown, OrFails,
         BackupService, DbaasService, PrometheusExporterService, CreateService,
         BackupDeployment, DbaasDeployment, PrometheusExporterDeployment,
         CreateDeployment, Await, GrantRoleToUser, RobotDeployment
<1> QED
  BY <1>0, <1>1, <1>2, FaultFacts, GoOnFacts, AbortFacts, ToFacts DEF Moved

-----------------------------------------------------------------------------
(* Types. *)

\* The CR and the reconcile that has read it.
CRTypes ==
    /\ spec \in [Sections -> Versions] /\ applied \in [Sections -> Versions]
    /\ cur \in [Sections -> Versions]
    /\ pending \in BOOLEAN /\ reverted \in BOOLEAN
    /\ changes \in 0..MaxChanges
    /\ type \in {Clean, Update} /\ attempt \in 1..maxAttempts

\* What is deployed.
KubeTypes ==
    /\ service \subseteq Svcs
    /\ deployed \in [Svcs -> Versions \X Versions]
    /\ replicas \in [Svcs -> 0..1]
    /\ pods \in [Svcs -> SUBSET (Versions \X Versions)]
    /\ claim \in Versions /\ volume \in Versions

\* What is around the operator.
EnvTypes ==
    /\ cfg \in Deployments
    /\ main \in {"absent", "running", "successful", "failed"}
    /\ mains \in 0..MaxMain /\ sick \in BOOLEAN
    /\ users \subseteq Svcs /\ role \in BOOLEAN

ControlTypes ==
    pc \in Steps \cup {"idle"} /\ status \in Statuses /\ faults \in 0..MaxFaults

\* TypeOK, in these four parts.
LEMMA TypeParts == TypeOK <=> CRTypes /\ KubeTypes /\ EnvTypes /\ ControlTypes
BY DEF TypeOK, CRTypes, KubeTypes, EnvTypes, ControlTypes, Statuses

\* Every initial state is well typed.
LEMMA InitType == Init => TypeOK
<1> SUFFICES ASSUME Init PROVE TypeOK
  OBVIOUS
<1>1. 0 \in Versions /\ 1 \in Versions
  BY SupplAssumption DEF Versions
<1>2. CRTypes
  <2>1. pending \in BOOLEAN /\ reverted \in BOOLEAN
    BY DEF Init
  <2>2. spec \in [Sections -> Versions] /\ applied \in [Sections -> Versions] /\ cur = applied
    BY <1>1 DEF Init
  <2>3. changes \in 0..MaxChanges /\ type \in {Clean, Update} /\ attempt \in 1..maxAttempts
    BY SupplAssumption DEF Init, maxAttempts
  <2> QED
    BY <2>1, <2>2, <2>3 DEF CRTypes
<1>3. KubeTypes
  BY <1>1 DEF Init, KubeTypes, None
<1>4. EnvTypes
  <2>1. sick \in BOOLEAN /\ role \in BOOLEAN
    BY DEF Init
  <2>2. mains \in 0..MaxMain
    BY SupplAssumption DEF Init
  <2>3. cfg \in Deployments /\ users \subseteq Svcs /\ main = "absent"
    BY DEF Init
  <2> QED
    BY <2>1, <2>2, <2>3 DEF EnvTypes
<1>5. ControlTypes
  BY SupplAssumption DEF Init, ControlTypes, Statuses
<1> QED
  BY <1>2, <1>3, <1>4, <1>5, TypeParts

\* The steps of the compound, and what each may change.
LEMMA OperatorType ==
    ASSUME TypeOK, Operator
    PROVE  TypeOK'
<1> USE DEF crVars, runVars, kubeVars, volVars, userVars, envVars
<1>0. CRTypes /\ KubeTypes /\ EnvTypes /\ ControlTypes
  BY TypeParts
<1>1. CASE StartReconcile
  BY <1>0, <1>1 DEF StartReconcile, TypeOK, Steps
<1>2. CASE Finish
  BY <1>0, <1>2 DEF Finish, TypeOK, Steps
<1>3. CASE MainReady \/ Requeue \/ SkipStep \/ Drained \/ Started \/ DrainedAgain
           \/ AwaitGrown \/ GrantRoleToUser \/ RobotDeployment
           \/ \E st \in {"awaitBackup", "awaitDbaas", "awaitExporter"} : Await(st)
  <2>1. Moved
    BY <1>3, OperatorMoves
  <2>2. /\ CRTypes' /\ KubeTypes' /\ EnvTypes'
    BY <1>0, <1>3 DEF MainReady, Requeue, SkipStep, Drained, Started, DrainedAgain,
                      AwaitGrown, GrantRoleToUser, RobotDeployment, Await,
                      CRTypes, KubeTypes, EnvTypes, QueuedAgain
  <2> QED
    BY <2>1, <2>2, TypeParts DEF Moved, TypeOK, CRTypes, KubeTypes, EnvTypes, Statuses
<1>4. CASE Build
  <2>1. Moved
    BY <1>4, OperatorMoves
  <2>2. /\ CRTypes' /\ KubeTypes' /\ EnvTypes'
    BY <1>0, <1>4 DEF Build, CRTypes, KubeTypes, EnvTypes, maxAttempts
  <2> QED
    BY <2>1, <2>2, TypeParts DEF Moved, TypeOK, CRTypes, KubeTypes, EnvTypes, Statuses
<1>5. CASE AddServicesUsers("users") \/ AddServicesUsers("usersAgain")
  <2>1. Moved
    BY <1>5, OperatorMoves
  <2>2. CRTypes' /\ KubeTypes'
    BY <1>0, <1>5 DEF AddServicesUsers, CRTypes, KubeTypes
  <2>3. EnvTypes'
    BY <1>0, <1>5 DEF AddServicesUsers, EnvTypes, ServicesUsers, ServicesRoles, Installed
  <2> QED
    BY <2>1, <2>2, <2>3, TypeParts DEF Moved, TypeOK, CRTypes, KubeTypes, EnvTypes, Statuses
<1>6. CASE CreatePVC
  <2>1. Moved
    BY <1>6, OperatorMoves
  <2>2. CRTypes' /\ EnvTypes'
    BY <1>0, <1>6 DEF CreatePVC, CRTypes, EnvTypes
  <2>3. cur.size \in Versions
    BY <1>0 DEF CRTypes, Sections
  <2>4. KubeTypes'
    BY <1>0, <1>6, <2>3 DEF CreatePVC, KubeTypes
  <2> QED
    BY <2>1, <2>2, <2>4, TypeParts DEF Moved, TypeOK, CRTypes, KubeTypes, EnvTypes, Statuses
<1>7. CASE ScaleDown \/ ScaleUp
  <2>1. Moved
    BY <1>7, OperatorMoves
  <2>2. CRTypes' /\ EnvTypes'
    BY <1>0, <1>7 DEF ScaleDown, ScaleUp, CRTypes, EnvTypes
  <2>3. KubeTypes'
    <3>1. /\ [replicas EXCEPT !["backup"] = 0] \in [Svcs -> 0..1]
          /\ [replicas EXCEPT !["backup"] = 1] \in [Svcs -> 0..1]
      BY <1>0 DEF KubeTypes, Svcs
    <3>2. replicas' \in [Svcs -> 0..1]
      BY <1>0, <1>7, <3>1 DEF ScaleDown, ScaleUp, KubeTypes
    <3> QED
      BY <1>0, <1>7, <3>2 DEF ScaleDown, ScaleUp, KubeTypes
  <2> QED
    BY <2>1, <2>2, <2>3, TypeParts DEF Moved, TypeOK, CRTypes, KubeTypes, EnvTypes, Statuses
<1>8. CASE NotStarted
  <2>1. Moved
    BY <1>8, OperatorMoves
  <2>2. CRTypes' /\ EnvTypes'
    BY <1>0, <1>8 DEF NotStarted, MoreAttempts, maxAttempts, CRTypes, EnvTypes
  <2>3. KubeTypes'
    BY <1>0, <1>8 DEF NotStarted, KubeTypes, Svcs
  <2> QED
    BY <2>1, <2>2, <2>3, TypeParts DEF Moved, TypeOK, CRTypes, KubeTypes, EnvTypes, Statuses
<1>9. CASE BackupService \/ DbaasService \/ PrometheusExporterService
  <2>1. Moved
    BY <1>9, OperatorMoves
  <2>2. CRTypes' /\ EnvTypes'
    BY <1>0, <1>9 DEF BackupService, DbaasService, PrometheusExporterService,
                      CreateService, CRTypes, EnvTypes
  <2>3. KubeTypes'
    BY <1>0, <1>9 DEF BackupService, DbaasService, PrometheusExporterService,
                      CreateService, KubeTypes, Svcs, Of
  <2> QED
    BY <2>1, <2>2, <2>3, TypeParts DEF Moved, TypeOK, CRTypes, KubeTypes, EnvTypes, Statuses
<1>10. CASE BackupDeployment \/ DbaasDeployment \/ PrometheusExporterDeployment
  <2>1. Moved
    BY <1>10, OperatorMoves
  <2>2. CRTypes' /\ EnvTypes'
    BY <1>0, <1>10 DEF BackupDeployment, DbaasDeployment, PrometheusExporterDeployment,
                       CreateDeployment, CRTypes, EnvTypes
  <2>3. PICK st \in {"backup", "dbaas", "exporter"} : CreateDeployment(st)
    BY <1>10 DEF BackupDeployment, DbaasDeployment, PrometheusExporterDeployment
  <2>4. Of(st) \in Svcs
    BY DEF Of, Svcs
  <2>5. Template(Of(st)) \in Versions \X Versions
    BY <1>0, <2>4 DEF Template, CRTypes, Sections
  <2>6. numberOfReplicas(Of(st)) \in 0..1
    BY DEF numberOfReplicas
  <2>7. KubeTypes'
    BY <1>0, <2>3, <2>4, <2>5, <2>6 DEF CreateDeployment, KubeTypes
  <2> QED
    BY <2>1, <2>2, <2>7, TypeParts DEF Moved, TypeOK, CRTypes, KubeTypes, EnvTypes, Statuses
<1> QED
  BY <1>1, <1>2, <1>3, <1>4, <1>5, <1>6, <1>7, <1>8, <1>9, <1>10 DEF Operator

\* No version is ahead of the changes so far: a change adds one version.
Bounded ==
    \A x \in Sections : /\ spec[x] <= changes + 1
                         /\ applied[x] <= changes + 1
                         /\ cur[x] <= changes + 1

\* What happens around the operator.
LEMMA EnvironmentType ==
    ASSUME TypeOK, Bounded, Next, ~Operator
    PROVE  TypeOK'
<1> USE DEF crVars, runVars, kubeVars, volVars, userVars, envVars
<1>0. CRTypes /\ KubeTypes /\ EnvTypes /\ ControlTypes
  BY TypeParts
<1>1. CASE Crash
  BY <1>0, <1>1, FaultFacts DEF Crash, TypeOK
<1>2. CASE Redeploy
  BY <1>0, <1>2 DEF Redeploy, TypeOK
<1>3. CASE ChangeSpec
  <2>1. PICK x \in Sections : spec' = [spec EXCEPT ![x] = @ + 1]
    BY <1>3 DEF ChangeSpec
  <2>2. spec[x] \in Nat /\ spec[x] + 1 \in Versions
    BY <1>0, <1>3, SupplAssumption DEF ChangeSpec, CRTypes, Versions, Bounded
  <2>3. spec' \in [Sections -> Versions]
    BY <1>0, <2>1, <2>2 DEF CRTypes
  <2>4. changes' \in 0..MaxChanges
    BY <1>0, <1>3, SupplAssumption DEF ChangeSpec, CRTypes
  <2>. QED
    BY <1>0, <1>3, <2>3, <2>4 DEF ChangeSpec, TypeOK
<1>4. CASE Rollback
  BY <1>0, <1>4 DEF Rollback, TypeOK
<1>5. CASE MainStarts \/ MainEnds \/ MainDisturbed
  BY <1>0, <1>5, SupplAssumption DEF MainStarts, MainEnds, MainDisturbed, TypeOK
<1>6. CASE BackupSick \/ BackupWell
  BY <1>0, <1>6, FaultFacts DEF BackupSick, BackupWell, TypeOK
<1>7. CASE OtherSiteAddsUsers
  BY <1>0, <1>7 DEF OtherSiteAddsUsers, ServicesUsers, TypeOK
<1>8. CASE VolumeGrows
  BY <1>0, <1>8 DEF VolumeGrows, TypeOK
<1>9. CASE \E s \in Svcs : PodStarts(s) \/ PodStops(s)
  <2>1. PICK s \in Svcs : PodStarts(s) \/ PodStops(s)
    BY <1>9
  <2>2. deployed[s] \in Versions \X Versions /\ pods[s] \subseteq Versions \X Versions
    BY <1>0 DEF KubeTypes
  <2>3. pods' \in [Svcs -> SUBSET (Versions \X Versions)]
    BY <1>0, <2>1, <2>2 DEF PodStarts, PodStops, KubeTypes
  <2> QED
    BY <1>0, <2>1, <2>3 DEF PodStarts, PodStops, TypeOK
<1> QED
  BY <1>1, <1>2, <1>3, <1>4, <1>5, <1>6, <1>7, <1>8, <1>9 DEF Next, Main, Kube

\* The bound on the versions is kept.
LEMMA BoundedStep ==
    ASSUME TypeOK, Bounded, [Next]_vars
    PROVE  Bounded'
<1> USE DEF crVars, runVars, kubeVars, volVars, userVars, envVars
<1>0. /\ changes \in Nat
      /\ \A x \in Sections : spec[x] \in Nat /\ applied[x] \in Nat /\ cur[x] \in Nat
  BY SupplAssumption DEF TypeOK, Versions
<1>1. CASE ChangeSpec
  <2>1. PICK x \in Sections : spec' = [spec EXCEPT ![x] = @ + 1]
    BY <1>1 DEF ChangeSpec
  <2>2. changes' = changes + 1 /\ UNCHANGED <<applied, cur>>
    BY <1>1 DEF ChangeSpec
  <2>3. \A y \in Sections : spec'[y] \in {spec[y], spec[y] + 1}
    BY <1>0, <2>1 DEF TypeOK
  <2> QED
    BY <1>0, <2>2, <2>3 DEF Bounded, TypeOK
<1>2. CASE Rollback \/ Build \/ Finish
  BY <1>2 DEF Rollback, Build, Finish, Bounded
<1>3. CASE UNCHANGED vars
  BY <1>3 DEF vars, Bounded
<1>4. CASE Operator /\ ~Build /\ ~Finish
  BY <1>4 DEF Operator, Bounded, StartReconcile, MainReady, Requeue, SkipStep,
              AddServicesUsers, CreatePVC, ScaleDown, Drained, ScaleUp, Started,
              NotStarted, DrainedAgain, AwaitGrown, BackupService, DbaasService,
              PrometheusExporterService, CreateService, BackupDeployment,
              DbaasDeployment, PrometheusExporterDeployment, CreateDeployment,
              Await, GrantRoleToUser, RobotDeployment
<1>5. CASE Main \/ Kube \/ Crash \/ Redeploy \/ MainDisturbed \/ BackupSick
           \/ BackupWell \/ OtherSiteAddsUsers
  BY <1>5 DEF Main, Kube, MainStarts, MainEnds, VolumeGrows, PodStarts, PodStops,
              Crash, Redeploy, MainDisturbed, BackupSick, BackupWell,
              OtherSiteAddsUsers, Bounded
<1> QED
  BY <1>1, <1>2, <1>3, <1>4, <1>5 DEF Next

\* The variables of SupplServices keep their types; in particular the loop
\* that starts the backup daemon makes at most five attempts, and the CR's
\* versions stay within the changes made to it.
THEOREM SupplTypeCorrect == Spec => [](TypeOK /\ Bounded)
<1>1. Init => TypeOK /\ Bounded
  <2>1. Init => Bounded
    BY SupplAssumption DEF Init, Bounded
  <2> QED
    BY <2>1, InitType
<1>2. TypeOK /\ Bounded /\ [Next]_vars => (TypeOK /\ Bounded)'
  <2> SUFFICES ASSUME TypeOK, Bounded, [Next]_vars PROVE TypeOK' /\ Bounded'
    OBVIOUS
  <2>1. CASE UNCHANGED vars
    <3>1. TypeOK'
      BY <2>1 DEF vars, crVars, runVars, kubeVars, volVars, userVars, envVars, TypeOK
    <3> QED
      BY <3>1, BoundedStep
  <2>2. CASE Next
    BY <2>2, OperatorType, EnvironmentType, BoundedStep
  <2> QED
    BY <2>1, <2>2
<1> QED
  BY <1>1, <1>2, PTL DEF Spec

-----------------------------------------------------------------------------
(* The role of the adapter's user. *)

\* The steps that follow the first AddServicesUsers.
AfterUsers == Steps \ {"wait", "read", "users"}

\* On an active site with an adapter the role is there before anything that
\* comes after the users, whatever stopped the reconciles before.
RoleFirst == (cfg.mode = Active /\ Installed("dbaas") /\ pc \in AfterUsers) => role

RoleInv == RoleFirst /\ AdapterHasRole

\* A step that goes on stays behind the users.
LEMMA AfterUsersFacts ==
    ASSUME NEW st \in DOMAIN StepAfter
    PROVE  st \in AfterUsers \cup {"users"} /\ StepAfter[st] \in AfterUsers
BY DEF StepAfter, AfterUsers, Steps

\* A deployment is fixed, and no step removes the role.
LEMMA RoleGrows ==
    ASSUME TypeOK, [Next]_vars
    PROVE  cfg' = cfg /\ (role => role')
<1> USE DEF crVars, runVars, kubeVars, volVars, userVars, envVars
<1>1. CASE UNCHANGED vars
  BY <1>1 DEF vars
<1>2. CASE AddServicesUsers("users") \/ AddServicesUsers("usersAgain")
  <2>1. cfg' = cfg
    BY <1>2 DEF AddServicesUsers
  <2>2. role' = role \/ role' = (role \/ ServicesRoles)
    BY <1>2 DEF AddServicesUsers
  <2>3. ASSUME role PROVE role'
    <3>1. CASE role' = role
      BY <2>3, <3>1
    <3>2. CASE role' = (role \/ ServicesRoles)
      <4>1. (role \/ ServicesRoles) = TRUE
        BY <2>3
      <4> QED
        BY <3>2, <4>1
    <3> QED
      BY <2>2, <3>1, <3>2
  <2> QED
    BY <2>1, <2>3
<1>4. CASE /\ Operator
           /\ ~AddServicesUsers("users") /\ ~AddServicesUsers("usersAgain")
  <2>1. UNCHANGED <<cfg, role>>
    BY <1>4 DEF Operator, StartReconcile, MainReady, Requeue, Build, SkipStep,
                CreatePVC, ScaleDown, Drained, ScaleUp, Started,
                NotStarted, DrainedAgain, AwaitGrown, BackupService, DbaasService,
                PrometheusExporterService, CreateService, BackupDeployment,
                DbaasDeployment, PrometheusExporterDeployment, CreateDeployment,
                Await, GrantRoleToUser, RobotDeployment, Finish
  <2> QED
    BY <2>1
<1>3. CASE ~Operator /\ Next
  BY <1>3 DEF Next, Main, Kube, MainStarts, MainEnds, VolumeGrows, PodStarts, PodStops,
              Crash, Redeploy, ChangeSpec, Rollback, MainDisturbed, BackupSick,
              BackupWell, OtherSiteAddsUsers
<1> QED
  BY <1>1, <1>2, <1>3, <1>4

\* Only DbaasDeployment changes the replicas of the adapter.
LEMMA AdapterScaledByItsStep ==
    ASSUME TypeOK, [Next]_vars, ~DbaasDeployment
    PROVE  replicas'["dbaas"] = replicas["dbaas"]
<1> USE DEF crVars, runVars, kubeVars, volVars, userVars, envVars
<1>0. replicas \in [Svcs -> 0..1] /\ "dbaas" \in Svcs
  BY DEF TypeOK, Svcs
<1>1. CASE UNCHANGED vars
  BY <1>1 DEF vars
<1>2. CASE BackupDeployment \/ PrometheusExporterDeployment
  BY <1>0, <1>2 DEF BackupDeployment, PrometheusExporterDeployment, CreateDeployment, Of
<1>3. CASE ScaleDown \/ ScaleUp \/ NotStarted
  BY <1>0, <1>3 DEF ScaleDown, ScaleUp, NotStarted
<1>4. CASE /\ Operator /\ ~BackupDeployment /\ ~PrometheusExporterDeployment
           /\ ~ScaleDown /\ ~ScaleUp /\ ~NotStarted
  BY <1>4 DEF Operator, StartReconcile, MainReady, Requeue, Build, SkipStep,
              AddServicesUsers, CreatePVC, Drained, Started,
              DrainedAgain, AwaitGrown, BackupService, DbaasService,
              PrometheusExporterService, CreateService,
              Await, GrantRoleToUser, RobotDeployment, Finish
<1>5. CASE ~Operator /\ Next
  BY <1>5 DEF Next, Main, Kube, MainStarts, MainEnds, VolumeGrows, PodStarts, PodStops,
              Crash, Redeploy, ChangeSpec, Rollback, MainDisturbed, BackupSick,
              BackupWell, OtherSiteAddsUsers
<1> QED
  BY <1>1, <1>2, <1>3, <1>4, <1>5

\* How the control gets behind the users: only past AddServicesUsers, or by
\* the empty compound of a disabled site.
LEMMA EntersAfterUsers ==
    ASSUME TypeOK, [Next]_vars, pc' \in AfterUsers, pc \notin AfterUsers
    PROVE  \/ AddServicesUsers("users") /\ GoOn
           \/ SkipStep /\ pc = "users"
           \/ cfg.mode = Disable
<1>0. "idle" \notin AfterUsers /\ "wait" \notin AfterUsers /\ "read" \notin AfterUsers
      /\ "users" \notin AfterUsers /\ {"usersAgain", "finish"} \subseteq AfterUsers
  BY DEF AfterUsers, Steps
<1>1. CASE UNCHANGED vars
  BY <1>1 DEF vars
<1>2. CASE StartReconcile \/ MainReady \/ Requeue
  BY <1>0, <1>2 DEF StartReconcile, MainReady, Requeue, To
<1>3. CASE Build
  BY <1>0, <1>3 DEF Build, To, Abort
<1>4. CASE SkipStep
  BY <1>0, <1>4, AfterUsersFacts DEF SkipStep
<1>5. CASE AddServicesUsers("users")
  BY <1>0, <1>5 DEF AddServicesUsers, RoleFailed, Abort
<1>6. CASE \/ AddServicesUsers("usersAgain")
           \/ CreatePVC \/ ScaleDown \/ Drained \/ ScaleUp \/ Started \/ NotStarted
           \/ DrainedAgain \/ AwaitGrown
           \/ BackupService \/ DbaasService \/ PrometheusExporterService
           \/ BackupDeployment \/ DbaasDeployment \/ PrometheusExporterDeployment
           \/ \E st \in {"awaitBackup", "awaitDbaas", "awaitExporter"} : Await(st)
           \/ GrantRoleToUser \/ RobotDeployment \/ Finish
  <2>1. pc \in Steps \ {"wait", "read", "users"}
    BY <1>6 DEF AddServicesUsers, CreatePVC, ScaleDown, Drained, ScaleUp, Started,
                NotStarted, DrainedAgain, AwaitGrown, BackupService, DbaasService,
                PrometheusExporterService, CreateService, BackupDeployment,
                DbaasDeployment, PrometheusExporterDeployment, CreateDeployment,
                Await, GrantRoleToUser, RobotDeployment, Finish, At, Steps
  <2> QED
    BY <2>1 DEF AfterUsers
<1>7. CASE ~Operator /\ Next
  BY <1>0, <1>7 DEF Next, Main, Kube, MainStarts, MainEnds, VolumeGrows, PodStarts,
              PodStops, Crash, Redeploy, ChangeSpec, Rollback, MainDisturbed,
              BackupSick, BackupWell, OtherSiteAddsUsers
<1> QED
  BY <1>1, <1>2, <1>3, <1>4, <1>5, <1>6, <1>7 DEF Operator

\* The adapter is never scaled up without the role of its user, in any
\* deployment, however often the operator is killed or a call fails: the
\* failure of a role ends the reconcile before the adapter is deployed.
THEOREM AdapterHasRoleAlways == Spec => []AdapterHasRole
<1>1. Init => RoleInv
  BY DEF Init, RoleInv, RoleFirst, AdapterHasRole, AfterUsers, Steps, Svcs
<1>2. TypeOK /\ RoleInv /\ [Next]_vars => RoleInv'
  <2> SUFFICES ASSUME TypeOK, RoleInv, [Next]_vars PROVE RoleInv'
    OBVIOUS
  <2>1. cfg' = cfg /\ (role => role')
    BY RoleGrows
  <2>2. RoleFirst'
    <3> SUFFICES ASSUME cfg.mode = Active, Installed("dbaas"), pc' \in AfterUsers
                 PROVE  role'
      BY <2>1 DEF RoleFirst, Installed
    <3>1. CASE pc \in AfterUsers
      BY <2>1, <3>1 DEF RoleInv, RoleFirst
    <3>2. CASE pc \notin AfterUsers
      <4>1. CASE AddServicesUsers("users") /\ GoOn
        <5>1. ~Abort
          BY <4>1, <3>2 DEF AddServicesUsers, GoOn, To, Abort, At, AfterUsers, Steps,
                            StepAfter
        <5> QED
          BY <4>1, <5>1 DEF AddServicesUsers, RoleFailed, ServicesRoles
      <4>2. CASE SkipStep /\ pc = "users"
        <5>1. Condition("users")
          BY DEF Condition, AddsUsers, Of
        <5> QED
          BY <4>2, <5>1 DEF SkipStep
      <4>3. cfg.mode # Disable
        BY DEF Active, Disable
      <4> QED
        BY <3>2, <4>1, <4>2, <4>3, EntersAfterUsers
    <3> QED
      BY <3>1, <3>2
  <2>3. AdapterHasRole'
    <3>1. CASE ~DbaasDeployment
      BY <2>1, <3>1, AdapterScaledByItsStep DEF RoleInv, AdapterHasRole
    <3>2. CASE DbaasDeployment
      <4>1. CreateDeployment("dbaas") /\ Of("dbaas") = "dbaas" /\ pc = "dbaas"
        BY <3>2 DEF DbaasDeployment, CreateDeployment, Of, At
      <4>2. pc \in AfterUsers /\ Installed("dbaas")
        BY <4>1 DEF CreateDeployment, At, Condition, AfterUsers, Steps
      <4>3. replicas'["dbaas"] \in {replicas["dbaas"], numberOfReplicas("dbaas")}
        BY <4>1 DEF CreateDeployment, TypeOK, Svcs
      <4>4. numberOfReplicas("dbaas") = 1 => cfg.mode = Active
        BY DEF numberOfReplicas
      <4> QED
        BY <2>1, <4>2, <4>3, <4>4 DEF RoleInv, RoleFirst, AdapterHasRole
    <3> QED
      BY <3>1, <3>2
  <2> QED
    BY <2>2, <2>3 DEF RoleInv
<1>3. RoleInv => AdapterHasRole
  BY DEF RoleInv
<1> QED
  BY <1>1, <1>2, <1>3, SupplTypeCorrect, PTL DEF Spec

-----------------------------------------------------------------------------
(* The users of the services. *)

\* On an active site the users are there after the first step that adds them
\* if nothing has failed, and after the second if at most one call has.
UsersInv ==
    cfg.mode = Active =>
        /\ pc \in AfterUsers /\ faults = 0 => ServicesUsers \subseteq users
        /\ pc = "finish" /\ faults <= 1 => ServicesUsers \subseteq users
        /\ DoneHasUsers

\* The CR reports success only by Finish.
LEMMA DoneByFinish ==
    ASSUME TypeOK, [Next]_vars, status' = "done", status # "done"
    PROVE  Finish
<1> USE DEF crVars, runVars, kubeVars, volVars, userVars, envVars
<1>1. CASE UNCHANGED vars
  BY <1>1 DEF vars
<1>2. CASE Operator /\ ~Finish
  BY <1>2 DEF Operator, StartReconcile, MainReady, Requeue, Build, SkipStep,
              AddServicesUsers, RoleFailed, CreatePVC, ScaleDown, Drained, ScaleUp,
              Started, NotStarted, DrainedAgain, AwaitGrown, BackupService,
              DbaasService, PrometheusExporterService, CreateService,
              BackupDeployment, DbaasDeployment, PrometheusExporterDeployment,
              CreateDeployment, Await, GrantRoleToUser, RobotDeployment,
              OrFails, GoOn, To, Abort
<1>3. CASE ~Operator /\ Next
  BY <1>3 DEF Next, Main, Kube, MainStarts, MainEnds, VolumeGrows, PodStarts, PodStops,
              Crash, Redeploy, ChangeSpec, Rollback, MainDisturbed, BackupSick,
              BackupWell, OtherSiteAddsUsers
<1> QED
  BY <1>1, <1>2, <1>3 DEF Next

\* Faults are never forgotten.
LEMMA FaultsGrow ==
    ASSUME TypeOK, [Next]_vars
    PROVE  faults \in Nat /\ faults' \in Nat /\ faults <= faults'
<1> USE DEF crVars, runVars, kubeVars, volVars, userVars, envVars
<1>0. faults \in Nat
  BY SupplAssumption DEF TypeOK
<1>1. faults' = faults \/ Fault
  <2>1. CASE UNCHANGED vars
    BY <2>1 DEF vars
  <2>2. CASE Operator
    BY <2>2 DEF Operator, StartReconcile, MainReady, Requeue, Build, SkipStep,
                AddServicesUsers, CreatePVC, ScaleDown, Drained, ScaleUp,
                Started, NotStarted, DrainedAgain, AwaitGrown, BackupService,
                DbaasService, PrometheusExporterService, CreateService,
                BackupDeployment, DbaasDeployment, PrometheusExporterDeployment,
                CreateDeployment, Await, GrantRoleToUser, RobotDeployment,
                OrFails, Finish
  <2>3. CASE ~Operator /\ Next
    BY <2>3 DEF Next, Main, Kube, MainStarts, MainEnds, VolumeGrows, PodStarts, PodStops,
                Crash, Redeploy, ChangeSpec, Rollback, MainDisturbed, BackupSick,
                BackupWell, OtherSiteAddsUsers
  <2> QED
    BY <2>1, <2>2, <2>3 DEF Next
<1> QED
  BY <1>0, <1>1 DEF Fault

\* On an active site no user is removed.
LEMMA UsersGrow ==
    ASSUME TypeOK, [Next]_vars, cfg.mode = Active
    PROVE  users \subseteq users'
<1> USE DEF crVars, runVars, kubeVars, volVars, userVars, envVars
<1>1. CASE UNCHANGED vars
  BY <1>1 DEF vars
<1>2. CASE AddServicesUsers("users") \/ AddServicesUsers("usersAgain")
  BY <1>2 DEF AddServicesUsers
<1>3. CASE /\ Operator
           /\ ~AddServicesUsers("users") /\ ~AddServicesUsers("usersAgain")
  BY <1>3 DEF Operator, StartReconcile, MainReady, Requeue, Build, SkipStep,
              CreatePVC, ScaleDown, Drained, ScaleUp, Started,
              NotStarted, DrainedAgain, AwaitGrown, BackupService, DbaasService,
              PrometheusExporterService, CreateService, BackupDeployment,
              DbaasDeployment, PrometheusExporterDeployment, CreateDeployment,
              Await, GrantRoleToUser, RobotDeployment, Finish
<1>4. CASE ~Operator /\ Next
  BY <1>4 DEF Next, Main, Kube, MainStarts, MainEnds, VolumeGrows, PodStarts, PodStops,
              Crash, Redeploy, ChangeSpec, Rollback, MainDisturbed, BackupSick,
              BackupWell, OtherSiteAddsUsers
<1> QED
  BY <1>1, <1>2, <1>3, <1>4

\* The last step is reached only past the second AddServicesUsers, or by the
\* empty compound of a disabled site.
LEMMA EntersFinish ==
    ASSUME TypeOK, [Next]_vars, pc' = "finish", pc # "finish"
    PROVE  \/ AddServicesUsers("usersAgain")
           \/ SkipStep /\ pc = "usersAgain"
           \/ cfg.mode = Disable
<1>1. CASE UNCHANGED vars
  BY <1>1 DEF vars
<1>2. CASE Operator /\ ~Build /\ ~SkipStep /\ ~AddServicesUsers("usersAgain")
  BY <1>2 DEF Operator, StartReconcile, MainReady, Requeue,
              AddServicesUsers, RoleFailed, CreatePVC, ScaleDown, Drained, ScaleUp,
              Started, NotStarted, DrainedAgain, AwaitGrown, BackupService,
              DbaasService, PrometheusExporterService, CreateService,
              BackupDeployment, DbaasDeployment, PrometheusExporterDeployment,
              CreateDeployment, Await, GrantRoleToUser, RobotDeployment, Finish,
              OrFails, GoOn, To, Abort, At, StepAfter
<1>3. CASE Build
  BY <1>3 DEF Build, To, Abort
<1>4. CASE SkipStep
  BY <1>4 DEF SkipStep, GoOn, To, StepAfter
<1>5. CASE ~Operator /\ Next
  BY <1>5 DEF Next, Main, Kube, MainStarts, MainEnds, VolumeGrows, PodStarts, PodStops,
              Crash, Redeploy, ChangeSpec, Rollback, MainDisturbed, BackupSick,
              BackupWell, OtherSiteAddsUsers
<1> QED
  BY <1>1, <1>2, <1>3, <1>4, <1>5

\* What is known of the users is kept by every step.
LEMMA UsersStep ==
    ASSUME TypeOK, UsersInv, [Next]_vars
    PROVE  UsersInv'
<1>1. cfg' = cfg /\ ServicesUsers' = ServicesUsers
  BY RoleGrows DEF ServicesUsers
<1> SUFFICES ASSUME cfg.mode = Active PROVE UsersInv'
  BY <1>1 DEF UsersInv
<1>2. faults \in Nat /\ faults' \in Nat /\ faults <= faults' /\ users \subseteq users'
  BY FaultsGrow, UsersGrow
<1>3. cfg.mode # Disable /\ AddsUsers
  BY DEF Active, Disable, AddsUsers
<1>4. Condition("users") /\ Condition("usersAgain")
  BY <1>3 DEF Condition, Of
<1>5. ASSUME pc' \in AfterUsers, faults' = 0 PROVE ServicesUsers \subseteq users'
  <2>1. faults = 0
    BY <1>2, <1>5
  <2>2. CASE pc \in AfterUsers
    BY <1>2, <2>1, <2>2 DEF UsersInv
  <2>3. CASE pc \notin AfterUsers
    <3>1. AddServicesUsers("users") /\ GoOn
      BY <1>3, <1>4, <1>5, <2>3, EntersAfterUsers DEF SkipStep
    <3>2. ~Fault
      BY <1>5, <2>1 DEF Fault
    <3> QED
      BY <3>1, <3>2 DEF AddServicesUsers
  <2> QED
    BY <2>2, <2>3
<1>6. ASSUME pc' = "finish", faults' <= 1 PROVE ServicesUsers \subseteq users'
  <2>1. faults <= 1
    BY <1>2, <1>6
  <2>2. CASE pc = "finish"
    BY <1>2, <2>1, <2>2 DEF UsersInv
  <2>3. CASE pc # "finish"
    <3>1. AddServicesUsers("usersAgain")
      BY <1>3, <1>4, <1>6, <2>3, EntersFinish DEF SkipStep
    <3>2. ~Abort /\ pc \in AfterUsers
      BY <1>6, <3>1 DEF Abort, AddServicesUsers, At, AfterUsers, Steps
    <3>3. CASE Fault
      <4>1. faults = 0
        BY <1>2, <1>6, <3>3 DEF Fault
      <4> QED
        BY <1>2, <3>2, <4>1 DEF UsersInv
    <3>4. CASE ~Fault
      BY <3>1, <3>2, <3>4 DEF AddServicesUsers, RoleFailed
    <3> QED
      BY <3>3, <3>4
  <2> QED
    BY <2>2, <2>3
<1>7. ASSUME status' = "done", faults' <= 1 PROVE ServicesUsers \subseteq users'
  <2>1. faults <= 1
    BY <1>2, <1>7
  <2>2. CASE status = "done"
    BY <1>2, <2>1, <2>2 DEF UsersInv, DoneHasUsers
  <2>3. CASE status # "done"
    <3>1. pc = "finish"
      BY <1>7, <2>3, DoneByFinish DEF Finish
    <3> QED
      BY <1>2, <2>1, <3>1 DEF UsersInv
  <2> QED
    BY <2>2, <2>3
<1> QED
  BY <1>1, <1>5, <1>6, <1>7 DEF UsersInv, DoneHasUsers

\* A user that could not be created is not forgotten: whatever one call
\* fails, an active site that reports success has all the users, in every
\* deployment and for any number of reconciles.
THEOREM DoneHasUsersAlways == Spec => []DoneHasUsers
<1>1. Init => UsersInv
  BY DEF Init, UsersInv, DoneHasUsers, AfterUsers, Steps
<1>2. TypeOK /\ UsersInv /\ [Next]_vars => UsersInv'
  BY UsersStep
<1>3. TypeOK /\ UsersInv => DoneHasUsers
  BY DEF UsersInv, DoneHasUsers
<1> QED
  BY <1>1, <1>2, <1>3, SupplTypeCorrect, PTL DEF Spec

-----------------------------------------------------------------------------
(* What is deployed when the CR reports success. *)

\* A service has something to do for the CR as it is now, as Changed says it
\* of the CR that the reconcile has read.
Differs(s) == \/ spec[s] # applied[s] \/ spec.common # applied.common
              \/ s = "backup" /\ spec.size # applied.size

\* The steps that follow a service's Service, its Deployment and, for the
\* backup daemon, its claim, the growth of its volume and its rollout.
PastExporter == {"awaitExporter", "robot", "usersAgain", "finish"}
PastExporterSvc == {"exporter"} \cup PastExporter
PastDbaas    == {"awaitDbaas", "exporterSvc"} \cup PastExporterSvc
PastDbaasSvc == {"dbaas"} \cup PastDbaas
PastRollout  == {"grant", "dbaasSvc"} \cup PastDbaasSvc
PastBackup   == {"awaitBackup"} \cup PastRollout
PastBackupSvc == {"backup"} \cup PastBackup
PastGrown    == {"backupSvc"} \cup PastBackupSvc
Restarting   == {"drain", "up", "ready", "redrain", "grown"}
PastClaim    == {"expand"} \cup Restarting \cup PastGrown

PastService(s) == CASE s = "backup" -> PastBackupSvc
                    [] s = "dbaas" -> PastDbaasSvc
                    [] OTHER -> PastExporterSvc
PastDeployment(s) == CASE s = "backup" -> PastBackup
                       [] s = "dbaas" -> PastDbaas
                       [] OTHER -> PastExporter

\* A service is deployed as the CR applied last says.
InPlace(s) ==
    /\ s \in service
    /\ deployed[s] = <<applied[s], applied.common>>
    /\ replicas[s] = numberOfReplicas(s)
    /\ s = "backup" => /\ pods[s] \subseteq {deployed[s]}
                       /\ claim = applied.size /\ volume = applied.size

\* Unless the CR is set back, its versions only grow, and the reconcile has
\* read one between the one applied last and the one of now.
Ordered ==
    ~reverted => \A x \in Sections : applied[x] <= cur[x] /\ cur[x] <= spec[x]

\* A CR nobody has touched since is the one that was read, and then applied.
Untouched ==
    /\ ~pending /\ pc \in Steps \ {"wait", "read"} => cur = spec
    /\ ~pending /\ status = "done" => applied = spec

\* A service with nothing to do is in place.
Kept ==
    ~reverted => \A s \in ServicesUsers : ~Differs(s) => InPlace(s)

\* A service with something to do is there as far as the reconcile has got.
Reached ==
    /\ \A s \in ServicesUsers : Changed(s) =>
          /\ pc \in PastService(s) => s \in service
          /\ pc \in PastDeployment(s) => /\ deployed[s] = Template(s)
                                         /\ replicas[s] = numberOfReplicas(s)
    /\ Installed("backup") /\ Changed("backup") =>
          /\ pc \in PastClaim => claim = cur.size
          /\ pc \in PastGrown => volume = cur.size
          /\ pc \in PastRollout => pods["backup"] \subseteq {deployed["backup"]}
    /\ pc \in Restarting => Installed("backup") /\ Changed("backup")

DeployInv == cfg.mode # Disable => Ordered /\ Untouched /\ Kept /\ Reached

\* The steps that follow each other in these sets.
LEMMA PastFacts ==
    ASSUME NEW st \in DOMAIN StepAfter
    PROVE  LET n == StepAfter[st] IN
           /\ n \in PastExporter => st \in PastExporter \cup {"exporter"}
           /\ n \in PastExporterSvc => st \in PastExporterSvc \cup {"exporterSvc"}
           /\ n \in PastDbaas => st \in PastDbaas \cup {"dbaas"}
           /\ n \in PastDbaasSvc => st \in PastDbaasSvc \cup {"dbaasSvc"}
           /\ n \in PastRollout => st \in PastRollout \cup {"awaitBackup"}
           /\ n \in PastBackup => st \in PastBackup \cup {"backup"}
           /\ n \in PastBackupSvc => st \in PastBackupSvc \cup {"backupSvc"}
           /\ n \in PastGrown => st \in PastGrown \cup {"expand", "grown"}
           /\ n \in PastClaim => st \in PastClaim \cup {"pvc"}
           /\ n \in Restarting => st \in Restarting
BY DEF StepAfter, PastExporter, PastExporterSvc, PastDbaas, PastDbaasSvc, PastRollout,
       PastBackup, PastBackupSvc, PastGrown, PastClaim, Restarting

\* All of them follow the claim.
LEMMA PastInClaim ==
    /\ Restarting \subseteq PastClaim /\ PastGrown \subseteq PastClaim
    /\ PastRollout \subseteq PastGrown
    /\ \A s \in Svcs : PastService(s) \subseteq PastClaim /\ PastDeployment(s) \subseteq PastClaim
    /\ PastClaim \cap {"idle", "wait", "read", "users", "pvc"} = {}
    /\ PastClaim \subseteq AfterUsers
BY DEF PastService, PastDeployment, PastExporter, PastExporterSvc, PastDbaas,
       PastDbaasSvc, PastRollout, PastBackup, PastBackupSvc, PastGrown, PastClaim,
       Restarting, Svcs, AfterUsers, Steps

\* Before the claim there is nothing to say.
LEMMA NotReached ==
    ASSUME pc' \notin PastClaim
    PROVE  Reached'
BY PastInClaim DEF Reached, ServicesUsers

\* The CR and the reconcile's copy of it change in four actions only.
LEMMA CRStays ==
    ASSUME TypeOK, [Next]_vars, ~ChangeSpec, ~Rollback, ~Build, ~Finish
    PROVE  UNCHANGED <<spec, applied, cur, reverted>>
<1> USE DEF crVars, runVars, kubeVars, volVars, userVars, envVars
<1>1. CASE UNCHANGED vars
  BY <1>1 DEF vars
<1>2. CASE Operator
  BY <1>2 DEF Operator, StartReconcile, MainReady, Requeue, SkipStep,
              AddServicesUsers, CreatePVC, ScaleDown, Drained, ScaleUp, Started,
              NotStarted, DrainedAgain, AwaitGrown, BackupService, DbaasService,
              PrometheusExporterService, CreateService, BackupDeployment,
              DbaasDeployment, PrometheusExporterDeployment, CreateDeployment,
              Await, GrantRoleToUser, RobotDeployment
<1>3. CASE Main \/ Kube \/ Crash \/ Redeploy \/ MainDisturbed \/ BackupSick
           \/ BackupWell \/ OtherSiteAddsUsers
  BY <1>3 DEF Main, Kube, MainStarts, MainEnds, VolumeGrows, PodStarts, PodStops,
              Crash, Redeploy, MainDisturbed, BackupSick, BackupWell,
              OtherSiteAddsUsers
<1> QED
  BY <1>1, <1>2, <1>3 DEF Next

\* The CR grows unless it is set back.
LEMMA SpecGrows ==
    ASSUME TypeOK, [Next]_vars, ~Rollback
    PROVE  /\ reverted' = reverted
           /\ \A x \in Sections : /\ spec[x] \in Nat /\ spec'[x] \in Nat
                                  /\ applied[x] \in Nat /\ cur[x] \in Nat
                                  /\ spec[x] <= spec'[x]
<1>0. \A x \in Sections : spec[x] \in Nat /\ applied[x] \in Nat /\ cur[x] \in Nat
  BY SupplAssumption DEF TypeOK, Versions
<1>1. CASE ChangeSpec
  <2>1. PICK x \in Sections : spec' = [spec EXCEPT ![x] = @ + 1]
    BY <1>1 DEF ChangeSpec
  <2>2. \A y \in Sections : spec'[y] \in {spec[y], spec[y] + 1}
    BY <1>0, <2>1 DEF TypeOK
  <2> QED
    BY <1>0, <1>1, <2>2 DEF ChangeSpec
<1>2. CASE Build \/ Finish
  BY <1>0, <1>2 DEF Build, Finish, crVars
<1>3. CASE ~ChangeSpec /\ ~Build /\ ~Finish
  BY <1>0, <1>3, CRStays
<1> QED
  BY <1>1, <1>2, <1>3

\* The order of the three copies of the CR is kept.
LEMMA OrderedStep ==
    ASSUME TypeOK, Ordered, [Next]_vars
    PROVE  Ordered'
<1>1. CASE Rollback
  BY <1>1 DEF Rollback, Ordered
<1>2. CASE ~Rollback
  <2> SUFFICES ASSUME ~reverted, NEW x \in Sections
               PROVE  applied'[x] <= cur'[x] /\ cur'[x] <= spec'[x]
    BY <1>2, SpecGrows DEF Ordered
  <2>1. /\ spec[x] \in Nat /\ spec'[x] \in Nat /\ applied[x] \in Nat /\ cur[x] \in Nat
        /\ spec[x] <= spec'[x] /\ applied[x] <= cur[x] /\ cur[x] <= spec[x]
    BY <1>2, SpecGrows DEF Ordered
  <2>2. CASE ChangeSpec
    BY <2>1, <2>2 DEF ChangeSpec, runVars
  <2>3. CASE Build
    BY <2>1, <2>3 DEF Build, crVars
  <2>4. CASE Finish
    BY <2>1, <2>4 DEF Finish, crVars, runVars
  <2>5. CASE ~ChangeSpec /\ ~Build /\ ~Finish
    BY <1>2, <2>1, <2>5, CRStays
  <2> QED
    BY <2>2, <2>3, <2>4, <2>5
<1> QED
  BY <1>1, <1>2

\* A reconcile gets past the wait only by reading the CR.
LEMMA EntersRun ==
    ASSUME TypeOK, [Next]_vars, ~Build, pc' \in Steps \ {"wait", "read"}
    PROVE  pc \in Steps \ {"wait", "read"}
<1>1. CASE UNCHANGED vars
  BY <1>1 DEF vars
<1>2. CASE Operator
  BY <1>2 DEF Operator, StartReconcile, MainReady, Requeue, SkipStep,
              AddServicesUsers, CreatePVC, ScaleDown, Drained, ScaleUp, Started,
              NotStarted, DrainedAgain, AwaitGrown, BackupService, DbaasService,
              PrometheusExporterService, CreateService, BackupDeployment,
              DbaasDeployment, PrometheusExporterDeployment, CreateDeployment,
              Await, GrantRoleToUser, RobotDeployment, Finish, To, At, Steps, StepAfter
<1>3. CASE ~Operator /\ Next
  BY <1>3 DEF Next, Main, Kube, MainStarts, MainEnds, VolumeGrows, PodStarts, PodStops,
              Crash, Redeploy, ChangeSpec, Rollback, MainDisturbed, BackupSick,
              BackupWell, OtherSiteAddsUsers, Steps
<1> QED
  BY <1>1, <1>2, <1>3

\* A change of the CR is never overlooked: it leaves a reconcile due.
LEMMA PendingStays ==
    ASSUME TypeOK, [Next]_vars, ~pending'
    PROVE  /\ ~pending \/ StartReconcile
           /\ spec' = spec
<1> USE DEF crVars, runVars, kubeVars, volVars, userVars, envVars
<1>1. CASE UNCHANGED vars
  BY <1>1 DEF vars
<1>0. ~Requeue
  BY DEF Requeue, QueuedAgain
<1>4. CASE StartReconcile
  BY <1>4 DEF StartReconcile
<1>2. CASE Operator /\ ~StartReconcile
  <2>1. pending' = pending /\ spec' = spec
    BY <1>0, <1>2 DEF Operator, MainReady, SkipStep, Build,
              AddServicesUsers, CreatePVC, ScaleDown, Drained, ScaleUp, Started,
              NotStarted, DrainedAgain, AwaitGrown, BackupService, DbaasService,
              PrometheusExporterService, CreateService, BackupDeployment,
              DbaasDeployment, PrometheusExporterDeployment, CreateDeployment,
              Await, GrantRoleToUser, RobotDeployment, Finish
  <2> QED
    BY <2>1
<1>3. CASE ~Operator /\ Next
  BY <1>3 DEF Next, Main, Kube, MainStarts, MainEnds, VolumeGrows, PodStarts, PodStops,
              Crash, Redeploy, ChangeSpec, Rollback, MainDisturbed, BackupSick,
              BackupWell, OtherSiteAddsUsers
<1> QED
  BY <1>1, <1>2, <1>3, <1>4

LEMMA UntouchedStep ==
    ASSUME TypeOK, Untouched, [Next]_vars
    PROVE  Untouched'
<1> SUFFICES ASSUME ~pending' PROVE Untouched'
  BY DEF Untouched
<1>1. CASE StartReconcile
  BY <1>1 DEF StartReconcile, Untouched
<1>2. CASE ~StartReconcile
  <2>1. ~pending /\ spec' = spec /\ ~ChangeSpec /\ ~Rollback
    BY <1>2, PendingStays DEF ChangeSpec, Rollback
  <2>2. CASE Build
    BY <2>1, <2>2 DEF Build, Untouched, To, Abort
  <2>3. CASE Finish
    BY <2>1, <2>3 DEF Finish, Untouched, runVars, Steps
  <2>4. CASE ~Build /\ ~Finish
    <3>1. UNCHANGED <<spec, applied, cur>>
      BY <2>1, <2>4, CRStays
    <3>2. ASSUME pc' \in Steps \ {"wait", "read"} PROVE cur' = spec'
      BY <2>1, <2>4, <3>1, <3>2, EntersRun DEF Untouched
    <3>3. ASSUME status' = "done" PROVE applied' = spec'
      BY <2>1, <2>4, <3>1, <3>3, DoneByFinish DEF Untouched
    <3> QED
      BY <3>2, <3>3 DEF Untouched
  <2> QED
    BY <2>2, <2>3, <2>4
<1> QED
  BY <1>1, <1>2

\* The steps of a service run only if it has something to do.
LEMMA WorksOnChanged ==
    ASSUME NEW st, Of(st) # "none", At(st)
    PROVE  Of(st) \in ServicesUsers /\ Changed(Of(st))
BY DEF At, Condition, Installed, ServicesUsers, Of, Svcs

\* A service with nothing to do stays in place, whatever is done to others.
LEMMA InPlaceStays ==
    ASSUME TypeOK, Reached, [Next]_vars, applied' = applied,
           NEW s \in ServicesUsers, ~Changed(s), InPlace(s)
    PROVE  InPlace(s)'
<1> USE DEF crVars, runVars, kubeVars, volVars, userVars, envVars
<1>0. /\ s \in Svcs /\ deployed \in [Svcs -> Versions \X Versions]
      /\ replicas \in [Svcs -> 0..1] /\ pods \in [Svcs -> SUBSET (Versions \X Versions)]
  BY DEF TypeOK, ServicesUsers
<1>1. cfg' = cfg
  BY RoleGrows
<1>2. ASSUME UNCHANGED <<service, deployed, replicas, pods, claim, volume>>
      PROVE  InPlace(s)'
  BY <1>1, <1>2 DEF InPlace, numberOfReplicas
<1>3. ASSUME s # "backup", UNCHANGED <<service, deployed, pods>>,
             replicas'[s] = replicas[s]
      PROVE  InPlace(s)'
  BY <1>1, <1>3 DEF InPlace, numberOfReplicas
<1>4. CASE UNCHANGED vars
  BY <1>2, <1>4 DEF vars
<1>5. CASE CreatePVC
  <2>1. s # "backup"
    BY <1>5, WorksOnChanged DEF CreatePVC, Of
  <2> QED
    BY <1>3, <1>5, <2>1 DEF CreatePVC
<1>6. CASE ScaleDown \/ ScaleUp \/ NotStarted
  <2>1. CASE s = "backup"
    <3>1. ~ScaleDown
      BY <2>1, WorksOnChanged DEF ScaleDown, Of
    <3>2. pc \in Restarting
      BY <1>6, <3>1 DEF ScaleUp, NotStarted, At, Restarting
    <3> QED
      BY <2>1, <3>2 DEF Reached
  <2>2. CASE s # "backup"
    <3>1. UNCHANGED <<service, deployed, pods>>
      BY <1>6 DEF ScaleDown, ScaleUp, NotStarted
    <3>2. replicas'[s] = replicas[s]
      BY <1>0, <1>6, <2>2 DEF ScaleDown, ScaleUp, NotStarted
    <3> QED
      BY <1>3, <2>2, <3>1, <3>2
  <2> QED
    BY <2>1, <2>2
<1>7. CASE BackupService \/ DbaasService \/ PrometheusExporterService
  <2>1. PICK st \in {"backupSvc", "dbaasSvc", "exporterSvc"} : CreateService(st)
    BY <1>7 DEF BackupService, DbaasService, PrometheusExporterService
  <2>2. s # Of(st)
    BY <2>1, WorksOnChanged DEF CreateService, Of
  <2>3. s \in service' <=> s \in service
    BY <2>1, <2>2 DEF CreateService
  <2>4. UNCHANGED <<deployed, replicas, pods, claim, volume>>
    BY <2>1 DEF CreateService
  <2> QED
    BY <1>1, <2>3, <2>4 DEF InPlace, numberOfReplicas
<1>8. CASE BackupDeployment \/ DbaasDeployment \/ PrometheusExporterDeployment
  <2>1. PICK st \in {"backup", "dbaas", "exporter"} : CreateDeployment(st)
    BY <1>8 DEF BackupDeployment, DbaasDeployment, PrometheusExporterDeployment
  <2>2. s # Of(st) /\ Of(st) \in Svcs
    BY <2>1, WorksOnChanged DEF CreateDeployment, Of, ServicesUsers
  <2>3. deployed'[s] = deployed[s] /\ replicas'[s] = replicas[s]
    BY <1>0, <2>1, <2>2 DEF CreateDeployment
  <2>4. UNCHANGED <<service, pods, claim, volume>>
    BY <2>1 DEF CreateDeployment
  <2> QED
    BY <1>1, <2>3, <2>4 DEF InPlace, numberOfReplicas
<1>9. CASE VolumeGrows
  <2>1. s # "backup"
    BY <1>9 DEF InPlace, VolumeGrows
  <2> QED
    BY <1>3, <1>9, <2>1 DEF VolumeGrows
<1>10. CASE \E r \in Svcs : PodStarts(r) \/ PodStops(r)
  <2>1. PICK r \in Svcs : PodStarts(r) \/ PodStops(r)
    BY <1>10
  <2>2. UNCHANGED <<service, deployed, replicas, claim, volume>>
    BY <2>1 DEF PodStarts, PodStops
  <2>3. s = "backup" => pods'[s] \subseteq {deployed[s]}
    BY <1>0, <2>1 DEF PodStarts, PodStops, InPlace
  <2> QED
    BY <1>1, <2>2, <2>3 DEF InPlace, numberOfReplicas
<1>11. CASE /\ Operator /\ ~CreatePVC /\ ~ScaleDown /\ ~ScaleUp /\ ~NotStarted
            /\ ~BackupService /\ ~DbaasService /\ ~PrometheusExporterService
            /\ ~BackupDeployment /\ ~DbaasDeployment /\ ~PrometheusExporterDeployment
  <2>1. UNCHANGED <<service, deployed, replicas, pods, claim, volume>>
    BY <1>11 DEF Operator, StartReconcile, MainReady, Requeue, Build, SkipStep,
              AddServicesUsers, Drained, Started, DrainedAgain, AwaitGrown,
              Await, GrantRoleToUser, RobotDeployment, Finish
  <2> QED
    BY <1>2, <2>1
<1>12. CASE ~Operator /\ ~Kube /\ Next
  <2>1. UNCHANGED <<service, deployed, replicas, pods, claim, volume>>
    BY <1>12 DEF Next, Main, MainStarts, MainEnds, Crash, Redeploy, ChangeSpec,
              Rollback, MainDisturbed, BackupSick, BackupWell, OtherSiteAddsUsers
  <2> QED
    BY <1>2, <2>1
<1> QED
  BY <1>4, <1>5, <1>6, <1>7, <1>8, <1>9, <1>10, <1>11, <1>12 DEF Kube

\* The services with nothing to do are in place after every step.
LEMMA KeptStep ==
    ASSUME TypeOK, Ordered, Reached, Kept, [Next]_vars
    PROVE  Kept'
<1>1. cfg' = cfg /\ ServicesUsers' = ServicesUsers
  BY RoleGrows DEF ServicesUsers
<1>2. CASE Rollback
  BY <1>2 DEF Rollback, Kept
<1>3. CASE ~Rollback
  <2> SUFFICES ASSUME ~reverted, NEW s \in ServicesUsers, ~Differs(s)'
               PROVE  InPlace(s)'
    BY <1>1, <1>3, SpecGrows DEF Kept
  <2>0. /\ s \in Svcs /\ {s, "common", "size"} \subseteq Sections
        /\ s \in cfg.installed
    BY DEF ServicesUsers, Svcs, Sections
  <2>1. \A x \in {s, "common", "size"} :
            /\ spec[x] \in Nat /\ spec'[x] \in Nat /\ applied[x] \in Nat /\ cur[x] \in Nat
            /\ spec[x] <= spec'[x] /\ applied[x] <= cur[x] /\ cur[x] <= spec[x]
    BY <1>3, <2>0, SpecGrows DEF Ordered
  <2>2. CASE Finish
    <3>1. /\ applied' = cur /\ pc = "finish"
          /\ UNCHANGED <<spec, service, deployed, replicas, pods, claim, volume, cfg>>
      BY <2>2 DEF Finish, crVars, kubeVars, volVars, envVars
    <3>2. CASE Changed(s)
      <4>1. /\ "finish" \in PastService(s) /\ "finish" \in PastDeployment(s)
            /\ "finish" \in PastClaim /\ "finish" \in PastGrown /\ "finish" \in PastRollout
        BY DEF PastService, PastDeployment, PastExporter, PastExporterSvc, PastDbaas,
               PastDbaasSvc, PastRollout, PastBackup, PastBackupSvc, PastGrown, PastClaim
      <4>2. /\ s \in service /\ deployed[s] = <<cur[s], cur.common>>
            /\ replicas[s] = numberOfReplicas(s)
        BY <3>1, <3>2, <4>1 DEF Reached, Template
      <4>3. s = "backup" => /\ claim = cur.size /\ volume = cur.size
                            /\ pods[s] \subseteq {deployed[s]}
        BY <2>0, <3>1, <3>2, <4>1 DEF Reached, Installed
      <4> QED
        BY <3>1, <4>2, <4>3 DEF InPlace, numberOfReplicas
    <3>3. CASE ~Changed(s)
      <4>1. ~Differs(s)
        BY <3>1, <3>3 DEF Differs, Changed
      <4>2. InPlace(s)
        BY <4>1 DEF Kept
      <4> QED
        BY <3>1, <3>3, <4>2 DEF InPlace, Changed, numberOfReplicas
    <3> QED
      BY <3>2, <3>3
  <2>3. CASE ~Finish
    <3>1. applied' = applied
      <4>1. CASE Build \/ ChangeSpec
        BY <4>1 DEF Build, ChangeSpec
      <4> QED
        BY <1>3, <2>3, <4>1, CRStays
    <3>2. \A x \in {s, "common", "size"} :
              spec'[x] = applied[x] => spec[x] = applied[x] /\ cur[x] = applied[x]
      BY <2>1
    <3>3. spec'[s] = applied[s] /\ spec'["common"] = applied["common"]
          /\ (s = "backup" => spec'["size"] = applied["size"])
      BY <3>1 DEF Differs
    <3>4. ~Differs(s) /\ ~Changed(s)
      BY <3>2, <3>3 DEF Differs, Changed
    <3> QED
      BY <3>1, <3>4, InPlaceStays DEF Kept
  <2> QED
    BY <2>2, <2>3
<1> QED
  BY <1>2, <1>3

\* A step that goes on without touching the services keeps what the reconcile
\* has reached, if it is not one that had to do something first.
LEMMA GoesOn ==
    ASSUME TypeOK, Reached, cfg' = cfg, pc \in DOMAIN StepAfter, pc' = StepAfter[pc],
           UNCHANGED <<cur, applied, service, deployed, replicas, pods, claim, volume>>,
           \A s \in ServicesUsers : Changed(s) =>
              /\ pc # "backupSvc" \/ s # "backup"
              /\ pc # "dbaasSvc" \/ s # "dbaas"
              /\ pc # "exporterSvc" \/ s # "exporter"
              /\ pc # "backup" \/ s # "backup"
              /\ pc # "dbaas" \/ s # "dbaas"
              /\ pc # "exporter" \/ s # "exporter"
              /\ pc # "pvc" \/ s # "backup"
              /\ pc \notin {"expand", "grown"} \/ s # "backup" \/ volume = claim
              /\ pc # "awaitBackup" \/ s # "backup"
                 \/ pods["backup"] \subseteq {deployed["backup"]}
    PROVE  Reached'
<1>0. /\ ServicesUsers' = ServicesUsers
      /\ \A s : Changed(s)' = Changed(s) /\ Template(s)' = Template(s)
      /\ \A s : numberOfReplicas(s)' = numberOfReplicas(s)
      /\ \A s : Installed(s)' = Installed(s)
  BY DEF ServicesUsers, Changed, Template, numberOfReplicas, Installed
<1>1. ASSUME NEW s \in ServicesUsers, Changed(s)
      PROVE  /\ pc' \in PastService(s) => s \in service
             /\ pc' \in PastDeployment(s) => /\ deployed[s] = Template(s)
                                             /\ replicas[s] = numberOfReplicas(s)
  <2>1. s \in {"backup", "dbaas", "exporter"}
    BY DEF ServicesUsers, Svcs
  <2>2. pc' \in PastService(s) => pc \in PastService(s)
    BY <1>1, <2>1, PastFacts DEF PastService
  <2>3. pc' \in PastDeployment(s) => pc \in PastDeployment(s)
    BY <1>1, <2>1, PastFacts DEF PastDeployment
  <2> QED
    BY <1>1, <2>2, <2>3 DEF Reached
<1>2. ASSUME Installed("backup"), Changed("backup")
      PROVE  /\ pc' \in PastClaim => claim = cur.size
             /\ pc' \in PastGrown => volume = cur.size
             /\ pc' \in PastRollout => pods["backup"] \subseteq {deployed["backup"]}
  <2>1. "backup" \in ServicesUsers
    BY <1>2 DEF Installed, ServicesUsers, Svcs
  <2>2. pc' \in PastClaim => claim = cur.size
    BY <1>2, <2>1, PastFacts DEF Reached
  <2>3. {"expand", "grown"} \subseteq PastClaim
    BY DEF PastClaim, Restarting
  <2>4. pc' \in PastGrown => volume = cur.size
    BY <1>2, <2>1, <2>3, PastFacts DEF Reached
  <2>5. pc' \in PastRollout => pods["backup"] \subseteq {deployed["backup"]}
    BY <1>2, <2>1, PastFacts DEF Reached
  <2> QED
    BY <2>2, <2>4, <2>5
<1>3. pc' \in Restarting => Installed("backup") /\ Changed("backup")
  BY PastFacts DEF Reached
<1> QED
  BY <1>0, <1>1, <1>2, <1>3 DEF Reached

\* A service's own steps bring it to where the next one needs it.
LEMMA ReachedStep ==
    ASSUME TypeOK, Reached, cfg.mode # Disable, [Next]_vars
    PROVE  Reached'
<1> USE DEF crVars, runVars, kubeVars, volVars, userVars, envVars
<1>0. /\ deployed \in [Svcs -> Versions \X Versions] /\ service \subseteq Svcs
      /\ replicas \in [Svcs -> 0..1] /\ pods \in [Svcs -> SUBSET (Versions \X Versions)]
  BY DEF TypeOK
<1>1. cfg' = cfg /\ ServicesUsers' = ServicesUsers
      /\ (\A s : Installed(s)' = Installed(s))
      /\ (\A s : numberOfReplicas(s)' = numberOfReplicas(s))
  BY RoleGrows DEF ServicesUsers, Installed, numberOfReplicas
<1>2. ASSUME Abort PROVE Reached'
  BY <1>2, NotReached, PastInClaim DEF Abort
<1>3. CASE UNCHANGED vars
  BY <1>3 DEF vars, Reached, ServicesUsers, Changed, Template, numberOfReplicas, Installed
<1>4. CASE StartReconcile \/ MainReady \/ Requeue \/ Finish \/ Crash
  BY <1>4, NotReached, PastInClaim DEF StartReconcile, MainReady, Requeue, Finish, Crash, To
<1>5. CASE Build
  BY <1>5, NotReached, PastInClaim DEF Build, To, Abort
<1>6. CASE SkipStep
  <2>1. ASSUME NEW s \in ServicesUsers, Changed(s)
        PROVE  /\ s = "backup" => pc \notin {"pvc", "expand", "backupSvc", "backup", "awaitBackup"}
               /\ s = "dbaas" => pc \notin {"dbaasSvc", "dbaas"}
               /\ s = "exporter" => pc \notin {"exporterSvc", "exporter"}
    BY <1>6, <2>1 DEF SkipStep, Condition, Of, ServicesUsers, Installed
  <2>2. pc # "grown"
    BY <1>6 DEF SkipStep, Condition, Of
  <2>3. /\ pc \in DOMAIN StepAfter /\ pc' = StepAfter[pc]
        /\ UNCHANGED <<cur, applied, service, deployed, replicas, pods, claim, volume>>
    BY <1>6 DEF SkipStep, GoOn, To
  <2> QED
    BY <1>1, <2>1, <2>2, <2>3, GoesOn
<1>7. CASE \/ AddServicesUsers("users") \/ AddServicesUsers("usersAgain")
           \/ Drained \/ Started \/ DrainedAgain \/ AwaitGrown \/ GrantRoleToUser
           \/ RobotDeployment
           \/ \E st \in {"awaitBackup", "awaitDbaas", "awaitExporter"} : Await(st)
  <2>1. GoOn \/ Abort
    BY <1>7 DEF AddServicesUsers, RoleFailed, Drained, Started, DrainedAgain,
                AwaitGrown, GrantRoleToUser, RobotDeployment, Await, OrFails
  <2> SUFFICES ASSUME GoOn, ~Abort PROVE Reached'
    BY <1>2, <2>1
  <2>2. pc \in {"users", "usersAgain", "drain", "ready", "redrain", "grown", "grant",
                "robot", "awaitBackup", "awaitDbaas", "awaitExporter"}
    BY <1>7 DEF AddServicesUsers, Drained, Started, DrainedAgain,
                AwaitGrown, GrantRoleToUser, RobotDeployment, Await, At
  <2>3. /\ pc \in DOMAIN StepAfter /\ pc' = StepAfter[pc]
        /\ UNCHANGED <<cur, applied, service, deployed, replicas, pods, claim, volume>>
    BY <1>7, <2>2 DEF AddServicesUsers, Drained, Started, DrainedAgain,
                AwaitGrown, GrantRoleToUser, RobotDeployment, Await, GoOn, To, StepAfter
  <2>4. pc = "grown" => volume = claim
    BY <1>7 DEF AddServicesUsers, Drained, Started, DrainedAgain,
                AwaitGrown, GrantRoleToUser, RobotDeployment, Await, OrFails, At
  <2>5. ASSUME pc = "awaitBackup" PROVE pods["backup"] \subseteq {deployed["backup"]}
    <3>1. Await("awaitBackup")
      BY <1>7, <2>5 DEF AddServicesUsers, Drained, Started, DrainedAgain,
                AwaitGrown, GrantRoleToUser, RobotDeployment, Await, At
    <3>2. RolloutComplete("backup")
      BY <3>1 DEF Await, OrFails, Of
    <3> QED
      BY <3>2 DEF RolloutComplete
  <2> QED
    BY <1>1, <2>2, <2>3, <2>4, <2>5, GoesOn
<1>8. CASE CreatePVC
  <2> SUFFICES ASSUME ~Abort PROVE Reached'
    BY <1>2
  <2>1. /\ pc' = "expand" /\ claim' = cur.size
        /\ UNCHANGED <<cur, applied>>
    BY <1>8 DEF CreatePVC, At, GoOn, To, StepAfter
  <2>2. /\ "expand" \notin PastGrown /\ "expand" \notin Restarting
        /\ \A s \in Svcs : "expand" \notin PastService(s) /\ "expand" \notin PastDeployment(s)
    BY DEF PastService, PastDeployment, PastExporter, PastExporterSvc, PastDbaas,
           PastDbaasSvc, PastRollout, PastBackup, PastBackupSvc, PastGrown, Restarting
  <2> QED
    BY <1>1, <2>1, <2>2, PastInClaim DEF Reached, ServicesUsers
<1>9. CASE ScaleDown \/ ScaleUp \/ NotStarted
  <2> SUFFICES ASSUME ~Abort PROVE Reached'
    BY <1>2
  <2>0. Installed("backup") /\ Changed("backup") /\ pc \in PastClaim
    <3>1. CASE ScaleDown
      BY <3>1, WorksOnChanged DEF ScaleDown, Of, ServicesUsers, Installed, At, PastClaim
    <3>2. CASE ScaleUp \/ NotStarted
      BY <3>2 DEF ScaleUp, NotStarted, At, Reached, Restarting, PastClaim
    <3> QED
      BY <1>9, <3>1, <3>2
  <2>1. claim = cur.size
    BY <2>0 DEF Reached
  <2>2. UNCHANGED <<cur, applied, service, deployed, pods, claim, volume>>
    BY <1>9 DEF ScaleDown, ScaleUp, NotStarted
  <2>3. \/ pc' \in Restarting
        \/ pc' = "backupSvc" /\ claim = volume
    BY <1>9 DEF ScaleDown, ScaleUp, NotStarted, At, GoOn, To, StepAfter, Restarting
  <2>4. Changed("backup")'
    BY <2>0, <2>2 DEF Changed
  <2>5. \A st \in Restarting \cup {"backupSvc"} :
            /\ st \notin PastRollout
            /\ \A s \in Svcs : st \notin PastService(s) /\ st \notin PastDeployment(s)
    BY DEF PastService, PastDeployment, PastExporter, PastExporterSvc, PastDbaas,
           PastDbaasSvc, PastRollout, PastBackup, PastBackupSvc, Restarting
  <2>6. \A st \in Restarting : st \notin PastGrown
    BY DEF PastExporter, PastExporterSvc, PastDbaas, PastDbaasSvc, PastRollout,
           PastBackup, PastBackupSvc, PastGrown, Restarting
  <2> QED
    BY <1>1, <2>0, <2>1, <2>2, <2>3, <2>4, <2>5, <2>6 DEF Reached, ServicesUsers
<1>10. CASE BackupService \/ DbaasService \/ PrometheusExporterService
  <2> SUFFICES ASSUME ~Abort PROVE Reached'
    BY <1>2
  <2>1. PICK st \in {"backupSvc", "dbaasSvc", "exporterSvc"} : CreateService(st)
    BY <1>10 DEF BackupService, DbaasService, PrometheusExporterService
  <2>2. /\ pc = st /\ pc \in DOMAIN StepAfter /\ pc' = StepAfter[pc]
        /\ service' = service \cup {Of(st)}
        /\ UNCHANGED <<cur, applied, deployed, replicas, pods, claim, volume>>
    BY <2>1 DEF CreateService, At, GoOn, To, StepAfter
  <2>3. \A s : Changed(s)' = Changed(s) /\ Template(s)' = Template(s)
    BY <2>2 DEF Changed, Template
  <2>4. ASSUME NEW s \in ServicesUsers, Changed(s), pc' \in PastService(s)
        PROVE  s \in service'
    <3>1. s \in {"backup", "dbaas", "exporter"}
      BY DEF ServicesUsers, Svcs
    <3>2. pc \in PastService(s) \/ s = Of(st)
      BY <2>2, <2>4, <3>1, PastFacts DEF PastService, Of
    <3> QED
      BY <2>2, <2>4, <3>2 DEF Reached
  <2>5. ASSUME NEW s \in ServicesUsers, Changed(s), pc' \in PastDeployment(s)
        PROVE  deployed[s] = Template(s) /\ replicas[s] = numberOfReplicas(s)
    <3>1. s \in {"backup", "dbaas", "exporter"}
      BY DEF ServicesUsers, Svcs
    <3>2. pc \in PastDeployment(s)
      BY <2>2, <2>5, <3>1, PastFacts DEF PastDeployment
    <3> QED
      BY <2>5, <3>2 DEF Reached
  <2>6. ASSUME Installed("backup"), Changed("backup")
        PROVE  /\ pc' \in PastClaim => claim = cur.size
               /\ pc' \in PastGrown => volume = cur.size
               /\ pc' \in PastRollout => pods["backup"] \subseteq {deployed["backup"]}
    BY <2>2, <2>6, PastFacts DEF Reached
  <2>7. pc' \notin Restarting
    BY <2>2 DEF StepAfter, Restarting
  <2> QED
    BY <1>1, <2>2, <2>3, <2>4, <2>5, <2>6, <2>7 DEF Reached
<1>11. CASE BackupDeployment \/ DbaasDeployment \/ PrometheusExporterDeployment
  <2> SUFFICES ASSUME ~Abort PROVE Reached'
    BY <1>2
  <2>1. PICK st \in {"backup", "dbaas", "exporter"} : CreateDeployment(st)
    BY <1>11 DEF BackupDeployment, DbaasDeployment, PrometheusExporterDeployment
  <2>2. /\ pc = st /\ pc \in DOMAIN StepAfter /\ pc' = StepAfter[pc] /\ Of(st) = st
        /\ deployed' = [deployed EXCEPT ![st] = Template(st)]
        /\ replicas' = [replicas EXCEPT ![st] = numberOfReplicas(st)]
        /\ UNCHANGED <<cur, applied, service, pods, claim, volume>>
    BY <2>1 DEF CreateDeployment, At, GoOn, To, StepAfter, Of
  <2>3. \A s : Changed(s)' = Changed(s) /\ Template(s)' = Template(s)
    BY <2>2 DEF Changed, Template
  <2>4. ASSUME NEW s \in ServicesUsers, Changed(s), pc' \in PastService(s)
        PROVE  s \in service
    <3>1. s \in {"backup", "dbaas", "exporter"}
      BY DEF ServicesUsers, Svcs
    <3>2. pc \in PastService(s)
      BY <2>2, <2>4, <3>1, PastFacts DEF PastService
    <3> QED
      BY <2>4, <3>2 DEF Reached
  <2>5. ASSUME NEW s \in ServicesUsers, Changed(s), pc' \in PastDeployment(s)
        PROVE  deployed'[s] = Template(s) /\ replicas'[s] = numberOfReplicas(s)
    <3>1. s \in {"backup", "dbaas", "exporter"} /\ s \in Svcs
      BY DEF ServicesUsers, Svcs
    <3>2. pc \in PastDeployment(s) \/ s = st
      BY <2>2, <2>5, <3>1, PastFacts DEF PastDeployment
    <3>3. CASE s = st
      BY <1>0, <2>2, <3>1, <3>3
    <3>4. CASE s # st
      BY <1>0, <2>2, <2>5, <3>1, <3>2, <3>4 DEF Reached
    <3> QED
      BY <3>3, <3>4
  <2>6. ASSUME Installed("backup"), Changed("backup")
        PROVE  /\ pc' \in PastClaim => claim = cur.size
               /\ pc' \in PastGrown => volume = cur.size
    BY <2>2, <2>6, PastFacts DEF Reached
  <2>7. ASSUME Installed("backup"), Changed("backup"), pc' \in PastRollout
        PROVE  pods["backup"] \subseteq {deployed'["backup"]}
    <3>1. pc \in PastRollout
      BY <2>2, <2>7, PastFacts
    <3>2. pc # "backup"
      BY <3>1 DEF PastRollout, PastDbaasSvc, PastDbaas, PastExporterSvc, PastExporter
    <3>3. deployed'["backup"] = deployed["backup"]
      BY <1>0, <2>2, <3>2 DEF Svcs
    <3> QED
      BY <2>7, <3>1, <3>3 DEF Reached
  <2>8. pc' \notin Restarting
    BY <2>2 DEF StepAfter, Restarting
  <2> QED
    BY <1>1, <2>2, <2>3, <2>4, <2>5, <2>6, <2>7, <2>8 DEF Reached
<1>12. CASE Kube
  <2>1. UNCHANGED <<cur, applied, service, deployed, replicas, claim, pc>>
    BY <1>12 DEF Kube, VolumeGrows, PodStarts, PodStops
  <2>2. \A s : Changed(s)' = Changed(s) /\ Template(s)' = Template(s)
    BY <2>1 DEF Changed, Template
  <2>3. volume' \in {volume, claim}
    BY <1>12 DEF Kube, VolumeGrows, PodStarts, PodStops
  <2>4. ASSUME pods["backup"] \subseteq {deployed["backup"]}
        PROVE  pods'["backup"] \subseteq {deployed["backup"]}
    <3>1. CASE VolumeGrows
      BY <2>4, <3>1 DEF VolumeGrows
    <3>2. CASE \E s \in Svcs : PodStarts(s) \/ PodStops(s)
      BY <1>0, <2>4, <3>2 DEF PodStarts, PodStops, Svcs
    <3> QED
      BY <1>12, <3>1, <3>2 DEF Kube
  <2> QED
    BY <1>1, <2>1, <2>2, <2>3, <2>4, PastInClaim DEF Reached
<1>13. CASE ~Operator /\ ~Kube /\ ~Crash /\ Next
  <2>1. UNCHANGED <<cur, applied, service, deployed, replicas, claim, volume, pods, pc>>
    BY <1>13 DEF Next, Main, MainStarts, MainEnds, Redeploy, ChangeSpec,
              Rollback, MainDisturbed, BackupSick, BackupWell, OtherSiteAddsUsers
  <2>2. \A s : Changed(s)' = Changed(s) /\ Template(s)' = Template(s)
    BY <2>1 DEF Changed, Template
  <2> QED
    BY <1>1, <2>1, <2>2 DEF Reached
<1> QED
  BY <1>3, <1>4, <1>5, <1>6, <1>7, <1>8, <1>9, <1>10, <1>11, <1>12, <1>13 DEF Operator

\* Success means that the CR is carried out, in every deployment, for any
\* number of changes and failures: what a reconcile skips as unchanged is in
\* place, although it compares with the CR of the last success and not with
\* what a failed attempt has left behind.
THEOREM DoneIsDeployedAlways == Spec => []DoneIsDeployed
<1>1. Init => DeployInv
  <2> SUFFICES ASSUME Init PROVE Ordered /\ Untouched /\ Kept /\ Reached
    BY DEF DeployInv
  <2>1. pc = "idle" /\ pending /\ applied = cur
    BY DEF Init
  <2>2. \A x \in Sections : spec[x] = 1 /\ applied[x] = 0
    BY DEF Init
  <2>3. Ordered
    BY <2>1, <2>2 DEF Ordered
  <2>4. Kept
    BY <2>2 DEF Kept, Differs, Sections
  <2>5. Reached
    BY <2>1, PastInClaim DEF Reached, ServicesUsers
  <2> QED
    BY <2>1, <2>3, <2>4, <2>5 DEF Untouched
<1>2. TypeOK /\ DeployInv /\ [Next]_vars => DeployInv'
  <2> SUFFICES ASSUME TypeOK, DeployInv, [Next]_vars PROVE DeployInv'
    OBVIOUS
  <2>1. cfg' = cfg
    BY RoleGrows
  <2> QED
    BY <2>1, OrderedStep, UntouchedStep, KeptStep, ReachedStep DEF DeployInv
<1>3. TypeOK /\ DeployInv => DoneIsDeployed
  <2> SUFFICES ASSUME TypeOK, DeployInv, status = "done", ~pending, ~reverted,
                      cfg.mode # Disable
               PROVE  /\ \A s \in ServicesUsers : AsSpecified(s)
                      /\ Installed("backup") =>
                            /\ pods["backup"] \subseteq {deployed["backup"]}
                            /\ volume = spec.size
    BY DEF DoneIsDeployed, ServicesUsers
  <2>1. applied = spec
    BY DEF DeployInv, Untouched
  <2>2. \A s \in ServicesUsers : InPlace(s)
    BY <2>1 DEF DeployInv, Kept, Differs
  <2>3. Installed("backup") => "backup" \in ServicesUsers
    BY DEF Installed, ServicesUsers, Svcs
  <2> QED
    BY <2>1, <2>2, <2>3 DEF InPlace, AsSpecified
<1> QED
  BY <1>1, <1>2, <1>3, SupplTypeCorrect, PTL DEF Spec

=============================================================================

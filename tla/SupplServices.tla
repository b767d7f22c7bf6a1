---------------------------- MODULE SupplServices ----------------------------
(***************************************************************************)
(* The supplementary services operator: it waits for the MongoDB CR to be  *)
(* successful, then creates the users of the services and deploys backup   *)
(* daemon, DBaaS adapter, exporter and tests, each only if its section of  *)
(* the CR differs from the one applied last.                               *)
(*                                                                         *)
(* Modelled: the reconcile of one site step by step, with the restart of   *)
(* the backup daemon for a volume that grows, errors that are swallowed    *)
(* and reported, operators killed, CRs that change during a reconcile, and *)
(* pods that start and stop at their own pace.                             *)
(*                                                                         *)
(* Simplifications: a section of the CR is its version; the backup and the *)
(* restore user are one; config maps are part of the step that follows;    *)
(* the mode stays as it was installed, and the main operator, which scales *)
(* the same deployments in a switchover, is in Switchover.                 *)
(***************************************************************************)
EXTENDS Naturals, FiniteSets

CONSTANTS Deployments, \* the deployments considered: see DeploymentType
          MaxChanges,  \* bound: changes of the CR
          MaxMain,     \* bound: updates and failures of the MongoDB CR
          MaxFaults    \* bound: failing calls, timeouts, operators killed

Active  == "active"
Standby == "standby"
Disable == "disable"
HA      == "ha"
DR      == "dr"

Svcs     == {"backup", "dbaas", "exporter"}
Sections == Svcs \cup {"size", "common"}   \* size: of the backup volume
Versions == 0..(MaxChanges + 1)
None     == <<0, 0>>                       \* not deployed
Clean    == "clean"
Update   == "update"

maxAttempts == 5

DeploymentType == [schema : {HA, DR}, mode : {Active, Standby, Disable},
                   sharded : BOOLEAN, installed : SUBSET (Svcs \cup {"robot"})]

ASSUME SupplAssumption ==
    /\ Deployments \subseteq DeploymentType
    /\ \A d \in Deployments : d.schema = HA => d.mode = Active
    /\ MaxChanges \in Nat /\ MaxMain \in Nat /\ MaxFaults \in Nat

VARIABLES
    cfg,      \* the deployment
    main,     \* status of the MongoDB CR
    spec,     \* the CR: the version of every section
    applied,  \* the CR of the last successful reconcile
    cur,      \* the CR as the running reconcile has read it
    pending,  \* a reconcile is due
    status,   \* what the CR reports
    pc,       \* the step to run next, or "idle"
    type,     \* deployment type in the context of the running compound
    attempt,  \* attempts to start the backup daemon on the grown volume
    service,  \* Service objects that exist
    deployed, \* deployed[s]: version in the Deployment of s
    replicas, \* replicas[s]: its replicas
    pods,     \* pods[s]: the ready pods of s, by version
    users,    \* services whose users exist in MongoDB
    role,     \* the role of the adapter's user exists
    claim,    \* size asked for by the claim of the backup volume
    volume,   \* size of the backup volume
    sick,     \* the backup daemon does not get ready
    reverted, \* history: the CR was set back to the one applied last
    changes, mains, faults

crVars   == <<spec, pending, reverted, changes>>
runVars  == <<cur, type, attempt>>
kubeVars == <<service, deployed, replicas>>
volVars  == <<claim, volume>>
userVars == <<users, role>>
envVars  == <<cfg, main, mains, sick>>
vars == <<crVars, runVars, kubeVars, volVars, userVars, envVars, applied,
          status, pc, pods, faults>>

Installed(s)  == s \in cfg.installed
ServicesUsers == cfg.installed \cap Svcs   \* every builder adds its user
ServicesRoles == Installed("dbaas")        \* the adapter's adds a role
Reachable    == cfg.mode = Active \/ ~cfg.sharded  \* mongos is at 0 elsewhere
Template(s)  == <<cur[s], cur.common>>

-----------------------------------------------------------------------------
(* The steps of MongoServiceBuilder.Build and their conditions. *)

Steps == {"wait", "read", "users", "pvc", "expand", "drain", "up", "ready",
          "redrain", "grown", "backupSvc", "backup", "awaitBackup", "grant",
          "dbaasSvc", "dbaas", "awaitDbaas", "exporterSvc", "exporter",
          "awaitExporter", "robot", "usersAgain", "finish"}

StepAfter ==
    [users |-> "pvc", pvc |-> "expand", expand |-> "backupSvc",
     drain |-> "up", up |-> "ready", ready |-> "grown", redrain |-> "up",
     grown |-> "backupSvc", backupSvc |-> "backup", backup |-> "awaitBackup",
     awaitBackup |-> "grant", grant |-> "dbaasSvc", dbaasSvc |-> "dbaas",
     dbaas |-> "awaitDbaas", awaitDbaas |-> "exporterSvc",
     exporterSvc |-> "exporter", exporter |-> "awaitExporter",
     awaitExporter |-> "robot", robot |-> "usersAgain",
     usersAgain |-> "finish"]

\* Which service a step belongs to.
Of(st) == CASE st \in {"pvc", "expand", "backupSvc", "backup", "awaitBackup"} -> "backup"
            [] st \in {"dbaasSvc", "dbaas", "awaitDbaas"} -> "dbaas"
            [] st \in {"exporterSvc", "exporter", "awaitExporter"} -> "exporter"
            [] OTHER -> "none"

Changed(s) == \/ cur[s] # applied[s] \/ cur.common # applied.common
              \/ s = "backup" /\ cur.size # applied.size

AddsUsers == cfg.mode = Active \/ cfg.schema # DR

\* Mutant: the users are added once.
ConditionUsersOnce(st) ==
    /\ Of(st) # "none" => Installed(Of(st)) /\ Changed(Of(st))
    /\ st = "users" => AddsUsers
    /\ st # "usersAgain"
    /\ st = "grant" => Installed("dbaas") /\ type = Update
    /\ st = "robot" => Installed("robot")

Condition(st) ==
    /\ Of(st) # "none" => Installed(Of(st)) /\ Changed(Of(st))
    /\ st \in {"users", "usersAgain"} => AddsUsers
    /\ st = "grant" => Installed("dbaas") /\ type = Update
    /\ st = "robot" => Installed("robot")

At(st) == pc = st /\ Condition(st)
To(st) == pc' = st /\ UNCHANGED status
GoOn   == To(StepAfter[pc])
Fault  == faults < MaxFaults /\ faults' = faults + 1
Abort  == pc' = "idle" /\ status' = "failed"

\* A step that may fail without having done anything.
OrFails(done) == \/ done /\ GoOn /\ UNCHANGED faults
                 \/ Fault /\ Abort

-----------------------------------------------------------------------------
Init ==
    /\ cfg \in Deployments
    /\ main = "absent" /\ mains = 0
    /\ spec = [x \in Sections |-> 1]
    /\ applied = [x \in Sections |-> 0] /\ cur = applied
    /\ pending = TRUE /\ status = "new" /\ pc = "idle"
    /\ type = Clean /\ attempt = 1
    /\ service = {}
    /\ deployed = [s \in Svcs |-> None]
    /\ replicas = [s \in Svcs |-> 0]
    /\ pods = [s \in Svcs |-> {}]
    /\ users = {} /\ role = FALSE
    /\ claim = 0 /\ volume = 0 /\ sick = FALSE
    /\ reverted = FALSE /\ changes = 0 /\ faults = 0

StartReconcile ==
    /\ pending /\ pc = "idle"
    /\ pending' = FALSE /\ status' = "running" /\ pc' = "wait"
    /\ UNCHANGED <<spec, reverted, changes, runVars, kubeVars, volVars,
                   userVars, envVars, applied, pods, faults>>

\* WaitForMongoDBOperatorReady: the MongoDB CR is successful ...
MainReady ==
    /\ pc = "wait" /\ main = "successful"
    /\ To("read")
    /\ UNCHANGED <<crVars, runVars, kubeVars, volVars, userVars, envVars,
                   applied, pods, faults>>

\* Mutant: the reconcile is over without being queued again.
QueuedAgainNot == pending

\* ... or it is not there, has failed, or is not through in ten minutes, and
\* the reconcile is put back (RequeueAfter).
QueuedAgain == TRUE

Requeue ==
    /\ pc = "wait" /\ main # "successful"
    /\ To("idle") /\ pending' = QueuedAgain
    /\ UNCHANGED <<spec, reverted, changes, runVars, kubeVars, volVars,
                   userVars, envVars, applied, pods, faults>>

\* The CR is read and the compound is built; a secret that cannot be read is
\* a panic.  In mode disable of a dr deployment the compound is empty.  Which
\* deployment type the context holds outside a microservice is left open.
Build ==
    /\ pc = "read"
    /\ cur' = spec /\ attempt' = 1
    /\ type' \in {Clean, Update}
    /\ \/ To(IF cfg.schema = DR /\ cfg.mode = Disable THEN "finish" ELSE "users")
          /\ UNCHANGED faults
       \/ Fault /\ Abort
    /\ UNCHANGED <<crVars, kubeVars, volVars, userVars, envVars, applied, pods>>

SkipStep ==
    /\ pc \in DOMAIN StepAfter /\ ~Condition(pc)
    /\ GoOn
    /\ UNCHANGED <<crVars, runVars, kubeVars, volVars, userVars, envVars,
                   applied, pods, faults>>

-----------------------------------------------------------------------------
\* Mutant: an error of the role is logged, like that of a user.
RoleFailedLogged == GoOn

\* What follows when the role of the adapter cannot be created.
RoleFailed == Abort

\* AddServicesUsers: the role first, whose error is reported, then the users,
\* whose errors are logged.
AddServicesUsers(st) ==
    /\ At(st)
    /\ \/ /\ GoOn /\ UNCHANGED faults
          /\ role' = (role \/ ServicesRoles)
          /\ users' = users \cup ServicesUsers
       \/ /\ GoOn /\ Fault
          /\ role' = (role \/ ServicesRoles)
          /\ \E us \in SUBSET ServicesUsers : users' = users \cup us
       \/ /\ ServicesRoles /\ Fault /\ RoleFailed
          /\ UNCHANGED <<role, users>>
    /\ UNCHANGED <<crVars, runVars, kubeVars, volVars, envVars, applied, pods>>

-----------------------------------------------------------------------------
(* The backup daemon: its claim, the restart for a grown volume. *)

CreatePVC ==
    /\ At("pvc")
    /\ type' = IF claim = 0 THEN Clean ELSE Update
    /\ \/ /\ claim' = cur.size
          /\ volume' = IF claim = 0 THEN cur.size ELSE volume
          /\ GoOn /\ UNCHANGED faults
       \/ Fault /\ Abort /\ UNCHANGED volVars
    /\ UNCHANGED <<crVars, cur, attempt, kubeVars, userVars, envVars, applied,
                   pods>>

\* OnNeedsRestart, if the volume has to grow and the daemon is deployed.
ScaleDown ==
    /\ At("expand")
    /\ \/ claim = volume /\ GoOn /\ UNCHANGED <<replicas, faults>>
       \/ claim # volume /\ deployed["backup"] = None /\ To("grown")
          /\ UNCHANGED <<replicas, faults>>
       \/ claim # volume /\ deployed["backup"] # None /\ To("drain")
          /\ replicas' = [replicas EXCEPT !["backup"] = 0] /\ UNCHANGED faults
       \/ /\ claim # volume /\ Fault /\ Abort
          /\ replicas' \in {replicas, [replicas EXCEPT !["backup"] = 0]}
    /\ UNCHANGED <<crVars, runVars, service, deployed, volVars, userVars,
                   envVars, applied, pods>>

Drained ==
    /\ At("drain") /\ OrFails(pods["backup"] = {})
    /\ UNCHANGED <<crVars, runVars, kubeVars, volVars, userVars, envVars,
                   applied, pods>>

\* The operator sleeps before it scales up, long enough for the volume to grow
\* unless something fails.
ScaleUp ==
    /\ At("up")
    /\ \/ /\ replicas' = [replicas EXCEPT !["backup"] = 1] /\ GoOn
          /\ volume = claim /\ UNCHANGED faults
       \/ /\ replicas' = [replicas EXCEPT !["backup"] = 1] /\ GoOn
          /\ volume # claim /\ Fault
       \/ Fault /\ Abort /\ UNCHANGED replicas
    /\ UNCHANGED <<crVars, runVars, service, deployed, volVars, userVars,
                   envVars, applied, pods>>

Started ==
    /\ At("ready") /\ pods["backup"] # {}
    /\ GoOn
    /\ UNCHANGED <<crVars, runVars, kubeVars, volVars, userVars, envVars,
                   applied, pods, faults>>

\* Mutant: one attempt too many.
MoreAttemptsLate == attempt <= maxAttempts

MoreAttempts == attempt < maxAttempts

\* Not ready in two minutes, or the poll fails: down again (an error is
\* ignored), or give up and leave the deployment scaled up.
NotStarted ==
    /\ At("ready")
    /\ \/ pods["backup"] = {} /\ sick /\ UNCHANGED faults
       \/ Fault
    /\ \/ /\ MoreAttempts /\ attempt' = attempt + 1
          /\ To("redrain")
          /\ \/ replicas' = [replicas EXCEPT !["backup"] = 0]
             \/ UNCHANGED replicas /\ faults' # faults
       \/ ~MoreAttempts /\ Abort /\ UNCHANGED <<replicas, attempt>>
    /\ UNCHANGED <<crVars, cur, type, service, deployed, volVars, userVars,
                   envVars, applied, pods>>

\* The result of this wait is ignored.
DrainedAgain ==
    /\ At("redrain") /\ GoOn
    /\ \/ pods["backup"] = {} /\ replicas["backup"] = 0 /\ UNCHANGED faults
       \/ Fault
       \/ replicas["backup"] = 1 /\ UNCHANGED faults
    /\ UNCHANGED <<crVars, runVars, kubeVars, volVars, userVars, envVars,
                   applied, pods>>

\* WaitForPVCExpansionStep: a mounted volume does not grow.
AwaitGrown ==
    /\ At("grown")
    /\ \/ OrFails(volume = claim)
       \/ volume # claim /\ pods["backup"] # {} /\ Abort /\ UNCHANGED faults
    /\ UNCHANGED <<crVars, runVars, kubeVars, volVars, userVars, envVars,
                   applied, pods>>

-----------------------------------------------------------------------------
(* Services and deployments. *)

\* The Service is deleted and created again.
CreateService(st) ==
    /\ At(st)
    /\ \/ service' = service \cup {Of(st)} /\ GoOn /\ UNCHANGED faults
       \/ service' \in {service, service \ {Of(st)}} /\ Fault /\ Abort
    /\ UNCHANGED <<crVars, runVars, deployed, replicas, volVars, userVars,
                   envVars, applied, pods>>

BackupService == CreateService("backupSvc")
DbaasService  == CreateService("dbaasSvc")
PrometheusExporterService == CreateService("exporterSvc")

numberOfReplicas(s) == IF s = "exporter" \/ cfg.mode = Active THEN 1 ELSE 0

CreateDeployment(st) ==
    /\ At(st)
    /\ \/ GoOn /\ UNCHANGED faults
       \/ Fault /\ Abort
    /\ \/ /\ deployed' = [deployed EXCEPT ![Of(st)] = Template(Of(st))]
          /\ replicas' = [replicas EXCEPT ![Of(st)] = numberOfReplicas(Of(st))]
       \/ faults' # faults /\ UNCHANGED <<deployed, replicas>>
    /\ UNCHANGED <<crVars, runVars, service, volVars, userVars, envVars,
                   applied, pods>>

BackupDeployment == CreateDeployment("backup")
DbaasDeployment  == CreateDeployment("dbaas")
PrometheusExporterDeployment == CreateDeployment("exporter")

\* WaitForPodsReady: so many pods, of whatever version.
PodsReady(s) == Cardinality(pods[s]) = numberOfReplicas(s)

\* Mutant: as PodsReady.
RolloutCompleteByPods(s) == PodsReady(s)

\* WaitForDeploymentReady: the new pods, and no old one.
RolloutComplete(s) ==
    pods[s] = IF numberOfReplicas(s) = 1 THEN {deployed[s]} ELSE {}

Await(st) ==
    /\ At(st)
    /\ OrFails(IF st = "awaitBackup" THEN RolloutComplete(Of(st)) ELSE PodsReady(Of(st)))
    /\ UNCHANGED <<crVars, runVars, kubeVars, volVars, userVars, envVars,
                   applied, pods>>

\* UpdateDbaasUserStep: grants a role to a user that has to exist.
GrantRoleToUser ==
    /\ At("grant")
    /\ \/ Reachable /\ "dbaas" \in users /\ GoOn /\ UNCHANGED faults
       \/ ~(Reachable /\ "dbaas" \in users) /\ Abort /\ UNCHANGED faults
       \/ Fault /\ Abort
    /\ UNCHANGED <<crVars, runVars, kubeVars, volVars, userVars, envVars,
                   applied, pods>>

RobotDeployment ==
    /\ At("robot") /\ OrFails(TRUE)
    /\ UNCHANGED <<crVars, runVars, kubeVars, volVars, userVars, envVars,
                   applied, pods>>

Finish ==
    /\ pc = "finish"
    /\ pc' = "idle" /\ status' = "done" /\ applied' = cur
    /\ UNCHANGED <<crVars, runVars, kubeVars, volVars, userVars, envVars, pods,
                   faults>>

-----------------------------------------------------------------------------
(* Around the operator (external). *)

\* The operator's pod is killed; the new one reconciles.
Crash ==
    /\ pc # "idle" /\ Fault
    /\ pc' = "idle" /\ pending' = TRUE
    /\ UNCHANGED <<spec, reverted, changes, runVars, kubeVars, volVars,
                   userVars, envVars, applied, status, pods>>

\* A failed deployment is tried again.
Redeploy ==
    /\ pc = "idle" /\ status = "failed" /\ ~pending
    /\ pending' = TRUE
    /\ UNCHANGED <<spec, reverted, changes, runVars, kubeVars, volVars,
                   userVars, envVars, applied, status, pc, pods, faults>>

ChangeSpec ==
    /\ changes < MaxChanges /\ changes' = changes + 1
    /\ \E x \in Sections : spec' = [spec EXCEPT ![x] = @ + 1]
    /\ pending' = TRUE
    /\ UNCHANGED <<reverted, runVars, kubeVars, volVars, userVars, envVars,
                   applied, status, pc, pods, faults>>

\* The CR is set back to the one that was applied last.
Rollback ==
    /\ applied.common # 0 /\ spec # applied
    /\ spec' = applied /\ pending' = TRUE /\ reverted' = TRUE
    /\ UNCHANGED <<changes, runVars, kubeVars, volVars, userVars, envVars,
                   applied, status, pc, pods, faults>>

MainStarts ==
    /\ main \in {"absent", "failed"}
    /\ main' = "running"
    /\ UNCHANGED <<crVars, runVars, kubeVars, volVars, userVars, cfg, mains,
                   sick, applied, status, pc, pods, faults>>

MainEnds ==
    /\ main = "running" /\ main' = "successful"
    /\ UNCHANGED <<crVars, runVars, kubeVars, volVars, userVars, cfg, mains,
                   sick, applied, status, pc, pods, faults>>

\* The main operator fails, or has something new to do.
MainDisturbed ==
    /\ mains < MaxMain /\ mains' = mains + 1
    /\ \/ main = "running" /\ main' = "failed"
       \/ main = "successful" /\ main' = "running"
    /\ UNCHANGED <<crVars, runVars, kubeVars, volVars, userVars, cfg, sick,
                   applied, status, pc, pods, faults>>

\* The pods of the backup daemon are replaced, those of the others rolled.
PodStarts(s) ==
    /\ replicas[s] = 1 /\ deployed[s] \notin pods[s]
    /\ s = "backup" => pods[s] = {} /\ ~sick
    /\ pods' = [pods EXCEPT ![s] = @ \cup {deployed[s]}]
    /\ UNCHANGED <<crVars, runVars, kubeVars, volVars, userVars, envVars,
                   applied, status, pc, faults>>

PodStops(s) ==
    /\ \E p \in pods[s] :
          /\ \/ replicas[s] = 0
             \/ p # deployed[s] /\ (s = "backup" \/ deployed[s] \in pods[s])
          /\ pods' = [pods EXCEPT ![s] = @ \ {p}]
    /\ UNCHANGED <<crVars, runVars, kubeVars, volVars, userVars, envVars,
                   applied, status, pc, faults>>

\* The storage can grow a volume nothing has mounted.
VolumeGrows ==
    /\ volume # claim /\ pods["backup"] = {}
    /\ volume' = claim
    /\ UNCHANGED <<crVars, runVars, kubeVars, claim, userVars, envVars,
                   applied, status, pc, pods, faults>>

BackupSick ==
    /\ ~sick /\ Fault /\ sick' = TRUE
    /\ UNCHANGED <<crVars, runVars, kubeVars, volVars, userVars, cfg, main,
                   mains, applied, status, pc, pods>>

BackupWell ==
    /\ sick /\ sick' = FALSE
    /\ UNCHANGED <<crVars, runVars, kubeVars, volVars, userVars, cfg, main,
                   mains, applied, status, pc, pods, faults>>

\* The services' users of a standby site are created on the active one.
OtherSiteAddsUsers ==
    /\ cfg.mode # Active /\ users = {}
    /\ users' = ServicesUsers /\ role' = TRUE
    /\ UNCHANGED <<crVars, runVars, kubeVars, volVars, envVars, applied, status,
                   pc, pods, faults>>

-----------------------------------------------------------------------------
Operator ==
    \/ StartReconcile \/ MainReady \/ Requeue \/ Build \/ SkipStep
    \/ AddServicesUsers("users") \/ AddServicesUsers("usersAgain")
    \/ CreatePVC \/ ScaleDown \/ Drained \/ ScaleUp \/ Started \/ NotStarted
    \/ DrainedAgain \/ AwaitGrown
    \/ BackupService \/ DbaasService \/ PrometheusExporterService
    \/ BackupDeployment \/ DbaasDeployment \/ PrometheusExporterDeployment
    \/ \E st \in {"awaitBackup", "awaitDbaas", "awaitExporter"} : Await(st)
    \/ GrantRoleToUser \/ RobotDeployment \/ Finish

Main == MainStarts \/ MainEnds
Kube == VolumeGrows \/ \E s \in Svcs : PodStarts(s) \/ PodStops(s)

Next == \/ Operator \/ Main \/ Kube
        \/ Crash \/ Redeploy \/ ChangeSpec \/ Rollback
        \/ MainDisturbed \/ BackupSick \/ BackupWell \/ OtherSiteAddsUsers

Spec == Init /\ [][Next]_vars

\* Operators and Kubernetes go on, and a failed deployment is tried again.
FairSpec == /\ Spec
            /\ WF_vars(Operator) /\ WF_vars(Main) /\ WF_vars(Redeploy)
            /\ WF_vars(VolumeGrows)
            /\ \A s \in Svcs : WF_vars(PodStarts(s)) /\ WF_vars(PodStops(s))

-----------------------------------------------------------------------------
\* Types of the variables.
TypeOK ==
    /\ cfg \in Deployments
    /\ main \in {"absent", "running", "successful", "failed"}
    /\ spec \in [Sections -> Versions] /\ applied \in [Sections -> Versions]
    /\ cur \in [Sections -> Versions]
    /\ pending \in BOOLEAN /\ sick \in BOOLEAN /\ reverted \in BOOLEAN
    /\ status \in {"new", "running", "failed", "done"}
    /\ pc \in Steps \cup {"idle"}
    /\ type \in {Clean, Update} /\ attempt \in 1..maxAttempts
    /\ service \subseteq Svcs
    /\ deployed \in [Svcs -> Versions \X Versions]
    /\ replicas \in [Svcs -> 0..1]
    /\ pods \in [Svcs -> SUBSET (Versions \X Versions)]
    /\ users \subseteq Svcs /\ role \in BOOLEAN
    /\ claim \in Versions /\ volume \in Versions
    /\ changes \in 0..MaxChanges /\ mains \in 0..MaxMain /\ faults \in 0..MaxFaults

AsSpecified(s) ==
    /\ s \in service
    /\ deployed[s] = <<spec[s], spec.common>>
    /\ replicas[s] = numberOfReplicas(s)

\* A CR that reports success and has not changed since is carried out, though
\* sections that did not change are skipped, the CR may have changed during a
\* reconcile, and earlier attempts stopped anywhere, with the daemon scaled
\* down for its volume or a Service deleted: every service is deployed as the
\* CR says, no old backup pod has the volume, and the volume has its size.
\* (Not so for a CR that is set back to the one applied last after a failed
\* update: it is taken for unchanged.)
DoneIsDeployed ==
    (status = "done" /\ ~pending /\ ~reverted /\ cfg.mode # Disable) =>
        /\ \A s \in cfg.installed \cap Svcs : AsSpecified(s)
        /\ Installed("backup") => /\ pods["backup"] \subseteq {deployed["backup"]}
                                  /\ volume = spec.size

\* The adapter is never scaled up without the role its user needs: roles come
\* before deployments and, unlike a user's, a role's failure ends the
\* reconcile.
AdapterHasRole == replicas["dbaas"] = 1 => role

\* Users whose creation failed once are there in the end, although the error
\* is only logged: the step runs before the services and again after them.
DoneHasUsers ==
    (status = "done" /\ cfg.mode = Active /\ faults <= 1)
        => ServicesUsers \subseteq users

\* When nothing fails, an active site's services are deployed in the end,
\* however often the MongoDB CR fails or is busy, and whatever changes in the
\* CR meanwhile.
ServicesComplete ==
    (cfg.mode = Active /\ status # "done") ~> (status = "done" \/ faults > 0)

=============================================================================

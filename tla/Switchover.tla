----------------------------- MODULE Switchover -----------------------------
(***************************************************************************)
(* Disaster recovery of the MongoDB cluster: two sites, each with its own  *)
(* operator, custom resource (CR), pods and supplementary services, and    *)
(* replica sets that span both sites.  Exactly one site's members vote and *)
(* may become PRIMARY in a replica set; the members of the other site are  *)
(* hidden.  A switch of the CR's mode makes the site's operator run the    *)
(* compound built by DRBuilder.Build, one step after the other.            *)
(*                                                                         *)
(* Modelled: every step of the compound with its condition, its effect,    *)
(* the errors it reports and the errors it swallows; the polls that wait   *)
(* for a cluster status with their timeouts; operators that crash between  *)
(* two steps; members that fail and recover; the network between the       *)
(* sites; the site manager that follows the documented order; updates of   *)
(* the supplementary services, whose CR keeps the mode of its installation *)
(* and whose operator scales the same Deployments.                         *)
(*                                                                         *)
(* Simplifications:                                                        *)
(* - a member's votes and priority are a matter of its site, because       *)
(*   JsTemplate sets both to 0 for the hidden site's hosts and to 1 for    *)
(*   all others: the configuration of a set is the site that votes;        *)
(* - a forced reconfig adds a large random number to the config version,   *)
(*   so after a partition in which both sides reconfigured either wins;    *)
(* - the main compound (MongoServiceBuilder), when it runs, leaves the     *)
(*   StatefulSets scaled up and mongos scaled for the mode;                *)
(* - of the supplementary operator (SupplServices) only the steps that     *)
(*   scale a Deployment are kept.                                          *)
(***************************************************************************)
EXTENDS ClusterStatus

CONSTANTS SiteA, SiteB,  \* the two sites; SiteA is installed as active
          ShardCount,    \* schemaSettings.shardCount
          N,             \* members of a replica set on each site
          Sharded,       \* schemaSettings.sharded
          MaxFaults,     \* bound: failures, crashes, partitions, and updates
                         \* of the supplementary services
          MaxSwitches    \* bound: reconciles the site manager causes

ASSUME SwitchoverAssumption ==
    /\ SiteA # SiteB
    /\ ShardCount \in Nat \ {0} /\ N \in Nat \ {0}
    /\ Sharded \in BOOLEAN /\ (Sharded \/ ShardCount = 1)
    /\ MaxFaults \in Nat /\ MaxSwitches \in Nat

Sites    == {SiteA, SiteB}
Other(s) == IF s = SiteA THEN SiteB ELSE SiteA
Cnf      == 0
Shards   == 1..ShardCount
RS       == IF Sharded THEN Shards \cup {Cnf} ELSE Shards

\* The type of the deployment the main compound stored in the context.
NoDeploy == "nil"
Clean    == "clean"
Update   == "update"

VARIABLES
    mode,      \* mode[s]: spec.disasterRecovery.mode of the CR
    noWait,    \* noWait[s]: spec.disasterRecovery.noWait
    pending,   \* pending[s]: the CR has to be reconciled
    fresh,     \* fresh[s]: the site has never been reconciled
    run,       \* run[s]: mode and deployment type the running plan captured
    pc,        \* pc[s]: the step of the DR compound to run next, or "idle"
    shard,     \* shard[s]: loop variable of ReconfigureDataRSStep
    status,    \* status[s]: disasterRecoveryStatus of the CR
    voter,     \* voter[s][rs]: the voting site in the config s's members hold
    touched,   \* touched[s][rs]: s forced a config of rs since the partition
    prim,      \* prim[s][rs]: a member of s is PRIMARY of rs
    scaled,    \* scaled[s][rs]: the StatefulSets of rs have pods on s
    live,      \* live[s][rs]: healthy members of rs on s
    hosts,     \* hosts[s][d]: site listed in config.shards, as s's cnf has it
    mongos,    \* mongos[s]: mongos is scaled up
    backup,    \* backup[s]: the backup daemon is scaled up
    dbaas,     \* dbaas[s]: the DBaaS adapter is scaled up
    exports,   \* exports[s]: EXPORT_MONGOS of the Prometheus exporter
    update,    \* update[s]: the Deployment the services' operator writes next
    overruled, \* history: Deployments it scaled against the mode of the site
    link,      \* the sites reach each other
    cut,       \* history: the sites lost each other once
    failover,  \* history: a site was activated without the other's consent
    faults,    \* faults and updates of the services so far
    switches   \* reconciles caused so far

crVars  == <<mode, noWait>>
planVars == <<run, pc, shard, status, pending, fresh>>
rsVars  == <<voter, touched, prim, scaled, live, hosts>>
svcVars == <<mongos, backup, dbaas, exports>>
envVars == <<link, cut, failover, faults, switches>>
updVars == <<update, overruled>>
vars == <<crVars, planVars, rsVars, svcVars, updVars, envVars>>

-----------------------------------------------------------------------------
(* What a site sees of its replica sets. *)

Bit(b) == IF b THEN 1 ELSE 0

RSStatus(s, m, rs) ==
    GetReplicaSetStatus(m, scaled[s][rs], Bit(prim[s][rs]),
                        live[s][rs] - Bit(prim[s][rs]), N)

SiteStatus(s, m) ==
    GetClusterStatus(m, Sharded,
                     IF Sharded THEN RSStatus(s, m, Cnf) ELSE NoPods,
                     [d \in Shards |-> RSStatus(s, m, d)], mongos[s])

Majority(k) == 2 * k > N

-----------------------------------------------------------------------------
(* DRBuilder.Build: the steps of the compound and their order. *)

Steps == {"waitHealthy", "reconfCnf", "reconfData", "updateShards",
          "restartCnf", "awaitCnf", "mongos", "backup", "dbaas", "exporter",
          "waitLag", "waitUp", "scaleCnf", "scaleData", "finish"}

FirstStep(m, nw) ==
    IF m = Disable THEN "mongos"
    ELSE IF m = Active /\ ~nw THEN "waitHealthy" ELSE "reconfCnf"

\* Mutant: the standby compound does not scale mongos down.
StepAfterNoScale(m, st) ==
    [waitHealthy  |-> "reconfCnf",
     reconfCnf    |-> "reconfData",
     reconfData   |-> IF m = Active THEN "updateShards" ELSE "backup",
     updateShards |-> "restartCnf",
     restartCnf   |-> "mongos",
     awaitCnf     |-> "mongos",
     mongos       |-> "backup",
     backup       |-> "dbaas",
     dbaas        |-> IF m = Disable THEN "scaleCnf" ELSE "exporter",
     scaleCnf     |-> "scaleData",
     scaleData    |-> "finish",
     exporter     |-> "waitLag",
     waitLag      |-> "waitUp",
     waitUp       |-> "finish"][st]

StepAfter(m, st) ==
    [waitHealthy  |-> "reconfCnf",
     reconfCnf    |-> "reconfData",
     reconfData   |-> IF m = Active THEN "updateShards" ELSE "mongos",
     updateShards |-> "restartCnf",
     restartCnf   |-> "mongos",
     awaitCnf     |-> "mongos",
     mongos       |-> "backup",
     backup       |-> "dbaas",
     dbaas        |-> IF m = Disable THEN "scaleCnf" ELSE "exporter",
     scaleCnf     |-> "scaleData",
     scaleData    |-> "finish",
     exporter     |-> "waitLag",
     waitLag      |-> "waitUp",
     waitUp       |-> "finish"][st]

\* The steps' Condition functions; r is the run record of the plan.
Condition(r, st) ==
    /\ st \in {"reconfCnf", "reconfData"} => ~(r.mode = Standby /\ r.deploy = Clean)
    /\ st \in {"reconfCnf", "updateShards", "restartCnf", "mongos",
               "scaleCnf", "scaleData"} => Sharded
    /\ st \in {"updateShards", "waitLag"} => r.mode = Active
    /\ st \in {"waitHealthy", "waitUp"} => r.deploy # Clean
    /\ st = "waitLag" => r.deploy = Update

\* A step of s that is about to execute (its condition holds).
At(s, st) == pc[s] = st /\ Condition(run[s], st)
GoOn(s)   == pc' = [pc EXCEPT ![s] = StepAfter(run[s].mode, pc[s])]

Fault == faults < MaxFaults /\ faults' = faults + 1

\* The plan of s ends with an error or a panic: the CR reports "failed".
Abort(s) ==
    /\ pc' = [pc EXCEPT ![s] = "idle"]
    /\ status' = [status EXCEPT ![s] = [mode |-> run[s].mode, state |-> "failed"]]

-----------------------------------------------------------------------------
(* After the clean installation of both sites: SiteA initiated the replica   *)
(* sets, SiteB's members joined hidden; the first reconcile is under way.    *)

InitialMode(s) == IF s = SiteA THEN Active ELSE Standby

Init ==
    /\ mode = [s \in Sites |-> InitialMode(s)]
    /\ noWait = [s \in Sites |-> FALSE]
    /\ pending = [s \in Sites |-> TRUE]
    /\ fresh = [s \in Sites |-> TRUE]
    /\ run = [s \in Sites |-> [mode |-> InitialMode(s), deploy |-> Clean]]
    /\ pc = [s \in Sites |-> "idle"]
    /\ shard = [s \in Sites |-> 1]
    /\ status = [s \in Sites |-> [mode |-> InitialMode(s), state |-> "running"]]
    /\ voter = [s \in Sites |-> [rs \in RS |-> SiteA]]
    /\ touched = [s \in Sites |-> [rs \in RS |-> FALSE]]
    /\ prim = [s \in Sites |-> [rs \in RS |-> s = SiteA]]
    /\ scaled = [s \in Sites |-> [rs \in RS |-> TRUE]]
    /\ live = [s \in Sites |-> [rs \in RS |-> N]]
    /\ hosts = [s \in Sites |-> [d \in Shards |-> SiteA]]
    /\ mongos = [s \in Sites |-> Sharded /\ s = SiteA]
    /\ backup = [s \in Sites |-> s = SiteA]
    /\ dbaas = [s \in Sites |-> s = SiteA]
    /\ exports = [s \in Sites |-> s = SiteA]
    /\ update = [s \in Sites |-> "none"]
    /\ overruled = [s \in Sites |-> {}]
    /\ link = TRUE /\ failover = FALSE /\ cut = FALSE
    /\ faults = 0 /\ switches = 0

-----------------------------------------------------------------------------
(* The operator of site s. *)

\* The reconcile begins.  The main compound (empty when disabled) runs when
\* the spec changed, and on a site that is not active also when its own
\* cluster status is Down (MongoDB.Condition); it recreates the StatefulSets
\* and mongos.  The DR compound is then built for the captured spec.
StartReconcile(s) ==
    /\ pending[s] /\ pc[s] = "idle"
    /\ \E redeploy \in BOOLEAN :
         /\ fresh[s] => redeploy
         /\ mode[s] = Disable => ~redeploy
         /\ (mode[s] = Standby /\ SiteStatus(s, Standby) = Down) => redeploy
         /\ run' = [run EXCEPT ![s] =
                      [mode |-> mode[s],
                       deploy |-> IF fresh[s] THEN Clean
                                  ELSE IF redeploy THEN Update ELSE NoDeploy]]
         /\ scaled' = [scaled EXCEPT ![s] =
                         [rs \in RS |-> redeploy \/ scaled[s][rs]]]
         /\ mongos' = [mongos EXCEPT ![s] =
                         IF redeploy THEN Sharded /\ mode[s] = Active ELSE @]
    /\ pending' = [pending EXCEPT ![s] = FALSE]
    /\ fresh' = [fresh EXCEPT ![s] = FALSE]
    /\ pc' = [pc EXCEPT ![s] = FirstStep(mode[s], noWait[s])]
    /\ shard' = [shard EXCEPT ![s] = 1]
    /\ status' = [status EXCEPT ![s] = [mode |-> mode[s], state |-> "running"]]
    /\ UNCHANGED <<crVars, updVars, voter, touched, prim, live, hosts,
                   backup, dbaas, exports, envVars>>

\* A step whose Condition is false is passed over.
SkipStep(s) ==
    /\ pc[s] \in Steps \ {"awaitCnf", "finish"} /\ ~Condition(run[s], pc[s])
    /\ GoOn(s)
    /\ UNCHANGED <<crVars, run, shard, status, pending, fresh, rsVars,
                   svcVars, updVars, envVars>>

\* Mutant: the last wait of the compound bypasses the check as well.
WaitedModeBypass(s) == Standby

\* WaitExpectedClusterStatusStep: BypassCheck asks for the standby status.
WaitedMode(s) == IF pc[s] = "waitHealthy" THEN Standby ELSE run[s].mode

WaitStatus(s) ==
    /\ \E st \in {"waitHealthy", "waitUp"} : At(s, st)
    /\ SiteStatus(s, WaitedMode(s)) = Up
    /\ GoOn(s)
    /\ UNCHANGED <<crVars, run, shard, status, pending, fresh, rsVars,
                   svcVars, updVars, envVars>>

\* Mutant: the poll has no end.
WaitTimeoutNever(s) == FALSE /\ UNCHANGED vars

\* The poll's time is over and its last answer was not Up.
WaitTimeout(s) ==
    /\ \/ /\ \E st \in {"waitHealthy", "waitUp"} : At(s, st)
          /\ SiteStatus(s, WaitedMode(s)) # Up
       \/ /\ At(s, "awaitCnf")
          /\ RSStatus(s, run[s].mode, Cnf) # Up
    /\ Abort(s)
    /\ UNCHANGED <<crVars, run, shard, pending, fresh, rsVars, svcVars,
                   updVars, envVars>>

\* ReconfigureRS: hide this site's members, or the other site's when active.
\* No pods, or a configuration that is right already: nothing to do.  The
\* error of the reconfig command is dropped, so a failure looks like success.
VotingSite(s) == IF run[s].mode = Active THEN s ELSE Other(s)

Reconfigured(s, rs) ==
    /\ scaled[s][rs] /\ live[s][rs] > 0 /\ voter[s][rs] # VotingSite(s)
    /\ voter' = [x \in Sites |->
                   [voter[x] EXCEPT ![rs] =
                      IF x = s \/ link THEN VotingSite(s) ELSE @]]
    /\ touched' = [touched EXCEPT ![s][rs] = @ \/ ~link]
    /\ prim' = [x \in Sites |->
                  [prim[x] EXCEPT ![rs] = @ /\ voter'[x][rs] = x]]

NotReconfigured(s, rs) ==
    \/ /\ ~(scaled[s][rs] /\ live[s][rs] > 0 /\ voter[s][rs] # VotingSite(s))
       /\ UNCHANGED <<voter, touched, prim, faults>>
    \/ /\ scaled[s][rs] /\ live[s][rs] > 0 /\ voter[s][rs] # VotingSite(s)
       /\ Fault
       /\ UNCHANGED <<voter, touched, prim>>

ReconfigureRS(s, rs) ==
    \/ Reconfigured(s, rs) /\ UNCHANGED faults
    \/ NotReconfigured(s, rs)

ReconfigureCnfrs(s) ==
    /\ At(s, "reconfCnf")
    /\ ReconfigureRS(s, Cnf)
    /\ GoOn(s)
    /\ UNCHANGED <<crVars, run, shard, status, pending, fresh, scaled, live,
                   hosts, svcVars, updVars, link, failover, cut, switches>>

FirstRS == IF Sharded THEN Cnf ELSE 1

\* Mutant: the loop over the shards runs once too often.
MoreShardsLate(s) == shard[s] <= ShardCount

\* The loop over the shards.
MoreShards(s) == shard[s] < ShardCount

ReconfigureDataRS(s) ==
    /\ At(s, "reconfData")
    /\ ReconfigureRS(s, shard[s])
    /\ IF MoreShards(s)
       THEN shard' = [shard EXCEPT ![s] = @ + 1] /\ UNCHANGED pc
       ELSE shard' = [shard EXCEPT ![s] = FirstRS] /\ GoOn(s)
    /\ UNCHANGED <<crVars, run, status, pending, fresh, scaled, live, hosts,
                   svcVars, updVars, link, failover, cut, switches>>

\* UpdateShardsInConfigDB through RunOnPrimary: without a primary among this
\* site's pods nothing is written and no error comes back; the error of a
\* shard is overwritten by the next shard, only the last one is reported.
WriteHosts(s, ds) ==
    hosts' = [x \in Sites |->
                [d \in Shards |-> IF d \in ds /\ (x = s \/ link)
                                  THEN s ELSE hosts[x][d]]]

UpdateShards(s) ==
    /\ At(s, "updateShards")
    /\ \/ /\ prim[s][Cnf] /\ WriteHosts(s, Shards)
          /\ GoOn(s) /\ UNCHANGED <<status, faults>>
       \/ /\ ~prim[s][Cnf] /\ UNCHANGED hosts
          /\ GoOn(s) /\ UNCHANGED <<status, faults>>
       \/ /\ prim[s][Cnf] /\ Fault
          /\ \E ds \in SUBSET Shards :
               /\ ds # Shards /\ WriteHosts(s, ds)
               /\ IF ShardCount \in ds THEN GoOn(s) /\ UNCHANGED status
                                       ELSE Abort(s)
    /\ UNCHANGED <<crVars, run, shard, pending, fresh, voter, touched, prim,
                   scaled, live, svcVars, updVars, link, failover, cut,
                   switches>>

\* Restarted pods are Ready again, but k members may still have to catch up
\* and the primary may have stepped down.
RestartPods(s, rs, k) ==
    /\ live' = [live EXCEPT ![s][rs] = k]
    /\ \/ prim' = [prim EXCEPT ![s][rs] = FALSE]
       \/ prim' = [prim EXCEPT ![s][rs] = @ /\ Majority(k)]

\* RestartConfigRS: the first pod, then a wait, then all others without one.
RestartConfigRS(s) ==
    /\ At(s, "restartCnf")
    /\ \/ /\ scaled[s][Cnf]
          /\ \E k \in {live[s][Cnf], live[s][Cnf] - 1} \cap Nat :
               RestartPods(s, Cnf, k)
          /\ pc' = [pc EXCEPT ![s] = "awaitCnf"]
          /\ UNCHANGED <<status, faults>>
       \/ /\ ~scaled[s][Cnf] /\ Abort(s) /\ UNCHANGED <<live, prim, faults>>
       \/ /\ scaled[s][Cnf] /\ Fault /\ Abort(s) /\ UNCHANGED <<live, prim>>
    /\ UNCHANGED <<crVars, run, shard, pending, fresh, voter, touched,
                   scaled, hosts, svcVars, updVars, link, failover, cut,
                   switches>>

AwaitConfigRS(s) ==
    /\ pc[s] = "awaitCnf"
    /\ RSStatus(s, run[s].mode, Cnf) = Up
    /\ \/ /\ \E k \in 1..live[s][Cnf] : RestartPods(s, Cnf, k)
          /\ GoOn(s) /\ UNCHANGED <<status, faults>>
       \/ /\ Fault /\ Abort(s) /\ UNCHANGED <<live, prim>>
    /\ UNCHANGED <<crVars, run, shard, pending, fresh, voter, touched,
                   scaled, hosts, svcVars, updVars, link, failover, cut,
                   switches>>

\* The three scaling steps.  A scale request that ends in an error may have
\* been applied (the wait for the pods timed out) or not; the step panics.

\* Mutant: a standby keeps its services running, only "disable" stops them.
TargetUnlessDisabled(s) == run[s].mode # Disable

\* Only an active site runs mongos, the backup daemon and the adapter.
Target(s) == run[s].mode = Active

ScaleTo(s, var) == [var EXCEPT ![s] = Target(s)]

\* A Deployment scaled by this operator follows the mode again.
TakeBack(s, d) == overruled' = [overruled EXCEPT ![s] = @ \ {d}]

ScaleMongos(s) ==
    /\ At(s, "mongos")
    /\ \/ mongos' = ScaleTo(s, mongos) /\ GoOn(s) /\ UNCHANGED <<status, faults>>
       \/ mongos' \in {mongos, ScaleTo(s, mongos)} /\ Fault /\ Abort(s)
    /\ UNCHANGED <<crVars, updVars, run, shard, pending, fresh, rsVars,
                   backup, dbaas, exports, link, failover, cut, switches>>

ScaleBackupDaemon(s) ==
    /\ At(s, "backup")
    /\ \/ /\ backup' = ScaleTo(s, backup) /\ TakeBack(s, "backup")
          /\ GoOn(s) /\ UNCHANGED <<status, faults>>
       \/ /\ Fault /\ Abort(s)
          /\ \/ backup' = ScaleTo(s, backup) /\ TakeBack(s, "backup")
             \/ UNCHANGED <<backup, overruled>>
    /\ UNCHANGED <<crVars, update, run, shard, pending, fresh,
                   rsVars, mongos, dbaas, exports, link, failover, cut,
                   switches>>

ScaleDbaasAdapter(s) ==
    /\ At(s, "dbaas")
    /\ \/ /\ dbaas' = ScaleTo(s, dbaas) /\ TakeBack(s, "dbaas")
          /\ GoOn(s) /\ UNCHANGED <<status, faults>>
       \/ /\ Fault /\ Abort(s)
          /\ \/ dbaas' = ScaleTo(s, dbaas) /\ TakeBack(s, "dbaas")
             \/ UNCHANGED <<dbaas, overruled>>
    /\ UNCHANGED <<crVars, update, run, shard, pending, fresh,
                   rsVars, mongos, backup, exports, link, failover, cut,
                   switches>>

UpdatePrometheusExporter(s) ==
    /\ At(s, "exporter")
    /\ \/ exports' = ScaleTo(s, exports) /\ GoOn(s) /\ UNCHANGED <<status, faults>>
       \/ UNCHANGED exports /\ Fault /\ Abort(s)
    /\ UNCHANGED <<crVars, updVars, run, shard, pending, fresh, rsVars,
                   mongos, backup, dbaas, link, failover, cut, switches>>

\* Mutant: the lag is asked of the other site's primary.
CaughtUpOther(s, rs) == prim[Other(s)][rs] /\ link /\ live[s][rs] = N

\* WaitReplicationLagStep polls one set after the other, without a timeout,
\* until the primary sees every member of the other site caught up.
CaughtUp(s, rs) == prim[s][rs] /\ link /\ live[Other(s)][rs] = N

WaitReplicationLag(s) ==
    /\ At(s, "waitLag")
    /\ CaughtUp(s, shard[s])
    /\ IF MoreShards(s)
       THEN shard' = [shard EXCEPT ![s] = @ + 1] /\ UNCHANGED pc
       ELSE GoOn(s) /\ UNCHANGED shard
    /\ UNCHANGED <<crVars, run, status, pending, fresh, rsVars, svcVars,
                   updVars, envVars>>

\* ScaleCNFRS and ScaleDATARS to 0 replicas (only the disable compound): the
\* first StatefulSet that cannot be scaled ends the loop, and the step answers
\* nil all the same.
ScaleDown(s, sets) ==
    /\ scaled' = [scaled EXCEPT ![s] = [rs \in RS |-> @[rs] /\ rs \notin sets]]
    /\ live' = [live EXCEPT ![s] = [rs \in RS |-> IF rs \in sets THEN 0 ELSE @[rs]]]
    /\ prim' = [prim EXCEPT ![s] = [rs \in RS |-> @[rs] /\ rs \notin sets]]

ScaleCNFRS(s) ==
    /\ At(s, "scaleCnf")
    /\ \/ ScaleDown(s, {Cnf}) /\ UNCHANGED faults
       \/ Fault /\ UNCHANGED <<scaled, live, prim>>
    /\ GoOn(s)
    /\ UNCHANGED <<crVars, run, shard, status, pending, fresh, voter,
                   touched, hosts, svcVars, updVars, link, failover, cut,
                   switches>>

ScaleDATARS(s) ==
    /\ At(s, "scaleData")
    /\ \/ ScaleDown(s, Shards) /\ UNCHANGED faults
       \/ Fault /\ \E d \in Shards : ScaleDown(s, 1..(d - 1))
    /\ GoOn(s)
    /\ UNCHANGED <<crVars, run, shard, status, pending, fresh, voter,
                   touched, hosts, svcVars, updVars, link, failover, cut,
                   switches>>

\* The compound is through: the CR reports "done".
Finish(s) ==
    /\ pc[s] = "finish"
    /\ pc' = [pc EXCEPT ![s] = "idle"]
    /\ status' = [status EXCEPT ![s] = [mode |-> run[s].mode, state |-> "done"]]
    /\ failover' = (failover /\ run[s].mode = Active)
    /\ UNCHANGED <<crVars, run, shard, pending, fresh, rsVars, svcVars,
                   updVars, link, cut, faults, switches>>

\* The operator's pod is killed between two steps; the new one reconciles.
Crash(s) ==
    /\ pc[s] # "idle" /\ Fault
    /\ pc' = [pc EXCEPT ![s] = "idle"]
    /\ pending' = [pending EXCEPT ![s] = TRUE]
    /\ UNCHANGED <<crVars, run, shard, status, fresh, rsVars, svcVars,
                   updVars, link, failover, cut, switches>>

-----------------------------------------------------------------------------
(* The site manager (external): it posts a mode, which the DR service writes *)
(* to the CR with the status "running", and waits for the answer.            *)

Settled(s) == pc[s] = "idle" /\ ~pending[s] /\ status[s].state # "running"

Post(s, m) ==
    /\ switches < MaxSwitches /\ switches' = switches + 1
    /\ Settled(s)
    /\ mode' = [mode EXCEPT ![s] = m]
    /\ pending' = [pending EXCEPT ![s] = TRUE]
    /\ status' = [status EXCEPT ![s] = [mode |-> m, state |-> "running"]]
    /\ UNCHANGED <<run, pc, shard, fresh, rsVars, svcVars, updVars, link,
                   cut, faults>>

\* Retire a site, or reconcile a site again in the mode it has.
PostPassive(s, m) ==
    /\ m \in {Standby, Disable}
    /\ Post(s, m) /\ UNCHANGED <<noWait, failover>>

Resync(s) == Post(s, mode[s]) /\ UNCHANGED <<noWait, failover>>

\* The second half of a switchover: only when the other site has retired.
PostActive(s) ==
    /\ mode[s] # Active
    /\ status[Other(s)].state = "done" /\ status[Other(s)].mode # Active
    /\ Post(s, Active)
    /\ noWait' \in {noWait, [noWait EXCEPT ![s] = TRUE]}
    /\ UNCHANGED failover

\* A failover: the other site cannot be reached and is not asked.
PostFailover(s) ==
    /\ mode[s] # Active /\ ~link
    /\ Post(s, Active)
    /\ noWait' = [noWait EXCEPT ![s] = TRUE]
    /\ failover' = TRUE

-----------------------------------------------------------------------------
(* The operator of the supplementary services on site s (SupplServices).     *)
(* Its own CR keeps the mode the site was installed with.  It waits for the  *)
(* MongoDB CR to be successful, creates the users when its mode is active,   *)
(* and then writes one Deployment after the other with its own replicas.     *)

UsersReachable(s) ==
    IF Sharded THEN mongos[s]
    ELSE \E x \in Sites : prim[x][1] /\ (x = s \/ link)

UpdateServices(s) ==
    /\ update[s] = "none" /\ Fault
    /\ pc[s] = "idle" /\ ~pending[s] /\ status[s].state = "done"
    /\ InitialMode(s) = Active => UsersReachable(s)
    /\ update' = [update EXCEPT ![s] = "backup"]
    /\ UNCHANGED <<crVars, planVars, rsVars, svcVars, overruled, link, cut,
                   failover, switches>>

\* Deployed against the mode of the site, as the MongoDB CR has it.
Deployed(s, d) ==
    overruled' = [overruled EXCEPT ![s] =
                    IF (InitialMode(s) = Active) = (mode[s] = Active)
                    THEN @ \ {d} ELSE @ \cup {d}]

DeployBackupDaemon(s) ==
    /\ update[s] = "backup"
    /\ backup' = [backup EXCEPT ![s] = InitialMode(s) = Active]
    /\ Deployed(s, "backup")
    /\ update' = [update EXCEPT ![s] = "grant"]
    /\ UNCHANGED <<crVars, planVars, rsVars, mongos, dbaas, exports,
                   envVars>>

\* UpdateDbaasUserStep, whatever the mode; its error ends the update.
GrantRoleToUser(s) ==
    /\ update[s] = "grant"
    /\ update' = [update EXCEPT ![s] = IF UsersReachable(s) THEN "dbaas" ELSE "none"]
    /\ UNCHANGED <<crVars, planVars, rsVars, svcVars, overruled,
                   envVars>>

\* The adapter, and behind it the exporter, which is only told the mode.
DeployDbaasAdapter(s) ==
    /\ update[s] = "dbaas"
    /\ dbaas' = [dbaas EXCEPT ![s] = InitialMode(s) = Active]
    /\ exports' = [exports EXCEPT ![s] = InitialMode(s) = Active]
    /\ Deployed(s, "dbaas")
    /\ update' = [update EXCEPT ![s] = "none"]
    /\ UNCHANGED <<crVars, planVars, rsVars, mongos, backup, envVars>>

-----------------------------------------------------------------------------
(* Replica sets and network (external). *)

Elect(s, rs) ==
    /\ scaled[s][rs] /\ voter[s][rs] = s /\ Majority(live[s][rs])
    /\ ~prim[s][rs]
    /\ prim' = [prim EXCEPT ![s][rs] = TRUE]
    /\ UNCHANGED <<crVars, planVars, voter, touched, scaled, live, hosts,
                   svcVars, updVars, envVars>>

MemberFails(s, rs) ==
    /\ live[s][rs] > 0 /\ Fault
    /\ live' = [live EXCEPT ![s][rs] = @ - 1]
    /\ \/ prim' = [prim EXCEPT ![s][rs] = FALSE]
       \/ prim' = [prim EXCEPT ![s][rs] = @ /\ Majority(live'[s][rs])]
    /\ UNCHANGED <<crVars, planVars, voter, touched, scaled, hosts, svcVars,
                   updVars, link, failover, cut, switches>>

MemberRecovers(s, rs) ==
    /\ scaled[s][rs] /\ live[s][rs] < N
    /\ live' = [live EXCEPT ![s][rs] = @ + 1]
    /\ UNCHANGED <<crVars, planVars, voter, touched, prim, scaled, hosts,
                   svcVars, updVars, envVars>>

LinkDown ==
    /\ link /\ Fault
    /\ link' = FALSE /\ cut' = TRUE
    /\ UNCHANGED <<crVars, planVars, rsVars, svcVars, updVars, failover,
                   switches>>

\* The newer configuration of each set wins; the set's data follows it.
LinkUp ==
    /\ ~link /\ link' = TRUE
    /\ \E w \in [RS -> Sites] :
         /\ \A rs \in RS : ~touched[w[rs]][rs] => ~touched[Other(w[rs])][rs]
         /\ voter' = [s \in Sites |-> [rs \in RS |-> voter[w[rs]][rs]]]
         /\ prim' = [s \in Sites |->
                       [rs \in RS |-> prim[s][rs] /\ voter[w[rs]][rs] = s]]
         /\ hosts' = IF Sharded THEN [s \in Sites |-> hosts[w[Cnf]]] ELSE hosts
    /\ touched' = [s \in Sites |-> [rs \in RS |-> FALSE]]
    /\ UNCHANGED <<crVars, planVars, scaled, live, svcVars, updVars,
                   failover, cut, faults, switches>>

-----------------------------------------------------------------------------
OperatorStep(s) ==
    \/ StartReconcile(s) \/ SkipStep(s)
    \/ WaitStatus(s) \/ WaitTimeout(s)
    \/ ReconfigureCnfrs(s) \/ ReconfigureDataRS(s)
    \/ UpdateShards(s) \/ RestartConfigRS(s) \/ AwaitConfigRS(s)
    \/ ScaleMongos(s) \/ ScaleBackupDaemon(s) \/ ScaleDbaasAdapter(s)
    \/ UpdatePrometheusExporter(s) \/ WaitReplicationLag(s)
    \/ ScaleCNFRS(s) \/ ScaleDATARS(s)
    \/ Finish(s)

SiteManager(s) ==
    \/ \E m \in Modes : PostPassive(s, m)
    \/ Resync(s) \/ PostActive(s) \/ PostFailover(s)

ServicesStep(s) ==
    \/ UpdateServices(s) \/ DeployBackupDaemon(s)
    \/ GrantRoleToUser(s) \/ DeployDbaasAdapter(s)

Next ==
    \/ \E s \in Sites : OperatorStep(s) \/ Crash(s) \/ SiteManager(s)
                        \/ ServicesStep(s)
    \/ \E s \in Sites, rs \in RS :
         Elect(s, rs) \/ MemberFails(s, rs) \/ MemberRecovers(s, rs)
    \/ LinkDown \/ LinkUp

Spec == Init /\ [][Next]_vars

-----------------------------------------------------------------------------
\* Types of the variables.
TypeOK ==
    /\ mode \in [Sites -> Modes] /\ noWait \in [Sites -> BOOLEAN]
    /\ pending \in [Sites -> BOOLEAN] /\ fresh \in [Sites -> BOOLEAN]
    /\ run \in [Sites -> [mode : Modes, deploy : {NoDeploy, Clean, Update}]]
    /\ pc \in [Sites -> Steps \cup {"idle"}]
    /\ shard \in [Sites -> 0..ShardCount]
    /\ status \in [Sites -> [mode : Modes, state : {"running", "done", "failed"}]]
    /\ voter \in [Sites -> [RS -> Sites]]
    /\ touched \in [Sites -> [RS -> BOOLEAN]]
    /\ prim \in [Sites -> [RS -> BOOLEAN]]
    /\ scaled \in [Sites -> [RS -> BOOLEAN]]
    /\ live \in [Sites -> [RS -> 0..N]]
    /\ hosts \in [Sites -> [Shards -> Sites]]
    /\ mongos \in [Sites -> BOOLEAN] /\ backup \in [Sites -> BOOLEAN]
    /\ dbaas \in [Sites -> BOOLEAN] /\ exports \in [Sites -> BOOLEAN]
    /\ update \in [Sites -> {"none", "backup", "grant", "dbaas"}]
    /\ overruled \in [Sites -> SUBSET {"backup", "dbaas"}]
    /\ link \in BOOLEAN /\ cut \in BOOLEAN /\ failover \in BOOLEAN
    /\ faults \in 0..MaxFaults /\ switches \in 0..MaxSwitches

\* A switchover in the documented order never opens both sites to clients:
\* whatever step fails, times out or is cut off by a restart of an operator,
\* there is always a site where mongos is at 0 (the standby compound scales it
\* down before it can report "done"), and where the DBaaS adapter is at 0 too
\* unless an update of the services scaled it up against the site's mode.
OneServingSite ==
    ~failover =>
        \E s \in Sites : ~mongos[s] /\ (dbaas[s] => "dbaas" \in overruled[s])

\* An active site that reports "done" owns its replica sets: although
\* ReconfigureRS drops the error of a failed reconfig, the compound cannot
\* get past its last wait unless the site's members are the ones that vote
\* (sites that never lost each other, no failover).
ActiveDoneOwnsSets ==
    \A s \in Sites :
        (~cut /\ ~failover /\ status[s] = [mode |-> Active, state |-> "done"])
            => \A rs \in RS : scaled[s][rs] => voter[s][rs] = s

\* What "done" stands for: mongos, the backup daemon and the DBaaS adapter are
\* up on an active site and at 0 on a retired one, whatever failed, crashed or
\* was retried on the way (the panics of the scaling steps keep the "done"
\* away).  Only an update of the services undoes it, in either direction, and
\* only until the next "done".
DoneScalesServices ==
    \A s \in Sites : status[s].state = "done" =>
        LET active == status[s].mode = Active
        IN /\ mongos[s] <=> Sharded /\ active
           /\ (backup[s] <=> active) \/ "backup" \in overruled[s]
           /\ (dbaas[s] <=> active) \/ "dbaas" \in overruled[s]

-----------------------------------------------------------------------------
(* The abstract specification: the CR's mode is the right to serve, and a    *)
(* site is open while its mongos is up, or its adapter by this operator.     *)

Handover == INSTANCE ServiceHandover WITH
                owners <- {s \in Sites : mode[s] = Active},
                open   <- {s \in Sites : mongos[s] \/
                             (dbaas[s] /\ "dbaas" \notin overruled[s])},
                forced <- failover

\* The compounds of the two sites, with all their steps, faults, crashes and
\* retries, hand the service over: no site is opened by its operator before
\* its CR is active, and no CR becomes active in the documented order before
\* the other site is closed.
ImplementsHandover == Handover!Spec

-----------------------------------------------------------------------------
(* Liveness.  The operator keeps executing its compound (the reconcile loop  *)
(* runs on its own and every poll but one ends by its timeout); mongod pods  *)
(* are restarted by their StatefulSet, a set with a majority of its voters   *)
(* elects a primary, and a partition is repaired.                            *)

Fairness ==
    /\ \A s \in Sites : WF_vars(OperatorStep(s))
    /\ \A s \in Sites, rs \in RS : WF_vars(Elect(s, rs))
                                   /\ WF_vars(MemberRecovers(s, rs))
    /\ WF_vars(LinkUp)

FairSpec == Spec /\ Fairness

\* Every plan ends with "done" or "failed", or reaches the lag poll.
PlanEndsOrPolls ==
    \A s \in Sites :
        status[s].state = "running"
            ~> (status[s].state # "running" \/ pc[s] = "waitLag")

\* The lag poll has no timeout (pollLag with timeoutSeconds = 0); it ends
\* whenever the site owns all its sets and the other site runs its members.
OwnsSets(s) == \A rs \in RS : /\ voter[s][rs] = s
                              /\ scaled[s][rs] /\ scaled[Other(s)][rs]

LagPollEnds ==
    \A s \in Sites :
        (pc[s] = "waitLag" /\ OwnsSets(s))
            ~> (pc[s] # "waitLag" \/ ~OwnsSets(s))

=============================================================================

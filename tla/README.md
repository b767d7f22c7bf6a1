# A TLA+ model of the Qubership MongoDB operator

This directory holds TLA+ modules for the control logic of the operator in
`operator/`, of the supplementary services operator in `services/service/` and
of the DBaaS adapter in `services/dbaas-adapter/`, TLC configurations that check
them on small instances, and TLAPS proofs of the main safety properties for
every instance.

Run a check with `tlc -config <X>.cfg <module>` and a proof with
`tlapm <module>.tla`. `PROJECT.json` lists the runs, the source lines every
definition stands for, the mutants, the hazards and the theorems.

## 1. The system

The **operator** reconciles a `MongodbDeployment` CR. A reconcile runs a
*compound*: a list of steps, each with a `Condition` and an `Execute`. An error
or a panic ends the compound, the CR reports the failure, and the next reconcile
starts from the first step. A step's effects are Kubernetes calls and commands
executed in mongod and mongos pods. Nothing is rolled back.

A **cluster** is a config replica set (`cnfrs`), one data set per shard
(`datars`), and a mongos controller; the unsharded schema has a single data set
and neither of the others. Every member is a StatefulSet with one pod. In the
**dr** schema two sites, each with an operator of its own, share these sets: the
members of the active site vote, those of the standby are hidden.

The **supplementary services operator** reconciles a CR of its own. It waits
until the MongoDB CR is successful, creates the roles and users of the services
and deploys the backup daemon, the DBaaS adapter, the metrics exporter and the
tests, each only if its section of the CR differs from the one applied last.

The **DBaaS adapter** is an HTTP service that creates and drops logical
databases and their users, and shards their collections, all as one MongoDB
user that grants itself the role it needs and revokes it afterwards.

| Component | State | Operations | Interacts with |
|---|---|---|---|
| Cluster status | none (reads member states) | `GetReplicaSetStatus`, `GetClusterStatus` | called by the waits of the switchover, the gate of the expansion, the REST health endpoint, the other site's operator |
| DR switchover | mode and status in the CR; configuration and scale of the sets; mongos, backup daemon, adapter | one compound per mode: active, standby, disable | the other site's operator through the shared sets; site manager |
| Installation and update | claims, keyfile secret, pods, replica sets, root user, shard list | the main compound | the other operator's key file and health endpoints |
| Volume expansion and rebuild | scale of StatefulSets, sizes of volumes | `OnNeedsRestart`, `CreateCNFStep`, `CreateDataStep` | cluster status |
| Volume placement | none | `ElementsDistribution` | used by `CreateCNFStep`, `CreateDataStep` |
| DBaaS adapter | users, roles, metadata, collections, shard keys | create, drop, create user, create roles, drop user, metadata, settings; background redistribution | concurrent requests through the shared user |
| Supplementary services | Services, Deployments and their pods; users and the adapter's role; claim of the backup volume | the services compound, `OnNeedsRestart` of the backup daemon | the status of the MongoDB CR; the main operator scales the same deployments |
| Oplog resize and compaction | oplog sizes of the members; the report a reconcile works from; one goroutine per request | `UpdateCnfOplogStep`, `UpdateDataOplogStep`, REST `compact` | cluster status; elections of the sets; each other |
| HA to DR transition | | | not modelled, see section 8 |

What is hard in this system: a compound can stop anywhere and starts again from
its first step, when conditions computed from the cluster have changed; two
operators act on the same sets without a lock; several helpers drop errors or
answer "nothing, no error"; the adapter's requests share the privileges of one
user; verdicts are put together from reads at different instants. The list under
`hazards` in `PROJECT.json` names each with its line and its properties.

What makes each part correct: a verdict "up" is earned and no healthy cluster is
called anything else; at most one site serves clients; a site that is "done"
really is what it says; both sites hold one keyfile; a finished installation has
a working cluster; an expansion takes one config member at a time; every member
has a volume of its own; every oplog has the size of the CR and every collection
a compaction reports is compacted, wherever the primaries went; the services that are reported deployed are the ones the
CR asks for, with their users and the volume they need; a request's "ok" means what it says, and nothing is
dropped that nobody asked to drop.

## 2. Modules

`ClusterStatus` - the two status functions as operators.
`GetReplicaSetStatus(mode, pods, primaries, secondaries, size)` follows the
branches of the code, `GetClusterStatus` combines the sets and mongos.

`StatusProbe` - one call of `GetClusterStatus` on a changing cluster. `StartProbe`,
one `ReadRS` per set, `Return`; in between members change state, pods vanish and
mongos stops. History variables record which sets were Up or not Down at some
instant.

`Switchover` - the DR compound on two sites. `pc[s]` is the step to run,
`StepAfter` and `Condition` give the order and the conditions of
`DRBuilder.Build`, and there is one action per step. `voter`, `scaled`, `prim`
describe the shared sets as each site configured them; `mongos`, `backup`,
`dbaas` are the deployments. `Post*` are the site manager's mode changes in the
documented order (old active first), `PostFailover` the one when that site is
lost; `Crash`, `MemberFails`, `LinkDown` are faults. `UpdateServices` and the
actions behind it are the supplementary operator, cut down to what it does to the
same deployments: its CR keeps the mode the site was installed with, it looks at
the status of the MongoDB CR once, and then writes one Deployment after the
other. `overruled[s]` records what it scaled against the mode of the MongoDB CR;
a scaling step of the main operator takes the Deployment back.

`ServiceHandover` - the abstract specification of a switchover: a site opens only
while it has the right to serve, and the right is handed over only when the site
that gave it up has closed; a failover seizes it. `Switchover` implements it
under the mapping `owners` = sites whose CR is active, `open` = sites whose mongos
is up, or whose adapter the operator itself has up.

`Install` - the main compound (`MongoDBBuilder.Build`) on one or two sites.
Whether a reconcile is a clean deployment or an update depends on the existence
of the claims, which are the first thing it creates. `GetKeyFile` and `WriteKey`
are separate steps, so that the exchange of the keyfile between the operators
can be interrupted. `held[s][p]` are the keyfiles the pods of a part were
started with.

`VolumeExpansion` - `OnNeedsRestart` (scale down the group of a volume, wait,
scale up, wait for the cluster to be up, next volume), then the rebuild of every
StatefulSet. The deployments considered are chosen in `Init`.

`SupplServices` - the compound of `MongoServiceBuilder.Build` on one site, with
`pc`, `StepAfter` and `Condition` as in `Switchover`. A section of the CR is its
version: `spec` is the CR now, `cur` the one the running reconcile has read,
`applied` the one of the last success, and `Changed` compares the last two.
`deployed` and `replicas` are what a Deployment asks for, `pods` what runs, and
Kubernetes brings the second to the first at its own pace. `ChangeSpec`,
`Rollback` and `MainDisturbed` change the CRs at any time; failing calls,
`Crash` and `BackupSick` are faults.

`Placement`, `PlacementCheck` - `ElementsDistribution` as recursive functions of
its loop counters, and the loop of `CreateDataStep` over the shards.

`DbaasAdapter`, `ShardKey` - a request is a record with a phase; `Enter`,
`Proceed`, `Failed` follow the handlers of `db_admin.go`, and `GrantRole`,
`Body`, `RevokeRole` are the three parts of `RunWithGrants`. `bg[r]` is the
goroutine of `ForceRedistribute`. `alone` marks requests, and redistributions,
that met no other call. `Exists(d)` is what `IsDatabaseAvailable` sees.
`UserCheck` and `UserWrite` are the two commands of `CreateOrUpdateUser` on one
host: mongos (host 0) or, for the role streaming, a shard. After mongos
`GetReplicaSetHosts` lists the shards, whose error the code drops, and
`AfterWrite` goes through them one by one; `UserDone` is the loop over the roles.
`wrote` is a history of the users a request has written, by role and host.
`Crash` kills the adapter: calls, deferred revokes and rollbacks are gone, roles
and contents in MongoDB stay. `leaked` is a history of the roles that a failed
revoke or a kill has left behind and no later revoke has taken back.

`Maintenance` - the two oplog steps of a reconcile and `RunCompactCommand`, both
command by command, on sets whose primary moves. `ReportMember` is one round of
`GetOplogSizes`; `PassOver` and `ResizeMember` are the rounds of the two loops of
`UpdateOplogSize` over that report. A request looks for the primary, compacts the
others, makes the primary step down, polls for a new one and compacts the old
one. `view[rs]` is the primary as the first pod of the set knows it, which is
whom `GetMongoPrimaryReplica` asks, and lags behind `prim[rs]`. The cluster is
sharded and active; each request compacts a collection of its own.

`MC*` instantiate these for TLC (`PlacementCheck` needs no such module).
`StatusProbeProofs`, `SwitchoverProofs`, `DbaasAdapterProofs`, `InstallProofs`,
`SupplServicesProofs`, `MaintenanceProofs`, `VolumeExpansionProofs` and
`PlacementProofs` hold the theorems.

## 3. Runs

| Run | Shows | Bounds |
|---|---|---|
| `status_probe` | `UpIsEarned`, `HealthyIsUp`, in both modes | two shards, two members per set, one change during the call |
| `switchover` | `OneServingSite`, `ActiveDoneOwnsSets`, `DoneScalesServices`, `ImplementsHandover` | one shard, two members per site and set, two switches, one fault or one update of the services |
| `switchover_liveness` | `PlanEndsOrPolls`, `LagPollEnds` | one member per site and set, one switch, one fault or update |
| `dbaas` | `RoleHasHolder`, `OkHasUser`, `SoloOkIsReal`, `DropIsAskedFor`, `RedistributeKeepsKey` | two requests of any kind at a time on one database, two roles to a creation, the second streaming, two shards, one failing command or kill; a third request behind them only without a failing command and one call at a time; three shard keys, one a prefix of another |
| `placement` | `EveryMemberPlaced`, `SidesAreEqual`, `SidesAreEven` | up to seven replicas and five shards, every combination the validation accepts outside dr |
| `expansion` | `OneConfigMemberAtATime`, `DoneIsWhole`, `Completes` | sharded 3+3, unsharded 3, sharded with three config and one data member, and with one config and three data members; two faults |
| `install` | `KeysAgree`, `DoneSharesKey`, `DoneIsInitiated`, `CompletesInOrder` | ha and dr, two shards, two faults, one update after the installation |
| `services` | `DoneIsDeployed`, `AdapterHasRole`, `DoneHasUsers`, `ServicesComplete` | an ha site, dr sites in each of the three modes; one change of the CR and its rollback, one disturbance of the MongoDB CR, two faults |
| `maintenance` | `DoneIsResized`, `PrimaryResizedLast`, `OkIsCompacted`, `RequestEnds` | a config set and two shards of two members, two sizes; one request beside one reconcile, or two requests, or two reconciles; one fault |
| `drop_not_dropped` | a violation: `DeletedIsDropped` | one failing command |
| `never_scaled_back` | a violation: `ScaledBack` | one fault |
| `install_redeploy` | a violation: `RedeployCompletes` | no fault |

**Why the bounds are enough to meet the hard cases.** Two members per site and
set make a primary that can move and a set that can be degraded; one member per
site makes a set that is down when it fails. Two shards in `install` let a loop
fail in its middle; a second fault cuts off the retry of an attempt the first
one cut off. Two requests are what a shared role needs to be taken away; two shards
let the loop over the hosts of a streaming user fail in its middle. Three
keys tell equal, prefix and unrelated apart. An update of the services shares
the bound of the faults: one update is what a switch needs to race with, and two
switches let a site come back to the mode its services were installed with.
In `maintenance` two members let the primary be any of them, two shards let a
primary of the second move while the first is worked on; two requests on one set
take the primary from each other; a second reconcile meets what the first one
left. The constraint `Bounded` of `MCMaintenance` keeps combinations apart that
share no state, that of `MCDbaasAdapter` follows a third request only where
nothing fails. In `services` one change of the CR
may come during a reconcile or after it; of two faults one cuts off the
update and the other hits its retry, or both hit the two attempts to add a
user (which is why `DoneHasUsers` speaks of at most one). In `placement` seven volumes give
up to three pairs, so that ties between weights occur, and five shards go round
them more than once.

`CHECK_DEADLOCK FALSE` stands in the configurations because each of these
systems may come to rest: no switch is posted any more, all requests are
answered, the installation is done.

**Violations.** `drop_not_dropped`: `RunWithGrants` assigns the result of the
deferred revoke to its named error, so a failed drop is reported DELETED, which
a test of the adapter says it is not. `never_scaled_back`: the retry of
`OnNeedsRestart` reads the replica count its predecessor had already set to 0;
the gate then never opens. `install_redeploy`: an active site deployed before its
standby has its claims when it fails for want of a keyfile; redeploying it, which
the troubleshooting guide recommends, is an update that skips the initialisation
and fails in every attempt.

## 4. Fairness

- `Switchover!FairSpec`: weak fairness of the operator's step on each site (the
  reconcile runs in its own goroutine and every poll but the lag poll is bounded
  by a timeout), of elections and of members and links coming back (Kubernetes
  restarts pods; a set with a majority elects).
- `VolumeExpansion!FairSpec`: the operator goes on, members rejoin, sets elect.
  `PatientSpec` does not oblige the gate to give up: its wait is a setting, and
  `Completes` is about a wait that is long enough.
- `Install!FairSpec`: the operators go on and a failed deployment is tried again.
- `Maintenance!Spec`: a request goes on (a goroutine of its own) and heartbeats
  arrive. Elections need not be fair: the poll also ends, with an error, when the
  first pod sees no primary. A member that stepped down is not elected again for
  the 60 seconds of `rs.stepDown()`, which outlast the 5 seconds of a poll's
  round; `RequestEnds` rests on this.
- `SupplServices!FairSpec`: the operator goes on (its waits are polls with a
  timeout), a reconcile of the MongoDB CR ends, Kubernetes starts and stops the
  pods it has to and grows a volume nothing has mounted, and a failed deployment
  is tried again. `ServicesComplete` claims nothing once a fault has happened.

Faults, crashes, mode changes and new requests are never fair.

## 5. Proofs

Every invariant and every action property of the passing runs, and the refinement,
is a theorem: TLC shows it on the bounds of the run, TLAPS for every value of the
constants. Most of them are not inductive. What each invariant adds is, for every
step of a plan or loop, what the steps before it have achieved and nothing since
can have undone.

`StatusProbeProofs` proves `ProbeTypeCorrect`, `UpIsEarnedAlways` and
`HealthyIsUpAlways` (the last under `N > 1`; a standby with sets of one member
whose primary is here is Down by the code's own rule). The inductive invariant
says of every set that has been read that its answer was right at some instant,
recorded in the history variables, and, while the cluster is steady, that it is Up.

`SwitchoverProofs` proves `TypeCorrect`, `OneServingSiteAlways`,
`DoneScalesServicesAlways`, `ActiveDoneOwnsSetsAlways` and the refinement
`SwitchoverImplementsHandover` for any number of shards, members, faults,
switches and updates of the services.
A site that is retired scales mongos, backup daemon and adapter down
before it can report "done", and the site manager only posts the new active mode
after that; the invariant names, for every step of a running plan, what its
predecessors have scaled already, and ties the phase of the site manager to the
modes and states of both sites. For the refinement every action is shown to be a
step of `ServiceHandover` or a stutter: a scaling step opens or closes its site
(it opens only in a plan for active, whose CR is active while it runs), a mode
posted by the site manager releases, acquires or seizes, the end of a plan may
settle a failover, and the writes of the supplementary operator are hidden by
`overruled` or confirm what is there. `ActiveDoneOwnsSets` needs `OwnersInv`:
a primary sits only where its site votes, sites that were never cut off from
each other are linked and did not fail over, and what an active plan has
behind its last wait is still so, because the other site changes the votes only
in a plan that the site manager starts after this one has ended. The wait itself
gives it: `GetClusterStatus` says Up for an active site only when a primary of
every set is here (lemma `UpOwnsSets`).

`DbaasAdapterProofs` proves `TypeCorrect`, `RoleHasHolderAlways`,
`OkHasUserAlways`, `DropIsAskedForAlways`, `SoloOkIsRealAlways` and
`RedistributeKeepsKeyAlways` for any set of requests, databases
and keys and any number of shards, failing commands and kills. `UserInv` is the
invariant behind `OkHasUserAlways`: wherever a request is in the loops over roles
and hosts, the users of all earlier rounds are written, and beyond the loops all
of them are, except those of the shards that could not be listed.
`RoleHasHolderAlways` needs no more than that: a role is added by a call that then
holds it, and a call lets go of it by a revoke, a failed revoke or a kill. The
last two are about calls that met no other. `SoloInv` says that such a call really is the only one,
that a collection it found unsharded is still unsharded when its own command
comes, that without a failing command it has no error yet and each of its phases
has what the earlier ones wrote, and that a lone redistribution finds the key it
was started for, or none. The lemma `KeyFacts` says which answers of
`shardKeyMatches` mean that a key already serves the request.

`InstallProofs` proves `InstallTypeCorrect`, `KeysAgreeAlways`,
`DoneSharesKeyAlways` and `DoneIsInitiatedAlways` for any number
of shards, updates and faults. The standby is the only site that generates a
keyfile, in a clean deployment in which it has none; the active site only ever
gets the standby's. The invariant `KInv` follows a keyfile between the step that
obtains it and the step that writes it, and says that a standby without claims
has no keyfile, so that a second clean deployment cannot make a second one.
`HInv` adds that the pods of a part the reconcile has passed hold no other
keyfile than the secret. `IInv` is what makes an update safe although it skips the
initialisation: it fails unless the root user exists, and a root user anywhere
means that every set was initiated and the last shard registered, since these
steps precede it in a clean deployment.

`SupplServicesProofs` proves `SupplTypeCorrect`, `AdapterHasRoleAlways`,
`DoneHasUsersAlways` and `DoneIsDeployedAlways` for
any set of deployments and any number of changes and faults. The types need a
strengthening (`Bounded`: no version is ahead of the number of changes), and
the role needs `RoleFirst`: on an active site with an adapter every step behind
`AddServicesUsers` finds the role created, because a failure of that step ends
the reconcile and the next one starts before it. `UsersInv` counts the faults a
reconcile can have met: the users are added twice, so that one fault leaves
them complete at the end. `DeployInv` has four parts: the versions applied, read
and asked for are in order unless the CR was set back; a CR nobody touched is the
one that was read; a service without a difference is in place; and one with a
difference is in place as far as the reconcile has got.

`MaintenanceProofs` proves `MaintenanceTypeCorrect`, `DoneIsResizedAlways`,
`OkIsCompactedAlways` and the action property `PrimaryResizedLastAlways` for any
number of shards, members, sizes, requests and faults. The invariant says of the
two loops of `UpdateOplogSize` that a listed member has its new size when its turn
is over and the reported one before (so that the second loop leaves nothing out),
that the report tells the primary while no primary of the set has moved, and of
a request that all members but the primary it found are compacted when it asks
that primary to step down.

`VolumeExpansionProofs` proves `ExpansionTypeCorrect`, `DoneIsWholeAlways` and
`OneConfigMemberAlways` for every deployment. The invariant `XInv` says which
volumes have grown at each step of the loop and which StatefulSets are off, that a
primary serves, that the rebuild leaves a replica behind it, and that without
faults the config members of other volumes serve. The attempt to prove `DoneIsWhole`
showed that its precondition had been too weak: it holds only where every member
mounts the volume of its own number, i.e. config and data set leave the same
number of volumes on a side (`MountsByNumber`), and not already where the data set
is the larger one (section 7).

`PlacementProofs` proves `PlacementTypeCorrect` and `SidesAreEvenAlways` for any
sizes, and `EveryMemberPlacedAlways` and `SidesAreEqualAlways` for `~DR`, where
the validation demands odd sizes; in dr it demands nothing and both are false
(section 7). `EveryMemberPlaced` asks of the config set, and of each shard, that
its members have volumes and no two of them the same one. `ElementsDistribution` is a recursive function of its loop counter.
A library theorem that takes a predicate cannot be used by these provers, so
induction is stated over a *set* of numbers (lemma `Induction`, from the
well-foundedness of `<`): the numbers for which the fact holds are a set that
contains 0 and is closed under successor. With it come that the functions exist,
what a round of them pops (`PoppedFacts`), that the weights count how often a
pair was taken and never differ by more than one (`WeightsFacts`), and that the
loads of the volumes are the weights (`LoadsAreWeights` in `PInv`).

The assumptions on constants are the `ASSUME`s of the modules, evaluated by TLC
in every run.

**Only model-checked:** the liveness properties `PlanEndsOrPolls`, `LagPollEnds`,
`Completes`, `CompletesInOrder`, `ServicesComplete` and `RequestEnds`, which rest on
fairness and on `ENABLED`, out of the prover's reach.

## 6. Mutants

Every property of a passing run has a mutant: a small change of a mapped
definition (dropped guard, off-by-one, missing step) under which TLC refutes it.
They are the operators marked "Mutant" next to what they change, and
`PROJECT.json` lists which is for which property.

## 7. Observations

Besides the three violations, the model shows behaviour a reader of the code
should know of. The modules keep it as it is.

- `GetClusterStatus` counts only the data sets that are Down
  (`mongo_helper.go:944`): with the config set Up, a data set that is degraded or
  has no pods still gives "up". The gate of the expansion therefore opens while a
  restarted data member is out (the installation guide says "full health").
- `ReconfigureRS` drops the error of the reconfig (`mongo_helper.go:739`), and a
  standby set with one primary here passes the last wait, so a site may report
  standby as done while its members still vote.
- `ScaleDATARSStep` is conditioned on `Sharded`: disabling an unsharded site
  stops nothing.
- `RunOnPrimary` (`mongo_helper.go:974`) answers without an error when there is no
  primary: `UpdateShardsStep` may succeed without having written anything.
- `AddOrUpdateShards` keeps only the last shard's error (`mongo_helper.go:751`):
  an ha installation may be done with an earlier shard not registered.
- The rollback of a failed creation drops the database after its role was revoked
  (`db_admin.go:220`), so the drop is refused and only logged.
- Two creations of one database may both find its name free and both succeed
  (`mongodbService.go:477`), and the rollback of one that fails may drop what the
  other has created, if its role is granted just then. `DropIsAskedFor` permits it.
- A request may revoke the role another one has just been granted
  (`mongodbService.go:55`); the other's command then fails and the deferred revoke
  loses that error, so its "ok" may stand for nothing. `SoloOkIsReal` is about
  calls that met no other.
- An error of `GetReplicaSetHosts` is logged and dropped (`mongodbService.go:147-152`,
  "can be ignored in case of single Mongos schema"), in a sharded cluster too: a
  streaming user is then reported as created without being on any shard.
  `OkHasUser` says that nothing else leaves a user out of an "ok".
- `DropUser` asks mongos only (`mongodbService.go:310`); a streaming user stays on
  the shards.
- An adapter that is killed leaves the role of its call granted until a later call
  on the same database, or of the cluster, revokes it, and a half-created database
  without the rollback; the creation that is tried again is refused once its
  metadata is there.
- `CreateRoles` passes a role it has already mapped to `CreateUser`, which maps it
  again (`db_admin.go:582`, `478`): only `streaming` survives, every other role
  becomes empty, which `createUser` takes for dbOwner. What a user's role permits
  is not modelled.
- A background redistribution reshards with the key of the request that started
  it (`mongodbService.go:905`), also when the key was refined meanwhile: a request
  that was told "ok" for the longer key may lose it. `RedistributeKeepsKey` holds
  only while nothing comes in between.
- `CreateRoles` appends an id to its successes also when a user of it failed
  (`db_admin.go:600`), so the id is in both lists.
- The supplementary CR keeps the mode of the installation. A later update of the
  services scales the backup daemon and the adapter to 0 on a site that was
  installed standby and is active by now, and to 1 on one that is standby by now
  (where, sharded, the grant stops it before the adapter, but not before the
  daemon). An update that races a retirement may open the adapter behind its
  scale-down; `dr_operations.md:18-24` has the services follow the mode.
- The lag and the health check of the resize compare an answer that still ends in
  a newline (`mongo_helper.go:132`, `152`; every other comparison trims it), so
  they stop nothing.
- A pod that is missing when the report is taken is not resized, and the step is
  done without it. A `cnfOpLogSizeMb` on an unsharded cluster fails every update,
  since there are no such pods.
- When the primary moves and the first pod has not heard of it, the report has
  two primaries or none; the sizes are right at the end all the same, but the
  acting primary may be resized first.
- A compaction whose primary was elected again before its own turn answers "ok"
  although that member refused (`mongo_helper.go:298`); errors of `compact` are
  dropped throughout.
- `RunCompactCommandForALL` (`mongo_helper.go:326`) does not quote the database
  name, compacts in the shell's own database and drops the errors: it answers
  "ok" without compacting anything, where `fiber/handlers.go:107` says "Compacts
  all collections in the database".
- `FlushInMemoryData` passes over a set without a primary and answers "ok".
- For dr the sizes are not validated (`calc_replica_size_step.go:25`); sizes of
  different parity leave members without a volume.
- `CreateDataStep` takes the claim for `(shardCount, s)` and the node for
  `(1, 0)` (`data_step.go:130`); they differ when there are more volumes than data
  replicas.
- `OnNeedsRestart` says "PVC-N is shared by: cnfrs{N} ... and datars{shard}{N}"
  (`mongodb.go:188`). That is so only where the config and the data set have the
  same number of members on a side. With three config members and one data member,
  or one and three, a member mounts a volume of another number; the group that is
  restarted for a volume is then not the one that mounts it, and the volume is not
  grown when the update is done (`DoneIsWhole` excludes it by `MountsByNumber`).
- In the unsharded schema `OnNeedsRestart` names config StatefulSets that do not
  exist, so its volumes can never be expanded.
- A standby killed between its claims and its keyfile is an update afterwards
  and waits for the active site's keyfile, which waits for the standby's.
- A supplementary CR that is set back to the one applied last, after an
  interrupted update, is taken for unchanged and reported done, although pieces
  of the other version remain. `DoneIsDeployed` excludes it by `reverted`.
- `WaitForPodsReady` counts pods of whatever version: for the adapter and the
  exporter it may be satisfied by the old pod. Only the backup daemon's rollout
  is checked.
- The restart of the backup daemon scales it to 1 also on a standby, and leaves
  it at 1 when the fifth attempt fails; the deployment step that follows, or the
  next reconcile, puts it right.
- `UpdateDbaasUserStep` needs mongos, which a sharded standby has at 0, so there
  an update of the services fails at this step.
- The mode is not part of the sections that are compared: a change of the mode
  alone redeploys nothing.

## 8. Plan

1. *Done*: status, switchover with the updates of the services beside it, adapter,
   placement, expansion, installation, supplementary services, maintenance; the
   abstract handover and its refinement; proofs of every safety property of the
   runs and of the refinement.
2. *Next*: abstract specifications that `Install` (one keyfile, agreed on once) and
   `Maintenance` (a member changes its size at most once in a reconcile) implement,
   with proofs of the refinements.

**Not modelled and why:** API types, templates and generated code have no
behaviour; of the REST handlers, key file, health, added replicas and compaction
are part of `Install`, `StatusProbe` and `Maintenance`, the others pass a command
on and keep no state; the change of a running cluster from ha to dr depends on
how mongod takes members that are renamed, and a keyfile that changes, one pod
after the other, which the code does not determine (its steps are actions of
`Install`); the migration of passwords to Vault writes what the adapter holds
already; the update of credentials is
commented out of the compound; the backup scripts are I/O around mongodump; the
operator core library is external and appears as the order, conditions and errors
of steps.

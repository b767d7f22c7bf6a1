------------------------------- MODULE Install -------------------------------
(***************************************************************************)
(* The main compound of the operator (MongoDBBuilder.Build): installation  *)
(* and update of a cluster on one site (schema ha) or on two (schema dr),  *)
(* where the operators fetch the keyfile of the cluster from each other.   *)
(*                                                                         *)
(* A site whose volume claims do not exist yet is deployed clean, any      *)
(* other as an update (GetDeploymentTypeByPVC), and only a clean deploy    *)
(* initiates the replica sets, registers the shards and creates the root   *)
(* user.  The claims are created by the first step of the compound.        *)
(*                                                                         *)
(* Modelled: every step with its condition, the errors it reports and the  *)
(* errors it swallows; failing calls, operators killed between two steps   *)
(* and deployments that are tried again; both sites at the same time.      *)
(*                                                                         *)
(* Simplifications: a step that loops over shards or members is one step   *)
(* that may fail anywhere in its loop; the pods of a set are the keys they *)
(* were started with; what the recycler erases, feature versions and oplog *)
(* sizes (0, the default) are left out.  The volumes start out empty.      *)
(***************************************************************************)
EXTENDS Naturals

CONSTANTS SiteA, SiteB,  \* the two sites; SiteA is active, SiteB standby
          Schemas,       \* the schema types of the deployments considered
          ShardCount,    \* schemaSettings.shardCount
          Sharded,       \* schemaSettings.sharded
          Keys,          \* keyfiles openssl can come up with
          NoKey,         \* no keyfile
          MaxFaults,     \* bound: failing calls and operators killed
          MaxChanges     \* bound: updates after the installation

HA == "ha"
DR == "dr"

ASSUME InstallAssumption ==
    /\ SiteA # SiteB /\ NoKey \notin Keys
    /\ Schemas \subseteq {HA, DR}
    /\ ShardCount \in Nat \ {0}
    /\ Sharded \in BOOLEAN /\ (Sharded \/ ShardCount = 1)
    /\ MaxFaults \in Nat /\ MaxChanges \in Nat

Sites    == {SiteA, SiteB}
Other(s) == IF s = SiteA THEN SiteB ELSE SiteA
Cnf      == 0
Shards   == 1..ShardCount
RS       == IF Sharded THEN Shards \cup {Cnf} ELSE Shards
Router   == ShardCount + 1
Parts    == 0..(ShardCount + 1)
Clean    == "clean"
Update   == "update"

VARIABLES
    schema,    \* schemaSettings.schemaType
    pending,   \* pending[s]: the CR has to be reconciled
    status,    \* status[s]: what the CR reports
    pc,        \* pc[s]: the step to run next, or "idle"
    deploy,    \* deploy[s]: the deployment type of the running compound
    pvcs,      \* pvcs[s]: the volume claims exist
    key,       \* key[s]: the keyfile in the secret
    fetched,   \* fetched[s]: sslString of the step that is under way
    held,      \* held[s][p]: keyfiles the pods of part p were started with
    initiated, \* replica sets that are initiated
    root,      \* sets with the root user (Cnf: the users mongos knows)
    registered,\* shards that mongos knows
    joined,    \* sets the other site's members were added to
    ordered,   \* history: the active site was begun after the standby's end
    changes, faults

siteVars  == <<pending, status, pc, deploy, fetched>>
mongoVars == <<initiated, root, registered, joined>>
vars == <<schema, siteVars, pvcs, key, held, mongoVars, ordered, changes, faults>>

IsActive(s) == s = SiteA
Installed   == IF schema = DR THEN Sites ELSE {SiteA}

-----------------------------------------------------------------------------
(* The order of the steps, and their Condition functions. *)

Steps == {"pvc", "nodes", "cleanup", "ssl", "sslWrite", "cnf", "initCnf",
          "data", "initData", "mongos", "register", "addUser", "fcv",
          "rename", "addCnf", "addData", "finish"}

StepAfter ==
    [pvc      |-> "nodes",    nodes    |-> "cleanup", cleanup |-> "ssl",
     ssl      |-> "sslWrite", sslWrite |-> "cnf",     cnf     |-> "initCnf",
     initCnf  |-> "data",     data     |-> "initData", initData |-> "mongos",
     mongos   |-> "register", register |-> "addUser", addUser |-> "fcv",
     fcv      |-> "rename",   rename   |-> "addCnf",  addCnf  |-> "addData",
     addData  |-> "finish"]

Condition(s, st) ==
    /\ st \in {"cnf", "initCnf", "mongos", "register", "addCnf"} => Sharded
    /\ st \in {"initCnf", "initData", "register", "addUser"}
         => deploy[s] = Clean /\ IsActive(s)
    /\ st \in {"fcv", "rename", "addCnf", "addData"} => IsActive(s)
    /\ st \in {"rename", "addCnf", "addData", "cleanup"} => schema = DR
    /\ st = "cleanup" => ~IsActive(s) /\ deploy[s] # Clean

At(s, st) == pc[s] = st /\ Condition(s, st)
GoOn(s)   == /\ pc' = [pc EXCEPT ![s] = StepAfter[pc[s]]]
             /\ UNCHANGED status
Fault     == faults < MaxFaults /\ faults' = faults + 1

\* An error or a panic: the reconcile is over and the CR reports it.
Abort(s) ==
    /\ pc' = [pc EXCEPT ![s] = "idle"]
    /\ status' = [status EXCEPT ![s] = "failed"]

-----------------------------------------------------------------------------
Init ==
    /\ schema \in Schemas
    /\ pending = [s \in Sites |-> s \in Installed]
    /\ status = [s \in Sites |-> "new"]
    /\ pc = [s \in Sites |-> "idle"]
    /\ deploy = [s \in Sites |-> Clean]
    /\ pvcs = [s \in Sites |-> FALSE]
    /\ key = [s \in Sites |-> NoKey]
    /\ fetched = [s \in Sites |-> NoKey]
    /\ held = [s \in Sites |-> [p \in Parts |-> {}]]
    /\ initiated = {} /\ root = {} /\ registered = {} /\ joined = {}
    /\ ordered = TRUE /\ changes = 0 /\ faults = 0

DeployType(s) == IF pvcs[s] THEN Update ELSE Clean

StartReconcile(s) ==
    /\ pending[s] /\ pc[s] = "idle"
    /\ pending' = [pending EXCEPT ![s] = FALSE]
    /\ status' = [status EXCEPT ![s] = "running"]
    /\ pc' = [pc EXCEPT ![s] = "pvc"]
    /\ deploy' = [deploy EXCEPT ![s] = DeployType(s)]
    /\ fetched' = [fetched EXCEPT ![s] = NoKey]
    /\ ordered' = (ordered /\ (s = SiteA /\ schema = DR /\ DeployType(s) = Clean
                                 => status[SiteB] = "done"))
    /\ UNCHANGED <<schema, pvcs, key, held, mongoVars, changes, faults>>

SkipStep(s) ==
    /\ pc[s] \in Steps \ {"finish"} /\ ~Condition(s, pc[s])
    /\ GoOn(s)
    /\ UNCHANGED <<schema, pending, deploy, fetched, pvcs, key, held,
                   mongoVars, ordered, changes, faults>>

\* CreatePVCStep: the claims may exist although the wait for them failed.
CreatePVC(s) ==
    /\ At(s, "pvc")
    /\ \/ GoOn(s) /\ pvcs' = [pvcs EXCEPT ![s] = TRUE] /\ UNCHANGED faults
       \/ Fault /\ Abort(s) /\ pvcs' \in {pvcs, [pvcs EXCEPT ![s] = TRUE]}
    /\ UNCHANGED <<schema, pending, deploy, fetched, key, held, mongoVars,
                   ordered, changes>>

\* Volumes that do not grow, and StoreNodesStep.
StoreNodes(s) ==
    /\ At(s, "nodes")
    /\ \/ GoOn(s) /\ UNCHANGED faults
       \/ Fault /\ Abort(s)
    /\ UNCHANGED <<schema, pending, deploy, fetched, pvcs, key, held, mongoVars,
                   ordered, changes>>

\* DeleteStatefulsetsCompound: a standby whose own sets are Down, while the
\* other site answers "up" (which it cannot before its sets are initiated),
\* loses its StatefulSets; in the unsharded schema they stay.
Deleted(s, ps) ==
    held' = [held EXCEPT ![s] = [p \in Parts |->
                IF p \in ps /\ Sharded THEN {} ELSE @[p]]]

Cleanup(s) ==
    /\ At(s, "cleanup")
    /\ \/ GoOn(s) /\ UNCHANGED <<held, faults>>
       \/ RS \subseteq initiated /\ GoOn(s) /\ Deleted(s, RS) /\ UNCHANGED faults
       \/ /\ RS \subseteq initiated /\ Fault /\ Abort(s)
          /\ \E ps \in SUBSET RS : Deleted(s, ps)
    /\ UNCHANGED <<schema, pending, deploy, fetched, pvcs, key, mongoVars,
                   ordered, changes>>

-----------------------------------------------------------------------------
(* CreateSSLSecretStep: get the keyfile, then write the secret. *)

InUse == {key[s] : s \in Sites} \cup {fetched[s] : s \in Sites}
           \cup UNION {held[s][p] : s \in Sites, p \in Parts}

\* openssl rand: a keyfile nobody has seen.
Generate(s) ==
    /\ \E k \in Keys \ InUse :
          /\ k = CHOOSE x \in Keys : x \notin InUse
          /\ fetched' = [fetched EXCEPT ![s] = k]
    /\ GoOn(s)

\* Mutant: a standby that gets no keyfile generates one in an update too.
MayGenerateAlways(s) == ~IsActive(s)

\* Mutant: a standby waits for the other operator's keyfile, too.
MayGenerateNever(s) == FALSE

\* Who generates the keyfile when the other operator does not answer.
MayGenerate(s) == ~IsActive(s) /\ deploy[s] = Clean

NoAnswer(s) ==
    \/ MayGenerate(s) /\ Generate(s)
    \/ ~MayGenerate(s) /\ Abort(s) /\ UNCHANGED fetched

\* The other operator answers with its secret, or with an error while it has
\* none; the call itself may fail.
GetKeyFile(s) ==
    /\ At(s, "ssl")
    /\ \/ schema # DR /\ Generate(s) /\ UNCHANGED faults
       \/ /\ schema = DR /\ key[Other(s)] # NoKey
          /\ fetched' = [fetched EXCEPT ![s] = key[Other(s)]]
          /\ GoOn(s) /\ UNCHANGED faults
       \/ schema = DR /\ key[Other(s)] = NoKey /\ NoAnswer(s) /\ UNCHANGED faults
       \/ schema = DR /\ Fault /\ NoAnswer(s)
    /\ UNCHANGED <<schema, pending, deploy, pvcs, key, held, mongoVars, ordered,
                   changes>>

WriteKey(s) ==
    /\ At(s, "sslWrite")
    /\ \/ /\ key' = [key EXCEPT ![s] = fetched[s]]
          /\ GoOn(s) /\ UNCHANGED faults
       \/ /\ Fault /\ Abort(s)
          /\ key' \in {key, [key EXCEPT ![s] = fetched[s]]}
    /\ UNCHANGED <<schema, pending, deploy, fetched, pvcs, held, mongoVars,
                   ordered, changes>>

-----------------------------------------------------------------------------
(* Pods.  Every StatefulSet and the mongos controller are deleted and        *)
(* created again, one after the other.                                       *)

Restarted(s, ps) ==
    held' = [held EXCEPT ![s] = [p \in Parts |-> IF p \in ps THEN {key[s]} ELSE @[p]]]

\* The loop over the members of part p was cut off.
HalfRestarted(s, ps, p) ==
    held' = [held EXCEPT ![s] = [x \in Parts |->
                IF x \in ps THEN {key[s]} ELSE IF x = p THEN @[x] \cup {key[s]} ELSE @[x]]]

CreateCNF(s) ==
    /\ At(s, "cnf")
    /\ \/ Restarted(s, {Cnf}) /\ GoOn(s) /\ UNCHANGED faults
       \/ HalfRestarted(s, {}, Cnf) /\ Fault /\ Abort(s)
    /\ UNCHANGED <<schema, pending, deploy, fetched, pvcs, key, mongoVars,
                   ordered, changes>>

\* Mutant: the loop over the shards runs one too far.
FirstShardsTooFar(d) == 1..(d + 1)

\* The shards a loop has been through after d rounds.
FirstShards(d) == 1..d

CreateData(s) ==
    /\ At(s, "data")
    /\ \/ Restarted(s, Shards) /\ GoOn(s) /\ UNCHANGED faults
       \/ \E d \in Shards : HalfRestarted(s, FirstShards(d - 1), d) /\ Fault /\ Abort(s)
    /\ UNCHANGED <<schema, pending, deploy, fetched, pvcs, key, mongoVars,
                   ordered, changes>>

\* Mutant: the controller is updated in place, its pods stay.
RouterPodsKept(s) == IF IsActive(s) THEN held[s][Router] \cup
                        (IF held[s][Router] = {} THEN {key[s]} ELSE {}) ELSE {}

\* The pods of the new controller: none on a standby site.
RouterPods(s) == IF IsActive(s) THEN {key[s]} ELSE {}

CreateMongos(s) ==
    /\ At(s, "mongos")
    /\ \/ held' = [held EXCEPT ![s][Router] = RouterPods(s)]
          /\ GoOn(s) /\ UNCHANGED faults
       \/ /\ Fault /\ Abort(s)
          /\ held' \in {held, [held EXCEPT ![s][Router] = {}],
                        [held EXCEPT ![s][Router] = RouterPods(s)]}
    /\ UNCHANGED <<schema, pending, deploy, fetched, pvcs, key, mongoVars,
                   ordered, changes>>

-----------------------------------------------------------------------------
(* The cluster on these pods. *)

MongoReplicaSetInit(sets) == initiated' = initiated \cup sets

\* An error may come after the set was initiated (the retries then meet a set
\* that is initiated already).
InitCNF(s) ==
    /\ At(s, "initCnf")
    /\ \/ MongoReplicaSetInit({Cnf}) /\ GoOn(s) /\ UNCHANGED faults
       \/ (MongoReplicaSetInit({Cnf}) \/ UNCHANGED initiated) /\ Fault /\ Abort(s)
    /\ UNCHANGED <<schema, pending, deploy, fetched, pvcs, key, held, root,
                   registered, joined, ordered, changes>>

InitData(s) ==
    /\ At(s, "initData")
    /\ \/ MongoReplicaSetInit(FirstShards(ShardCount)) /\ GoOn(s) /\ UNCHANGED faults
       \/ /\ \E d \in 0..ShardCount : MongoReplicaSetInit(FirstShards(d))
          /\ Fault /\ Abort(s)
    /\ UNCHANGED <<schema, pending, deploy, fetched, pvcs, key, held, root,
                   registered, joined, ordered, changes>>

AddShards(ds) == registered' = registered \cup ds

\* ShardsRegistrationStep: AddShards keeps only the error of the last shard.
RegisterShards(s) ==
    /\ At(s, "register")
    /\ \/ AddShards(Shards) /\ GoOn(s) /\ UNCHANGED faults
       \/ /\ Fault
          /\ \E ds \in SUBSET Shards :
               /\ ds # Shards /\ AddShards(ds)
               /\ IF ShardCount \in ds THEN GoOn(s) ELSE Abort(s)
    /\ UNCHANGED <<schema, pending, deploy, fetched, pvcs, key, held, initiated,
                   root, joined, ordered, changes>>

CreateUser(sets) == root' = root \cup sets

\* AddUserStep: through mongos, then on the primary of every shard.  A failing
\* command is an error; a shard without a primary is passed over (RunOnPrimary
\* returns nil).
AddUser(s) ==
    /\ At(s, "addUser")
    /\ \/ CreateUser(RS) /\ GoOn(s) /\ UNCHANGED faults
       \/ /\ \E ds \in SUBSET Shards : CreateUser(RS \ ds)
          /\ Fault /\ GoOn(s)
       \/ /\ \/ \E d \in 0..ShardCount : CreateUser((RS \ Shards) \cup FirstShards(d))
             \/ UNCHANGED root
          /\ Fault /\ Abort(s)
    /\ UNCHANGED <<schema, pending, deploy, fetched, pvcs, key, held, initiated,
                   registered, joined, ordered, changes>>

\* Mutant: an empty version is not an error.
VersionKnownAlways == TRUE

\* GetMongoVersion asks the primary of shard 1 as root; without a primary, or
\* without the user, the answer is empty and no error.
VersionKnown == 1 \in initiated /\ 1 \in root

\* SetFeatureCompatibilityVersion: an empty version is an error; the sets that
\* cannot be asked for their primary are passed over.
SetFCV(s) ==
    /\ At(s, "fcv")
    /\ \/ VersionKnown /\ GoOn(s) /\ UNCHANGED faults
       \/ ~VersionKnown /\ Abort(s) /\ UNCHANGED faults
       \/ Fault /\ Abort(s)
    /\ UNCHANGED <<schema, pending, deploy, fetched, pvcs, key, held, mongoVars,
                   ordered, changes>>

\* RenameMemberDomainStep runs rs.config() as root on the first pod of every
\* set; the names have the right domain already.  A set whose pods cannot be
\* listed is passed over.
RenameMemberDomain(s) ==
    /\ At(s, "rename")
    /\ \/ RS \subseteq root /\ GoOn(s) /\ UNCHANGED faults
       \/ ~(RS \subseteq root) /\ Abort(s) /\ UNCHANGED faults
       \/ Fault /\ (Abort(s) \/ GoOn(s))
    /\ UNCHANGED <<schema, pending, deploy, fetched, pvcs, key, held, mongoVars,
                   ordered, changes>>

\* AddCNFReplicas and AddDATAReplicas: a member that was added before is
\* skipped, an empty answer is an error.
AddReplicas(s, st, sets) ==
    /\ At(s, st)
    /\ \/ sets \subseteq root /\ joined' = joined \cup sets
          /\ GoOn(s) /\ UNCHANGED faults
       \/ ~(sets \subseteq root) /\ Abort(s) /\ UNCHANGED <<joined, faults>>
       \/ Fault /\ Abort(s) /\ \E js \in SUBSET (sets \cap root) : joined' = joined \cup js
    /\ UNCHANGED <<schema, pending, deploy, fetched, pvcs, key, held, initiated,
                   root, registered, ordered, changes>>

AddCNFReplicas(s)  == AddReplicas(s, "addCnf", {Cnf})
AddDATAReplicas(s) == AddReplicas(s, "addData", Shards)

Finish(s) ==
    /\ pc[s] = "finish"
    /\ pc' = [pc EXCEPT ![s] = "idle"]
    /\ status' = [status EXCEPT ![s] = "done"]
    /\ UNCHANGED <<schema, pending, deploy, fetched, pvcs, key, held, mongoVars,
                   ordered, changes, faults>>

-----------------------------------------------------------------------------
(* Around the compound (external). *)

\* The operator's pod is killed; the new one reconciles.
Crash(s) ==
    /\ pc[s] # "idle" /\ Fault
    /\ pc' = [pc EXCEPT ![s] = "idle"]
    /\ pending' = [pending EXCEPT ![s] = TRUE]
    /\ UNCHANGED <<schema, status, deploy, fetched, pvcs, key, held, mongoVars,
                   ordered, changes>>

\* A failed deployment is tried again.
Redeploy(s) ==
    /\ pc[s] = "idle" /\ status[s] = "failed" /\ ~pending[s]
    /\ pending' = [pending EXCEPT ![s] = TRUE]
    /\ UNCHANGED <<schema, status, pc, deploy, fetched, pvcs, key, held,
                   mongoVars, ordered, changes, faults>>

\* After the installation the CR changes: an update on some of the sites.
ChangeSpec ==
    /\ \A s \in Installed : status[s] = "done" /\ ~pending[s]
    /\ changes < MaxChanges /\ changes' = changes + 1
    /\ \E on \in SUBSET Installed :
          /\ on # {}
          /\ pending' = [s \in Sites |-> s \in on]
          /\ status' = [s \in Sites |-> IF s \in on THEN "new" ELSE status[s]]
    /\ UNCHANGED <<schema, pc, deploy, fetched, pvcs, key, held, mongoVars,
                   ordered, faults>>

-----------------------------------------------------------------------------
Operator(s) ==
    \/ StartReconcile(s) \/ SkipStep(s)
    \/ CreatePVC(s) \/ StoreNodes(s) \/ Cleanup(s)
    \/ GetKeyFile(s) \/ WriteKey(s)
    \/ CreateCNF(s) \/ InitCNF(s) \/ CreateData(s) \/ InitData(s)
    \/ CreateMongos(s) \/ RegisterShards(s) \/ AddUser(s) \/ SetFCV(s)
    \/ RenameMemberDomain(s) \/ AddCNFReplicas(s) \/ AddDATAReplicas(s)
    \/ Finish(s)

Next ==
    \/ \E s \in Sites : Operator(s) \/ Crash(s) \/ Redeploy(s)
    \/ ChangeSpec

Spec == Init /\ [][Next]_vars

\* The operators go on, and a failed deployment is tried again.
FairSpec == /\ Spec
            /\ \A s \in Sites : WF_vars(Operator(s)) /\ WF_vars(Redeploy(s))

-----------------------------------------------------------------------------
\* Types of the variables.
TypeOK ==
    /\ schema \in Schemas
    /\ pending \in [Sites -> BOOLEAN]
    /\ status \in [Sites -> {"new", "running", "failed", "done"}]
    /\ pc \in [Sites -> Steps \cup {"idle"}]
    /\ deploy \in [Sites -> {Clean, Update}]
    /\ pvcs \in [Sites -> BOOLEAN]
    /\ key \in [Sites -> Keys \cup {NoKey}]
    /\ fetched \in [Sites -> Keys \cup {NoKey}]
    /\ held \in [Sites -> [Parts -> SUBSET Keys]]
    /\ initiated \subseteq RS /\ root \subseteq RS
    /\ registered \subseteq Shards /\ joined \subseteq RS
    /\ ordered \in BOOLEAN
    /\ changes \in 0..MaxChanges /\ faults \in 0..MaxFaults

\* The two sites of a dr deployment never hold different keyfiles, in which
\* case their members could not authenticate each other: whichever operator
\* comes first, whatever call fails or is cut off by a restart, and although
\* a step reads the other's secret and writes its own later.
KeysAgree ==
    (key[SiteA] # NoKey /\ key[SiteB] # NoKey) => key[SiteA] = key[SiteB]

\* A deployment that reports success has all its pods on one keyfile, the one
\* in the secret: every StatefulSet and mongos were recreated after the secret
\* was written, also when an earlier attempt was cut off between them.
DoneSharesKey ==
    \A s \in Sites : status[s] = "done" =>
        \A p \in RS \cup {Router} : held[s][p] \subseteq {key[s]}

\* An active site that reports success has a working cluster, although its
\* update skips all of the initialisation an interrupted installation may
\* have missed: every set is initiated, mongos knows the last shard, and the
\* root user exists on shard 1; in a dr deployment on every set, and all of
\* them have the other site's members.
DoneIsInitiated ==
    status[SiteA] = "done" =>
        /\ RS \subseteq initiated /\ 1 \in root
        /\ Sharded => ShardCount \in registered
        /\ schema = DR => RS \subseteq root /\ RS \subseteq joined

\* When nothing fails a standby site is always deployed in the end, and an
\* active one if the documented order was kept: although each operator needs
\* the other's keyfile, and an update does not generate one.
CompletesInOrder ==
    \A s \in Sites :
        (s \in Installed /\ status[s] # "done")
            ~> (status[s] = "done" \/ faults > 0 \/ (IsActive(s) /\ ~ordered))

-----------------------------------------------------------------------------
\* "If active was deployed first or concurrently with standby, redeploy in the
\* correct order" (docs/public/troubleshooting.md): when no call fails and the
\* failed deployment is tried again, the installation succeeds in the end.
RedeployCompletes ==
    \A s \in Sites :
        (s \in Installed /\ status[s] # "done") ~> (status[s] = "done" \/ faults > 0)

=============================================================================

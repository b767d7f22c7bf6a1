----------------------------- MODULE DbaasAdapter -----------------------------
(***************************************************************************)
(* The DBaaS adapter: HTTP requests that create and drop logical databases *)
(* and users and shard collections, served concurrently.  All of them run  *)
(* their MongoDB commands as ONE adapter user, which owns no database.     *)
(* RunWithGrants and RunWithClusterGrants grant that user dbOwner on the   *)
(* database, or clusterAdmin, run a body, and revoke the role again.       *)
(*                                                                         *)
(* Modelled: every command as a step of its own, authorised by the roles   *)
(* the user has at that instant; commands that fail; the deferred revoke   *)
(* whose result replaces the body's error; the rollback of a failed        *)
(* creation; the redistribution that goes on after the answer; the users   *)
(* of the streaming role, which are written to every shard as well; an     *)
(* adapter that is killed.                                                 *)
(*                                                                         *)
(* Simplifications: a role is the database it is granted on (dbOwner on a  *)
(* logical database, clusterAdmin on Admin); a request names one           *)
(* collection and its shard key; passwords, metadata contents, names of    *)
(* generated users and what a user's role permits are left out.            *)
(***************************************************************************)
EXTENDS ShardKey, FiniteSets

CONSTANTS Reqs,       \* requests that are served at the same time
          Dbs,        \* logical databases
          Admin,      \* the admin database: clusterAdmin is granted on it
          Keys,       \* shard keys a client asks for
          Asked,      \* the kinds of requests that arrive
          RoleCount,  \* users created with a database (GetSupportedRoles)
          ShardCount, \* shards listShards answers; 0 where it is no command
          MaxServed,  \* bound: requests in all
          MaxFaults   \* bound: commands that fail

ASSUME AdapterAssumption ==
    /\ Admin \notin Dbs
    /\ RoleCount \in Nat \ {0} /\ ShardCount \in Nat
    /\ MaxServed \in Nat /\ MaxFaults \in Nat
    /\ \A k \in Keys : k \in Seq(STRING) /\ k # <<>>
    /\ Asked \subseteq {"create", "drop", "dropUser", "createUser", "createStreaming",
                     "createRoles", "metadata", "settings"}

NoKey == <<>>
Kinds == {"create", "drop", "dropUser", "createUser", "createStreaming",
          "createRoles", "metadata", "settings"}

\* CreateUser for the role streaming and for any other one; CreateDatabase and
\* CreateRoles write a user per role.
OneUser   == {"createUser", "createStreaming"}
UserKinds == OneUser \cup {"create", "createRoles"}

\* Where users are written: mongos, and the shards.
Hosts == 0..ShardCount

\* Phases that run under a role, and the database the role is granted on.
OwnerPhases   == {"meta", "collection", "index", "refineIndex", "dropDb"}
ClusterPhases == {"enable", "shard", "refine", "move"}
Phases == OwnerPhases \cup ClusterPhases \cup
          {"validate", "userCheck", "userWrite", "hosts", "dropUser", "checkKey",
           "rollback", "done"}

VARIABLES
    req,       \* req[r]: the request slot r serves, or served last
    bg,        \* bg[r]: the background redistribution slot r started
    grants,    \* databases the adapter user has a granted role on
    users,     \* users[d]: hosts on which d has the user the clients name
    meta,      \* meta[d]: _dbaas_metadata has a document
    coll,      \* coll[d]: the collection exists
    docs,      \* docs[d]: the collection has documents
    key,       \* key[d]: its shard key, NoKey when it is not sharded
    idx,       \* idx[d]: keys the collection has an index for
    leaked,    \* history: roles left behind by a failed revoke or a kill
    served,    \* requests received so far
    faults     \* commands that failed so far

store == <<users, meta, coll, docs, key, idx>>
vars  == <<req, bg, grants, store, leaked, served, faults>>

Exists(d) == meta[d] \/ coll[d]

Idle == [kind |-> "none", db |-> Admin, key |-> NoKey, move |-> FALSE,
         phase |-> "done", step |-> "body", role |-> 1, host |-> 0,
         seen |-> FALSE, docs |-> FALSE, free |-> FALSE, missed |-> {},
         wrote |-> {}, result |-> "none", alone |-> FALSE, served |-> TRUE]

NoTask == [db |-> Admin, key |-> NoKey, step |-> "none", alone |-> FALSE]

\* Calls in progress.
Busy(r) == req[r].phase # "done"
Tasking(r) == bg[r].step # "none"

\* The database the phase's role is granted on.
RoleDb(q) == IF q.phase \in ClusterPhases THEN Admin ELSE q.db
Granted(q) == q.phase \in OwnerPhases \cup ClusterPhases

\* Slots whose call has granted the role on d and not yet revoked it.
Holders(d) ==
    {r \in Reqs : Granted(req[r]) /\ req[r].step # "grant" /\ RoleDb(req[r]) = d}
TaskHolders(d) == {r \in Reqs : d = Admin /\ bg[r].step \in {"body", "revoke"}}

Fault == faults < MaxFaults /\ faults' = faults + 1

-----------------------------------------------------------------------------
Init ==
    /\ req = [r \in Reqs |-> Idle]
    /\ bg = [r \in Reqs |-> NoTask]
    /\ grants = {} /\ leaked = {}
    /\ users = [d \in Dbs |-> {}]
    /\ meta = [d \in Dbs |-> FALSE]
    /\ coll = [d \in Dbs |-> FALSE]
    /\ docs = [d \in Dbs |-> FALSE]
    /\ key = [d \in Dbs |-> NoKey]
    /\ idx = [d \in Dbs |-> {}]
    /\ served = 0 /\ faults = 0

FirstPhase(k) ==
    [create     |-> "validate",
     drop       |-> "dropDb",
     dropUser   |-> "dropUser",
     createUser |-> "userCheck",
     createStreaming |-> "userCheck",
     createRoles |-> "userCheck",
     metadata   |-> "meta",
     settings   |-> "enable"][k]

\* The phase that follows when the phase's error is nil (and the loops over
\* the hosts and the roles have no next round).
NextPhase(q) ==
    LET last == IF q.move THEN "move" ELSE "done"
    IN [validate    |-> "userCheck",
        userCheck   |-> "userWrite",
        userWrite   |-> IF q.kind = "create" THEN "meta" ELSE "done",
        hosts       |-> IF q.kind = "create" THEN "meta" ELSE "done",
        dropUser    |-> "done",
        dropDb      |-> "done",
        meta        |-> IF q.kind = "create" /\ q.key # NoKey THEN "enable" ELSE last,
        enable      |-> "collection",
        collection  |-> "checkKey",
        checkKey    |-> last,
        index       |-> "shard",
        shard       |-> last,
        refineIndex |-> "refine",
        refine      |-> last,
        move        |-> "done"][q.phase]

\* The request returns; of its local state only the answer is kept.
Answer(q, res) ==
    [Idle EXCEPT !.kind = q.kind, !.db = q.db, !.missed = q.missed,
                 !.wrote = IF res = "ok" THEN q.wrote ELSE {},
                 !.free = q.free, !.alone = q.alone, !.result = res,
                 !.served = q.key = NoKey \/ isPrefix(q.key, key[q.db])]

\* A phase that runs under a role begins with the grant.
StepIn(p) == IF p \in OwnerPhases \cup ClusterPhases THEN "grant" ELSE "body"

\* The request goes on to phase p.
Enter(q, p) ==
    IF p = "done" THEN Answer(q, "ok")
    ELSE [q EXCEPT !.phase = p, !.step = StepIn(p)]

\* Mutant: an error of the user commands is only logged.
FailedUserLogged(q) ==
    IF q.phase \in {"move", "userWrite"} THEN Answer(q, "ok")
    ELSE IF q.kind = "create" /\ q.phase # "validate"
    THEN [q EXCEPT !.phase = "rollback", !.step = "body"]
    ELSE Answer(q, "failed")

\* Mutant: the rollback is deferred before the name is validated.
FailedRollsBack(q) ==
    IF q.phase = "move" THEN Answer(q, "ok")
    ELSE IF q.kind = "create"
    THEN [q EXCEPT !.phase = "rollback", !.step = "body"]
    ELSE Answer(q, "failed")

\* The request returns an error; the deferred function of CreateDatabase
\* drops the database unless dbCreated, which is set before the move.  An
\* error of the move is only logged.
Failed(q) ==
    IF q.phase = "move" THEN Answer(q, "ok")
    ELSE IF q.kind = "create" /\ q.phase # "validate"
    THEN [q EXCEPT !.phase = "rollback", !.step = "body"]
    ELSE Answer(q, "failed")

Becomes(r, q) == req' = [req EXCEPT ![r] = q]

Proceed(r) == Becomes(r, Enter(req[r], NextPhase(req[r])))

-----------------------------------------------------------------------------
\* No other call is in progress.
Alone(r) == \A x \in Reqs \ {r} : ~Busy(x) /\ ~Tasking(x)

NewRequest(k, d, sk, mv, alone) ==
    [Idle EXCEPT !.kind = k, !.db = d, !.key = sk, !.move = mv, !.alone = alone,
                 !.phase = FirstPhase(k), !.step = StepIn(FirstPhase(k))]

\* The tasks, none of which is alone any more.
Crowded == [x \in Reqs |-> [bg[x] EXCEPT !.alone = FALSE]]

\* A request arrives: while another call is in progress neither is alone.
\* CreateRoles is asked for a database none of whose roles has a user yet.
Receive(r) ==
    /\ ~Busy(r) /\ ~Tasking(r) /\ served < MaxServed
    /\ \E k \in Asked, d \in Dbs, sk \in Keys \cup {NoKey}, mv \in BOOLEAN :
         /\ k = "settings" => sk # NoKey
         /\ k \notin {"create", "settings"} => sk = NoKey
         /\ mv => k = "create"
         /\ req' = [x \in Reqs |->
              IF x = r
              THEN NewRequest(k, d, sk, mv, Alone(r))
              ELSE [req[x] EXCEPT !.alone = @ /\ ~Busy(x)]]
    /\ bg' = Crowded
    /\ served' = served + 1
    /\ UNCHANGED <<grants, store, leaked, faults>>

\* IsDatabaseAvailable.  An existing name is refused before the deferred
\* rollback is in place.
Validate(r) ==
    /\ req[r].phase = "validate"
    /\ \/ /\ ~Exists(req[r].db)
          /\ Becomes(r, [Enter(req[r], NextPhase(req[r])) EXCEPT !.free = TRUE])
          /\ UNCHANGED faults
       \/ Exists(req[r].db) /\ Becomes(r, Failed(req[r])) /\ UNCHANGED faults
       \/ Fault /\ Becomes(r, Failed(req[r]))
    /\ UNCHANGED <<bg, grants, store, leaked, served>>

\* Only the first user of CreateDatabase, and the one of CreateUser, has a name
\* the client may choose (role "admin"); the others get generated names.
Named(q) == q.role = 1 /\ q.kind # "createRoles"

\* The user of this round is one for the role streaming: of the supported
\* roles (main.go: admin, rw, ro, streaming; only admin without the feature
\* multi-users) it is the last.
Streams(q) ==
    \/ q.kind = "createStreaming"
    \/ q.kind \in {"create", "createRoles"} /\ RoleCount > 1 /\ q.role = RoleCount

\* CreateOrUpdateUser asks whether the user exists (IsUserExist answers "no"
\* without an error when it gets no client) ...
UserCheck(r) ==
    /\ req[r].phase = "userCheck"
    /\ \/ /\ Becomes(r, [Enter(req[r], "userWrite") EXCEPT
                           !.seen = req[r].host \in users[req[r].db] /\ Named(req[r])])
          /\ UNCHANGED faults
       \/ Fault /\ Becomes(r, Failed(req[r]))
       \/ Fault /\ Becomes(r, [Enter(req[r], "userWrite") EXCEPT !.seen = FALSE])
    /\ UNCHANGED <<bg, grants, store, leaked, served>>

\* Mutant: the loop over the roles runs once too often.
MoreRolesLate(q) == q.kind \notin OneUser /\ q.role <= RoleCount

\* The loop over the supported roles has a next round.
MoreRoles(q) == q.kind \notin OneUser /\ q.role < RoleCount

\* CreateOrUpdateUser returns nil: the user of the next role, or the next phase.
UserDone(q) ==
    IF MoreRoles(q)
    THEN [Enter(q, "userCheck") EXCEPT !.role = @ + 1, !.host = 0]
    ELSE Enter([q EXCEPT !.host = 0], NextPhase(q))

\* A streaming user is written to the shards one after the other as well.
AfterWrite(q) ==
    IF q.host = 0 /\ Streams(q) THEN Enter(q, "hosts")
    ELSE IF q.host \in 1..(ShardCount - 1) THEN [Enter(q, "userCheck") EXCEPT !.host = @ + 1]
    ELSE UserDone(q)

\* ... and creates or updates it, on mongos or on a shard.
UserWrite(r) ==
    /\ req[r].phase = "userWrite"
    /\ LET q == req[r]
           fits == Named(q) => (q.seen <=> q.host \in users[q.db])
           done == [q EXCEPT !.wrote = @ \cup {<<q.role, q.host>>}]
       IN \/ /\ fits
             /\ users' = [users EXCEPT ![q.db] = IF Named(q) THEN @ \cup {q.host} ELSE @]
             /\ Becomes(r, AfterWrite(done))
             /\ UNCHANGED faults
          \/ ~fits /\ Becomes(r, Failed(q)) /\ UNCHANGED <<users, faults>>
          \/ Fault /\ Becomes(r, Failed(q)) /\ UNCHANGED users
    /\ UNCHANGED <<bg, grants, meta, coll, docs, key, idx, leaked, served>>

\* GetReplicaSetHosts.  Its error is only logged ("can be ignored in case of
\* single Mongos schema"), and the user counts as written.
GetReplicaSetHosts(r) ==
    /\ req[r].phase = "hosts"
    /\ \/ /\ Becomes(r, IF ShardCount > 0
                      THEN [Enter(req[r], "userCheck") EXCEPT !.host = 1]
                      ELSE UserDone(req[r]))
          /\ UNCHANGED faults
       \/ /\ Fault
          /\ Becomes(r, UserDone([req[r] EXCEPT !.missed = @ \cup {"hosts"}]))
    /\ UNCHANGED <<bg, grants, store, leaked, served>>

\* DropUser: usersInfo, then dropUser; a missing user is no error.  Only mongos
\* is asked: a user on the shards stays.
DropUser(r) ==
    /\ req[r].phase = "dropUser"
    /\ \/ /\ users' = [users EXCEPT ![req[r].db] = @ \ {0}]
          /\ Proceed(r)
          /\ UNCHANGED faults
       \/ Fault /\ Becomes(r, Failed(req[r])) /\ UNCHANGED users
    /\ UNCHANGED <<bg, grants, meta, coll, docs, key, idx, leaked, served>>

-----------------------------------------------------------------------------
(* RunWithGrants and RunWithClusterGrants. *)

GrantRole(r) ==
    /\ Granted(req[r]) /\ req[r].step = "grant"
    /\ \/ /\ grants' = grants \cup {RoleDb(req[r])}
          /\ Becomes(r, [req[r] EXCEPT !.step = "body"])
          /\ UNCHANGED faults
       \/ Fault /\ Becomes(r, Failed(req[r])) /\ UNCHANGED grants
    /\ UNCHANGED <<bg, store, leaked, served>>

\* The command of the body and its effect, as the server carries it out.
DropContents(d) ==
    /\ meta' = [meta EXCEPT ![d] = FALSE]
    /\ coll' = [coll EXCEPT ![d] = FALSE]
    /\ docs' = [docs EXCEPT ![d] = FALSE]
    /\ key' = [key EXCEPT ![d] = NoKey]
    /\ idx' = [idx EXCEPT ![d] = {}]
    /\ UNCHANGED users

Indexed(q) == \E k \in idx[q.db] : isPrefix(q.key, k)

\* shardCollection builds the index of an empty collection by itself.
Accepted(q) ==
    /\ q.phase = "shard"  => /\ key[q.db] \in {NoKey, q.key}
                             /\ Indexed(q) \/ ~docs[q.db]
    /\ q.phase = "refine" => /\ key[q.db] # NoKey /\ isPrefix(key[q.db], q.key)
                             /\ Indexed(q)

Effect(q) ==
    \/ /\ q.phase = "meta"
       /\ meta' = [meta EXCEPT ![q.db] = TRUE]
       /\ UNCHANGED <<users, coll, docs, key, idx>>
    \/ /\ q.phase \in {"collection", "index", "refineIndex"}
       /\ coll' = [coll EXCEPT ![q.db] = TRUE]
       /\ idx' = [idx EXCEPT ![q.db] = IF q.phase = "collection" THEN @
                                       ELSE @ \cup {q.key}]
       /\ UNCHANGED <<users, meta, docs, key>>
    \/ /\ q.phase \in {"shard", "refine"}
       /\ key' = [key EXCEPT ![q.db] = q.key]
       /\ coll' = [coll EXCEPT ![q.db] = TRUE]
       /\ idx' = [idx EXCEPT ![q.db] = @ \cup {q.key}]
       /\ UNCHANGED <<users, meta, docs>>
    \/ q.phase = "dropDb" /\ DropContents(q.db)
    \/ q.phase \in {"enable", "move"} /\ UNCHANGED store

\* Without the role, or when the server refuses, the body returns an error;
\* either way the deferred revoke comes next.
Body(r) ==
    /\ Granted(req[r]) /\ req[r].step = "body"
    /\ LET q == req[r]
           after == [q EXCEPT !.step = "revoke"]
           missed == [after EXCEPT !.missed = @ \cup {"body"}]
           able == RoleDb(q) \in grants /\ Accepted(q)
       IN \/ able /\ Effect(q) /\ Becomes(r, after) /\ UNCHANGED faults
          \/ ~able /\ Becomes(r, missed) /\ UNCHANGED <<store, faults>>
          \/ Fault /\ Becomes(r, missed) /\ UNCHANGED store
    /\ UNCHANGED <<bg, grants, leaked, served>>

\* Mutant: the role is not taken back.
RevokeNothing(r) == grants

Revoked(r) == grants \ {RoleDb(req[r])}

\* The deferred revoke assigns the named result: the body's error is lost
\* and only an error of the revoke itself is returned.  A collection that
\* had documents before it was sharded is redistributed in the background (a
\* move that follows is then not alone any more).
StartsTask(q) == q.phase = "shard" /\ q.docs

\* Mutant: the command is built from the first field of the key only.
NewTaskFirstField(q) ==
    [db |-> q.db, key |-> <<q.key[1]>>, step |-> "grant", alone |-> q.alone /\ ~q.move]

NewTask(q) ==
    [db |-> q.db, key |-> q.key, step |-> "grant", alone |-> q.alone /\ ~q.move]

RevokeRole(r) ==
    /\ Granted(req[r]) /\ req[r].step = "revoke"
    /\ \/ /\ grants' = Revoked(r)
          /\ bg' = IF StartsTask(req[r])
                   THEN [bg EXCEPT ![r] = NewTask(req[r])]
                   ELSE bg
          /\ LET q == [req[r] EXCEPT !.alone = @ /\ ~(StartsTask(req[r]) /\ req[r].move)]
             IN Becomes(r, Enter(q, NextPhase(q)))
          /\ leaked' = leaked \ {RoleDb(req[r])} /\ UNCHANGED faults
       \/ /\ Fault
          /\ leaked' = leaked \cup {RoleDb(req[r])}
          /\ Becomes(r, Failed(req[r]))
          /\ UNCHANGED <<bg, grants>>
    /\ UNCHANGED <<store, served>>

\* IsCollectionSharded, and the document count of a collection to be sharded.
CheckKey(r) ==
    /\ req[r].phase = "checkKey"
    /\ LET q == req[r]
           answer == shardKeyMatches(key[q.db], q.key)
       IN \/ /\ key[q.db] = NoKey
             /\ Becomes(r, [Enter(q, "index") EXCEPT !.docs = docs[q.db]])
             /\ UNCHANGED faults
          \/ /\ key[q.db] # NoKey /\ answer = Exact
             /\ Proceed(r) /\ UNCHANGED faults
          \/ /\ key[q.db] # NoKey /\ answer = NeedsRefine
             /\ Becomes(r, Enter(q, "refineIndex")) /\ UNCHANGED faults
          \/ /\ key[q.db] # NoKey /\ answer = Different
             /\ Becomes(r, Failed(q)) /\ UNCHANGED faults
          \/ Fault /\ Becomes(r, Failed(q))
    /\ UNCHANGED <<bg, grants, store, leaked, served>>

\* The deferred rollback of CreateDatabase calls DropDatabase as the adapter
\* user is at that moment; its error is only logged.
Rollback(r) ==
    /\ req[r].phase = "rollback"
    /\ \/ req[r].db \in grants /\ DropContents(req[r].db) /\ UNCHANGED faults
       \/ req[r].db \notin grants /\ UNCHANGED <<store, faults>>
       \/ Fault /\ UNCHANGED store
    /\ Becomes(r, Answer(req[r], "failed"))
    /\ UNCHANGED <<bg, grants, leaked, served>>

-----------------------------------------------------------------------------
(* ForceRedistribute in a goroutine of its own, after the answer. *)

TaskGrant(r) ==
    /\ bg[r].step = "grant"
    /\ \/ /\ grants' = grants \cup {Admin}
          /\ bg' = [bg EXCEPT ![r].step = "body"] /\ UNCHANGED faults
       \/ Fault /\ bg' = [bg EXCEPT ![r] = NoTask] /\ UNCHANGED grants
    /\ UNCHANGED <<req, store, leaked, served>>

\* reshardCollection with forceRedistribution: the key it was started for
\* replaces whatever key the collection has by now.
TaskBody(r) ==
    /\ bg[r].step = "body"
    /\ bg' = [bg EXCEPT ![r].step = "revoke"]
    /\ LET able == Admin \in grants /\ key[bg[r].db] # NoKey
       IN \/ /\ able
             /\ key' = [key EXCEPT ![bg[r].db] = bg[r].key]
             /\ UNCHANGED faults
          \/ ~able /\ UNCHANGED <<key, faults>>
          \/ Fault /\ UNCHANGED key
    /\ UNCHANGED <<req, grants, users, meta, coll, docs, idx, leaked, served>>

TaskRevoke(r) ==
    /\ bg[r].step = "revoke"
    /\ bg' = [bg EXCEPT ![r] = NoTask]
    /\ \/ grants' = grants \ {Admin} /\ leaked' = leaked \ {Admin} /\ UNCHANGED faults
       \/ Fault /\ leaked' = leaked \cup {Admin} /\ UNCHANGED grants
    /\ UNCHANGED <<req, store, served>>

\* The adapter is killed: its calls end where they are, unanswered, and with
\* them the deferred revokes and rollbacks.  The roles are in MongoDB and stay;
\* nothing takes them back when the adapter starts again.
Crash ==
    /\ Fault
    /\ \E r \in Reqs : Busy(r) \/ Tasking(r)
    /\ req' = [r \in Reqs |-> IF Busy(r) THEN Idle ELSE req[r]]
    /\ bg' = [r \in Reqs |-> NoTask]
    /\ leaked' = leaked \cup grants
    /\ UNCHANGED <<grants, store, served>>

\* The database's own clients fill the collection (external).
ClientWrites(d) ==
    /\ 0 \in users[d] /\ ~docs[d]
    /\ coll' = [coll EXCEPT ![d] = TRUE]
    /\ docs' = [docs EXCEPT ![d] = TRUE]
    /\ UNCHANGED <<req, bg, grants, users, meta, key, idx, leaked, served, faults>>

-----------------------------------------------------------------------------
Handle(r) ==
    \/ Validate(r) \/ UserCheck(r) \/ UserWrite(r) \/ GetReplicaSetHosts(r) \/ DropUser(r)
    \/ GrantRole(r) \/ Body(r) \/ RevokeRole(r) \/ CheckKey(r) \/ Rollback(r)
Task(r) == TaskGrant(r) \/ TaskBody(r) \/ TaskRevoke(r)

Next ==
    \/ \E r \in Reqs : Receive(r) \/ Handle(r) \/ Task(r)
    \/ \E d \in Dbs : ClientWrites(d)
    \/ Crash

Spec == Init /\ [][Next]_vars

-----------------------------------------------------------------------------
ReqType ==
    [kind : Kinds \cup {"none"}, db : Dbs \cup {Admin}, key : Keys \cup {NoKey},
     move : BOOLEAN, phase : Phases, step : {"grant", "body", "revoke"},
     role : 1..RoleCount, host : Hosts, seen : BOOLEAN, docs : BOOLEAN,
     free : BOOLEAN, missed : SUBSET {"hosts", "body"},
     wrote : SUBSET ((1..RoleCount) \X Hosts), result : {"none", "ok", "failed"},
     alone : BOOLEAN, served : BOOLEAN]
TaskType ==
    [db : Dbs \cup {Admin}, key : Keys \cup {NoKey},
     step : {"none", "grant", "body", "revoke"}, alone : BOOLEAN]

\* Types of the variables; a call in progress names a logical database.
TypeOK ==
    /\ req \in [Reqs -> ReqType] /\ bg \in [Reqs -> TaskType]
    /\ \A r \in Reqs : Busy(r) => req[r].db \in Dbs
    /\ \A r \in Reqs : Tasking(r) => bg[r].db \in Dbs
    /\ grants \subseteq Dbs \cup {Admin} /\ leaked \subseteq Dbs \cup {Admin}
    /\ users \in [Dbs -> SUBSET Hosts] /\ meta \in [Dbs -> BOOLEAN]
    /\ coll \in [Dbs -> BOOLEAN] /\ docs \in [Dbs -> BOOLEAN]
    /\ key \in [Dbs -> Keys \cup {NoKey}] /\ idx \in [Dbs -> SUBSET Keys]
    /\ served \in 0..MaxServed /\ faults \in 0..MaxFaults

\* The adapter user is unprivileged at rest: a role it has belongs to a call
\* between its grant and its revoke, however the requests and the background
\* redistribution interleave.  Only a revoke that failed or an adapter that was
\* killed leaves a role behind, and the next call that is through with it takes
\* it away.
RoleHasHolder ==
    \A d \in grants : Holders(d) \cup TaskHolders(d) # {} \/ d \in leaked

Answered(q, res) == q.phase = "done" /\ q.result = res

\* A request that met no failing command and no other request in progress
\* did all that its "ok" stands for: every command of its bodies was carried
\* out, and a collection it was to shard has a key that serves the requested
\* one, whatever the requests before it left behind.
SoloOkIsReal ==
    \A r \in Reqs :
        (Answered(req[r], "ok") /\ req[r].alone /\ faults = 0)
            => /\ req[r].missed = {}
               /\ req[r].served

\* The users a request has to write: one per role, a streaming user on the
\* shards as well, all of them or, when they could not be listed, none.
ToWrite(q) ==
    {w \in (1..RoleCount) \X Hosts :
        /\ q.kind \in OneUser => w[1] = 1
        /\ w[2] # 0 => Streams([q EXCEPT !.role = w[1]]) /\ "hosts" \notin q.missed}

\* A database, a user or a set of roles is reported as created only when each
\* of its users was written wherever it belongs: the errors of the commands of
\* CreateOrUpdateUser are not lost, in any interleaving, with any failing
\* command and whatever the loops over roles and shards met before.  The one
\* dropped error that leaves a user out, that the shards could not be listed,
\* leaves a streaming user out of all shards, never of some of them.
OkHasUser ==
    \A r \in Reqs : (Answered(req[r], "ok") /\ req[r].kind \in UserKinds)
                       => ToWrite(req[r]) \subseteq req[r].wrote

\* Data disappears only by a request in progress to drop that database or by
\* the rollback of a creation that had found the name free: a creation refused
\* because the database exists never drops it.
DropIsAskedFor ==
    [][\A d \in Dbs : (Exists(d) /\ ~Exists(d)') =>
          \E r \in Reqs : /\ req[r].db = d
                          /\ \/ req[r].phase = "dropDb"
                             \/ req[r].phase = "rollback" /\ req[r].free]_vars

\* The redistribution that runs behind the answer reshards with the key of its
\* request.  It replaces another key only when a request came in between its
\* start and its command (or when its own request was not alone): by itself it
\* never undoes what a client was told.
RedistributeKeepsKey ==
    [][\A r \in Reqs : (bg[r].step = "body" /\ bg[r].alone /\ bg'[r].step = "revoke")
          => UNCHANGED key]_vars

-----------------------------------------------------------------------------
(* What a test of the adapter says, and the code does not keep.              *)

\* db_admin_test.go: when DropDatabase fails the resource is DELETE_FAILED.
DeletedIsDropped ==
    \A r \in Reqs : (Answered(req[r], "ok") /\ req[r].kind = "drop")
                       => "body" \notin req[r].missed

=============================================================================

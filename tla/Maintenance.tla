----------------------------- MODULE Maintenance -----------------------------
(***************************************************************************)
(* Maintenance of the replica sets of a sharded cluster while elections go *)
(* on: the resize of the oplogs, a step of the reconcile that works from a *)
(* report it took before (UpdateCnfOplogStep, UpdateDataOplogStep), and    *)
(* the compaction of a collection, a REST request of the operator that     *)
(* makes the primary step down (RunCompactCommand).  Both run in the       *)
(* operator's process at the same time, on the same members.               *)
(*                                                                         *)
(* Modelled: every command as a step of its own; the primary as the first  *)
(* pod of the set sees it; commands that fail, members that fail and       *)
(* recover, elections, a crash of the operator; the errors the code        *)
(* returns and those it drops.                                             *)
(*                                                                         *)
(* Simplifications: every request compacts a collection of its own; mongod *)
(* (external) refuses to compact on a PRIMARY, and does not elect a member *)
(* again for the 60 seconds of its rs.stepDown(), which outlast a poll.    *)
(***************************************************************************)
EXTENDS ClusterStatus

CONSTANTS ShardCount,   \* schemaSettings.shardCount
          N,            \* members of a replica set
          Sizes,        \* oplog sizes in MB
          Reqs,         \* compaction requests
          MaxRuns,      \* bound: reconciles
          MaxFaults     \* bound: failures, crashes, and primaries that are lost

ASSUME MaintenanceAssumption ==
    /\ ShardCount \in Nat \ {0} /\ N \in Nat \ {0}
    /\ Sizes \subseteq Nat \ {0} /\ Sizes # {}
    /\ MaxRuns \in Nat /\ MaxFaults \in Nat

Cnf     == 0
Shards  == 1..ShardCount
RS      == Shards \cup {Cnf}
Members == 1..N
None    == 0   \* no primary; a size that is not set

VARIABLES
    prim,    \* prim[rs]: the PRIMARY member, or None
    view,    \* view[rs]: the primary as the first pod sees it
    up,      \* up[rs]: healthy members
    frozen,  \* frozen[rs]: members that stepped down and may not be elected
    size,    \* size[rs][m]: oplog size
    step,    \* where the reconcile is
    group,   \* which of the two oplog steps it runs
    want,    \* want[g]: spec.mongodb.cnfOpLogSizeMb and dataOpLogSizeMb
    at,      \* the member its loop is at
    report,  \* report[rs][m]: OplogSizeReport
    moved,   \* history: the report's primary of the set is not, or no more, true
    req,     \* req[r]: a compaction request
    runs, faults

rsVars  == <<prim, view, up, frozen>>
runVars == <<step, group, want, at, report, moved, runs>>
vars    == <<rsVars, size, runVars, req, faults>>

Fault == faults < MaxFaults /\ faults' = faults + 1

Majority(S) == 2 * Cardinality(S) > N

\* GetMongoPrimaryReplica asks the first pod; None stands for its error.  A
\* first pod that is down fails the call, or is not listed and another answers.
Lookup(rs) == IF 1 \in up[rs] THEN {view[rs]} ELSE {None, prim[rs]}

-----------------------------------------------------------------------------
Groups    == {"cnf", "data"}
SetsOf(g) == IF g = "cnf" THEN {Cnf} ELSE Shards

NoItem == [listed |-> FALSE, primary |-> FALSE, size |-> None]

\* The first item of a group, and the one behind an item.
FirstOf(g) == [set |-> IF g = "cnf" THEN Cnf ELSE 1, member |-> 1]

\* Mutant: the loop runs past the last member.
IsLastLate(g, p) == p.member > N /\ p.set + 1 \notin SetsOf(g)

IsLast(g, p) == p.member = N /\ p.set + 1 \notin SetsOf(g)
Behind(p) == IF p.member < N THEN [p EXCEPT !.member = @ + 1]
                             ELSE [set |-> p.set + 1, member |-> 1]

Idle == [phase |-> "idle", shard |-> 1, member |-> 1, target |-> None,
         done |-> {}, again |-> FALSE, lost |-> FALSE]

Init ==
    /\ prim = [rs \in RS |-> 1] /\ view = [rs \in RS |-> 1]
    /\ up = [rs \in RS |-> Members] /\ frozen = [rs \in RS |-> {}]
    /\ \E z \in Sizes : size = [rs \in RS |-> [m \in Members |-> z]]
    /\ step = "idle" /\ group = "cnf" /\ want = [g \in Groups |-> None]
    /\ at = FirstOf("cnf")
    /\ report = [rs \in RS |-> [m \in Members |-> NoItem]]
    /\ moved = [rs \in RS |-> FALSE]
    /\ req = [r \in Reqs |-> Idle]
    /\ runs = 0 /\ faults = 0

-----------------------------------------------------------------------------
(* The oplog steps of a reconcile.  An error ends the reconcile; the next    *)
(* one takes a new report.                                                   *)

Blank == [rs \in RS |-> [m \in Members |-> NoItem]]

StartReconcile ==
    /\ step \in {"idle", "done"} /\ runs < MaxRuns
    /\ runs' = runs + 1
    /\ want' \in [Groups -> Sizes \cup {None}]
    /\ step' = "report" /\ group' = "cnf" /\ at' = FirstOf("cnf")
    /\ report' = Blank /\ moved' = [rs \in RS |-> FALSE]
    /\ UNCHANGED <<rsVars, size, req, faults>>

\* The reconcile is over; its steps, and their report, go with it.
GiveUp ==
    /\ step' = "idle" /\ group' = "cnf" /\ at' = FirstOf("cnf")
    /\ want' = [g \in Groups |-> None]
    /\ report' = Blank /\ moved' = [rs \in RS |-> FALSE]

\* On to the other group, or the steps are through.
NextGroup ==
    IF group = "cnf"
    THEN step' = "report" /\ group' = "data" /\ at' = FirstOf("data")
    ELSE step' = "done" /\ UNCHANGED <<group, at>>

\* Condition without a size in the spec: the step is passed over.
NoSizeWanted ==
    /\ step = "report" /\ want[group] = None
    /\ NextGroup
    /\ UNCHANGED <<rsVars, size, want, report, moved, req, runs, faults>>

\* What GetOplogSizes finds out about the member the loop is at: its size and
\* whether it is the primary (no, when the primary cannot be told).
NewReport(p) ==
    [report EXCEPT ![at.set][at.member] =
        [listed |-> TRUE, primary |-> p = at.member, size |-> size[at.set][at.member]]]

NeedsResize(rep) ==
    \E rs \in SetsOf(group), m \in Members :
        rep[rs][m].listed /\ rep[rs][m].size # want[group]

\* The loop of the report goes on, or the Condition is decided.
Reported(rep) ==
    /\ report' = rep
    /\ IF ~IsLast(group, at)
       THEN at' = Behind(at) /\ UNCHANGED <<step, group>>
       ELSE IF NeedsResize(rep)
       THEN step' = "status" /\ at' = FirstOf(group) /\ UNCHANGED group
       ELSE NextGroup

ReportMember ==
    /\ step = "report" /\ want[group] # None
    /\ \/ /\ at.member \in up[at.set]
          /\ \E p \in Lookup(at.set) :
               /\ Reported(NewReport(p))
               /\ moved' = [moved EXCEPT ![at.set] = @ \/ p # prim[at.set]]
       \/ /\ at.member \notin up[at.set]   \* its pod is not listed
          /\ Reported(report) /\ UNCHANGED moved
    /\ UNCHANGED <<rsVars, size, want, req, runs, faults>>

\* Execute asks for the cluster status first.
StatusOf(rs) ==
    GetReplicaSetStatus(Active, TRUE, IF prim[rs] = None THEN 0 ELSE 1,
                        Cardinality(up[rs] \ {prim[rs]}), N)

CheckStatus ==
    /\ step = "status"
    /\ IF GetClusterStatus(Active, TRUE, StatusOf(Cnf),
                           [d \in Shards |-> StatusOf(d)], TRUE) = Up
       THEN step' = "secondaries" /\ UNCHANGED <<group, want, at, report, moved>>
       ELSE GiveUp
    /\ UNCHANGED <<rsVars, size, req, runs, faults>>

\* Mutant: the primary is looked up again instead of read from the report.
InLoopNow(rs, m) ==
    IF step = "secondaries" THEN prim[rs] # m ELSE report[rs][m].primary

\* Mutant: the primaries come first.
InLoopSwapped(rs, m) ==
    IF step = "secondaries" THEN report[rs][m].primary ELSE ~report[rs][m].primary

\* The two loops of UpdateOplogSize over the same report.
InLoop(rs, m) ==
    IF step = "secondaries" THEN ~report[rs][m].primary ELSE report[rs][m].primary

ToResize(rs, m) ==
    report[rs][m].listed /\ InLoop(rs, m) /\ report[rs][m].size # want[group]

LoopOn ==
    IF ~IsLast(group, at) THEN at' = Behind(at) /\ UNCHANGED <<step, group>>
    ELSE IF step = "secondaries"
    THEN step' = "primaries" /\ at' = FirstOf(group) /\ UNCHANGED group
    ELSE NextGroup

PassOver ==
    /\ step \in {"secondaries", "primaries"} /\ ~ToResize(at.set, at.member)
    /\ LoopOn
    /\ UNCHANGED <<rsVars, size, want, report, moved, req, runs, faults>>

\* The resize, and behind it the check of the member.  The answer "false" of
\* the check still has its line end when it is compared, and RunOnPrimary
\* answers "" without an error when there is no primary: only a command that
\* fails stops the loop.
ResizeMember ==
    /\ step \in {"secondaries", "primaries"} /\ ToResize(at.set, at.member)
    /\ at.member \in up[at.set]
    /\ size' = [size EXCEPT ![at.set][at.member] = want[group]]
    /\ \/ LoopOn /\ UNCHANGED <<want, report, moved, faults>>
       \/ GiveUp /\ Fault
    /\ UNCHANGED <<rsVars, req, runs>>

\* A command on the member the loop is at fails: its pod is down, or the exec
\* goes wrong.
RunFails ==
    /\ \/ step = "report" /\ want[group] # None
       \/ step \in {"secondaries", "primaries"} /\ ToResize(at.set, at.member)
    /\ \/ at.member \notin up[at.set] /\ UNCHANGED faults
       \/ Fault
    /\ GiveUp
    /\ UNCHANGED <<rsVars, size, req, runs>>

-----------------------------------------------------------------------------
(* RunCompactCommand, one data set after the other. *)

Becomes(r, q) == req' = [req EXCEPT ![r] = q]

\* The answers; an error is a panic, which the server turns into a 500.
Failed == [Idle EXCEPT !.phase = "failed"]
Ok(q)  == [Idle EXCEPT !.phase = "ok", !.done = q.done, !.again = q.again,
                       !.lost = q.lost]

\* Once per set: from the look at the primary to its own compaction.
Handling(q) == q.phase \in {"secondaries", "stepDown", "poll", "last"}
Running(q)  == q.phase = "lookup" \/ Handling(q)

Receive(r) ==
    /\ req[r].phase = "idle"
    /\ Becomes(r, [Idle EXCEPT !.phase = "lookup"])
    /\ UNCHANGED <<rsVars, size, runVars, faults>>

FindPrimary(r) ==
    /\ req[r].phase = "lookup"
    /\ \E p \in Lookup(req[r].shard) :
         Becomes(r, IF p = None THEN Failed
                    ELSE [req[r] EXCEPT !.phase = "secondaries", !.member = 1,
                                        !.target = p])
    /\ UNCHANGED <<rsVars, size, runVars, faults>>

NextMember(q) == IF q.member < N THEN [q EXCEPT !.member = @ + 1]
                                 ELSE [q EXCEPT !.phase = "stepDown"]

NextShard(q) == IF q.shard < ShardCount
                THEN [q EXCEPT !.phase = "lookup", !.shard = @ + 1, !.member = 1,
                               !.target = None]
                ELSE Ok(q)

\* The loop over the secondaries goes on, or the one over the shards does.
AfterCompact(q) == IF q.phase = "secondaries" THEN NextMember(q) ELSE NextShard(q)

\* The compact command on member m: its error is dropped.
Compact(r, m) ==
    LET q    == req[r]
        done == [q EXCEPT !.done = @ \cup {<<q.shard, m>>}]
        lost == [q EXCEPT !.lost = TRUE]
        reached == m \in up[q.shard]
    IN \/ reached /\ m # prim[q.shard] /\ Becomes(r, AfterCompact(done)) /\ UNCHANGED faults
       \/ reached /\ m = prim[q.shard] /\ Becomes(r, AfterCompact(q)) /\ UNCHANGED faults
       \/ ~reached /\ Becomes(r, AfterCompact(lost)) /\ UNCHANGED faults
       \/ reached /\ Fault /\ Becomes(r, AfterCompact(lost))

CompactSecondary(r) ==
    /\ req[r].phase = "secondaries"
    /\ IF req[r].member = req[r].target
       THEN Becomes(r, NextMember(req[r])) /\ UNCHANGED faults
       ELSE Compact(r, req[r].member)
    /\ UNCHANGED <<rsVars, size, runVars>>

\* The primary gives up its office; the first pod hears of it at once only
\* when it was the primary itself.
NoPrimary(rs) ==
    /\ prim' = [prim EXCEPT ![rs] = None]
    /\ view' = [view EXCEPT ![rs] = IF @ = 1 THEN None ELSE @]

CanStepDown(q) ==
    /\ q.target \in up[q.shard] /\ prim[q.shard] = q.target
    /\ up[q.shard] # {q.target}

\* Mutant: the error of rs.stepDown() is dropped like those of compact.
StepDownDropped(r) ==
    /\ req[r].phase = "stepDown"
    /\ Becomes(r, [req[r] EXCEPT !.phase = "poll"])
    /\ \/ /\ CanStepDown(req[r]) /\ NoPrimary(req[r].shard)
          /\ frozen' = [frozen EXCEPT ![req[r].shard] = @ \cup {req[r].target}]
          /\ moved' = [moved EXCEPT ![req[r].shard] = TRUE]
       \/ ~CanStepDown(req[r]) /\ UNCHANGED <<prim, view, frozen, moved>>
    /\ UNCHANGED <<up, size, step, group, want, at, report, runs, faults>>

\* Mutant: the primary is not asked to step down.
StepDownForgotten(r) ==
    /\ req[r].phase = "stepDown"
    /\ Becomes(r, [req[r] EXCEPT !.phase = "poll"])
    /\ UNCHANGED <<rsVars, size, runVars, faults>>

StepDown(r) ==
    /\ req[r].phase = "stepDown"
    /\ \/ /\ CanStepDown(req[r]) /\ NoPrimary(req[r].shard)
          /\ frozen' = [frozen EXCEPT ![req[r].shard] = @ \cup {req[r].target}]
          /\ moved' = [moved EXCEPT ![req[r].shard] = TRUE]
          /\ Becomes(r, [req[r] EXCEPT !.phase = "poll"]) /\ UNCHANGED faults
       \/ /\ ~CanStepDown(req[r]) \/ faults < MaxFaults
          /\ faults' = IF CanStepDown(req[r]) THEN faults + 1 ELSE faults
          /\ Becomes(r, Failed)
          /\ UNCHANGED <<prim, view, frozen, moved>>
    /\ UNCHANGED <<up, size, step, group, want, at, report, runs>>

\* The poll has no timeout: it goes on while the old primary is seen, ends
\* with an error when none is seen, and otherwise leads on.
Poll(r) ==
    /\ req[r].phase = "poll"
    /\ \E p \in Lookup(req[r].shard) :
         /\ p # req[r].target
         /\ Becomes(r, IF p = None THEN Failed ELSE [req[r] EXCEPT !.phase = "last"])
    /\ UNCHANGED <<rsVars, size, runVars, faults>>

CompactOldPrimary(r) ==
    /\ req[r].phase = "last"
    /\ Compact(r, req[r].target)
    /\ UNCHANGED <<rsVars, size, runVars>>

\* The operator's pod is killed: the reconcile and the requests end with it.
Crash ==
    /\ step \notin {"idle", "done"} \/ \E r \in Reqs : Running(req[r])
    /\ Fault
    /\ IF step = "done" THEN UNCHANGED <<step, group, want, at, report, moved>>
                        ELSE GiveUp
    /\ req' = [r \in Reqs |-> IF Running(req[r]) THEN Failed ELSE req[r]]
    /\ UNCHANGED <<rsVars, size, runs>>

-----------------------------------------------------------------------------
(* The replica sets (external). *)

Elect(rs, m) ==
    /\ prim[rs] = None /\ m \in up[rs] /\ m \notin frozen[rs] /\ Majority(up[rs])
    /\ prim' = [prim EXCEPT ![rs] = m]
    /\ view' = [view EXCEPT ![rs] = IF m = 1 THEN 1 ELSE @]
    /\ moved' = [moved EXCEPT ![rs] = TRUE]
    /\ req' = [r \in Reqs |->
                 [req[r] EXCEPT !.again =
                    @ \/ (Handling(req[r]) /\ req[r].shard = rs /\ req[r].target = m)]]
    /\ UNCHANGED <<up, frozen, size, step, group, want, at, report, runs, faults>>

LosePrimary(rs) ==
    /\ prim[rs] # None /\ Fault
    /\ NoPrimary(rs)
    /\ moved' = [moved EXCEPT ![rs] = TRUE]
    /\ UNCHANGED <<up, frozen, size, step, group, want, at, report, runs, req>>

MemberFails(rs, m) ==
    /\ m \in up[rs] /\ Fault
    /\ up' = [up EXCEPT ![rs] = @ \ {m}]
    /\ IF prim[rs] = m \/ ~Majority(up'[rs])
       THEN NoPrimary(rs) /\ moved' = [moved EXCEPT ![rs] = TRUE]
       ELSE UNCHANGED <<prim, view, moved>>
    /\ UNCHANGED <<frozen, size, step, group, want, at, report, runs, req>>

MemberRecovers(rs, m) ==
    /\ m \in Members \ up[rs]
    /\ up' = [up EXCEPT ![rs] = @ \cup {m}]
    /\ UNCHANGED <<prim, view, frozen, size, runVars, req, faults>>

\* The first pod hears who is primary.
Heartbeat(rs) ==
    /\ 1 \in up[rs] /\ view[rs] # prim[rs]
    /\ view' = [view EXCEPT ![rs] = prim[rs]]
    /\ UNCHANGED <<prim, up, frozen, size, runVars, req, faults>>

\* The time of rs.stepDown() is over.
Thaw(rs, m) ==
    /\ m \in frozen[rs]
    /\ \A r \in Reqs : req[r].phase = "poll" /\ req[r].shard = rs => req[r].target # m
    /\ frozen' = [frozen EXCEPT ![rs] = @ \ {m}]
    /\ UNCHANGED <<prim, view, up, size, runVars, req, faults>>

-----------------------------------------------------------------------------
Reconcile ==
    \/ StartReconcile \/ NoSizeWanted \/ ReportMember \/ RunFails \/ CheckStatus
    \/ PassOver \/ ResizeMember

Serve(r) ==
    \/ FindPrimary(r) \/ CompactSecondary(r) \/ StepDown(r) \/ Poll(r)
    \/ CompactOldPrimary(r)

Next ==
    \/ Reconcile \/ Crash
    \/ \E r \in Reqs : Receive(r) \/ Serve(r)
    \/ \E rs \in RS : LosePrimary(rs) \/ Heartbeat(rs)
    \/ \E rs \in RS, m \in Members :
         \/ Elect(rs, m) \/ Thaw(rs, m)
         \/ MemberFails(rs, m) \/ MemberRecovers(rs, m)

\* A request is served by a goroutine of its own, and heartbeats arrive.
Fairness ==
    /\ \A r \in Reqs : WF_vars(Serve(r))
    /\ \A rs \in RS : WF_vars(Heartbeat(rs))

Spec == Init /\ [][Next]_vars /\ Fairness

-----------------------------------------------------------------------------
\* Types of the variables.
TypeOK ==
    /\ prim \in [RS -> Members \cup {None}] /\ view \in [RS -> Members \cup {None}]
    /\ up \in [RS -> SUBSET Members] /\ frozen \in [RS -> SUBSET Members]
    /\ size \in [RS -> [Members -> Sizes]]
    /\ step \in {"idle", "report", "status", "secondaries", "primaries", "done"}
    /\ group \in Groups /\ want \in [Groups -> Sizes \cup {None}]
    /\ at \in [set : RS, member : Members]
    /\ report \in [RS -> [Members -> [listed : BOOLEAN, primary : BOOLEAN,
                                      size : Sizes \cup {None}]]]
    /\ moved \in [RS -> BOOLEAN]
    /\ req \in [Reqs -> [phase : {"idle", "lookup", "secondaries", "stepDown", "poll",
                                  "last", "ok", "failed"},
                         shard : Shards, member : Members,
                         target : Members \cup {None},
                         done : SUBSET (Shards \X Members),
                         again : BOOLEAN, lost : BOOLEAN]]
    /\ runs \in 0..MaxRuns /\ faults \in 0..MaxFaults

\* The oplog steps are through only when every member their reports list has
\* the size of the spec, however the primaries moved between the report and
\* the two loops, and whatever an earlier reconcile that failed left behind.
DoneIsResized ==
    step = "done" =>
        \A g \in Groups, m \in Members : \A rs \in SetsOf(g) :
            (want[g] # None /\ report[rs][m].listed) => size[rs][m] = want[g]

\* While a set keeps the primary the report saw, that primary is resized only
\* when all other listed members of the set have their new size.
PrimaryResizedLast ==
    [][\A rs \in RS, m \in Members :
          (size'[rs][m] # size[rs][m] /\ prim[rs] = m /\ ~moved[rs])
              => \A x \in Members \ {m} :
                    report[rs][x].listed => size[rs][x] = want[group]]_vars

\* A compaction that answers "ok" has compacted every member of every shard,
\* if no command was lost and no member that it had found to be primary was
\* elected again: an election of another member cannot hide an uncompacted
\* one, because rs.stepDown() then fails, and that error is returned.
OkIsCompacted ==
    \A r \in Reqs :
        (req[r].phase = "ok" /\ ~req[r].again /\ ~req[r].lost)
            => req[r].done = Shards \X Members

\* The poll behind rs.stepDown() has no timeout, but every request is answered.
RequestEnds == \A r \in Reqs : Running(req[r]) ~> ~Running(req[r])

=============================================================================

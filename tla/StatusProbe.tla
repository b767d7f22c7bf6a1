----------------------------- MODULE StatusProbe -----------------------------
(***************************************************************************)
(* One call of GetClusterStatus as it really runs: a goroutine per replica *)
(* set reads rs.status() through the first listed pod, the caller waits    *)
(* for all of them, then reads the mongos pod and puts the verdict         *)
(* together.  The replica sets go on changing between the reads, so the    *)
(* verdict mixes answers of different instants.                            *)
(*                                                                         *)
(* Simplification: the members of a replica set are those of this site     *)
(* (the code filters rs.status() by this site's host names), so a set      *)
(* without a PRIMARY may have one on the other site.                       *)
(***************************************************************************)
EXTENDS ClusterStatus

CONSTANTS ShardCount,  \* schemaSettings.shardCount
          N,           \* replica size of the config and of the data sets
          Sharded,     \* schemaSettings.sharded
          ProbeModes,  \* the modes the callers pass
          MaxChanges   \* bound: member and pod changes during one call

ASSUME ProbeAssumption ==
    /\ ShardCount \in Nat \ {0} /\ N \in Nat \ {0} /\ MaxChanges \in Nat
    /\ Sharded \in BOOLEAN /\ (Sharded \/ ShardCount = 1)
    /\ ProbeModes \subseteq Modes

Cnf    == 0
Shards == 1..ShardCount
RS     == IF Sharded THEN Shards \cup {Cnf} ELSE Shards
MemberStates == {"PRIMARY", "SECONDARY", "OTHER"}
Pending == "pending"
None    == "none"

VARIABLES
    members,   \* members[rs][i]: stateStr of this site's member i
    listed,    \* listed[rs]: ListPods finds pods with the label
    mongos,    \* a mongos pod exists and is Running
    mode,      \* the mode argument of the call in progress
    phase,     \* "idle", "reading" (goroutines at work), "returned"
    answer,    \* answer[rs]: what the goroutine of rs sent, or Pending
    verdict,   \* the value GetClusterStatus returned
    wasUp,     \* history: sets that were Up at some instant of the call
    wasServing,\* history: sets that were not Down at some instant of the call
    steady,    \* history: every set was fully healthy during the whole call
    changes    \* number of changes since the call began

vars == <<members, listed, mongos, mode, phase, answer, verdict,
          wasUp, wasServing, steady, changes>>

Count(m, s) == Cardinality({i \in 1..N : m[i] = s})

\* The status rs.status() justifies at this instant.
StatusNow(rs) ==
    GetReplicaSetStatus(mode, listed[rs], Count(members[rs], "PRIMARY"),
                        Count(members[rs], "SECONDARY"), N)

\* Every member of rs is healthy; an active site holds the primary.
Healthy(rs) ==
    /\ listed[rs]
    /\ \A i \in 1..N : members[rs][i] # "OTHER"
    /\ mode = Active => Count(members[rs], "PRIMARY") = 1

AllHealthy == mongos /\ \A rs \in RS : Healthy(rs)

-----------------------------------------------------------------------------
MemberConfigs ==
    {m \in [1..N -> MemberStates] : Count(m, "PRIMARY") <= 1}

Init ==
    /\ members \in [RS -> MemberConfigs]
    /\ listed = [rs \in RS |-> TRUE]
    /\ mongos \in BOOLEAN
    /\ mode \in ProbeModes
    /\ phase = "idle"
    /\ answer = [rs \in RS |-> Pending]
    /\ verdict = None
    /\ wasUp = {} /\ wasServing = {} /\ steady = FALSE
    /\ changes = 0

\* GetClusterStatus starts its goroutines.
StartProbe ==
    /\ phase = "idle"
    /\ phase' = "reading"
    /\ wasUp' = {rs \in RS : StatusNow(rs) = Up}
    /\ wasServing' = {rs \in RS : StatusNow(rs) # Down}
    /\ steady' = AllHealthy
    /\ UNCHANGED <<members, listed, mongos, mode, answer, verdict, changes>>

\* The goroutine of rs: GetReplicaSetStatus through list.Items[0].  The
\* command fails only on a pod whose mongod does not answer.
ReadRS(rs) ==
    /\ phase = "reading" /\ answer[rs] = Pending
    /\ \/ answer' = [answer EXCEPT ![rs] = StatusNow(rs)]
       \/ /\ listed[rs] /\ members[rs][1] = "OTHER"
          /\ answer' = [answer EXCEPT ![rs] = ReadError]
    /\ UNCHANGED <<members, listed, mongos, mode, phase, verdict,
                   wasUp, wasServing, steady, changes>>

\* wg.Wait() is over: read the mongos pod and put the verdict together.
\* A non-sharded cluster has no config set; its answer is never looked at.
Return ==
    /\ phase = "reading"
    /\ \A rs \in RS : answer[rs] # Pending
    /\ verdict' = GetClusterStatus(mode, Sharded,
                      IF Sharded THEN answer[Cnf] ELSE None,
                      [d \in Shards |-> answer[d]], mongos)
    /\ phase' = "returned"
    /\ UNCHANGED <<members, listed, mongos, mode, answer,
                   wasUp, wasServing, steady, changes>>

-----------------------------------------------------------------------------
\* The environment: mongod processes and pods change while the call runs.
Observe ==
    /\ UNCHANGED <<mode, phase, answer, verdict>>
    /\ wasUp' = wasUp \cup {rs \in RS : StatusNow(rs)' = Up}
    /\ wasServing' = wasServing \cup {rs \in RS : StatusNow(rs)' # Down}
    /\ steady' = (steady /\ AllHealthy')
    /\ changes < MaxChanges /\ changes' = changes + 1

MemberBecomes(rs, i, s) ==
    /\ phase = "reading" /\ listed[rs] /\ members[rs][i] # s
    /\ s = "PRIMARY" => Count(members[rs], "PRIMARY") = 0
    /\ members' = [members EXCEPT ![rs][i] = s]
    /\ UNCHANGED <<listed, mongos>>
    /\ Observe

PodsGone(rs) ==
    /\ phase = "reading" /\ listed[rs]
    /\ listed' = [listed EXCEPT ![rs] = FALSE]
    /\ members' = [members EXCEPT ![rs] = [i \in 1..N |-> "OTHER"]]
    /\ UNCHANGED mongos
    /\ Observe

MongosChanges ==
    /\ phase = "reading"
    /\ mongos' = ~mongos
    /\ UNCHANGED <<members, listed>>
    /\ Observe

Next ==
    \/ StartProbe
    \/ \E rs \in RS : ReadRS(rs) \/ PodsGone(rs)
    \/ \E rs \in RS, i \in 1..N, s \in MemberStates : MemberBecomes(rs, i, s)
    \/ MongosChanges
    \/ Return

Spec == Init /\ [][Next]_vars

-----------------------------------------------------------------------------
\* Types of the variables.
TypeOK ==
    /\ members \in [RS -> [1..N -> MemberStates]]
    /\ listed \in [RS -> BOOLEAN] /\ mongos \in BOOLEAN
    /\ mode \in ProbeModes
    /\ phase \in {"idle", "reading", "returned"}
    /\ answer \in [RS -> RSStatuses \cup {ReadError, Pending}]
    /\ verdict \in {Up, Down, Degraded, None} \cup (IF Sharded THEN {} ELSE {NoPods})
    /\ wasUp \subseteq RS /\ wasServing \subseteq RS /\ steady \in BOOLEAN
    /\ changes \in 0..MaxChanges

\* A verdict "up" was earned during the call: the config set really was Up
\* at some instant, no data set was Down from the first to the last instant,
\* and an active site had a running mongos at the end (GetClusterStatus,
\* for the sharded schema; an unsharded cluster's only set was Up).
UpIsEarned ==
    verdict = Up =>
        IF Sharded THEN /\ Cnf \in wasUp
                        /\ Shards \subseteq wasServing
                        /\ mode = Active => mongos
        ELSE 1 \in wasUp

\* No false alarm: a cluster in which every member was healthy and mongos
\* running during the whole call is never reported anything but "up", however
\* the reads interleave with elections (GetReplicaSetStatus, both modes).
HealthyIsUp == (phase = "returned" /\ steady) => verdict = Up

=============================================================================

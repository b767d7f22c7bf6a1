---------------------------- MODULE ClusterStatus ----------------------------
(***************************************************************************)
(* The health verdict of the operator: what rs.status() of one replica set *)
(* is turned into (GetReplicaSetStatus), and how the verdicts of the       *)
(* config replica set, the data replica sets and the mongos pod are put    *)
(* together (GetClusterStatus).  Everything that waits in the operator     *)
(* (DR switch, rolling restart, volume resize, standby cleanup) waits for  *)
(* this verdict, so the other modules use these operators as they are.     *)
(*                                                                         *)
(* A replica set is abstracted to the two counts the code derives from     *)
(* rs.status(): how many members of THIS site are PRIMARY and how many are *)
(* SECONDARY.                                                              *)
(***************************************************************************)
EXTENDS Naturals, FiniteSets

Active  == "active"
Standby == "standby"
Disable == "disable"
Modes   == {Active, Standby, Disable}

Up       == "up"
Down     == "down"
Degraded == "degraded"
\* GetReplicaSetStatus answers ("", nil) when no pod carries the label.
NoPods   == "nopods"
\* rs.status() could not be read: GetReplicaSetStatus answers an error.
ReadError == "error"

RSStatuses == {Up, Down, Degraded, NoPods}
ClusterStatuses == {Up, Down, Degraded, NoPods}

(***************************************************************************)
(* GetReplicaSetStatus, for a set with n members on this site.             *)
(***************************************************************************)
ActiveStatus(primaries, secondaries, n) ==
    IF primaries = 0 THEN Down
    ELSE IF secondaries = n - 1 THEN Up ELSE Degraded

\* Mutant: forgets that one member may already be PRIMARY.
StandbyStatusStrict(primaries, secondaries, n) ==
    IF secondaries = 0 THEN Down
    ELSE IF secondaries = n THEN Up ELSE Degraded

StandbyStatus(primaries, secondaries, n) ==
    IF secondaries = 0 THEN Down
    ELSE IF secondaries = n \/ (secondaries = n - 1 /\ primaries = 1)
         THEN Up ELSE Degraded

\* Any mode that is not "active" takes the standby branch.
GetReplicaSetStatus(mode, listed, primaries, secondaries, n) ==
    IF ~listed THEN NoPods
    ELSE IF mode = Active THEN ActiveStatus(primaries, secondaries, n)
                          ELSE StandbyStatus(primaries, secondaries, n)

(***************************************************************************)
(* GetClusterStatus: cnf is the answer for the config replica set, data a  *)
(* function from shard to answer, mongosRunning whether a mongos pod       *)
(* exists and is Running.  An error of any replica set ends in Down.       *)
(***************************************************************************)
\* Mutant: the data sets that are Down are not counted.
DataDownIgnored(data) == {}

DataDown(data) == {d \in DOMAIN data : data[d] = Down}

\* Mutant: the answer of the config set is passed on as it is.
ShardedStatusPassed(mode, cnf, data, mongosRunning) ==
    IF mode = Active /\ ~mongosRunning THEN Down ELSE cnf

ShardedStatus(mode, cnf, data, mongosRunning) ==
    IF mode = Active /\ ~mongosRunning THEN Down
    ELSE IF cnf = Down \/ DataDown(data) = DOMAIN data THEN Down
    ELSE IF cnf = Degraded \/ (cnf = Up /\ DataDown(data) # {}) THEN Degraded
    ELSE IF cnf = Up THEN Up
    ELSE Down

GetClusterStatus(mode, sharded, cnf, data, mongosRunning) ==
    IF \/ \E d \in DOMAIN data : data[d] = ReadError
       \/ sharded /\ cnf = ReadError
    THEN Down
    ELSE IF sharded THEN ShardedStatus(mode, cnf, data, mongosRunning)
    ELSE data[1]

=============================================================================

-------------------------- MODULE SwitchoverProofs --------------------------
(***************************************************************************)
(* Theorems about Switchover for any number of shards, members, faults and *)
(* switches: the types, that a switchover in the documented order never    *)
(* opens both sites to clients, that "done" means scaled services and, on the *)
(* active site, owned replica sets, and that Switchover implements         *)
(* ServiceHandover.                                                        *)
(***************************************************************************)
EXTENDS Switchover, TLAPS

-----------------------------------------------------------------------------
(* The inductive invariant.  OneServingSite alone is not inductive: a site   *)
(* may be activated because the other one reports "done" in a mode that is   *)
(* not active, so what that report stands for has to be known, and how the   *)
(* running compound gets there.                                              *)

\* The steps after which a compound that is not active has scaled down
\* mongos, the backup daemon and the DBaaS adapter.
AfterDbaas  == {"exporter", "waitLag", "waitUp", "scaleCnf", "scaleData", "finish"}
AfterBackup == AfterDbaas \cup {"dbaas"}
AfterMongos == AfterBackup \cup {"backup"}

\* What the proof needs to know of the types.
ServingTypes ==
    /\ mode \in [Sites -> Modes] /\ pc \in [Sites -> Steps \cup {"idle"}]
    /\ run \in [Sites -> [mode : Modes, deploy : {NoDeploy, Clean, Update}]]
    /\ status \in [Sites -> [mode : Modes, state : {"running", "done", "failed"}]]
    /\ pending \in [Sites -> BOOLEAN] /\ failover \in BOOLEAN
    /\ mongos \in [Sites -> BOOLEAN] /\ backup \in [Sites -> BOOLEAN]
    /\ dbaas \in [Sites -> BOOLEAN]
    /\ overruled \in [Sites -> SUBSET {"backup", "dbaas"}]

\* A compound runs for the mode the CR has, and while it runs, or is about to
\* run, the CR says so; "done" is said of the CR's mode.
PlanFits(s) ==
    /\ pc[s] # "idle" => /\ run[s].mode = mode[s] /\ ~pending[s]
                         /\ status[s].state = "running"
    /\ pending[s] => status[s].state = "running"
    /\ status[s].state = "done" => status[s].mode = mode[s]

\* The services of s are scaled for mode m, but for what an update overruled.
MongosFits(s, m) == mongos[s] <=> Sharded /\ m = Active
BackupFits(s, m) == (backup[s] <=> m = Active) \/ "backup" \in overruled[s]
DbaasFits(s, m)  == (dbaas[s] <=> m = Active) \/ "dbaas" \in overruled[s]

\* What a compound has done by its place in the plan.
Scaling(s) ==
    /\ pc[s] \in AfterMongos => MongosFits(s, run[s].mode)
    /\ pc[s] \in AfterBackup => BackupFits(s, run[s].mode)
    /\ pc[s] \in AfterDbaas  => DbaasFits(s, run[s].mode)

\* What "done" stands for.
Scaled(s) ==
    status[s].state = "done" => /\ MongosFits(s, status[s].mode)
                                /\ BackupFits(s, status[s].mode)
                                /\ DbaasFits(s, status[s].mode)

\* An unsharded cluster has no mongos to scale down.
NoMongos(s) == ~Sharded => ~mongos[s]

\* A site closed to clients that no compound in progress will open.
Quiet(s) ==
    ~mongos[s] /\ (dbaas[s] => "dbaas" \in overruled[s]) /\ mode[s] # Active

OneIsQuiet == ~failover => \E s \in Sites : Quiet(s)

ServingInv ==
    /\ ServingTypes
    /\ \A s \in Sites : PlanFits(s) /\ Scaling(s) /\ Scaled(s) /\ NoMongos(s)
    /\ OneIsQuiet

servingVars == <<mode, pc, run, status, pending, failover, mongos, backup, dbaas,
                 overruled>>

-----------------------------------------------------------------------------
(* Facts about the plan. *)

\* The compound reaches the steps behind a scaling step only through it.
LEMMA StepAfterFacts ==
    ASSUME NEW m \in Modes, NEW st \in Steps \ {"finish"}
    PROVE  /\ StepAfter(m, st) \in Steps
           /\ StepAfter(m, st) \in AfterMongos => st \in AfterMongos \cup {"mongos"}
           /\ StepAfter(m, st) \in AfterBackup => st \in AfterBackup \cup {"backup"}
           /\ StepAfter(m, st) \in AfterDbaas => st \in AfterDbaas \cup {"dbaas"}
  BY DEF StepAfter, Steps, AfterMongos, AfterBackup, AfterDbaas, Modes, Active,
         Standby, Disable

LEMMA FirstStepFacts ==
    ASSUME NEW m \in Modes, NEW nw
    PROVE  FirstStep(m, nw) \in Steps \ AfterMongos
  BY DEF FirstStep, Steps, AfterMongos, AfterBackup, AfterDbaas, Modes, Active,
         Standby, Disable

\* A step that touches nothing the invariant speaks of.
LEMMA ServingStutter ==
    ASSUME ServingInv, UNCHANGED servingVars
    PROVE  ServingInv'
  BY DEF ServingInv, ServingTypes, PlanFits, Scaling, Scaled, MongosFits, BackupFits, DbaasFits, NoMongos, Quiet,
         OneIsQuiet, servingVars

\* The compound goes on from a step that scales nothing.
LEMMA GoOnKeeps ==
    ASSUME ServingInv, NEW s \in Sites, pc[s] \in Steps \ {"finish", "backup", "dbaas"},
           pc[s] = "mongos" => ~Sharded, GoOn(s),
           UNCHANGED <<mode, run, status, pending, failover, mongos, backup, dbaas,
                       overruled>>
    PROVE  ServingInv'
<1> DEFINE next == StepAfter(run[s].mode, pc[s])
<1>1. run[s].mode \in Modes
  BY DEF ServingInv, ServingTypes
<1>2. /\ next \in Steps
      /\ next \in AfterMongos => pc[s] \in AfterMongos \cup {"mongos"}
      /\ next \in AfterBackup => pc[s] \in AfterBackup
      /\ next \in AfterDbaas => pc[s] \in AfterDbaas
  BY <1>1, StepAfterFacts
<1>3. pc' = [pc EXCEPT ![s] = next]
  BY DEF GoOn
<1> HIDE DEF next
<1>4. ServingTypes'
  BY <1>2, <1>3 DEF ServingInv, ServingTypes
<1>5. ASSUME NEW x \in Sites
      PROVE  (PlanFits(x) /\ Scaling(x) /\ Scaled(x) /\ NoMongos(x))'
  <2>1. CASE x = s
    BY <1>2, <1>3, <2>1 DEF ServingInv, ServingTypes, PlanFits, Scaling, Scaled, MongosFits, BackupFits, DbaasFits,
       NoMongos, Steps
  <2>2. CASE x # s
    BY <1>3, <2>2 DEF ServingInv, ServingTypes, PlanFits, Scaling, Scaled, MongosFits, BackupFits, DbaasFits, NoMongos
  <2> QED BY <2>1, <2>2
<1>6. OneIsQuiet'
  BY DEF ServingInv, OneIsQuiet, Quiet
<1> QED BY <1>4, <1>5, <1>6 DEF ServingInv

\* What the two operators do to the set of overruled Deployments.
LEMMA OverruledType ==
    ASSUME overruled \in [Sites -> SUBSET {"backup", "dbaas"}], NEW s \in Sites,
           NEW d \in {"backup", "dbaas"}, TakeBack(s, d) \/ Deployed(s, d)
    PROVE  overruled' \in [Sites -> SUBSET {"backup", "dbaas"}]
<1>1. overruled[s] \ {d} \in SUBSET {"backup", "dbaas"}
      /\ overruled[s] \cup {d} \in SUBSET {"backup", "dbaas"}
  OBVIOUS
<1>2. PICK o \in SUBSET {"backup", "dbaas"} :
        overruled' = [overruled EXCEPT ![s] = o]
  BY <1>1 DEF TakeBack, Deployed
<1> QED BY <1>2

\* A scaling step goes on: what it has scaled is closed on a site that
\* retires, and a site it opens is the active one.
LEMMA ScaleKeeps ==
    ASSUME ServingInv, NEW s \in Sites, GoOn(s),
           UNCHANGED <<mode, run, status, pending, failover>>,
           \/ /\ pc[s] = "mongos" /\ mongos' = ScaleTo(s, mongos)
              /\ UNCHANGED <<backup, dbaas, overruled>> /\ Sharded
           \/ /\ pc[s] = "backup" /\ backup' = ScaleTo(s, backup)
              /\ TakeBack(s, "backup") /\ UNCHANGED <<mongos, dbaas>>
           \/ /\ pc[s] = "dbaas" /\ dbaas' = ScaleTo(s, dbaas)
              /\ TakeBack(s, "dbaas") /\ UNCHANGED <<mongos, backup>>
    PROVE  ServingInv'
<1> DEFINE next == StepAfter(run[s].mode, pc[s])
<1>0. pc[s] \in Steps \ {"finish"} /\ run[s].mode = mode[s]
  BY DEF ServingInv, PlanFits, Steps
<1>1. run[s].mode \in Modes
  BY DEF ServingInv, ServingTypes
<1>2. /\ next \in Steps
      /\ next \in AfterMongos => pc[s] \in AfterMongos \cup {"mongos"}
      /\ next \in AfterBackup => pc[s] \in AfterBackup \cup {"backup"}
      /\ next \in AfterDbaas => pc[s] \in AfterDbaas \cup {"dbaas"}
  BY <1>0, <1>1, StepAfterFacts
<1>3. pc' = [pc EXCEPT ![s] = next]
  BY DEF GoOn
<1> HIDE DEF next
<1>4. ServingTypes'
  <2>1. overruled' \in [Sites -> SUBSET {"backup", "dbaas"}]
    BY OverruledType DEF ServingInv, ServingTypes
  <2> QED BY <1>2, <1>3, <2>1 DEF ServingInv, ServingTypes, ScaleTo, Target
<1>5. ASSUME NEW x \in Sites
      PROVE  (PlanFits(x) /\ Scaling(x) /\ Scaled(x) /\ NoMongos(x))'
  <2>1. CASE x = s
    <3>1. PlanFits(s)' /\ NoMongos(s)' /\ Scaled(s)'
      BY <1>0, <1>2, <1>3 DEF ServingInv, ServingTypes, PlanFits, Scaled, NoMongos,
         ScaleTo, Target, Steps
    <3>2. ASSUME pc[s] = "mongos" PROVE Scaling(s)'
      BY <1>0, <1>2, <1>3, <3>2 DEF ServingInv, ServingTypes, Scaling, MongosFits,
         BackupFits, DbaasFits, ScaleTo, Target, AfterMongos, AfterBackup, AfterDbaas
    <3>3. ASSUME pc[s] = "backup" PROVE Scaling(s)'
      BY <1>0, <1>2, <1>3, <3>3 DEF ServingInv, ServingTypes, Scaling, MongosFits,
         BackupFits, DbaasFits, ScaleTo, Target, AfterMongos, AfterBackup, AfterDbaas
    <3>4. ASSUME pc[s] = "dbaas" PROVE Scaling(s)'
      <4>1. /\ dbaas' = [dbaas EXCEPT ![s] = Target(s)] /\ UNCHANGED <<mongos, backup>>
            /\ overruled' = [overruled EXCEPT ![s] = @ \ {"dbaas"}]
        BY <3>4 DEF ScaleTo, TakeBack
      <4>2. MongosFits(s, run[s].mode) /\ BackupFits(s, run[s].mode)
        BY <3>4 DEF ServingInv, Scaling, AfterMongos, AfterBackup
      <4>3. "backup" \in overruled[s] => "backup" \in overruled'[s]
        BY <4>1 DEF ServingInv, ServingTypes
      <4>4. dbaas'[s] <=> run[s].mode = Active
        BY <4>1 DEF ServingInv, ServingTypes, Target
      <4>5. MongosFits(s, run[s].mode)' /\ BackupFits(s, run[s].mode)'
            /\ DbaasFits(s, run[s].mode)'
        BY <4>1, <4>2, <4>3, <4>4 DEF MongosFits, BackupFits, DbaasFits
      <4> QED BY <4>5 DEF Scaling
    <3>5. pc[s] \in {"mongos", "backup", "dbaas"}
      OBVIOUS
    <3> QED BY <2>1, <3>1, <3>2, <3>3, <3>4, <3>5
  <2>2. CASE x # s
    BY <1>3, <2>2 DEF ServingInv, ServingTypes, PlanFits, Scaling, Scaled, MongosFits, BackupFits, DbaasFits,
       NoMongos, ScaleTo, Target, TakeBack
  <2> QED BY <2>1, <2>2
<1>6. OneIsQuiet'
  BY <1>0 DEF ServingInv, ServingTypes, OneIsQuiet, Quiet, ScaleTo, Target, TakeBack
<1> QED BY <1>4, <1>5, <1>6 DEF ServingInv

\* The compound ends with an error, perhaps in the middle of a scaling step.
LEMMA AbortKeeps ==
    ASSUME ServingInv, NEW s \in Sites, pc[s] # "idle", Abort(s),
           UNCHANGED <<mode, run, pending, failover>>,
           \/ UNCHANGED <<mongos, backup, dbaas, overruled>>
           \/ /\ pc[s] = "mongos" /\ mongos' = ScaleTo(s, mongos) /\ Sharded
              /\ UNCHANGED <<backup, dbaas, overruled>>
           \/ /\ pc[s] = "backup" /\ backup' = ScaleTo(s, backup)
              /\ TakeBack(s, "backup") /\ UNCHANGED <<mongos, dbaas>>
           \/ /\ pc[s] = "dbaas" /\ dbaas' = ScaleTo(s, dbaas)
              /\ TakeBack(s, "dbaas") /\ UNCHANGED <<mongos, backup>>
    PROVE  ServingInv'
<1>1. /\ pc' = [pc EXCEPT ![s] = "idle"]
      /\ status' = [status EXCEPT ![s] = [mode |-> run[s].mode, state |-> "failed"]]
  BY DEF Abort
<1>2. run[s].mode = mode[s] /\ ~pending[s]
  BY DEF ServingInv, PlanFits
<1>3. ServingTypes'
  <2>1. overruled' \in [Sites -> SUBSET {"backup", "dbaas"}]
    BY OverruledType DEF ServingInv, ServingTypes
  <2> QED BY <1>1, <2>1 DEF ServingInv, ServingTypes, ScaleTo, Target
<1>4. ASSUME NEW x \in Sites
      PROVE  (PlanFits(x) /\ Scaling(x) /\ Scaled(x) /\ NoMongos(x))'
  <2>1. CASE x = s
    BY <1>1, <1>2, <2>1 DEF ServingInv, ServingTypes, PlanFits, Scaling, Scaled, MongosFits, BackupFits, DbaasFits,
       NoMongos, AfterMongos, AfterBackup, AfterDbaas
  <2>2. CASE x # s
    BY <1>1, <2>2 DEF ServingInv, ServingTypes, PlanFits, Scaling, Scaled, MongosFits, BackupFits, DbaasFits,
       NoMongos, ScaleTo, Target, TakeBack
  <2> QED BY <2>1, <2>2
<1>5. OneIsQuiet'
  BY <1>2 DEF ServingInv, ServingTypes, OneIsQuiet, Quiet, ScaleTo, Target, TakeBack
<1> QED BY <1>3, <1>4, <1>5 DEF ServingInv

-----------------------------------------------------------------------------
LEMMA ServingInit == Init => ServingInv
<1> SUFFICES ASSUME Init PROVE ServingInv
  OBVIOUS
<1>1. ServingTypes
  BY DEF Init, ServingTypes, InitialMode, Sites, Modes, Active, Standby, Disable,
         Steps, Clean
<1>2. ASSUME NEW s \in Sites
      PROVE  PlanFits(s) /\ Scaling(s) /\ Scaled(s) /\ NoMongos(s)
  BY DEF Init, PlanFits, Scaling, Scaled, MongosFits, BackupFits, DbaasFits, NoMongos, AfterMongos, AfterBackup,
         AfterDbaas
<1>3. Quiet(SiteB)
  BY SwitchoverAssumption DEF Init, Quiet, InitialMode, Sites, Active, Standby
<1> QED BY <1>1, <1>2, <1>3 DEF ServingInv, OneIsQuiet, Sites

LEMMA StartReconcileKeeps ==
    ASSUME ServingInv, NEW s \in Sites, StartReconcile(s)
    PROVE  ServingInv'
<1> DEFINE first == FirstStep(mode[s], noWait[s])
<1>1. first \in Steps \ AfterMongos
  BY FirstStepFacts DEF ServingInv, ServingTypes
<1>2. PICK redeploy \in BOOLEAN :
        /\ run' = [run EXCEPT ![s] =
                     [mode |-> mode[s],
                      deploy |-> IF fresh[s] THEN Clean
                                 ELSE IF redeploy THEN Update ELSE NoDeploy]]
        /\ mongos' = [mongos EXCEPT ![s] =
                        IF redeploy THEN Sharded /\ mode[s] = Active ELSE @]
  BY DEF StartReconcile
<1>3. /\ pc[s] = "idle" /\ pending[s]
      /\ pending' = [pending EXCEPT ![s] = FALSE]
      /\ pc' = [pc EXCEPT ![s] = first]
      /\ status' = [status EXCEPT ![s] = [mode |-> mode[s], state |-> "running"]]
      /\ UNCHANGED <<mode, failover, backup, dbaas, overruled>>
  BY DEF StartReconcile, crVars, updVars, envVars
<1> HIDE DEF first
<1>4. ServingTypes'
  BY <1>1, <1>2, <1>3, SwitchoverAssumption DEF ServingInv, ServingTypes
<1>5. ASSUME NEW x \in Sites
      PROVE  (PlanFits(x) /\ Scaling(x) /\ Scaled(x) /\ NoMongos(x))'
  <2>1. CASE x = s
    BY <1>1, <1>2, <1>3, <2>1 DEF ServingInv, ServingTypes, PlanFits, Scaling, Scaled, MongosFits, BackupFits, DbaasFits, NoMongos, AfterMongos, AfterBackup
  <2>2. CASE x # s
    BY <1>2, <1>3, <2>2 DEF ServingInv, ServingTypes, PlanFits, Scaling, Scaled, MongosFits, BackupFits, DbaasFits,
       NoMongos
  <2> QED BY <2>1, <2>2
<1>6. OneIsQuiet'
  BY <1>2, <1>3 DEF ServingInv, ServingTypes, OneIsQuiet, Quiet
<1> QED BY <1>4, <1>5, <1>6 DEF ServingInv

\* "done" on a site that retires: the failure of the order, if there was one,
\* is made good.
LEMMA FinishKeeps ==
    ASSUME ServingInv, NEW s \in Sites, Finish(s)
    PROVE  ServingInv'
<1>1. /\ pc[s] = "finish" /\ pc' = [pc EXCEPT ![s] = "idle"]
      /\ status' = [status EXCEPT ![s] = [mode |-> run[s].mode, state |-> "done"]]
      /\ failover' = (failover /\ run[s].mode = Active)
      /\ UNCHANGED <<mode, run, pending, mongos, backup, dbaas, overruled>>
  BY DEF Finish, crVars, svcVars, updVars
<1>2. run[s].mode = mode[s] /\ ~pending[s]
  BY <1>1 DEF ServingInv, PlanFits
<1>3. MongosFits(s, mode[s]) /\ BackupFits(s, mode[s]) /\ DbaasFits(s, mode[s])
  BY <1>1, <1>2 DEF ServingInv, Scaling, AfterMongos, AfterBackup, AfterDbaas
<1>4. ServingTypes'
  BY <1>1 DEF ServingInv, ServingTypes
<1>5. ASSUME NEW x \in Sites
      PROVE  (PlanFits(x) /\ Scaling(x) /\ Scaled(x) /\ NoMongos(x))'
  <2>1. CASE x = s
    BY <1>1, <1>2, <1>3, <2>1 DEF ServingInv, ServingTypes, PlanFits, Scaling, Scaled, MongosFits, BackupFits, DbaasFits, NoMongos, AfterMongos, AfterBackup, AfterDbaas
  <2>2. CASE x # s
    BY <1>1, <2>2 DEF ServingInv, ServingTypes, PlanFits, Scaling, Scaled, MongosFits, BackupFits, DbaasFits, NoMongos
  <2> QED BY <2>1, <2>2
<1>6. OneIsQuiet'
  <2>1. CASE mode[s] = Active
    BY <1>1, <1>2, <2>1 DEF ServingInv, ServingTypes, OneIsQuiet, Quiet
  <2>2. CASE mode[s] # Active
    BY <1>1, <1>3, <2>2 DEF OneIsQuiet, Quiet, MongosFits, DbaasFits
  <2> QED BY <2>1, <2>2
<1> QED BY <1>4, <1>5, <1>6 DEF ServingInv

LEMMA CrashKeeps ==
    ASSUME ServingInv, NEW s \in Sites, Crash(s)
    PROVE  ServingInv'
<1>1. /\ pc[s] # "idle" /\ pc' = [pc EXCEPT ![s] = "idle"]
      /\ pending' = [pending EXCEPT ![s] = TRUE]
      /\ UNCHANGED <<mode, run, status, failover, mongos, backup, dbaas, overruled>>
  BY DEF Crash, crVars, svcVars, updVars
<1>2. ServingTypes'
  BY <1>1 DEF ServingInv, ServingTypes
<1>3. ASSUME NEW x \in Sites
      PROVE  (PlanFits(x) /\ Scaling(x) /\ Scaled(x) /\ NoMongos(x))'
  BY <1>1 DEF ServingInv, ServingTypes, PlanFits, Scaling, Scaled, MongosFits, BackupFits, DbaasFits, NoMongos,
     AfterMongos, AfterBackup, AfterDbaas
<1>4. OneIsQuiet'
  BY <1>1 DEF ServingInv, OneIsQuiet, Quiet
<1> QED BY <1>2, <1>3, <1>4 DEF ServingInv

\* The site manager posts a mode.  A site becomes active only when the other
\* one is quiet, or in a failover.
LEMMA PostKeeps ==
    ASSUME ServingInv, NEW s \in Sites, NEW m \in Modes, Post(s, m),
           failover' \in BOOLEAN,
           ~failover' => /\ ~failover
                         /\ \/ m # Active \/ m = mode[s]
                            \/ status[Other(s)].state = "done" /\ status[Other(s)].mode # Active
    PROVE  ServingInv'
<1>1. /\ pc[s] = "idle" /\ ~pending[s]
      /\ mode' = [mode EXCEPT ![s] = m]
      /\ pending' = [pending EXCEPT ![s] = TRUE]
      /\ status' = [status EXCEPT ![s] = [mode |-> m, state |-> "running"]]
      /\ UNCHANGED <<run, pc, mongos, backup, dbaas, overruled>>
  BY DEF Post, Settled, svcVars, updVars
<1>2. ServingTypes'
  BY <1>1 DEF ServingInv, ServingTypes
<1>3. ASSUME NEW x \in Sites
      PROVE  (PlanFits(x) /\ Scaling(x) /\ Scaled(x) /\ NoMongos(x))'
  BY <1>1 DEF ServingInv, ServingTypes, PlanFits, Scaling, Scaled, MongosFits, BackupFits, DbaasFits, NoMongos
<1>4. OneIsQuiet'
  <2> SUFFICES ASSUME ~failover' PROVE \E x \in Sites : Quiet(x)'
    BY DEF OneIsQuiet
  <2>1. CASE m # Active \/ m = mode[s]
    <3>1. PICK x \in Sites : Quiet(x)
      BY DEF ServingInv, OneIsQuiet
    <3>2. Quiet(x)'
      BY <1>1, <2>1, <3>1 DEF Quiet, ServingInv, ServingTypes
    <3> QED BY <3>2
  <2>2. CASE status[Other(s)].state = "done" /\ status[Other(s)].mode # Active
    <3>1. Other(s) \in Sites /\ Other(s) # s
      BY SwitchoverAssumption DEF Other, Sites
    <3>2. Quiet(Other(s))
      BY <2>2, <3>1 DEF ServingInv, PlanFits, Scaled, Quiet, MongosFits, DbaasFits
    <3>3. (Other(s))' = Other(s)
      BY DEF Other
    <3>4. Quiet(Other(s))'
      BY <1>1, <3>1, <3>2, <3>3 DEF Quiet, ServingInv, ServingTypes
    <3> QED BY <3>1, <3>4
  <2> QED BY <2>1, <2>2
<1> QED BY <1>2, <1>3, <1>4 DEF ServingInv

-----------------------------------------------------------------------------
LEMMA OperatorKeeps ==
    ASSUME ServingInv, NEW s \in Sites, OperatorStep(s)
    PROVE  ServingInv'
<1> USE DEF crVars, planVars, rsVars, svcVars, updVars, envVars
<1>1. CASE StartReconcile(s)
  BY <1>1, StartReconcileKeeps
<1>2. CASE SkipStep(s)
  <2>1. /\ pc[s] \in Steps \ {"finish", "backup", "dbaas"}
        /\ pc[s] = "mongos" => ~Sharded
    BY <1>2 DEF SkipStep, Condition, Steps
  <2> QED BY <1>2, <2>1, GoOnKeeps DEF SkipStep
<1>3. CASE WaitStatus(s)
  <2>1. pc[s] \in {"waitHealthy", "waitUp"}
    BY <1>3 DEF WaitStatus, At
  <2> QED BY <1>3, <2>1, GoOnKeeps DEF WaitStatus, Steps
<1>4. CASE WaitTimeout(s)
  <2>1. pc[s] # "idle"
    BY <1>4 DEF WaitTimeout, At
  <2> QED BY <1>4, <2>1, AbortKeeps DEF WaitTimeout
<1>5. CASE ReconfigureCnfrs(s)
  BY <1>5, GoOnKeeps DEF ReconfigureCnfrs, At, Steps
<1>6. CASE ReconfigureDataRS(s)
  <2>1. CASE MoreShards(s)
    BY <1>6, <2>1, ServingStutter DEF ReconfigureDataRS, servingVars
  <2>2. CASE ~MoreShards(s)
    BY <1>6, <2>2, GoOnKeeps DEF ReconfigureDataRS, At, Steps
  <2> QED BY <2>1, <2>2
<1>7. CASE UpdateShards(s)
  <2>1. pc[s] = "updateShards" /\ UNCHANGED <<mode, run, pending, failover, mongos, backup, dbaas, overruled>>
    BY <1>7 DEF UpdateShards, At
  <2>2. (GoOn(s) /\ UNCHANGED status) \/ Abort(s)
    BY <1>7 DEF UpdateShards
  <2> QED BY <2>1, <2>2, GoOnKeeps, AbortKeeps DEF Steps
<1>8. CASE RestartConfigRS(s)
  <2>1. pc[s] = "restartCnf" /\ UNCHANGED <<mode, run, pending, failover, mongos, backup, dbaas, overruled>>
    BY <1>8 DEF RestartConfigRS, At
  <2>2. (pc' = [pc EXCEPT ![s] = "awaitCnf"] /\ UNCHANGED status) \/ Abort(s)
    BY <1>8 DEF RestartConfigRS
  <2>3. CASE pc' = [pc EXCEPT ![s] = "awaitCnf"] /\ UNCHANGED status
    <3>1. ServingTypes'
      BY <2>1, <2>3 DEF ServingInv, ServingTypes, Steps
    <3>2. ASSUME NEW x \in Sites
          PROVE  (PlanFits(x) /\ Scaling(x) /\ Scaled(x) /\ NoMongos(x))'
      BY <2>1, <2>3 DEF ServingInv, ServingTypes, PlanFits, Scaling, Scaled, MongosFits, BackupFits, DbaasFits,
         NoMongos, AfterMongos, AfterBackup, AfterDbaas
    <3>3. OneIsQuiet'
      BY <2>1 DEF ServingInv, OneIsQuiet, Quiet
    <3> QED BY <3>1, <3>2, <3>3 DEF ServingInv
  <2> QED BY <2>1, <2>2, <2>3, AbortKeeps
<1>9. CASE AwaitConfigRS(s)
  <2>1. pc[s] = "awaitCnf" /\ UNCHANGED <<mode, run, pending, failover, mongos, backup, dbaas, overruled>>
    BY <1>9 DEF AwaitConfigRS
  <2>2. (GoOn(s) /\ UNCHANGED status) \/ Abort(s)
    BY <1>9 DEF AwaitConfigRS
  <2> QED BY <2>1, <2>2, GoOnKeeps, AbortKeeps DEF Steps
<1>10. CASE ScaleMongos(s)
  <2>1. pc[s] = "mongos" /\ Sharded /\ UNCHANGED <<mode, run, pending, failover, backup, dbaas, overruled>>
    BY <1>10 DEF ScaleMongos, At, Condition
  <2>2. \/ mongos' = ScaleTo(s, mongos) /\ GoOn(s) /\ UNCHANGED status
        \/ mongos' \in {mongos, ScaleTo(s, mongos)} /\ Abort(s)
    BY <1>10 DEF ScaleMongos
  <2> QED BY <2>1, <2>2, ScaleKeeps, AbortKeeps
<1>11. CASE ScaleBackupDaemon(s)
  <2>1. pc[s] = "backup" /\ UNCHANGED <<mode, run, pending, failover, mongos, dbaas>>
    BY <1>11 DEF ScaleBackupDaemon, At
  <2>2. \/ /\ backup' = ScaleTo(s, backup) /\ TakeBack(s, "backup")
           /\ GoOn(s) /\ UNCHANGED status
        \/ /\ Abort(s)
           /\ \/ backup' = ScaleTo(s, backup) /\ TakeBack(s, "backup")
              \/ UNCHANGED <<backup, overruled>>
    BY <1>11 DEF ScaleBackupDaemon
  <2> QED BY <2>1, <2>2, ScaleKeeps, AbortKeeps
<1>12. CASE ScaleDbaasAdapter(s)
  <2>1. pc[s] = "dbaas" /\ UNCHANGED <<mode, run, pending, failover, mongos, backup>>
    BY <1>12 DEF ScaleDbaasAdapter, At
  <2>2. \/ /\ dbaas' = ScaleTo(s, dbaas) /\ TakeBack(s, "dbaas")
           /\ GoOn(s) /\ UNCHANGED status
        \/ /\ Abort(s)
           /\ \/ dbaas' = ScaleTo(s, dbaas) /\ TakeBack(s, "dbaas")
              \/ UNCHANGED <<dbaas, overruled>>
    BY <1>12 DEF ScaleDbaasAdapter
  <2> QED BY <2>1, <2>2, ScaleKeeps, AbortKeeps
<1>13. CASE UpdatePrometheusExporter(s)
  <2>1. pc[s] = "exporter" /\ UNCHANGED <<mode, run, pending, failover, mongos, backup, dbaas, overruled>>
    BY <1>13 DEF UpdatePrometheusExporter, At
  <2>2. (GoOn(s) /\ UNCHANGED status) \/ Abort(s)
    BY <1>13 DEF UpdatePrometheusExporter
  <2> QED BY <2>1, <2>2, GoOnKeeps, AbortKeeps DEF Steps
<1>14. CASE WaitReplicationLag(s)
  <2>1. CASE MoreShards(s)
    BY <1>14, <2>1, ServingStutter DEF WaitReplicationLag, servingVars
  <2>2. CASE ~MoreShards(s)
    BY <1>14, <2>2, GoOnKeeps DEF WaitReplicationLag, At, Steps
  <2> QED BY <2>1, <2>2
<1>15. CASE ScaleCNFRS(s)
  BY <1>15, GoOnKeeps DEF ScaleCNFRS, At, Steps
<1>16. CASE ScaleDATARS(s)
  BY <1>16, GoOnKeeps DEF ScaleDATARS, At, Steps
<1>17. CASE Finish(s)
  BY <1>17, FinishKeeps
<1> QED
  BY <1>1, <1>2, <1>3, <1>4, <1>5, <1>6, <1>7, <1>8, <1>9, <1>10, <1>11, <1>12,
     <1>13, <1>14, <1>15, <1>16, <1>17 DEF OperatorStep

LEMMA SiteManagerKeeps ==
    ASSUME ServingInv, NEW s \in Sites, SiteManager(s)
    PROVE  ServingInv'
<1>0. failover \in BOOLEAN /\ mode[s] \in Modes
  BY DEF ServingInv, ServingTypes
<1>1. CASE \E m \in Modes : PostPassive(s, m)
  <2>1. PICK m \in Modes : PostPassive(s, m)
    BY <1>1
  <2>2. m # Active /\ Post(s, m) /\ UNCHANGED failover
    BY <2>1 DEF PostPassive, Active, Standby, Disable
  <2> QED BY <1>0, <2>2, PostKeeps
<1>2. CASE Resync(s)
  BY <1>0, <1>2, PostKeeps DEF Resync
<1>3. CASE PostActive(s)
  <2>1. /\ Post(s, Active) /\ UNCHANGED failover /\ Active \in Modes
        /\ status[Other(s)].state = "done" /\ status[Other(s)].mode # Active
    BY <1>3 DEF PostActive, Modes
  <2> QED BY <1>0, <2>1, PostKeeps
<1>4. CASE PostFailover(s)
  <2>1. Post(s, Active) /\ failover' = TRUE /\ Active \in Modes
    BY <1>4 DEF PostFailover, Modes
  <2> QED BY <2>1, PostKeeps
<1> QED BY <1>1, <1>2, <1>3, <1>4 DEF SiteManager

\* An update of the services: what it scales fits the mode or is overruled,
\* and a quiet site stays quiet.
LEMMA ServicesKeeps ==
    ASSUME ServingInv, NEW s \in Sites, ServicesStep(s)
    PROVE  ServingInv'
<1> USE DEF crVars, planVars, rsVars, svcVars, updVars, envVars
<1>1. CASE UpdateServices(s) \/ GrantRoleToUser(s)
  BY <1>1, ServingStutter DEF UpdateServices, GrantRoleToUser, servingVars
<1>2. CASE DeployBackupDaemon(s)
  <2>1. /\ backup' = [backup EXCEPT ![s] = InitialMode(s) = Active]
        /\ Deployed(s, "backup")
        /\ UNCHANGED <<mode, pc, run, status, pending, failover, mongos, dbaas>>
    BY <1>2 DEF DeployBackupDaemon
  <2>2. ServingTypes'
    BY <2>1 DEF ServingInv, ServingTypes, Deployed
  <2>3. ASSUME NEW x \in Sites
        PROVE  (PlanFits(x) /\ Scaling(x) /\ Scaled(x) /\ NoMongos(x))'
    BY <2>1 DEF ServingInv, ServingTypes, PlanFits, Scaling, Scaled, MongosFits,
       BackupFits, DbaasFits, NoMongos, Deployed, AfterMongos, AfterBackup, AfterDbaas
  <2>4. OneIsQuiet'
    BY <2>1 DEF ServingInv, ServingTypes, OneIsQuiet, Quiet, Deployed
  <2> QED BY <2>2, <2>3, <2>4 DEF ServingInv
<1>3. CASE DeployDbaasAdapter(s)
  <2>1. /\ dbaas' = [dbaas EXCEPT ![s] = InitialMode(s) = Active]
        /\ Deployed(s, "dbaas")
        /\ UNCHANGED <<mode, pc, run, status, pending, failover, mongos, backup>>
    BY <1>3 DEF DeployDbaasAdapter
  <2>2. ServingTypes'
    BY <2>1 DEF ServingInv, ServingTypes, Deployed
  <2>3. ASSUME NEW x \in Sites
        PROVE  (PlanFits(x) /\ Scaling(x) /\ Scaled(x) /\ NoMongos(x))'
    BY <2>1 DEF ServingInv, ServingTypes, PlanFits, Scaling, Scaled, MongosFits,
       BackupFits, DbaasFits, NoMongos, Deployed, AfterMongos, AfterBackup, AfterDbaas
  <2>4. OneIsQuiet'
    BY <2>1 DEF ServingInv, ServingTypes, OneIsQuiet, Quiet, Deployed
  <2> QED BY <2>2, <2>3, <2>4 DEF ServingInv
<1> QED BY <1>1, <1>2, <1>3 DEF ServicesStep

LEMMA ServingStep == ServingInv /\ [Next]_vars => ServingInv'
<1> SUFFICES ASSUME ServingInv, [Next]_vars PROVE ServingInv'
  OBVIOUS
<1> USE DEF crVars, planVars, rsVars, svcVars, updVars, envVars
<1>1. CASE \E s \in Sites : OperatorStep(s) \/ Crash(s) \/ SiteManager(s)
                            \/ ServicesStep(s)
  BY <1>1, OperatorKeeps, CrashKeeps, SiteManagerKeeps, ServicesKeeps
<1>2. CASE \E s \in Sites, rs \in RS :
             Elect(s, rs) \/ MemberFails(s, rs) \/ MemberRecovers(s, rs)
  <2>1. UNCHANGED servingVars
    BY <1>2 DEF Elect, MemberFails, MemberRecovers, servingVars
  <2> QED BY <2>1, ServingStutter
<1>3. CASE LinkDown \/ LinkUp
  <2>1. UNCHANGED servingVars
    BY <1>3 DEF LinkDown, LinkUp, servingVars
  <2> QED BY <2>1, ServingStutter
<1>4. CASE UNCHANGED vars
  BY <1>4, ServingStutter DEF vars, servingVars
<1> QED BY <1>1, <1>2, <1>3, <1>4 DEF Next

\* Whatever fails, times out or crashes, a switchover in the documented order
\* never has mongos or the DBaaS adapter scaled up on both sites (DRBuilder).
THEOREM OneServingSiteAlways == Spec => []OneServingSite
<1>1. ServingInv => OneServingSite
  BY DEF ServingInv, OneIsQuiet, Quiet, OneServingSite
<1> QED BY ServingInit, ServingStep, <1>1, PTL DEF Spec

\* A site that reports "done" has mongos, the backup daemon and the DBaaS
\* adapter scaled for its mode, but for what an update of the services did.
THEOREM DoneScalesServicesAlways == Spec => []DoneScalesServices
<1>1. ServingInv => DoneScalesServices
  BY DEF ServingInv, Scaled, MongosFits, BackupFits, DbaasFits, DoneScalesServices
<1> QED BY ServingInit, ServingStep, <1>1, PTL DEF Spec

-----------------------------------------------------------------------------
(* Refinement: what a step does to the right to serve and to the open sites. *)

owners  == {s \in Sites : mode[s] = Active}
IsOpen(s) == mongos[s] \/ (dbaas[s] /\ "dbaas" \notin overruled[s])
opened  == {s \in Sites : IsOpen(s)}

HandoverStep == [Handover!Next]_(Handover!vars)

\* A step that leaves the right to serve alone and opens no site but an owner.
LEMMA OpenOrClose ==
    ASSUME NEW s \in Sites, UNCHANGED <<mode, failover>>,
           \A x \in Sites \ {s} : IsOpen(x)' <=> IsOpen(x),
           IsOpen(s)' => IsOpen(s) \/ mode[s] = Active
    PROVE  HandoverStep
<1>1. UNCHANGED owners
  BY DEF owners
<1>2. CASE IsOpen(s)'
  <2>1. opened' = opened \cup {s}
    BY <1>2 DEF opened
  <2>2. CASE mode[s] = Active
    BY <1>1, <2>1, <2>2 DEF owners, opened, IsOpen, HandoverStep, Handover!Next, Handover!Open
  <2>3. CASE mode[s] # Active
    <3>1. UNCHANGED opened
      BY <1>2, <2>1, <2>3 DEF opened
    <3> QED BY <1>1, <3>1 DEF owners, opened, IsOpen, HandoverStep, Handover!vars
  <2> QED BY <2>2, <2>3
<1>3. CASE ~IsOpen(s)'
  <2>1. opened' = opened \ {s}
    BY <1>3 DEF opened
  <2> QED BY <1>1, <2>1 DEF owners, opened, IsOpen, HandoverStep, Handover!Next, Handover!Close
<1> QED BY <1>2, <1>3

\* A step that touches nothing the abstract specification speaks of.
LEMMA HandoverStutter ==
    ASSUME UNCHANGED <<mode, failover, mongos, dbaas, overruled>>
    PROVE  HandoverStep
  BY DEF HandoverStep, Handover!vars

\* A scaling step of the compound opens only the site whose CR is active.
LEMMA ScalingHandover ==
    ASSUME ServingInv, NEW s \in Sites, UNCHANGED <<mode, failover>>,
           \/ ScaleMongos(s) \/ ScaleBackupDaemon(s) \/ ScaleDbaasAdapter(s)
    PROVE  HandoverStep
<1>1. pc[s] # "idle" /\ run[s].mode = mode[s]
  BY DEF ServingInv, PlanFits, ScaleMongos, ScaleBackupDaemon, ScaleDbaasAdapter, At
<1>2. CASE ScaleMongos(s)
  <2>1. /\ mongos' \in {mongos, ScaleTo(s, mongos)}
        /\ UNCHANGED <<dbaas, overruled>>
    BY <1>2 DEF ScaleMongos, updVars
  <2> QED BY <1>1, <2>1, OpenOrClose DEF ServingInv, ServingTypes, IsOpen, ScaleTo, Target
<1>3. CASE ScaleBackupDaemon(s)
  <2>1. /\ overruled' \in {overruled, [overruled EXCEPT ![s] = @ \ {"backup"}]}
        /\ UNCHANGED <<mongos, dbaas>>
    BY <1>3 DEF ScaleBackupDaemon, TakeBack
  <2>2. \A x \in Sites : IsOpen(x)' <=> IsOpen(x)
    BY <2>1 DEF ServingInv, ServingTypes, IsOpen
  <2> QED BY <2>2, OpenOrClose
<1>4. CASE ScaleDbaasAdapter(s)
  <2>1. /\ \/ UNCHANGED <<dbaas, overruled>>
           \/ /\ dbaas' = [dbaas EXCEPT ![s] = mode[s] = Active]
              /\ overruled' = [overruled EXCEPT ![s] = @ \ {"dbaas"}]
        /\ UNCHANGED mongos
    BY <1>1, <1>4 DEF ScaleDbaasAdapter, TakeBack, ScaleTo, Target
  <2>2. \A x \in Sites \ {s} : IsOpen(x)' <=> IsOpen(x)
    BY <2>1 DEF ServingInv, ServingTypes, IsOpen
  <2>3. IsOpen(s)' => IsOpen(s) \/ mode[s] = Active
    BY <2>1 DEF ServingInv, ServingTypes, IsOpen
  <2> QED BY <2>2, <2>3, OpenOrClose
<1> QED BY <1>2, <1>3, <1>4

\* The report "done" of a site that retired makes a failover good.
LEMMA FinishHandover ==
    ASSUME ServingInv, NEW s \in Sites, Finish(s)
    PROVE  HandoverStep
<1>1. /\ pc[s] = "finish" /\ failover' = (failover /\ run[s].mode = Active)
      /\ UNCHANGED <<mode, mongos, dbaas, overruled>>
  BY DEF Finish, crVars, svcVars, updVars
<1>2. run[s].mode = mode[s] /\ failover \in BOOLEAN
  BY <1>1 DEF ServingInv, ServingTypes, PlanFits
<1>3. CASE mode[s] = Active
  BY <1>1, <1>2, <1>3, HandoverStutter
<1>4. CASE mode[s] # Active
  <2>1. ~IsOpen(s)
    BY <1>1, <1>2, <1>4 DEF ServingInv, ServingTypes, Scaling, MongosFits, DbaasFits,
       IsOpen, AfterMongos, AfterBackup, AfterDbaas
  <2>2. UNCHANGED <<owners, opened>> /\ s \notin owners \cup opened /\ failover' = FALSE
    BY <1>1, <1>2, <1>4, <2>1 DEF owners, opened, IsOpen
  <2> QED BY <2>2 DEF owners, opened, IsOpen, HandoverStep, Handover!Next, Handover!Settle
<1> QED BY <1>3, <1>4

LEMMA OperatorHandover ==
    ASSUME ServingInv, NEW s \in Sites, OperatorStep(s)
    PROVE  HandoverStep
<1> USE DEF crVars, planVars, rsVars, svcVars, updVars, envVars
<1>1. CASE StartReconcile(s)
  <2>1. /\ \/ UNCHANGED mongos
           \/ mongos' = [mongos EXCEPT ![s] = Sharded /\ mode[s] = Active]
        /\ UNCHANGED <<mode, failover, dbaas, overruled>>
    BY <1>1 DEF StartReconcile, ServingInv, ServingTypes
  <2> QED BY <2>1, OpenOrClose DEF ServingInv, ServingTypes, IsOpen
<1>2. CASE SkipStep(s) \/ WaitStatus(s) \/ WaitTimeout(s)
  BY <1>2, HandoverStutter DEF SkipStep, WaitStatus, WaitTimeout
<1>3. CASE ReconfigureCnfrs(s) \/ ReconfigureDataRS(s) \/ UpdateShards(s)
  BY <1>3, HandoverStutter DEF ReconfigureCnfrs, ReconfigureDataRS, UpdateShards
<1>4. CASE RestartConfigRS(s) \/ AwaitConfigRS(s)
  BY <1>4, HandoverStutter DEF RestartConfigRS, AwaitConfigRS
<1>5. CASE ScaleMongos(s) \/ ScaleBackupDaemon(s) \/ ScaleDbaasAdapter(s)
  <2>1. UNCHANGED <<mode, failover>>
    BY <1>5 DEF ScaleMongos, ScaleBackupDaemon, ScaleDbaasAdapter
  <2> QED BY <1>5, <2>1, ScalingHandover
<1>6. CASE UpdatePrometheusExporter(s) \/ WaitReplicationLag(s)
  BY <1>6, HandoverStutter DEF UpdatePrometheusExporter, WaitReplicationLag
<1>7. CASE ScaleCNFRS(s) \/ ScaleDATARS(s)
  BY <1>7, HandoverStutter DEF ScaleCNFRS, ScaleDATARS
<1>8. CASE Finish(s)
  BY <1>8, FinishHandover
<1> QED BY <1>1, <1>2, <1>3, <1>4, <1>5, <1>6, <1>7, <1>8 DEF OperatorStep

\* The site manager moves the right to serve.
LEMMA SiteManagerHandover ==
    ASSUME ServingInv, NEW s \in Sites, SiteManager(s)
    PROVE  HandoverStep
<1> USE DEF svcVars, updVars
<1>1. CASE \E m \in Modes : PostPassive(s, m)
  <2>1. PICK m \in Modes \ {Active} : /\ mode' = [mode EXCEPT ![s] = m]
                                      /\ UNCHANGED <<failover, mongos, dbaas, overruled>>
    BY <1>1 DEF PostPassive, Post, Active, Standby, Disable
  <2>2. owners' = owners \ {s} /\ UNCHANGED <<opened, failover>>
    BY <2>1 DEF ServingInv, ServingTypes, owners, opened, IsOpen
  <2> QED BY <2>2 DEF owners, opened, IsOpen, HandoverStep, Handover!Next, Handover!Release
<1>2. CASE Resync(s)
  <2>1. UNCHANGED <<mode, failover, mongos, dbaas, overruled>>
    BY <1>2 DEF Resync, Post, ServingInv, ServingTypes
  <2> QED BY <2>1, HandoverStutter
<1>3. CASE PostActive(s)
  <2>1. /\ mode[s] # Active /\ mode' = [mode EXCEPT ![s] = Active]
        /\ status[Other(s)].state = "done" /\ status[Other(s)].mode # Active
        /\ UNCHANGED <<failover, mongos, dbaas, overruled>>
    BY <1>3 DEF PostActive, Post
  <2>2. Sites = {s, Other(s)} /\ s # Other(s)
    BY SwitchoverAssumption DEF Sites, Other
  <2>3. mode[Other(s)] # Active /\ ~IsOpen(Other(s))
    BY <2>1, <2>2 DEF ServingInv, ServingTypes, PlanFits, Scaled, MongosFits, DbaasFits, IsOpen
  <2>4. owners = {} /\ opened \subseteq {s} /\ UNCHANGED <<opened, failover>>
    BY <2>1, <2>2, <2>3 DEF owners, opened, IsOpen
  <2>5. owners' = {s}
    BY <2>1, <2>2, <2>3 DEF ServingInv, ServingTypes, owners
  <2> QED BY <2>4, <2>5 DEF owners, opened, IsOpen, HandoverStep, Handover!Next, Handover!Acquire
<1>4. CASE PostFailover(s)
  <2>1. /\ mode' = [mode EXCEPT ![s] = Active] /\ failover' = TRUE
        /\ UNCHANGED <<mongos, dbaas, overruled>>
    BY <1>4 DEF PostFailover, Post
  <2>2. owners' = owners \cup {s} /\ UNCHANGED opened
    BY <2>1 DEF ServingInv, ServingTypes, owners, opened, IsOpen
  <2> QED BY <2>1, <2>2 DEF owners, opened, IsOpen, HandoverStep, Handover!Next, Handover!Seize
<1> QED BY <1>1, <1>2, <1>3, <1>4 DEF SiteManager

\* An update of the services opens a site against its mode only as overruled.
LEMMA ServicesHandover ==
    ASSUME ServingInv, NEW s \in Sites, ServicesStep(s)
    PROVE  HandoverStep
<1> USE DEF crVars, planVars, rsVars, svcVars, updVars, envVars
<1>1. CASE UpdateServices(s) \/ GrantRoleToUser(s)
  BY <1>1, HandoverStutter DEF UpdateServices, GrantRoleToUser
<1>2. CASE DeployBackupDaemon(s)
  <2>1. /\ UNCHANGED <<mode, failover, mongos, dbaas>>
        /\ \/ overruled' = [overruled EXCEPT ![s] = @ \ {"backup"}]
           \/ overruled' = [overruled EXCEPT ![s] = @ \cup {"backup"}]
    BY <1>2 DEF DeployBackupDaemon, Deployed
  <2>2. \A x \in Sites : IsOpen(x)' <=> IsOpen(x)
    BY <2>1 DEF ServingInv, ServingTypes, IsOpen
  <2> QED BY <2>1, <2>2, OpenOrClose
<1>3. CASE DeployDbaasAdapter(s)
  <2>1. /\ UNCHANGED <<mode, failover, mongos>>
        /\ dbaas' = [dbaas EXCEPT ![s] = InitialMode(s) = Active]
        /\ overruled' = [overruled EXCEPT ![s] =
                           IF (InitialMode(s) = Active) = (mode[s] = Active)
                           THEN @ \ {"dbaas"} ELSE @ \cup {"dbaas"}]
    BY <1>3 DEF DeployDbaasAdapter, Deployed
  <2>2. \A x \in Sites \ {s} : IsOpen(x)' <=> IsOpen(x)
    BY <2>1 DEF ServingInv, ServingTypes, IsOpen
  <2>3. IsOpen(s)' => IsOpen(s) \/ mode[s] = Active
    BY <2>1 DEF ServingInv, ServingTypes, IsOpen
  <2> QED BY <2>1, <2>2, <2>3, OpenOrClose
<1> QED BY <1>1, <1>2, <1>3 DEF ServicesStep

LEMMA HandoverInit == Init => Handover!Init
<1> SUFFICES ASSUME Init PROVE Handover!Init
  OBVIOUS
<1>1. owners = {SiteA} /\ opened = {SiteA} /\ failover = FALSE
  BY SwitchoverAssumption DEF Init, owners, opened, IsOpen, Sites, InitialMode, Active, Standby
<1> QED BY <1>1 DEF Handover!Init, owners, opened, IsOpen, Sites

LEMMA HandoverNext == ServingInv /\ [Next]_vars => HandoverStep
<1> SUFFICES ASSUME ServingInv, [Next]_vars PROVE HandoverStep
  OBVIOUS
<1> USE DEF crVars, planVars, rsVars, svcVars, updVars, envVars
<1>1. CASE \E s \in Sites : OperatorStep(s) \/ SiteManager(s) \/ ServicesStep(s)
  BY <1>1, OperatorHandover, SiteManagerHandover, ServicesHandover
<1>2. CASE \E s \in Sites : Crash(s)
  BY <1>2, HandoverStutter DEF Crash
<1>3. CASE \E s \in Sites, rs \in RS :
             Elect(s, rs) \/ MemberFails(s, rs) \/ MemberRecovers(s, rs)
  BY <1>3, HandoverStutter DEF Elect, MemberFails, MemberRecovers
<1>4. CASE LinkDown \/ LinkUp
  BY <1>4, HandoverStutter DEF LinkDown, LinkUp
<1>5. CASE UNCHANGED vars
  BY <1>5, HandoverStutter DEF vars
<1> QED BY <1>1, <1>2, <1>3, <1>4, <1>5 DEF Next

\* The two operators, their site manager and the updates of the services
\* implement the handover of the service (DRBuilder and dr.Service).
THEOREM SwitchoverImplementsHandover == Spec => ImplementsHandover
<1>1. Spec => []ServingInv
  BY ServingInit, ServingStep, PTL DEF Spec
<1> QED BY HandoverInit, HandoverNext, <1>1, PTL DEF Spec, ImplementsHandover,
           Handover!Spec, HandoverStep

-----------------------------------------------------------------------------
(* Types. *)

LEMMA TypeInit == Init => TypeOK
<1> SUFFICES ASSUME Init PROVE TypeOK
  OBVIOUS
<1>1. /\ mode \in [Sites -> Modes]
      /\ run \in [Sites -> [mode : Modes, deploy : {NoDeploy, Clean, Update}]]
      /\ status \in [Sites -> [mode : Modes, state : {"running", "done", "failed"}]]
  BY DEF Init, InitialMode, Modes
<1>2. shard \in [Sites -> 0..ShardCount] /\ live \in [Sites -> [RS -> 0..N]]
  BY SwitchoverAssumption DEF Init
<1>3. /\ voter \in [Sites -> [RS -> Sites]] /\ hosts \in [Sites -> [Shards -> Sites]]
      /\ touched \in [Sites -> [RS -> BOOLEAN]] /\ prim \in [Sites -> [RS -> BOOLEAN]]
      /\ scaled \in [Sites -> [RS -> BOOLEAN]]
  BY DEF Init, Sites
<1>4. mongos \in [Sites -> BOOLEAN]
  BY SwitchoverAssumption DEF Init
<1>5. faults \in 0..MaxFaults /\ switches \in 0..MaxSwitches
  BY SwitchoverAssumption DEF Init
<1> QED BY <1>1, <1>2, <1>3, <1>4, <1>5 DEF Init, TypeOK

\* The ways a step of the compound changes the plan.
LEMMA GoOnType ==
    ASSUME TypeOK, NEW s \in Sites, pc[s] \in Steps \ {"finish"}, GoOn(s)
    PROVE  pc' \in [Sites -> Steps \cup {"idle"}]
<1>1. run[s].mode \in Modes
  BY DEF TypeOK
<1>2. StepAfter(run[s].mode, pc[s]) \in Steps
  BY <1>1, StepAfterFacts
<1> QED BY <1>2 DEF GoOn, TypeOK

LEMMA AbortType ==
    ASSUME TypeOK, NEW s \in Sites, Abort(s)
    PROVE  /\ pc' \in [Sites -> Steps \cup {"idle"}]
           /\ status' \in [Sites -> [mode : Modes, state : {"running", "done", "failed"}]]
  BY DEF TypeOK, Abort

LEMMA FaultType == TypeOK /\ Fault => faults' \in 0..MaxFaults
  BY SwitchoverAssumption DEF TypeOK, Fault

LEMMA OtherType == \A s \in Sites : Other(s) \in Sites
  BY DEF Other, Sites

LEMMA RSFacts == Shards \subseteq RS /\ FirstRS \in 0..ShardCount /\ (Sharded => Cnf \in RS)
                 /\ \A rs \in RS : rs \in 0..ShardCount
  BY SwitchoverAssumption DEF Shards, RS, FirstRS, Cnf

LEMMA NextShardType ==
    ASSUME TypeOK, NEW s \in Sites, MoreShards(s), shard' = [shard EXCEPT ![s] = @ + 1]
    PROVE  shard' \in [Sites -> 0..ShardCount]
<1>1. shard[s] + 1 \in 0..ShardCount
  BY SwitchoverAssumption DEF MoreShards, TypeOK
<1> QED BY <1>1 DEF TypeOK

LEMMA ReconfigureType ==
    ASSUME TypeOK, NEW s \in Sites, NEW rs, ReconfigureRS(s, rs)
    PROVE  /\ voter' \in [Sites -> [RS -> Sites]] /\ touched' \in [Sites -> [RS -> BOOLEAN]]
           /\ prim' \in [Sites -> [RS -> BOOLEAN]] /\ faults' \in 0..MaxFaults
<1>1. VotingSite(s) \in Sites
  BY OtherType DEF VotingSite
<1>2. CASE Reconfigured(s, rs) /\ UNCHANGED faults
  <2>1. voter' \in [Sites -> [RS -> Sites]]
    <3>1. ASSUME NEW x \in Sites
          PROVE  [voter[x] EXCEPT ![rs] = IF x = s \/ link THEN VotingSite(s) ELSE @]
                    \in [RS -> Sites]
      <4>1. voter[x] \in [RS -> Sites]
        BY DEF TypeOK
      <4> QED BY <1>1, <4>1
    <3> QED BY <1>2, <3>1 DEF Reconfigured
  <2>2. touched' \in [Sites -> [RS -> BOOLEAN]]
    BY <1>2 DEF Reconfigured, TypeOK
  <2>3. prim' \in [Sites -> [RS -> BOOLEAN]]
    BY <1>2 DEF Reconfigured, TypeOK
  <2> QED BY <1>2, <2>1, <2>2, <2>3 DEF TypeOK
<1>3. CASE NotReconfigured(s, rs)
  BY <1>3, FaultType DEF NotReconfigured, TypeOK
<1> QED BY <1>2, <1>3 DEF ReconfigureRS

LEMMA RestartType ==
    ASSUME TypeOK, NEW s \in Sites, NEW rs, NEW k,
           rs \in RS => k \in 0..N, RestartPods(s, rs, k)
    PROVE  live' \in [Sites -> [RS -> 0..N]] /\ prim' \in [Sites -> [RS -> BOOLEAN]]
<1>1. live' \in [Sites -> [RS -> 0..N]]
  <2>1. live[s] \in [RS -> 0..N] /\ live' = [live EXCEPT ![s][rs] = k]
    BY DEF RestartPods, TypeOK
  <2>2. [live[s] EXCEPT ![rs] = k] \in [RS -> 0..N]
    BY <2>1
  <2> QED BY <2>1, <2>2 DEF TypeOK
<1>2. CASE prim' = [prim EXCEPT ![s][rs] = FALSE]
  BY <1>1, <1>2 DEF TypeOK
<1>3. CASE prim' = [prim EXCEPT ![s][rs] = @ /\ Majority(k)]
  BY <1>1, <1>3 DEF Majority, TypeOK
<1> QED BY <1>2, <1>3 DEF RestartPods

LEMMA ScaleDownType ==
    ASSUME TypeOK, NEW s \in Sites, NEW sets, ScaleDown(s, sets)
    PROVE  /\ scaled' \in [Sites -> [RS -> BOOLEAN]] /\ prim' \in [Sites -> [RS -> BOOLEAN]]
           /\ live' \in [Sites -> [RS -> 0..N]]
  BY SwitchoverAssumption DEF ScaleDown, TypeOK

LEMMA OperatorType ==
    ASSUME TypeOK, NEW s \in Sites, OperatorStep(s)
    PROVE  TypeOK'
<1> USE DEF crVars, planVars, rsVars, svcVars, updVars, envVars
<1>1. CASE StartReconcile(s)
  <2>1. FirstStep(mode[s], noWait[s]) \in Steps
    BY FirstStepFacts DEF TypeOK
  <2>2. shard' \in [Sites -> 0..ShardCount]
    BY <1>1, SwitchoverAssumption DEF StartReconcile, TypeOK
  <2>3. /\ run' \in [Sites -> [mode : Modes, deploy : {NoDeploy, Clean, Update}]]
        /\ scaled' \in [Sites -> [RS -> BOOLEAN]]
        /\ mongos' \in [Sites -> BOOLEAN]
    <3>1. PICK redeploy \in BOOLEAN :
            /\ run' = [run EXCEPT ![s] =
                         [mode |-> mode[s],
                          deploy |-> IF fresh[s] THEN Clean
                                     ELSE IF redeploy THEN Update ELSE NoDeploy]]
            /\ scaled' = [scaled EXCEPT ![s] =
                            [rs \in RS |-> redeploy \/ scaled[s][rs]]]
            /\ mongos' = [mongos EXCEPT ![s] =
                            IF redeploy THEN Sharded /\ mode[s] = Active ELSE @]
      BY <1>1 DEF StartReconcile
    <3>2. run' \in [Sites -> [mode : Modes, deploy : {NoDeploy, Clean, Update}]]
      BY <3>1 DEF TypeOK
    <3>3. scaled' \in [Sites -> [RS -> BOOLEAN]]
      BY <3>1 DEF TypeOK
    <3>4. mongos' \in [Sites -> BOOLEAN]
      BY <3>1, SwitchoverAssumption DEF TypeOK
    <3> QED BY <3>2, <3>3, <3>4
  <2> QED BY <1>1, <2>1, <2>2, <2>3 DEF StartReconcile, TypeOK
<1>2. CASE SkipStep(s)
  BY <1>2, GoOnType DEF SkipStep, TypeOK
<1>3. CASE WaitStatus(s)
  <2>1. pc[s] \in Steps \ {"finish"}
    BY <1>3 DEF WaitStatus, At, Steps
  <2> QED BY <1>3, <2>1, GoOnType DEF WaitStatus, TypeOK
<1>4. CASE WaitTimeout(s)
  BY <1>4, AbortType DEF WaitTimeout, TypeOK
<1>5. CASE ReconfigureCnfrs(s)
  <2>1. pc[s] \in Steps \ {"finish"} /\ ReconfigureRS(s, Cnf) /\ GoOn(s)
    BY <1>5 DEF ReconfigureCnfrs, At, Steps
  <2> QED BY <1>5, <2>1, GoOnType, ReconfigureType DEF ReconfigureCnfrs, TypeOK
<1>6. CASE ReconfigureDataRS(s)
  <2>1. pc[s] \in Steps \ {"finish"} /\ ReconfigureRS(s, shard[s])
    BY <1>6 DEF ReconfigureDataRS, At, Steps
  <2>2. /\ pc' \in [Sites -> Steps \cup {"idle"}]
        /\ shard' \in [Sites -> 0..ShardCount]
    <3>1. CASE MoreShards(s)
      <4>1. shard' = [shard EXCEPT ![s] = @ + 1] /\ UNCHANGED pc
        BY <1>6, <3>1 DEF ReconfigureDataRS
      <4> QED BY <3>1, <4>1, NextShardType DEF TypeOK
    <3>2. CASE ~MoreShards(s)
      <4>1. shard' = [shard EXCEPT ![s] = FirstRS] /\ GoOn(s)
        BY <1>6, <3>2 DEF ReconfigureDataRS
      <4>2. shard' \in [Sites -> 0..ShardCount]
        BY <4>1, RSFacts DEF TypeOK
      <4> QED BY <2>1, <4>1, <4>2, GoOnType
    <3> QED BY <3>1, <3>2
  <2> QED BY <1>6, <2>1, <2>2, ReconfigureType DEF ReconfigureDataRS, TypeOK
<1>7. CASE UpdateShards(s)
  <2>1. pc[s] \in Steps \ {"finish"}
    BY <1>7 DEF UpdateShards, At, Steps
  <2>2. hosts' \in [Sites -> [Shards -> Sites]]
    <3>1. ASSUME NEW ds, WriteHosts(s, ds) PROVE hosts' \in [Sites -> [Shards -> Sites]]
      BY <3>1 DEF WriteHosts, TypeOK
    <3>2. UNCHANGED hosts \/ \E ds \in SUBSET Shards : WriteHosts(s, ds)
      BY <1>7 DEF UpdateShards
    <3> QED BY <3>1, <3>2 DEF TypeOK
  <2>3. faults' \in 0..MaxFaults
    BY <1>7, FaultType DEF UpdateShards, TypeOK
  <2>4. (GoOn(s) /\ UNCHANGED status) \/ Abort(s)
    BY <1>7 DEF UpdateShards
  <2> QED BY <1>7, <2>1, <2>2, <2>3, <2>4, GoOnType, AbortType DEF UpdateShards, TypeOK
<1>8. CASE RestartConfigRS(s)
  <2>1. faults' \in 0..MaxFaults
    BY <1>8, FaultType DEF RestartConfigRS, TypeOK
  <2>2. /\ pc' \in [Sites -> Steps \cup {"idle"}]
        /\ status' \in [Sites -> [mode : Modes, state : {"running", "done", "failed"}]]
    BY <1>8, AbortType DEF RestartConfigRS, Steps, TypeOK
  <2>3. live' \in [Sites -> [RS -> 0..N]] /\ prim' \in [Sites -> [RS -> BOOLEAN]]
    <3>1. CASE \E k \in {live[s][Cnf], live[s][Cnf] - 1} \cap Nat : RestartPods(s, Cnf, k)
      <4>1. PICK k \in {live[s][Cnf], live[s][Cnf] - 1} \cap Nat : RestartPods(s, Cnf, k)
        BY <3>1
      <4>2. Cnf \in RS => k \in 0..N
        BY SwitchoverAssumption DEF TypeOK
      <4> QED BY <4>1, <4>2, RestartType
    <3>2. CASE UNCHANGED <<live, prim>>
      BY <3>2 DEF TypeOK
    <3> QED BY <1>8, <3>1, <3>2 DEF RestartConfigRS
  <2> QED BY <1>8, <2>1, <2>2, <2>3 DEF RestartConfigRS, TypeOK
<1>9. CASE AwaitConfigRS(s)
  <2>1. pc[s] \in Steps \ {"finish"}
    BY <1>9 DEF AwaitConfigRS, Steps
  <2>2. faults' \in 0..MaxFaults
    BY <1>9, FaultType DEF AwaitConfigRS, TypeOK
  <2>3. (GoOn(s) /\ UNCHANGED status) \/ Abort(s)
    BY <1>9 DEF AwaitConfigRS
  <2>4. live' \in [Sites -> [RS -> 0..N]] /\ prim' \in [Sites -> [RS -> BOOLEAN]]
    <3>1. CASE \E k \in 1..live[s][Cnf] : RestartPods(s, Cnf, k)
      <4>1. PICK k \in 1..live[s][Cnf] : RestartPods(s, Cnf, k)
        BY <3>1
      <4>2. Cnf \in RS => k \in 0..N
        BY SwitchoverAssumption DEF TypeOK
      <4> QED BY <4>1, <4>2, RestartType
    <3>2. CASE UNCHANGED <<live, prim>>
      BY <3>2 DEF TypeOK
    <3> QED BY <1>9, <3>1, <3>2 DEF AwaitConfigRS
  <2> QED BY <1>9, <2>1, <2>2, <2>3, <2>4, GoOnType, AbortType DEF AwaitConfigRS, TypeOK
<1>10. CASE ScaleMongos(s)
  <2>1. pc[s] \in Steps \ {"finish"}
    BY <1>10 DEF ScaleMongos, At, Steps
  <2>2. mongos' \in [Sites -> BOOLEAN] /\ faults' \in 0..MaxFaults
    BY <1>10, FaultType DEF ScaleMongos, ScaleTo, Target, TakeBack, TypeOK
  <2>3. (GoOn(s) /\ UNCHANGED status) \/ Abort(s)
    BY <1>10 DEF ScaleMongos
  <2> QED BY <1>10, <2>1, <2>2, <2>3, GoOnType, AbortType DEF ScaleMongos, TypeOK
<1>11. CASE ScaleBackupDaemon(s)
  <2>1. pc[s] \in Steps \ {"finish"}
    BY <1>11 DEF ScaleBackupDaemon, At, Steps
  <2>2. backup' \in [Sites -> BOOLEAN] /\ faults' \in 0..MaxFaults
    BY <1>11, FaultType DEF ScaleBackupDaemon, ScaleTo, Target, TakeBack, TypeOK
  <2>3. (GoOn(s) /\ UNCHANGED status) \/ Abort(s)
    BY <1>11 DEF ScaleBackupDaemon
  <2>4. overruled' \in [Sites -> SUBSET {"backup", "dbaas"}]
    BY <1>11, OverruledType DEF ScaleBackupDaemon, TypeOK
  <2> QED BY <1>11, <2>1, <2>2, <2>3, <2>4, GoOnType, AbortType DEF ScaleBackupDaemon, TypeOK
<1>12. CASE ScaleDbaasAdapter(s)
  <2>1. pc[s] \in Steps \ {"finish"}
    BY <1>12 DEF ScaleDbaasAdapter, At, Steps
  <2>2. dbaas' \in [Sites -> BOOLEAN] /\ faults' \in 0..MaxFaults
    BY <1>12, FaultType DEF ScaleDbaasAdapter, ScaleTo, Target, TakeBack, TypeOK
  <2>3. (GoOn(s) /\ UNCHANGED status) \/ Abort(s)
    BY <1>12 DEF ScaleDbaasAdapter
  <2>4. overruled' \in [Sites -> SUBSET {"backup", "dbaas"}]
    BY <1>12, OverruledType DEF ScaleDbaasAdapter, TypeOK
  <2> QED BY <1>12, <2>1, <2>2, <2>3, <2>4, GoOnType, AbortType DEF ScaleDbaasAdapter, TypeOK
<1>13. CASE UpdatePrometheusExporter(s)
  <2>1. pc[s] \in Steps \ {"finish"}
    BY <1>13 DEF UpdatePrometheusExporter, At, Steps
  <2>2. exports' \in [Sites -> BOOLEAN] /\ faults' \in 0..MaxFaults
    BY <1>13, FaultType DEF UpdatePrometheusExporter, ScaleTo, Target, TakeBack, TypeOK
  <2>3. (GoOn(s) /\ UNCHANGED status) \/ Abort(s)
    BY <1>13 DEF UpdatePrometheusExporter
  <2> QED BY <1>13, <2>1, <2>2, <2>3, GoOnType, AbortType DEF UpdatePrometheusExporter, TypeOK
<1>14. CASE WaitReplicationLag(s)
  <2>1. pc[s] \in Steps \ {"finish"}
    BY <1>14 DEF WaitReplicationLag, At, Steps
  <2>2. CASE MoreShards(s)
    <3>1. shard' = [shard EXCEPT ![s] = @ + 1]
      BY <1>14, <2>2 DEF WaitReplicationLag
    <3>2. shard' \in [Sites -> 0..ShardCount]
      BY <2>2, <3>1, NextShardType
    <3> QED BY <1>14, <2>2, <3>2 DEF WaitReplicationLag, TypeOK
  <2>3. CASE ~MoreShards(s)
    BY <1>14, <2>1, <2>3, GoOnType DEF WaitReplicationLag, TypeOK
  <2> QED BY <2>2, <2>3
<1>15. CASE ScaleCNFRS(s)
  <2>1. pc[s] \in Steps \ {"finish"} /\ GoOn(s)
    BY <1>15 DEF ScaleCNFRS, At, Steps
  <2>2. /\ scaled' \in [Sites -> [RS -> BOOLEAN]] /\ prim' \in [Sites -> [RS -> BOOLEAN]]
        /\ live' \in [Sites -> [RS -> 0..N]] /\ faults' \in 0..MaxFaults
    BY <1>15, FaultType, ScaleDownType DEF ScaleCNFRS, TypeOK
  <2> QED BY <1>15, <2>1, <2>2, GoOnType DEF ScaleCNFRS, TypeOK
<1>16. CASE ScaleDATARS(s)
  <2>1. pc[s] \in Steps \ {"finish"} /\ GoOn(s)
    BY <1>16 DEF ScaleDATARS, At, Steps
  <2>2. /\ scaled' \in [Sites -> [RS -> BOOLEAN]] /\ prim' \in [Sites -> [RS -> BOOLEAN]]
        /\ live' \in [Sites -> [RS -> 0..N]] /\ faults' \in 0..MaxFaults
    BY <1>16, FaultType, ScaleDownType DEF ScaleDATARS, TypeOK
  <2> QED BY <1>16, <2>1, <2>2, GoOnType DEF ScaleDATARS, TypeOK
<1>17. CASE Finish(s)
  BY <1>17 DEF Finish, TypeOK
<1> QED
  BY <1>1, <1>2, <1>3, <1>4, <1>5, <1>6, <1>7, <1>8, <1>9, <1>10, <1>11, <1>12,
     <1>13, <1>14, <1>15, <1>16, <1>17 DEF OperatorStep

LEMMA PostType ==
    ASSUME TypeOK, NEW s \in Sites, NEW m \in Modes, Post(s, m),
           noWait' \in [Sites -> BOOLEAN], failover' \in BOOLEAN
    PROVE  TypeOK'
<1>1. switches' \in 0..MaxSwitches
  BY SwitchoverAssumption DEF Post, TypeOK
<1>2. /\ mode' \in [Sites -> Modes] /\ pending' \in [Sites -> BOOLEAN]
      /\ status' \in [Sites -> [mode : Modes, state : {"running", "done", "failed"}]]
  BY DEF Post, TypeOK
<1> QED BY <1>1, <1>2 DEF Post, TypeOK, rsVars, svcVars, updVars

LEMMA SiteManagerType ==
    ASSUME TypeOK, NEW s \in Sites, SiteManager(s)
    PROVE  TypeOK'
<1>1. CASE \E m \in Modes : PostPassive(s, m)
  BY <1>1, PostType DEF PostPassive, TypeOK
<1>2. CASE Resync(s)
  <2>1. mode[s] \in Modes
    BY DEF TypeOK
  <2> QED BY <1>2, <2>1, PostType DEF Resync, TypeOK
<1>3. CASE PostActive(s)
  BY <1>3, PostType DEF PostActive, TypeOK, Modes
<1>4. CASE PostFailover(s)
  BY <1>4, PostType DEF PostFailover, TypeOK, Modes
<1> QED BY <1>1, <1>2, <1>3, <1>4 DEF SiteManager

LEMMA ServicesType ==
    ASSUME TypeOK, NEW s \in Sites, ServicesStep(s)
    PROVE  TypeOK'
<1> USE DEF crVars, planVars, rsVars, svcVars, updVars, envVars
<1>1. CASE UpdateServices(s)
  BY <1>1, FaultType DEF UpdateServices, TypeOK
<1>2. CASE GrantRoleToUser(s)
  BY <1>2 DEF GrantRoleToUser, TypeOK
<1>3. CASE DeployBackupDaemon(s)
  <2>1. overruled' \in [Sites -> SUBSET {"backup", "dbaas"}]
    BY <1>3, OverruledType DEF DeployBackupDaemon, TypeOK
  <2> QED BY <1>3, <2>1 DEF DeployBackupDaemon, TypeOK
<1>4. CASE DeployDbaasAdapter(s)
  <2>1. overruled' \in [Sites -> SUBSET {"backup", "dbaas"}]
    BY <1>4, OverruledType DEF DeployDbaasAdapter, TypeOK
  <2> QED BY <1>4, <2>1 DEF DeployDbaasAdapter, TypeOK
<1> QED BY <1>1, <1>2, <1>3, <1>4 DEF ServicesStep

LEMMA EnvironmentType ==
    ASSUME TypeOK, NEW s \in Sites, NEW rs \in RS,
           Elect(s, rs) \/ MemberFails(s, rs) \/ MemberRecovers(s, rs)
    PROVE  TypeOK'
<1> USE DEF crVars, planVars, rsVars, svcVars, updVars, envVars
<1>1. CASE Elect(s, rs)
  BY <1>1 DEF Elect, TypeOK
<1>2. CASE MemberFails(s, rs)
  <2>1. live' \in [Sites -> [RS -> 0..N]] /\ faults' \in 0..MaxFaults
    BY <1>2, FaultType, SwitchoverAssumption DEF MemberFails, TypeOK
  <2>2. prim' \in [Sites -> [RS -> BOOLEAN]]
    <3>1. CASE prim' = [prim EXCEPT ![s][rs] = FALSE]
      BY <3>1 DEF TypeOK
    <3>2. CASE prim' = [prim EXCEPT ![s][rs] = @ /\ Majority(live'[s][rs])]
      BY <3>2 DEF Majority, TypeOK
    <3> QED BY <1>2, <3>1, <3>2 DEF MemberFails
  <2> QED BY <1>2, <2>1, <2>2 DEF MemberFails, TypeOK
<1>3. CASE MemberRecovers(s, rs)
  BY <1>3, SwitchoverAssumption DEF MemberRecovers, TypeOK
<1> QED BY <1>1, <1>2, <1>3

LEMMA LinkType ==
    ASSUME TypeOK, LinkDown \/ LinkUp
    PROVE  TypeOK'
<1> USE DEF crVars, planVars, rsVars, svcVars, updVars, envVars
<1>1. CASE LinkDown
  BY <1>1, FaultType DEF LinkDown, TypeOK
<1>2. CASE LinkUp
  <2>1. PICK w \in [RS -> Sites] :
          /\ voter' = [s \in Sites |-> [rs \in RS |-> voter[w[rs]][rs]]]
          /\ prim' = [s \in Sites |->
                        [rs \in RS |-> prim[s][rs] /\ voter[w[rs]][rs] = s]]
          /\ hosts' = IF Sharded THEN [s \in Sites |-> hosts[w[Cnf]]] ELSE hosts
    BY <1>2 DEF LinkUp
  <2>2. voter' \in [Sites -> [RS -> Sites]] /\ prim' \in [Sites -> [RS -> BOOLEAN]]
    BY <2>1 DEF TypeOK
  <2>3. hosts' \in [Sites -> [Shards -> Sites]]
    BY <2>1, RSFacts DEF TypeOK
  <2>4. touched' \in [Sites -> [RS -> BOOLEAN]]
    BY <1>2 DEF LinkUp
  <2> QED BY <1>2, <2>2, <2>3, <2>4 DEF LinkUp, TypeOK
<1> QED BY <1>1, <1>2

\* Every variable keeps its type for any number of shards and members, in
\* particular the loop over the shards never leaves its range.
THEOREM TypeCorrect == Spec => []TypeOK
<1>1. TypeOK /\ [Next]_vars => TypeOK'
  <2> SUFFICES ASSUME TypeOK, [Next]_vars PROVE TypeOK'
    OBVIOUS
  <2>1. CASE \E s \in Sites : Crash(s)
    BY <2>1, FaultType DEF Crash, TypeOK, crVars, rsVars, svcVars, updVars
  <2>2. CASE UNCHANGED vars
    BY <2>2 DEF vars, crVars, planVars, rsVars, svcVars, updVars, envVars, TypeOK
  <2> QED
    BY <2>1, <2>2, OperatorType, SiteManagerType, ServicesType, EnvironmentType,
       LinkType DEF Next
<1> QED BY TypeInit, <1>1, PTL DEF Spec

-----------------------------------------------------------------------------
(* Who votes when an active site reports "done". *)

\* Only a site that votes in a set has its PRIMARY.
PrimVotes ==
    \A s \in Sites, rs \in RS : prim[s][rs] => voter[s][rs] = s

\* Sites that never lost each other are linked, and nobody failed over.
Together == ~cut => link /\ ~failover

\* The first reconcile of a site is due, not yet run; only the compound of a
\* disabled site scales its sets down.
PlanParts(s) ==
    /\ fresh[s] => pending[s]
    /\ pc[s] \in {"scaleCnf", "scaleData"} => run[s].mode = Disable

\* An active site votes in all its sets from the installation to the end of
\* its first compound, which skips the last wait; and in all that have pods
\* once a compound is through, until its CR is changed.
Owns(s) ==
    ~cut /\ mode[s] = Active =>
        /\ fresh[s] \/ (pc[s] # "idle" /\ run[s].deploy = Clean)
              => \A rs \in RS : voter[s][rs] = s
        /\ pc[s] = "finish" \/ status[s].state = "done"
              => \A rs \in RS : scaled[s][rs] => voter[s][rs] = s

OwnersInv == /\ PrimVotes /\ Together
             /\ \A s \in Sites : PlanParts(s) /\ Owns(s)

\* How a step of the operator of s moves the plan of s.
GoesOn(s) ==
    /\ UNCHANGED <<run, fresh, pending, status>> /\ pc[s] \in Steps \ {"finish"}
    /\ \/ GoOn(s) \/ UNCHANGED pc
       \/ pc[s] = "restartCnf" /\ pc' = [pc EXCEPT ![s] = "awaitCnf"]

Aborts(s) == UNCHANGED <<run, fresh, pending>> /\ pc[s] # "idle" /\ Abort(s)

\* The CR, the network and the plan of the other site are left alone.
LEMMA PlanMoves ==
    ASSUME NEW s \in Sites, OperatorStep(s)
    PROVE  /\ UNCHANGED <<mode, cut, link>>
           /\ ~Finish(s) => UNCHANGED failover
           /\ StartReconcile(s) \/ Finish(s) \/ GoesOn(s) \/ Aborts(s)
<1> USE DEF crVars, planVars, rsVars, svcVars, updVars, envVars
<1>1. UNCHANGED <<mode, cut, link>>
  BY DEF OperatorStep, StartReconcile, SkipStep, WaitStatus, WaitTimeout,
         ReconfigureCnfrs, ReconfigureDataRS, UpdateShards, RestartConfigRS,
         AwaitConfigRS, ScaleMongos, ScaleBackupDaemon, ScaleDbaasAdapter,
         UpdatePrometheusExporter, WaitReplicationLag, ScaleCNFRS, ScaleDATARS, Finish
<1>2. ~Finish(s) => UNCHANGED failover
  BY DEF OperatorStep, StartReconcile, SkipStep, WaitStatus, WaitTimeout,
         ReconfigureCnfrs, ReconfigureDataRS, UpdateShards, RestartConfigRS,
         AwaitConfigRS, ScaleMongos, ScaleBackupDaemon, ScaleDbaasAdapter,
         UpdatePrometheusExporter, WaitReplicationLag, ScaleCNFRS, ScaleDATARS
<1>3. CASE SkipStep(s) \/ WaitStatus(s) \/ WaitTimeout(s)
  BY <1>1, <1>2, <1>3 DEF SkipStep, WaitStatus, WaitTimeout, GoesOn, Aborts, At, Steps
<1>4. CASE ReconfigureCnfrs(s) \/ ReconfigureDataRS(s) \/ WaitReplicationLag(s)
           \/ ScaleCNFRS(s) \/ ScaleDATARS(s)
  BY <1>1, <1>2, <1>4 DEF ReconfigureCnfrs, ReconfigureDataRS, WaitReplicationLag,
     ScaleCNFRS, ScaleDATARS, GoesOn, At, Steps
<1>5. CASE UpdateShards(s) \/ RestartConfigRS(s) \/ AwaitConfigRS(s)
  BY <1>1, <1>2, <1>5 DEF UpdateShards, RestartConfigRS, AwaitConfigRS, GoesOn, Aborts,
     At, Steps
<1>6. CASE ScaleMongos(s) \/ ScaleBackupDaemon(s) \/ ScaleDbaasAdapter(s)
           \/ UpdatePrometheusExporter(s)
  BY <1>1, <1>2, <1>6 DEF ScaleMongos, ScaleBackupDaemon, ScaleDbaasAdapter,
     UpdatePrometheusExporter, GoesOn, Aborts, At, Steps
<1> QED BY <1>1, <1>2, <1>3, <1>4, <1>5, <1>6 DEF OperatorStep

\* What a step of the operator of s may do to the pods and votes of its sets.
LEMMA SetsMove ==
    ASSUME NEW s \in Sites, OperatorStep(s)
    PROVE  /\ \/ UNCHANGED voter
              \/ ReconfigureCnfrs(s) \/ ReconfigureDataRS(s)
           /\ \/ UNCHANGED scaled
              \/ StartReconcile(s) \/ ScaleCNFRS(s) \/ ScaleDATARS(s)
  BY DEF OperatorStep, StartReconcile, SkipStep, WaitStatus, WaitTimeout, UpdateShards,
         RestartConfigRS, AwaitConfigRS, ScaleMongos, ScaleBackupDaemon,
         ScaleDbaasAdapter, UpdatePrometheusExporter, WaitReplicationLag, ScaleCNFRS,
         ScaleDATARS, ReconfigureCnfrs, ReconfigureDataRS, Finish, rsVars

\* ReconfigureRS moves the votes of one set, on every site it reaches.
LEMMA ReconfiguredVoter ==
    ASSUME TypeOK, NEW x \in Sites, NEW r, Reconfigured(x, r), NEW s \in Sites,
           NEW rs \in RS
    PROVE  /\ voter'[s][rs] \in {voter[s][rs], VotingSite(x)}
           /\ prim'[s][rs] => voter'[s][rs] = s \/ (rs # r /\ prim[s][rs])
           /\ rs # r => voter'[s][rs] = voter[s][rs]
<1>1. voter[s] \in [RS -> Sites] /\ prim[s] \in [RS -> BOOLEAN]
  BY DEF TypeOK
<1>2. /\ voter'[s] = [voter[s] EXCEPT ![r] = IF s = x \/ link THEN VotingSite(x) ELSE @]
      /\ prim'[s] = [prim[s] EXCEPT ![r] = @ /\ voter'[s][r] = s]
  BY DEF Reconfigured
<1>3. rs # r => voter'[s][rs] = voter[s][rs] /\ prim'[s][rs] = prim[s][rs]
  BY <1>1, <1>2
<1>4. rs = r => voter'[s][rs] \in {voter[s][rs], VotingSite(x)}
  BY <1>1, <1>2
<1>5. rs = r => (prim'[s][rs] => voter'[s][rs] = s)
  BY <1>1, <1>2
<1> QED BY <1>3, <1>4, <1>5

\* A PRIMARY that is lost, and no new one.
PrimsShrink == /\ UNCHANGED voter
               /\ \A s \in Sites, rs \in RS : prim'[s][rs] => prim[s][rs]

\* A set whose PRIMARY may go.
LEMMA OnePrimGoes ==
    ASSUME prim \in [Sites -> [RS -> BOOLEAN]], NEW s \in Sites, NEW r,
           NEW q, prim' = [prim EXCEPT ![s][r] = FALSE] \/ prim' = [prim EXCEPT ![s][r] = @ /\ q],
           NEW x \in Sites, NEW rs \in RS
    PROVE  prim'[x][rs] => prim[x][rs]
<1>1. prim[x] \in [RS -> BOOLEAN] /\ prim[x][rs] \in BOOLEAN
  OBVIOUS
<1>2. CASE x # s \/ rs # r
  <2>1. prim'[x][rs] = prim[x][rs]
    BY <1>1, <1>2
  <2> QED BY <2>1
<1>3. CASE x = s /\ rs = r
  <2>1. CASE prim' = [prim EXCEPT ![s][r] = FALSE]
    BY <1>1, <1>3, <2>1
  <2>2. CASE prim' = [prim EXCEPT ![s][r] = @ /\ q]
    <3>1. prim'[x][rs] = (prim[x][rs] /\ q)
      BY <1>1, <1>3, <2>2
    <3> QED BY <3>1
  <2> QED BY <2>1, <2>2
<1> QED BY <1>2, <1>3

LEMMA PrimVotesStep ==
    ASSUME TypeOK, PrimVotes, [Next]_vars
    PROVE  PrimVotes'
<1> USE DEF crVars, planVars, rsVars, svcVars, updVars, envVars
<1>0. prim \in [Sites -> [RS -> BOOLEAN]] /\ voter \in [Sites -> [RS -> Sites]]
  BY DEF TypeOK
<1>1. ASSUME PrimsShrink PROVE PrimVotes'
  BY <1>1 DEF PrimsShrink, PrimVotes
<1>2. ASSUME NEW s \in Sites, NEW r, ReconfigureRS(s, r) PROVE PrimVotes'
  <2>1. CASE Reconfigured(s, r)
    BY <2>1, ReconfiguredVoter DEF PrimVotes
  <2>2. CASE NotReconfigured(s, r)
    BY <2>2, <1>1 DEF NotReconfigured, PrimsShrink
  <2> QED BY <1>2, <2>1, <2>2 DEF ReconfigureRS
<1>3. ASSUME NEW s \in Sites, OperatorStep(s) PROVE PrimVotes'
  <2>1. CASE ReconfigureCnfrs(s) \/ ReconfigureDataRS(s)
    BY <1>2, <2>1 DEF ReconfigureCnfrs, ReconfigureDataRS
  <2>2. CASE RestartConfigRS(s) \/ AwaitConfigRS(s)
    <3>1. UNCHANGED voter
      BY <2>2 DEF RestartConfigRS, AwaitConfigRS
    <3>2. UNCHANGED prim \/ \E k : RestartPods(s, Cnf, k)
      BY <2>2 DEF RestartConfigRS, AwaitConfigRS
    <3>3. ASSUME NEW k, RestartPods(s, Cnf, k), NEW x \in Sites, NEW rs \in RS
          PROVE  prim'[x][rs] => prim[x][rs]
      BY <1>0, <3>3, OnePrimGoes DEF RestartPods
    <3> QED BY <1>1, <3>1, <3>2, <3>3 DEF PrimsShrink
  <2>3. CASE ScaleCNFRS(s) \/ ScaleDATARS(s)
    <3>1. UNCHANGED voter
      BY <2>3 DEF ScaleCNFRS, ScaleDATARS
    <3>2. UNCHANGED prim \/ \E sets : ScaleDown(s, sets)
      BY <2>3 DEF ScaleCNFRS, ScaleDATARS
    <3>3. ASSUME NEW sets, ScaleDown(s, sets), NEW x \in Sites, NEW rs \in RS
          PROVE  prim'[x][rs] => prim[x][rs]
      BY <1>0, <3>3 DEF ScaleDown
    <3> QED BY <1>1, <3>1, <3>2, <3>3 DEF PrimsShrink
  <2>4. CASE /\ ~ReconfigureCnfrs(s) /\ ~ReconfigureDataRS(s) /\ ~RestartConfigRS(s)
             /\ ~AwaitConfigRS(s) /\ ~ScaleCNFRS(s) /\ ~ScaleDATARS(s)
    <3>1. UNCHANGED <<voter, prim>>
      BY <1>3, <2>4 DEF OperatorStep, StartReconcile, SkipStep, WaitStatus,
         WaitTimeout, UpdateShards, ScaleMongos, ScaleBackupDaemon, ScaleDbaasAdapter,
         UpdatePrometheusExporter, WaitReplicationLag, Finish
    <3> QED BY <1>1, <3>1 DEF PrimsShrink
  <2> QED BY <2>1, <2>2, <2>3, <2>4
<1>4. ASSUME NEW s \in Sites, Crash(s) \/ SiteManager(s) \/ ServicesStep(s) PROVE PrimVotes'
  <2>1. UNCHANGED <<voter, prim>>
    BY <1>4 DEF Crash, SiteManager, PostPassive, Resync, PostActive, PostFailover, Post,
       ServicesStep, UpdateServices, DeployBackupDaemon, GrantRoleToUser,
       DeployDbaasAdapter
  <2> QED BY <1>1, <2>1 DEF PrimsShrink
<1>5. ASSUME NEW s \in Sites, NEW rs \in RS, Elect(s, rs) PROVE PrimVotes'
  BY <1>0, <1>5 DEF Elect, PrimVotes
<1>6. ASSUME NEW s \in Sites, NEW rs \in RS, MemberFails(s, rs) \/ MemberRecovers(s, rs)
      PROVE  PrimVotes'
  <2>1. UNCHANGED voter
    BY <1>6 DEF MemberFails, MemberRecovers
  <2>2. ASSUME NEW x \in Sites, NEW r \in RS PROVE prim'[x][r] => prim[x][r]
    <3>1. CASE MemberRecovers(s, rs)
      BY <3>1 DEF MemberRecovers
    <3>2. CASE MemberFails(s, rs)
      BY <1>0, <3>2, OnePrimGoes DEF MemberFails
    <3> QED BY <1>6, <3>1, <3>2
  <2> QED BY <1>1, <2>1, <2>2 DEF PrimsShrink
<1>7. CASE LinkUp
  <2>1. PICK w \in [RS -> Sites] :
          /\ voter' = [s \in Sites |-> [rs \in RS |-> voter[w[rs]][rs]]]
          /\ prim' = [s \in Sites |->
                        [rs \in RS |-> prim[s][rs] /\ voter[w[rs]][rs] = s]]
    BY <1>7 DEF LinkUp
  <2>2. ASSUME NEW s \in Sites, NEW rs \in RS, prim'[s][rs] PROVE voter'[s][rs] = s
    <3>1. prim'[s][rs] = (prim[s][rs] /\ voter[w[rs]][rs] = s)
      BY <2>1
    <3>2. voter[w[rs]][rs] = s
      BY <2>2, <3>1
    <3> QED BY <2>1, <3>2
  <2> QED BY <2>2 DEF PrimVotes
<1>8. CASE LinkDown \/ UNCHANGED vars
  BY <1>1, <1>8 DEF LinkDown, vars, PrimsShrink
<1> QED BY <1>3, <1>4, <1>5, <1>6, <1>7, <1>8 DEF Next

LEMMA TogetherStep ==
    ASSUME Together, [Next]_vars
    PROVE  Together'
<1> USE DEF crVars, planVars, rsVars, svcVars, updVars, envVars
<1>1. ASSUME NEW s \in Sites, OperatorStep(s) PROVE Together'
  <2>1. CASE Finish(s)
    <3>1. UNCHANGED <<cut, link>> /\ (failover' => failover)
      BY <2>1 DEF Finish
    <3> QED BY <3>1 DEF Together
  <2>2. CASE ~Finish(s)
    BY <1>1, <2>2, PlanMoves DEF Together
  <2> QED BY <2>1, <2>2
<1>2. ASSUME NEW s \in Sites, Crash(s) \/ ServicesStep(s) PROVE Together'
  BY <1>2 DEF Crash, ServicesStep, UpdateServices, DeployBackupDaemon, GrantRoleToUser,
     DeployDbaasAdapter, Together
<1>3. ASSUME NEW s \in Sites, SiteManager(s) PROVE Together'
  BY <1>3 DEF SiteManager, PostPassive, Resync, PostActive, PostFailover, Post, Together
<1>4. ASSUME NEW s \in Sites, NEW rs \in RS,
             Elect(s, rs) \/ MemberFails(s, rs) \/ MemberRecovers(s, rs)
      PROVE  Together'
  BY <1>4 DEF Elect, MemberFails, MemberRecovers, Together
<1>5. CASE LinkDown \/ LinkUp \/ UNCHANGED vars
  BY <1>5 DEF LinkDown, LinkUp, vars, Together
<1> QED BY <1>1, <1>2, <1>3, <1>4, <1>5 DEF Next

\* The plan of a site is its own operator's.
LEMMA OtherPlan ==
    ASSUME TypeOK, NEW x \in Sites, OperatorStep(x), NEW s \in Sites, s # x
    PROVE  /\ pc'[s] = pc[s] /\ fresh'[s] = fresh[s] /\ pending'[s] = pending[s]
           /\ run'[s] = run[s] /\ status'[s] = status[s] /\ scaled'[s] = scaled[s]
<1>1. /\ pc'[s] = pc[s] /\ fresh'[s] = fresh[s] /\ pending'[s] = pending[s]
      /\ run'[s] = run[s] /\ status'[s] = status[s]
  <2>1. CASE StartReconcile(x)
    BY <2>1 DEF StartReconcile, TypeOK
  <2>2. CASE Finish(x)
    BY <2>2 DEF Finish, TypeOK
  <2>3. CASE GoesOn(x)
    BY <2>3 DEF GoesOn, GoOn, TypeOK
  <2>4. CASE Aborts(x)
    BY <2>4 DEF Aborts, Abort, TypeOK
  <2> QED BY <2>1, <2>2, <2>3, <2>4, PlanMoves
<1>2. scaled'[s] = scaled[s]
  <2>1. CASE StartReconcile(x)
    BY <2>1 DEF StartReconcile, TypeOK
  <2>2. CASE ScaleCNFRS(x) \/ ScaleDATARS(x)
    BY <2>2 DEF ScaleCNFRS, ScaleDATARS, ScaleDown, TypeOK
  <2> QED BY <2>1, <2>2, SetsMove
<1> QED BY <1>1, <1>2

LEMMA ScaleDownSteps ==
    ASSUME NEW m \in Modes, NEW st \in Steps \ {"finish"}
    PROVE  /\ StepAfter(m, st) \in {"scaleCnf", "scaleData"}
                => (st = "dbaas" /\ m = Disable) \/ st = "scaleCnf"
           /\ StepAfter(m, st) = "finish" => st \in {"scaleData", "waitUp"}
           /\ StepAfter(m, st) # "idle"
  BY DEF StepAfter, Steps, Modes, Active, Standby, Disable

LEMMA FirstStepEarly ==
    ASSUME NEW m \in Modes, NEW nw
    PROVE  FirstStep(m, nw) \notin {"scaleCnf", "scaleData", "finish"}
  BY DEF FirstStep

LEMMA PlanPartsStep ==
    ASSUME TypeOK, [Next]_vars, NEW s \in Sites, PlanParts(s)
    PROVE  PlanParts(s)'
<1> USE DEF crVars, planVars, rsVars, svcVars, updVars, envVars
<1>0. /\ fresh \in [Sites -> BOOLEAN] /\ pending \in [Sites -> BOOLEAN]
      /\ pc \in [Sites -> Steps \cup {"idle"}] /\ run[s].mode \in Modes /\ mode[s] \in Modes
  BY DEF TypeOK
<1>1. ASSUME /\ pc'[s] = pc[s] /\ fresh'[s] = fresh[s] /\ pending'[s] = pending[s]
             /\ run'[s] = run[s]
      PROVE  PlanParts(s)'
  BY <1>1 DEF PlanParts
<1>2. CASE OperatorStep(s)
  <2>1. CASE StartReconcile(s)
    <3>1. ~fresh'[s] /\ pc'[s] = FirstStep(mode[s], noWait[s])
      BY <1>0, <2>1 DEF StartReconcile
    <3> QED BY <1>0, <3>1, FirstStepEarly DEF PlanParts
  <2>2. CASE Finish(s) \/ Aborts(s)
    <3>1. pc'[s] = "idle" /\ UNCHANGED <<fresh, pending>>
      BY <1>0, <2>2 DEF Finish, Aborts, Abort
    <3> QED BY <3>1 DEF PlanParts
  <2>3. CASE GoesOn(s)
    <3>1. /\ UNCHANGED <<fresh, pending, run>> /\ pc[s] \in Steps \ {"finish"}
          /\ pc'[s] \in {StepAfter(run[s].mode, pc[s]), pc[s], "awaitCnf"}
      BY <1>0, <2>3 DEF GoesOn, GoOn
    <3>2. pc'[s] \in {"scaleCnf", "scaleData"} => run[s].mode = Disable
      BY <1>0, <3>1, ScaleDownSteps DEF PlanParts
    <3> QED BY <3>1, <3>2 DEF PlanParts
  <2> QED BY <1>2, <2>1, <2>2, <2>3, PlanMoves
<1>3. ASSUME NEW x \in Sites, x # s, OperatorStep(x) PROVE PlanParts(s)'
  BY <1>1, <1>3, OtherPlan
<1>4. ASSUME NEW x \in Sites, Crash(x) PROVE PlanParts(s)'
  <2>1. CASE x = s
    BY <1>0, <1>4, <2>1 DEF Crash, PlanParts
  <2>2. CASE x # s
    BY <1>0, <1>1, <1>4, <2>2 DEF Crash
  <2> QED BY <2>1, <2>2
<1>5. ASSUME NEW x \in Sites, SiteManager(x) PROVE PlanParts(s)'
  <2>1. UNCHANGED <<pc, run, fresh>> /\ pending' = [pending EXCEPT ![x] = TRUE]
    BY <1>5 DEF SiteManager, PostPassive, Resync, PostActive, PostFailover, Post
  <2>2. pending[s] => pending'[s]
    BY <1>0, <2>1
  <2> QED BY <2>1, <2>2 DEF PlanParts
<1>6. ASSUME NEW x \in Sites, ServicesStep(x) PROVE PlanParts(s)'
  BY <1>1, <1>6 DEF ServicesStep, UpdateServices, DeployBackupDaemon, GrantRoleToUser,
     DeployDbaasAdapter
<1>7. ASSUME NEW x \in Sites, NEW rs \in RS,
             Elect(x, rs) \/ MemberFails(x, rs) \/ MemberRecovers(x, rs)
      PROVE  PlanParts(s)'
  BY <1>1, <1>7 DEF Elect, MemberFails, MemberRecovers
<1>8. CASE LinkDown \/ LinkUp \/ UNCHANGED vars
  BY <1>1, <1>8 DEF LinkDown, LinkUp, vars
<1> QED BY <1>2, <1>3, <1>4, <1>5, <1>6, <1>7, <1>8 DEF Next

\* While the sites are together, at most one is active ...
LEMMA OtherIsPassive ==
    ASSUME ServingInv, Together, ~cut, NEW s \in Sites, mode[s] = Active,
           NEW x \in Sites, x # s
    PROVE  mode[x] # Active /\ Other(x) = s
<1>1. PICK q \in Sites : Quiet(q)
  BY DEF ServingInv, OneIsQuiet, Together
<1> QED BY <1>1 DEF Quiet, Other, Sites

\* ... so that no reconfiguration takes a vote from the active site.
LEMMA VotesStay ==
    ASSUME TypeOK, ServingInv, Together, ~cut, [Next]_vars, NEW s \in Sites,
           mode[s] = Active, NEW rs \in RS, voter[s][rs] = s
    PROVE  voter'[s][rs] = s
<1> USE DEF crVars, planVars, rsVars, svcVars, updVars, envVars
<1>1. ASSUME NEW x \in Sites, pc[x] # "idle", NEW r, ReconfigureRS(x, r)
      PROVE  voter'[s][rs] = s
  <2>1. run[x].mode = mode[x]
    BY <1>1 DEF ServingInv, PlanFits
  <2>2. VotingSite(x) = s
    BY <2>1, OtherIsPassive DEF VotingSite
  <2>3. CASE Reconfigured(x, r)
    BY <2>2, <2>3, ReconfiguredVoter
  <2>4. CASE NotReconfigured(x, r)
    BY <2>4 DEF NotReconfigured
  <2> QED BY <1>1, <2>3, <2>4 DEF ReconfigureRS
<1>2. ASSUME NEW x \in Sites, OperatorStep(x) PROVE voter'[s][rs] = s
  <2>1. CASE UNCHANGED voter
    BY <2>1
  <2>2. CASE ReconfigureCnfrs(x) \/ ReconfigureDataRS(x)
    <3>1. pc[x] # "idle" /\ \E r : ReconfigureRS(x, r)
      BY <2>2 DEF ReconfigureCnfrs, ReconfigureDataRS, At
    <3> QED BY <1>1, <3>1
  <2> QED BY <1>2, <2>1, <2>2, SetsMove
<1>3. ASSUME NEW x \in Sites, Crash(x) \/ SiteManager(x) \/ ServicesStep(x)
      PROVE  voter'[s][rs] = s
  BY <1>3 DEF Crash, SiteManager, PostPassive, Resync, PostActive, PostFailover, Post,
     ServicesStep, UpdateServices, DeployBackupDaemon, GrantRoleToUser,
     DeployDbaasAdapter
<1>4. ASSUME NEW x \in Sites, NEW r \in RS,
             Elect(x, r) \/ MemberFails(x, r) \/ MemberRecovers(x, r)
      PROVE  voter'[s][rs] = s
  BY <1>4 DEF Elect, MemberFails, MemberRecovers
<1>5. ~LinkUp
  BY DEF LinkUp, Together
<1>6. CASE LinkDown \/ UNCHANGED vars
  BY <1>6 DEF LinkDown, vars
<1> QED BY <1>2, <1>3, <1>4, <1>5, <1>6 DEF Next

\* The last wait of an active compound ends only when every set with pods has
\* its PRIMARY on this site: GetClusterStatus answers Up.
LEMMA UpOwnsSets ==
    ASSUME TypeOK, PrimVotes, NEW s \in Sites, SiteStatus(s, Active) = Up
    PROVE  \A rs \in RS : scaled[s][rs] => voter[s][rs] = s
<1> SUFFICES ASSUME NEW rs \in RS, scaled[s][rs] PROVE prim[s][rs]
  BY DEF PrimVotes
<1>0. prim[s][rs] \in BOOLEAN
  BY DEF TypeOK
<1> SUFFICES ASSUME ~prim[s][rs] PROVE FALSE
  OBVIOUS
<1>1. RSStatus(s, Active, rs) = Down
  BY DEF RSStatus, GetReplicaSetStatus, ActiveStatus, Bit
<1> DEFINE data == [d \in Shards |-> RSStatus(s, Active, d)]
<1>2. CASE Sharded
  <2>1. ShardedStatus(Active, RSStatus(s, Active, Cnf), data, mongos[s]) = Up
    BY <1>2 DEF SiteStatus, GetClusterStatus, Up, Down
  <2>2. RSStatus(s, Active, Cnf) = Up /\ DataDown(data) = {}
    BY <2>1 DEF ShardedStatus, Up, Down, Degraded
  <2>3. rs \in Shards
    BY <1>1, <2>2 DEF RS, Up, Down
  <2>4. rs \in DataDown(data)
    BY <1>1, <2>3 DEF DataDown
  <2> QED BY <2>2, <2>4
<1>3. CASE ~Sharded
  <2>1. rs = 1 /\ 1 \in Shards
    BY <1>3, SwitchoverAssumption DEF RS, Shards
  <2>2. data[1] = Up
    BY <1>3 DEF SiteStatus, GetClusterStatus, Up, Down
  <2> QED BY <1>1, <2>1, <2>2 DEF Up, Down
<1> QED BY <1>2, <1>3

\* The sets with pods grow only when a reconcile begins.
LEMMA ScaledStays ==
    ASSUME TypeOK, [Next]_vars, NEW s \in Sites, ~StartReconcile(s), NEW rs \in RS,
           scaled'[s][rs]
    PROVE  scaled[s][rs]
<1> USE DEF crVars, planVars, rsVars, svcVars, updVars, envVars
<1>0. scaled \in [Sites -> [RS -> BOOLEAN]]
  BY DEF TypeOK
<1>1. CASE OperatorStep(s)
  <2>1. ASSUME NEW sets, ScaleDown(s, sets) PROVE scaled[s][rs]
    <3>1. scaled'[s] = [r \in RS |-> scaled[s][r] /\ r \notin sets]
      BY <1>0, <2>1 DEF ScaleDown
    <3>2. scaled'[s][rs] = (scaled[s][rs] /\ rs \notin sets)
      BY <3>1
    <3> QED BY <3>2
  <2>2. UNCHANGED scaled \/ \E sets : ScaleDown(s, sets)
    BY <1>1, SetsMove DEF ScaleCNFRS, ScaleDATARS
  <2> QED BY <2>1, <2>2
<1>2. ASSUME NEW x \in Sites, x # s, OperatorStep(x) PROVE scaled[s][rs]
  BY <1>2, OtherPlan
<1>3. ASSUME NEW x \in Sites, Crash(x) \/ SiteManager(x) \/ ServicesStep(x)
      PROVE  scaled[s][rs]
  BY <1>3 DEF Crash, SiteManager, PostPassive, Resync, PostActive, PostFailover, Post,
     ServicesStep, UpdateServices, DeployBackupDaemon, GrantRoleToUser,
     DeployDbaasAdapter
<1>4. ASSUME NEW x \in Sites, NEW r \in RS,
             Elect(x, r) \/ MemberFails(x, r) \/ MemberRecovers(x, r)
      PROVE  scaled[s][rs]
  BY <1>4 DEF Elect, MemberFails, MemberRecovers
<1>5. CASE LinkDown \/ LinkUp \/ UNCHANGED vars
  BY <1>5 DEF LinkDown, LinkUp, vars
<1> QED BY <1>1, <1>2, <1>3, <1>4, <1>5 DEF Next

\* A partition is not forgotten.
LEMMA CutStays ==
    ASSUME [Next]_vars, ~cut'
    PROVE  ~cut
<1> USE DEF crVars, planVars, rsVars, svcVars, updVars, envVars
<1>1. ASSUME NEW x \in Sites, OperatorStep(x) PROVE ~cut
  BY <1>1, PlanMoves
<1>2. ASSUME NEW x \in Sites, Crash(x) \/ SiteManager(x) \/ ServicesStep(x) PROVE ~cut
  BY <1>2 DEF Crash, SiteManager, PostPassive, Resync, PostActive, PostFailover, Post,
     ServicesStep, UpdateServices, DeployBackupDaemon, GrantRoleToUser,
     DeployDbaasAdapter
<1>3. ASSUME NEW x \in Sites, NEW r \in RS,
             Elect(x, r) \/ MemberFails(x, r) \/ MemberRecovers(x, r)
      PROVE  ~cut
  BY <1>3 DEF Elect, MemberFails, MemberRecovers
<1>4. CASE LinkDown \/ LinkUp \/ UNCHANGED vars
  BY <1>4 DEF LinkDown, LinkUp, vars
<1> QED BY <1>1, <1>2, <1>3, <1>4 DEF Next

\* What Owns says of an active site is kept by every step.
LEMMA OwnsStep ==
    ASSUME TypeOK, ServingInv, OwnersInv, [Next]_vars, NEW s \in Sites
    PROVE  Owns(s)'
<1> USE DEF crVars, planVars, rsVars, svcVars, updVars, envVars
<1> SUFFICES ASSUME ~cut', mode'[s] = Active
             PROVE  /\ fresh'[s] \/ (pc'[s] # "idle" /\ run'[s].deploy = Clean)
                          => \A rs \in RS : voter'[s][rs] = s
                    /\ pc'[s] = "finish" \/ status'[s].state = "done"
                          => \A rs \in RS : scaled'[s][rs] => voter'[s][rs] = s
  BY DEF Owns
<1> DEFINE AllOwn == \A rs \in RS : voter[s][rs] = s
           PodsOwn == \A rs \in RS : scaled[s][rs] => voter[s][rs] = s
<1>0. /\ ~cut /\ Together /\ PrimVotes /\ PlanParts(s) /\ Owns(s) /\ PlanFits(s)
      /\ fresh \in [Sites -> BOOLEAN] /\ pc \in [Sites -> Steps \cup {"idle"}]
      /\ run \in [Sites -> [mode : Modes, deploy : {NoDeploy, Clean, Update}]]
      /\ status \in [Sites -> [mode : Modes, state : {"running", "done", "failed"}]]
      /\ mode \in [Sites -> Modes]
  BY CutStays DEF OwnersInv, ServingInv, TypeOK
<1>1. ASSUME mode[s] = Active, AllOwn PROVE AllOwn'
  BY <1>0, <1>1, VotesStay
<1>2. ASSUME mode[s] = Active, PodsOwn, ~StartReconcile(s) PROVE PodsOwn'
  BY <1>0, <1>2, VotesStay, ScaledStays
<1>3. ASSUME mode[s] = Active, ~StartReconcile(s),
             fresh'[s] = fresh[s], run'[s] = run[s],
             pc'[s] # "idle" => pc[s] # "idle",
             pc'[s] = "finish" \/ status'[s].state = "done"
                => pc[s] = "finish" \/ status[s].state = "done" \/ PodsOwn
      PROVE  /\ fresh'[s] \/ (pc'[s] # "idle" /\ run'[s].deploy = Clean) => AllOwn'
             /\ pc'[s] = "finish" \/ status'[s].state = "done" => PodsOwn'
  BY <1>0, <1>1, <1>2, <1>3 DEF Owns
<1>4. CASE OperatorStep(s)
  <2>0. mode[s] = Active
    BY <1>4, PlanMoves
  <2>1. CASE StartReconcile(s)
    <3>1. /\ fresh'[s] = FALSE /\ status'[s].state = "running"
          /\ pc'[s] = FirstStep(mode[s], noWait[s])
      BY <1>0, <2>1 DEF StartReconcile
    <3>2. pc'[s] # "finish"
      BY <1>0, <3>1, FirstStepEarly
    <3>3. run'[s].deploy = Clean => fresh[s]
      BY <1>0, <2>1 DEF StartReconcile, Clean, Update, NoDeploy
    <3> QED BY <1>0, <1>1, <2>0, <3>1, <3>2, <3>3 DEF Owns
  <2>2. CASE Finish(s)
    <3>1. pc[s] = "finish" /\ pc'[s] = "idle" /\ UNCHANGED <<fresh, run>>
      BY <1>0, <2>2 DEF Finish
    <3>2. ~StartReconcile(s)
      BY <3>1 DEF StartReconcile
    <3> QED BY <1>3, <2>0, <3>1, <3>2
  <2>3. CASE Aborts(s)
    <3>1. /\ pc[s] # "idle" /\ pc'[s] = "idle" /\ UNCHANGED <<fresh, run>>
          /\ status'[s].state = "failed"
      BY <1>0, <2>3 DEF Aborts, Abort
    <3>2. ~StartReconcile(s)
      BY <3>1 DEF StartReconcile
    <3> QED BY <1>3, <2>0, <3>1, <3>2
  <2>4. CASE GoesOn(s) /\ ~StartReconcile(s)
    <3>1. /\ UNCHANGED <<run, fresh, status>> /\ pc[s] \in Steps \ {"finish"}
          /\ pc'[s] \in {StepAfter(run[s].mode, pc[s]), pc[s], "awaitCnf"}
      BY <1>0, <2>4 DEF GoesOn, GoOn
    <3>2. pc[s] # "idle" /\ run[s].mode = Active
      BY <1>0, <2>0, <3>1 DEF PlanFits, Steps
    <3>3. ASSUME pc'[s] = "finish" PROVE PodsOwn
      <4>1. pc[s] = "waitUp"
        <5>1. run[s].mode \in Modes
          BY <1>0
        <5>2. pc[s] \in {"scaleData", "waitUp"}
          BY <3>1, <3>3, <5>1, ScaleDownSteps
        <5> QED BY <1>0, <3>2, <5>2 DEF PlanParts, Active, Disable
      <4>2. CASE WaitStatus(s)
        BY <1>0, <3>2, <4>1, <4>2, UpOwnsSets DEF WaitStatus, WaitedMode
      <4>3. CASE SkipStep(s)
        <5>1. run[s].deploy = Clean
          BY <4>1, <4>3 DEF SkipStep, Condition
        <5> QED BY <1>0, <2>0, <3>2, <5>1 DEF Owns
      <4>4. CASE ~WaitStatus(s) /\ ~SkipStep(s)
        <5>1. WaitTimeout(s)
          BY <1>4, <4>1, <4>4 DEF OperatorStep, StartReconcile, ReconfigureCnfrs,
             ReconfigureDataRS, UpdateShards, RestartConfigRS, AwaitConfigRS,
             ScaleMongos, ScaleBackupDaemon, ScaleDbaasAdapter,
             UpdatePrometheusExporter, WaitReplicationLag, ScaleCNFRS, ScaleDATARS,
             Finish, At
        <5> QED BY <1>0, <3>3, <5>1 DEF WaitTimeout, Abort
      <4> QED BY <4>2, <4>3, <4>4
    <3> QED BY <1>3, <2>0, <2>4, <3>1, <3>2, <3>3
  <2> QED BY <1>4, <2>1, <2>2, <2>3, <2>4, PlanMoves
<1>5. ASSUME NEW x \in Sites, x # s, OperatorStep(x), ~StartReconcile(s)
      PROVE  /\ fresh'[s] \/ (pc'[s] # "idle" /\ run'[s].deploy = Clean) => AllOwn'
             /\ pc'[s] = "finish" \/ status'[s].state = "done" => PodsOwn'
  BY <1>3, <1>5, OtherPlan, PlanMoves
<1>6. ASSUME NEW x \in Sites, Crash(x), ~StartReconcile(s)
      PROVE  /\ fresh'[s] \/ (pc'[s] # "idle" /\ run'[s].deploy = Clean) => AllOwn'
             /\ pc'[s] = "finish" \/ status'[s].state = "done" => PodsOwn'
  <2>1. UNCHANGED <<mode, run, fresh, status>> /\ pc' = [pc EXCEPT ![x] = "idle"]
    BY <1>6 DEF Crash
  <2>2. pc'[s] \in {"idle", pc[s]}
    BY <1>0, <2>1
  <2> QED BY <1>3, <1>6, <2>1, <2>2
<1>7. ASSUME NEW x \in Sites, SiteManager(x), ~StartReconcile(s)
      PROVE  /\ fresh'[s] \/ (pc'[s] # "idle" /\ run'[s].deploy = Clean) => AllOwn'
             /\ pc'[s] = "finish" \/ status'[s].state = "done" => PodsOwn'
  <2>1. PICK m : Post(x, m)
    BY <1>7 DEF SiteManager, PostPassive, Resync, PostActive, PostFailover
  <2>2. CASE x = s
    <3>1. pc[s] = "idle" /\ ~pending[s] /\ UNCHANGED <<pc, run, fresh>>
      BY <2>1, <2>2 DEF Post, Settled
    <3>2. status'[s].state = "running"
      BY <1>0, <2>1, <2>2 DEF Post
    <3>3. ~fresh[s]
      BY <1>0, <3>1 DEF PlanParts
    <3> QED BY <3>1, <3>2, <3>3
  <2>3. CASE x # s
    <3>1. /\ mode'[s] = mode[s] /\ status'[s] = status[s] /\ UNCHANGED <<pc, run, fresh>>
      BY <1>0, <2>1, <2>3 DEF Post
    <3> QED BY <1>3, <1>7, <3>1
  <2> QED BY <2>2, <2>3
<1>8. ASSUME NEW x \in Sites, ServicesStep(x), ~StartReconcile(s)
      PROVE  /\ fresh'[s] \/ (pc'[s] # "idle" /\ run'[s].deploy = Clean) => AllOwn'
             /\ pc'[s] = "finish" \/ status'[s].state = "done" => PodsOwn'
  <2>1. UNCHANGED <<mode, run, fresh, status, pc>>
    BY <1>8 DEF ServicesStep, UpdateServices, DeployBackupDaemon, GrantRoleToUser,
       DeployDbaasAdapter
  <2> QED BY <1>3, <1>8, <2>1
<1>9. ASSUME NEW x \in Sites, NEW r \in RS, ~StartReconcile(s),
             Elect(x, r) \/ MemberFails(x, r) \/ MemberRecovers(x, r)
      PROVE  /\ fresh'[s] \/ (pc'[s] # "idle" /\ run'[s].deploy = Clean) => AllOwn'
             /\ pc'[s] = "finish" \/ status'[s].state = "done" => PodsOwn'
  <2>1. UNCHANGED <<mode, run, fresh, status, pc>>
    BY <1>9 DEF Elect, MemberFails, MemberRecovers
  <2> QED BY <1>3, <1>9, <2>1
<1>10. CASE (LinkDown \/ LinkUp \/ UNCHANGED vars) /\ ~StartReconcile(s)
  <2>1. UNCHANGED <<mode, run, fresh, status, pc>>
    BY <1>10 DEF LinkDown, LinkUp, vars
  <2> QED BY <1>3, <1>10, <2>1
<1>11. StartReconcile(s) => OperatorStep(s)
  BY DEF OperatorStep
<1> QED BY <1>4, <1>5, <1>6, <1>7, <1>8, <1>9, <1>10, <1>11 DEF Next

\* An active site that reports "done" has the votes of every set it runs, for
\* any number of shards and members and whatever fails on the way, although
\* ReconfigureRS drops the error of a reconfig: the compound cannot pass its
\* last wait without the PRIMARY of each set, and the other site, which is
\* not active, gives votes only to this one.
THEOREM ActiveDoneOwnsSetsAlways == Spec => []ActiveDoneOwnsSets
<1>1. Init => OwnersInv
  <2> SUFFICES ASSUME Init PROVE OwnersInv
    OBVIOUS
  <2>1. PrimVotes /\ Together
    BY DEF Init, PrimVotes, Together
  <2>2. ASSUME NEW s \in Sites PROVE PlanParts(s)
    BY DEF Init, PlanParts
  <2>3. ASSUME NEW s \in Sites PROVE Owns(s)
    <3>1. mode[s] = Active => s = SiteA
      BY DEF Init, InitialMode, Active, Standby
    <3>2. \A rs \in RS : voter[s][rs] = SiteA
      BY DEF Init
    <3> QED BY <3>1, <3>2 DEF Owns
  <2> QED BY <2>1, <2>2, <2>3 DEF OwnersInv
<1>2. TypeOK /\ ServingInv /\ OwnersInv /\ [Next]_vars => OwnersInv'
  <2> SUFFICES ASSUME TypeOK, ServingInv, OwnersInv, [Next]_vars PROVE OwnersInv'
    OBVIOUS
  <2>1. PrimVotes' /\ Together'
    BY PrimVotesStep, TogetherStep DEF OwnersInv
  <2>2. ASSUME NEW s \in Sites PROVE PlanParts(s)' /\ Owns(s)'
    BY PlanPartsStep, OwnsStep DEF OwnersInv
  <2> QED BY <2>1, <2>2 DEF OwnersInv
<1>3. ServingInv /\ OwnersInv => ActiveDoneOwnsSets
  <2> SUFFICES ASSUME ServingInv, OwnersInv, NEW s \in Sites, ~cut,
                      status[s] = [mode |-> Active, state |-> "done"]
               PROVE  \A rs \in RS : scaled[s][rs] => voter[s][rs] = s
    BY DEF ActiveDoneOwnsSets
  <2>1. status[s].state = "done" /\ status[s].mode = Active
    OBVIOUS
  <2>2. mode[s] = Active
    BY <2>1 DEF ServingInv, PlanFits
  <2> QED BY <2>1, <2>2 DEF OwnersInv, Owns
<1>4. Spec => []ServingInv
  BY ServingInit, ServingStep, PTL DEF Spec
<1> QED BY <1>1, <1>2, <1>3, <1>4, TypeCorrect, PTL DEF Spec

=============================================================================

---------------------------- MODULE InstallProofs ----------------------------
(***************************************************************************)
(* Theorems about Install for every number of shards, faults and updates   *)
(* and every set of keyfiles: the types, that the sites agree on one keyfile, *)
(* that a site that is done has pods of one keyfile only, and that the active *)
(* site is done only with its replica sets initiated and joined.           *)
(***************************************************************************)
EXTENDS Install, TLAPS

Statuses == {"new", "running", "failed", "done"}

\* The steps before the keyfile is in the secret.
BeforeKey == {"pvc", "nodes", "cleanup", "ssl", "sslWrite"}

\* A step that needs a keyfile has one.
KeyPresent ==
    \A s \in Sites : /\ pc[s] = "sslWrite" => fetched[s] \in Keys
                     /\ pc[s] \in Steps \ BeforeKey => key[s] \in Keys

TInv == TypeOK /\ KeyPresent

-----------------------------------------------------------------------------
(* The control flow. *)

\* Where a step may go on to: StepAfter is total on the steps, and the keyfile
\* is written before anything that needs it.
LEMMA StepAfterFacts ==
    ASSUME NEW st \in Steps \ {"finish"}
    PROVE  /\ StepAfter[st] \in Steps /\ StepAfter[st] # "idle"
           /\ StepAfter[st] = "sslWrite" <=> st = "ssl"
           /\ StepAfter[st] \in Steps \ BeforeKey <=> st \in (Steps \ BeforeKey) \cup {"sslWrite"}
           /\ StepAfter[st] # "pvc"
           /\ StepAfter[st] \in {"nodes", "cleanup", "ssl"} => st \in {"pvc", "nodes", "cleanup"}
BY DEF StepAfter, Steps, BeforeKey

\* GoOn moves one site and nothing else.
LEMMA GoOnFacts ==
    ASSUME TypeOK, NEW s \in Sites, pc[s] \in Steps \ {"finish"}, GoOn(s)
    PROVE  /\ pc' \in [Sites -> Steps \cup {"idle"}]
           /\ status' \in [Sites -> Statuses] /\ status' = status
           /\ pc'[s] = StepAfter[pc[s]]
           /\ \A x \in Sites : x # s => pc'[x] = pc[x]
<1>1. StepAfter[pc[s]] \in Steps
  BY StepAfterFacts
<1>2. pc' = [pc EXCEPT ![s] = StepAfter[pc[s]]] /\ status' = status
  BY DEF GoOn
<1>3. pc \in [Sites -> Steps \cup {"idle"}] /\ status \in [Sites -> Statuses]
  BY DEF TypeOK, Statuses
<1> QED
  BY <1>1, <1>2, <1>3

\* Abort stops one site.
LEMMA AbortFacts ==
    ASSUME TypeOK, NEW s \in Sites, Abort(s)
    PROVE  /\ pc' \in [Sites -> Steps \cup {"idle"}]
           /\ status' \in [Sites -> Statuses]
           /\ pc'[s] = "idle" /\ status'[s] = "failed"
           /\ \A x \in Sites : x # s => pc'[x] = pc[x] /\ status'[x] = status[x]
<1>1. /\ pc' = [pc EXCEPT ![s] = "idle"]
      /\ status' = [status EXCEPT ![s] = "failed"]
  BY DEF Abort
<1>2. pc \in [Sites -> Steps \cup {"idle"}] /\ status \in [Sites -> Statuses]
  BY DEF TypeOK, Statuses
<1> QED
  BY <1>1, <1>2 DEF Statuses

\* A fault stays within its bound.
LEMMA FaultFacts ==
    ASSUME TypeOK, Fault
    PROVE  faults' \in 0..MaxFaults
BY InstallAssumption DEF TypeOK, Fault

-----------------------------------------------------------------------------
(* Types. *)

KeyTypes ==
    /\ pvcs \in [Sites -> BOOLEAN]
    /\ key \in [Sites -> Keys \cup {NoKey}]
    /\ fetched \in [Sites -> Keys \cup {NoKey}]
    /\ held \in [Sites -> [Parts -> SUBSET Keys]]

MongoTypes ==
    /\ initiated \subseteq RS /\ root \subseteq RS
    /\ registered \subseteq Shards /\ joined \subseteq RS

\* A step of a compound: site s goes on or is stopped.
Step(s) == /\ pc[s] \in Steps \ {"finish"}
           /\ GoOn(s) \/ Abort(s)
           /\ faults' = faults \/ Fault
           /\ UNCHANGED <<schema, pending, deploy, ordered, changes>>

\* What such a step leaves to show: the keys and the cluster.
LEMMA StepType ==
    ASSUME TInv, NEW s \in Sites, Step(s), KeyTypes', MongoTypes'
    PROVE  TypeOK'
<1>1. pc' \in [Sites -> Steps \cup {"idle"}] /\ status' \in [Sites -> Statuses]
  BY GoOnFacts, AbortFacts DEF Step, TInv
<1>2. faults' \in 0..MaxFaults
  BY FaultFacts DEF Step, TInv, TypeOK
<1> QED
  BY <1>1, <1>2 DEF Step, TInv, TypeOK, KeyTypes, MongoTypes, Statuses

\* A step outside CreateSSLSecretStep keeps KeyPresent.
LEMMA StepKeeps ==
    ASSUME TInv, NEW s \in Sites, Step(s), pc[s] \notin {"ssl", "sslWrite"},
           UNCHANGED <<key, fetched>>
    PROVE  KeyPresent'
<1> SUFFICES ASSUME NEW x \in Sites
             PROVE  /\ pc'[x] = "sslWrite" => fetched[x] \in Keys
                    /\ pc'[x] \in Steps \ BeforeKey => key[x] \in Keys
  BY DEF KeyPresent
<1>1. CASE x # s
  BY <1>1, GoOnFacts, AbortFacts DEF Step, TInv, KeyPresent
<1>2. CASE x = s /\ Abort(s)
  BY <1>2, AbortFacts DEF TInv, Steps
<1>3. CASE x = s /\ GoOn(s)
  <2>1. pc'[s] = StepAfter[pc[s]] /\ pc[s] \in Steps \ {"finish"}
    BY <1>3, GoOnFacts DEF Step, TInv
  <2> QED
    BY <1>3, <2>1, StepAfterFacts DEF Step, TInv, KeyPresent
<1> QED
  BY <1>1, <1>2, <1>3 DEF Step

\* Every action of a compound but StartReconcile and Finish is such a step.
LEMMA IsStep ==
    ASSUME TInv, NEW s \in Sites
    PROVE  /\ SkipStep(s) => Step(s) /\ pc[s] \notin {"ssl", "sslWrite"}
           /\ CreatePVC(s) => Step(s) /\ pc[s] = "pvc"
           /\ StoreNodes(s) => Step(s) /\ pc[s] = "nodes"
           /\ Cleanup(s) => Step(s) /\ pc[s] = "cleanup"
           /\ GetKeyFile(s) => Step(s) /\ pc[s] = "ssl"
           /\ WriteKey(s) => Step(s) /\ pc[s] = "sslWrite"
           /\ CreateCNF(s) => Step(s) /\ pc[s] = "cnf"
           /\ InitCNF(s) => Step(s) /\ pc[s] = "initCnf"
           /\ CreateData(s) => Step(s) /\ pc[s] = "data"
           /\ InitData(s) => Step(s) /\ pc[s] = "initData"
           /\ CreateMongos(s) => Step(s) /\ pc[s] = "mongos"
           /\ RegisterShards(s) => Step(s) /\ pc[s] = "register"
           /\ AddUser(s) => Step(s) /\ pc[s] = "addUser"
           /\ SetFCV(s) => Step(s) /\ pc[s] = "fcv"
           /\ RenameMemberDomain(s) => Step(s) /\ pc[s] = "rename"
           /\ AddCNFReplicas(s) => Step(s) /\ pc[s] = "addCnf"
           /\ AddDATAReplicas(s) => Step(s) /\ pc[s] = "addData"
<1> USE DEF Step, At, Steps
<1>1. SkipStep(s) => Step(s) /\ pc[s] \notin {"ssl", "sslWrite"}
  BY DEF SkipStep, Condition
<1>2. /\ CreatePVC(s) => Step(s) /\ pc[s] = "pvc"
      /\ StoreNodes(s) => Step(s) /\ pc[s] = "nodes"
      /\ Cleanup(s) => Step(s) /\ pc[s] = "cleanup"
  BY DEF CreatePVC, StoreNodes, Cleanup
<1>3. /\ GetKeyFile(s) => Step(s) /\ pc[s] = "ssl"
      /\ WriteKey(s) => Step(s) /\ pc[s] = "sslWrite"
  BY DEF GetKeyFile, WriteKey, NoAnswer, Generate
<1>4. /\ CreateCNF(s) => Step(s) /\ pc[s] = "cnf"
      /\ CreateData(s) => Step(s) /\ pc[s] = "data"
      /\ CreateMongos(s) => Step(s) /\ pc[s] = "mongos"
  BY DEF CreateCNF, CreateData, CreateMongos
<1>5. /\ InitCNF(s) => Step(s) /\ pc[s] = "initCnf"
      /\ InitData(s) => Step(s) /\ pc[s] = "initData"
      /\ RegisterShards(s) => Step(s) /\ pc[s] = "register"
      /\ AddUser(s) => Step(s) /\ pc[s] = "addUser"
  BY DEF InitCNF, InitData, RegisterShards, AddUser
<1>6. /\ SetFCV(s) => Step(s) /\ pc[s] = "fcv"
      /\ RenameMemberDomain(s) => Step(s) /\ pc[s] = "rename"
      /\ AddCNFReplicas(s) => Step(s) /\ pc[s] = "addCnf"
      /\ AddDATAReplicas(s) => Step(s) /\ pc[s] = "addData"
  BY DEF SetFCV, RenameMemberDomain, AddCNFReplicas, AddDATAReplicas, AddReplicas
<1> QED
  BY <1>1, <1>2, <1>3, <1>4, <1>5, <1>6

\* The pods of a part get the keyfile of the secret.
LEMMA HeldType ==
    ASSUME TInv, NEW s \in Sites, pc[s] \in Steps \ BeforeKey
    PROVE  /\ \A ps : Restarted(s, ps) => held' \in [Sites -> [Parts -> SUBSET Keys]]
           /\ \A ps, p : HalfRestarted(s, ps, p)
                           => held' \in [Sites -> [Parts -> SUBSET Keys]]
           /\ RouterPods(s) \in SUBSET Keys
<1>1. key[s] \in Keys /\ held \in [Sites -> [Parts -> SUBSET Keys]]
  BY DEF TInv, KeyPresent, TypeOK
<1>2. ASSUME NEW ps, Restarted(s, ps)
      PROVE  held' \in [Sites -> [Parts -> SUBSET Keys]]
  BY <1>1, <1>2 DEF Restarted
<1>3. ASSUME NEW ps, NEW p, HalfRestarted(s, ps, p)
      PROVE  held' \in [Sites -> [Parts -> SUBSET Keys]]
  BY <1>1, <1>3 DEF HalfRestarted
<1> QED
  BY <1>1, <1>2, <1>3 DEF RouterPods

\* Types and the presence of keyfiles are kept by every step.
LEMMA TInvStep ==
    ASSUME TInv, [Next]_vars
    PROVE  TInv'
<1> USE DEF vars, siteVars, mongoVars
<1>0. /\ KeyTypes /\ MongoTypes
      /\ Shards \subseteq RS /\ (Sharded => Cnf \in RS)
      /\ \A s \in Sites : pc[s] \in Steps \cup {"idle"}
  BY DEF TInv, TypeOK, KeyTypes, MongoTypes, RS
<1>1. ASSUME NEW s \in Sites, StartReconcile(s)
      PROVE  TInv'
  <2>1. TypeOK'
    BY <1>1 DEF StartReconcile, DeployType, TInv, TypeOK, Steps
  <2>2. KeyPresent'
    BY <1>1 DEF StartReconcile, TInv, TypeOK, KeyPresent, BeforeKey, Steps
  <2> QED
    BY <2>1, <2>2 DEF TInv
<1>2. ASSUME NEW s \in Sites, SkipStep(s)
      PROVE  TInv'
  <2>1. Step(s) /\ pc[s] \notin {"ssl", "sslWrite"}
    BY <1>2, IsStep
  <2>2. KeyTypes' /\ MongoTypes' /\ UNCHANGED <<key, fetched>>
    BY <1>0, <1>2 DEF SkipStep, KeyTypes, MongoTypes
  <2> QED
    BY <2>1, <2>2, StepType, StepKeeps DEF TInv
<1>3. ASSUME NEW s \in Sites, CreatePVC(s)
      PROVE  TInv'
  <2>1. Step(s) /\ pc[s] = "pvc"
    BY <1>3, IsStep
  <2>2. KeyTypes' /\ MongoTypes' /\ UNCHANGED <<key, fetched>>
    <3>1. pvcs' \in [Sites -> BOOLEAN]
      BY <1>0, <1>3 DEF CreatePVC, KeyTypes
    <3> QED
      BY <1>0, <1>3, <3>1 DEF CreatePVC, KeyTypes, MongoTypes
  <2> QED
    BY <2>1, <2>2, StepType, StepKeeps DEF TInv
<1>4. ASSUME NEW s \in Sites, StoreNodes(s) \/ SetFCV(s) \/ RenameMemberDomain(s)
      PROVE  TInv'
  <2>1. Step(s) /\ pc[s] \notin {"ssl", "sslWrite"}
    BY <1>4, IsStep
  <2>2. KeyTypes' /\ MongoTypes' /\ UNCHANGED <<key, fetched>>
    BY <1>0, <1>4 DEF StoreNodes, SetFCV, RenameMemberDomain, KeyTypes, MongoTypes
  <2> QED
    BY <2>1, <2>2, StepType, StepKeeps DEF TInv
<1>5. ASSUME NEW s \in Sites, Cleanup(s)
      PROVE  TInv'
  <2>1. Step(s) /\ pc[s] = "cleanup"
    BY <1>5, IsStep
  <2>2. ASSUME NEW ps, Deleted(s, ps)
        PROVE  held' \in [Sites -> [Parts -> SUBSET Keys]]
    BY <1>0, <2>2 DEF Deleted, KeyTypes
  <2>3. KeyTypes' /\ MongoTypes' /\ UNCHANGED <<key, fetched>>
    BY <1>0, <1>5, <2>2 DEF Cleanup, KeyTypes, MongoTypes
  <2> QED
    BY <2>1, <2>3, StepType, StepKeeps DEF TInv
<1>6. ASSUME NEW s \in Sites, GetKeyFile(s)
      PROVE  TInv'
  <2>1. Step(s) /\ pc[s] = "ssl"
    BY <1>6, IsStep
  <2>2. \/ Abort(s) /\ UNCHANGED fetched
        \/ GoOn(s) /\ \E k \in Keys : fetched' = [fetched EXCEPT ![s] = k]
    <3>1. key[Other(s)] # NoKey => key[Other(s)] \in Keys
      BY <1>0 DEF KeyTypes, Other, Sites
    <3> QED
      BY <1>6, <3>1 DEF GetKeyFile, NoAnswer, Generate
  <2>3. KeyTypes' /\ MongoTypes' /\ UNCHANGED key
    <3>1. fetched' \in [Sites -> Keys \cup {NoKey}]
      BY <1>0, <2>2 DEF KeyTypes
    <3> QED
      BY <1>0, <1>6, <3>1 DEF GetKeyFile, KeyTypes, MongoTypes
  <2>4. KeyPresent'
    <3> SUFFICES ASSUME NEW x \in Sites
                 PROVE  /\ pc'[x] = "sslWrite" => fetched'[x] \in Keys
                        /\ pc'[x] \in Steps \ BeforeKey => key[x] \in Keys
      BY <2>3 DEF KeyPresent
    <3>1. CASE x # s
      BY <2>1, <2>2, <3>1, <1>0, GoOnFacts, AbortFacts
         DEF Step, TInv, KeyPresent, KeyTypes
    <3>2. CASE x = s /\ Abort(s)
      BY <3>2, AbortFacts DEF TInv, Steps
    <3>3. CASE x = s /\ GoOn(s) /\ \E k \in Keys : fetched' = [fetched EXCEPT ![s] = k]
      <4>1. pc'[s] = "sslWrite" /\ fetched'[s] \in Keys
        BY <1>0, <2>1, <3>3, GoOnFacts, StepAfterFacts DEF Step, TInv, KeyTypes
      <4> QED
        BY <3>3, <4>1 DEF BeforeKey
    <3> QED
      BY <2>2, <3>1, <3>2, <3>3
  <2> QED
    BY <2>1, <2>3, <2>4, StepType DEF TInv
<1>7. ASSUME NEW s \in Sites, WriteKey(s)
      PROVE  TInv'
  <2>1. Step(s) /\ pc[s] = "sslWrite" /\ fetched[s] \in Keys
    BY <1>7, IsStep DEF TInv, KeyPresent
  <2>2. /\ key' = key \/ key' = [key EXCEPT ![s] = fetched[s]]
        /\ GoOn(s) => key' = [key EXCEPT ![s] = fetched[s]]
        /\ UNCHANGED <<fetched, pvcs, held, mongoVars>>
    <3>1. ~(GoOn(s) /\ Abort(s))
      BY <2>1, GoOnFacts, AbortFacts, StepAfterFacts DEF TInv, Step
    <3> QED
      BY <1>7, <3>1 DEF WriteKey
  <2>3. KeyTypes' /\ MongoTypes'
    <3>1. key' \in [Sites -> Keys \cup {NoKey}]
      BY <1>0, <2>1, <2>2 DEF KeyTypes
    <3> QED
      BY <1>0, <2>2, <3>1 DEF KeyTypes, MongoTypes
  <2>4. KeyPresent'
    <3> SUFFICES ASSUME NEW x \in Sites
                 PROVE  /\ pc'[x] = "sslWrite" => fetched[x] \in Keys
                        /\ pc'[x] \in Steps \ BeforeKey => key'[x] \in Keys
      BY <2>2 DEF KeyPresent
    <3>1. CASE x # s
      BY <2>1, <2>2, <3>1, <1>0, GoOnFacts, AbortFacts
         DEF Step, TInv, KeyPresent, KeyTypes
    <3>2. CASE x = s /\ Abort(s)
      BY <3>2, AbortFacts DEF TInv, Steps
    <3>3. CASE x = s /\ GoOn(s)
      BY <1>0, <2>1, <2>2, <3>3 DEF KeyTypes
    <3> QED
      BY <2>1, <3>1, <3>2, <3>3 DEF Step
  <2> QED
    BY <2>1, <2>3, <2>4, StepType DEF TInv
<1>8. ASSUME NEW s \in Sites, CreateCNF(s) \/ CreateData(s) \/ CreateMongos(s)
      PROVE  TInv'
  <2>1. Step(s) /\ pc[s] \notin {"ssl", "sslWrite"} /\ pc[s] \in Steps \ BeforeKey
    BY <1>8, IsStep DEF Steps, BeforeKey
  <2>2. held' \in [Sites -> [Parts -> SUBSET Keys]]
    <3>1. CASE CreateCNF(s) \/ CreateData(s)
      BY <2>1, <3>1, HeldType DEF CreateCNF, CreateData
    <3>2. CASE CreateMongos(s)
      <4>1. \E ks \in SUBSET Keys : held' = held \/ held' = [held EXCEPT ![s][Router] = ks]
        BY <2>1, <3>2, HeldType DEF CreateMongos
      <4>2. PICK ks \in SUBSET Keys : held' = held \/ held' = [held EXCEPT ![s][Router] = ks]
        BY <4>1
      <4>3. [held[s] EXCEPT ![Router] = ks] \in [Parts -> SUBSET Keys]
        BY <1>0 DEF KeyTypes
      <4> QED
        BY <1>0, <4>2, <4>3 DEF KeyTypes
    <3> QED
      BY <1>8, <3>1, <3>2
  <2>3. KeyTypes' /\ MongoTypes' /\ UNCHANGED <<key, fetched>>
    BY <1>0, <1>8, <2>2 DEF CreateCNF, CreateData, CreateMongos, KeyTypes, MongoTypes
  <2> QED
    BY <2>1, <2>3, StepType, StepKeeps DEF TInv
<1>9. ASSUME NEW s \in Sites, InitCNF(s) \/ InitData(s) \/ RegisterShards(s) \/ AddUser(s)
      PROVE  TInv'
  <2>1. Step(s) /\ pc[s] \notin {"ssl", "sslWrite"}
    BY <1>9, IsStep
  <2>2. \A d \in 0..ShardCount : FirstShards(d) \subseteq Shards
    BY InstallAssumption DEF FirstShards, Shards
  <2>3. MongoTypes'
    <3>1. CASE InitCNF(s)
      <4>1. Sharded
        BY <3>1 DEF InitCNF, At, Condition
      <4> QED
        BY <1>0, <3>1, <4>1 DEF InitCNF, MongoReplicaSetInit, MongoTypes
    <3>2. CASE InitData(s)
      <4>1. ShardCount \in 0..ShardCount
        BY InstallAssumption
      <4> QED
        BY <1>0, <2>2, <3>2, <4>1 DEF InitData, MongoReplicaSetInit, MongoTypes
    <3>3. CASE RegisterShards(s)
      BY <1>0, <3>3 DEF RegisterShards, AddShards, MongoTypes
    <3>4. CASE AddUser(s)
      BY <1>0, <2>2, <3>4 DEF AddUser, CreateUser, MongoTypes
    <3> QED
      BY <1>9, <3>1, <3>2, <3>3, <3>4
  <2>4. KeyTypes' /\ UNCHANGED <<key, fetched>>
    BY <1>0, <1>9 DEF InitCNF, InitData, RegisterShards, AddUser, KeyTypes
  <2> QED
    BY <2>1, <2>3, <2>4, StepType, StepKeeps DEF TInv
<1>10. ASSUME NEW s \in Sites, AddCNFReplicas(s) \/ AddDATAReplicas(s)
       PROVE  TInv'
  <2>1. Step(s) /\ pc[s] \notin {"ssl", "sslWrite"}
    BY <1>10, IsStep
  <2>2. MongoTypes'
    <3>1. CASE AddCNFReplicas(s)
      <4>1. {Cnf} \subseteq RS
        BY <1>0, <3>1 DEF AddCNFReplicas, AddReplicas, At, Condition
      <4> QED
        BY <1>0, <3>1, <4>1 DEF AddCNFReplicas, AddReplicas, MongoTypes
    <3>2. CASE AddDATAReplicas(s)
      BY <1>0, <3>2 DEF AddDATAReplicas, AddReplicas, MongoTypes
    <3> QED
      BY <1>10, <3>1, <3>2
  <2>3. KeyTypes' /\ UNCHANGED <<key, fetched>>
    BY <1>0, <1>10 DEF AddCNFReplicas, AddDATAReplicas, AddReplicas, KeyTypes
  <2> QED
    BY <2>1, <2>2, <2>3, StepType, StepKeeps DEF TInv
<1>11. ASSUME NEW s \in Sites, Finish(s) \/ Crash(s)
       PROVE  TInv'
  <2>1. TypeOK'
    <3>1. CASE Finish(s)
      BY <3>1 DEF Finish, TInv, TypeOK
    <3>2. CASE Crash(s)
      <4>1. faults' \in 0..MaxFaults
        BY <3>2, FaultFacts DEF Crash, TInv
      <4>2. pending' \in [Sites -> BOOLEAN] /\ pc' \in [Sites -> Steps \cup {"idle"}]
        BY <3>2 DEF Crash, TInv, TypeOK
      <4> QED
        BY <3>2, <4>1, <4>2 DEF Crash, TInv, TypeOK
    <3> QED
      BY <1>11, <3>1, <3>2
  <2>2. KeyPresent'
    <3>1. pc' = [pc EXCEPT ![s] = "idle"] /\ UNCHANGED <<key, fetched>>
      BY <1>11 DEF Finish, Crash
    <3> QED
      BY <3>1 DEF TInv, TypeOK, KeyPresent, Steps
  <2> QED
    BY <2>1, <2>2 DEF TInv
<1>12. ASSUME NEW s \in Sites, Redeploy(s)
       PROVE  TInv'
  <2>1. pending' \in [Sites -> BOOLEAN]
    BY <1>12 DEF Redeploy, TInv, TypeOK
  <2> QED
    BY <1>12, <2>1 DEF Redeploy, TInv, TypeOK, KeyPresent
<1>13. ASSUME ChangeSpec
       PROVE  TInv'
  <2>1. pending' \in [Sites -> BOOLEAN]
    BY <1>13 DEF ChangeSpec
  <2>2. status' \in [Sites -> Statuses]
    BY <1>13 DEF ChangeSpec, TInv, TypeOK, Statuses
  <2>3. changes' \in 0..MaxChanges
    BY <1>13, InstallAssumption DEF ChangeSpec, TInv, TypeOK
  <2> QED
    BY <1>13, <2>1, <2>2, <2>3 DEF ChangeSpec, TInv, TypeOK, KeyPresent, Statuses
<1>14. ASSUME UNCHANGED vars
       PROVE  TInv'
  BY <1>14 DEF TInv, TypeOK, KeyPresent
<1> QED
  BY <1>1, <1>2, <1>3, <1>4, <1>5, <1>6, <1>7, <1>8, <1>9, <1>10, <1>11,
     <1>12, <1>13, <1>14 DEF Next, Operator

\* Init satisfies it.
LEMMA TInvInit == Init => TInv
<1> SUFFICES ASSUME Init PROVE TInv
  OBVIOUS
<1>1. TypeOK
  BY InstallAssumption DEF Init, TypeOK, Clean, Update
<1>2. KeyPresent
  BY DEF Init, KeyPresent, Steps
<1> QED
  BY <1>1, <1>2 DEF TInv

\* The variables of the installation keep their types; in particular the pods
\* of a cluster are never started without a keyfile.
THEOREM InstallTypeCorrect == Spec => []TypeOK
<1>1. Spec => []TInv
  BY TInvInit, TInvStep, PTL DEF Spec
<1> QED
  BY <1>1, PTL DEF TInv

-----------------------------------------------------------------------------
(* One keyfile for both sites.  The standby is the only one to generate a    *)
(* keyfile, in a clean deployment, when it has none yet; the active site     *)
(* only ever gets the standby's.  So a keyfile on its way into a secret is   *)
(* the one the standby has, or the first one.                                *)

OneSite ==
    schema # DR => /\ pc[SiteB] = "idle" /\ key[SiteB] = NoKey
                   /\ ~pending[SiteB] /\ status[SiteB] = "new"

TwoSites ==
    schema = DR =>
        /\ key[SiteA] # NoKey => key[SiteA] = key[SiteB]
        /\ pc[SiteA] = "sslWrite" => fetched[SiteA] = key[SiteB]
        /\ pc[SiteB] = "sslWrite" /\ key[SiteB] # NoKey => fetched[SiteB] = key[SiteB]
        /\ pc[SiteB] \in {"pvc", "nodes", "cleanup", "ssl"} /\ deploy[SiteB] = Clean
             => key[SiteB] = NoKey
        /\ ~pvcs[SiteB] => key[SiteB] = NoKey
        /\ pc[SiteB] \in Steps \ {"pvc"} => pvcs[SiteB]

KInv == OneSite /\ TwoSites

\* A step that touches neither claims nor keyfiles keeps it.
LEMMA StepKInv ==
    ASSUME TInv, KInv, NEW s \in Sites, Step(s),
           pc[s] \notin {"pvc", "ssl", "sslWrite"}, UNCHANGED <<pvcs, key, fetched>>
    PROVE  KInv'
<1>1. /\ pc'[s] = "idle" \/ pc'[s] = StepAfter[pc[s]]
      /\ \A x \in Sites : x # s => pc'[x] = pc[x] /\ status'[x] = status[x]
      /\ pc[s] \in Steps \ {"finish"}
      /\ UNCHANGED <<schema, pending, deploy>>
  BY GoOnFacts, AbortFacts DEF Step, TInv
<1>2. SiteA \in Sites /\ SiteB \in Sites /\ SiteA # SiteB /\ "idle" \notin Steps
  BY InstallAssumption DEF Sites, Steps
<1>3. /\ pc'[s] # "sslWrite" /\ pc'[s] # "pvc"
      /\ pc'[s] \in {"nodes", "cleanup", "ssl"} => pc[s] \in {"nodes", "cleanup"}
      /\ pc[s] \in Steps \ {"pvc"}
  BY <1>1, <1>2, StepAfterFacts
<1>4. OneSite'
  BY <1>1, <1>2 DEF KInv, OneSite
<1>5. TwoSites'
  BY <1>1, <1>2, <1>3 DEF KInv, TwoSites
<1> QED
  BY <1>4, <1>5 DEF KInv

\* Every step keeps it.
LEMMA KInvStep ==
    ASSUME TInv, KInv, [Next]_vars
    PROVE  KInv'
<1> USE DEF vars, siteVars, mongoVars
<1>0. /\ SiteA \in Sites /\ SiteB \in Sites /\ SiteA # SiteB /\ "idle" \notin Steps
      /\ NoKey \notin Keys
      /\ pc \in [Sites -> Steps \cup {"idle"}] /\ deploy \in [Sites -> {Clean, Update}]
      /\ pvcs \in [Sites -> BOOLEAN] /\ key \in [Sites -> Keys \cup {NoKey}]
      /\ fetched \in [Sites -> Keys \cup {NoKey}]
      /\ pending \in [Sites -> BOOLEAN] /\ status \in [Sites -> Statuses]
  BY InstallAssumption DEF Sites, Steps, TInv, TypeOK, Statuses
<1>1. ASSUME NEW s \in Sites, StartReconcile(s)
      PROVE  KInv'
  <2>1. OneSite'
    BY <1>0, <1>1 DEF StartReconcile, KInv, OneSite
  <2>2. TwoSites'
    <3> SUFFICES ASSUME schema' = DR PROVE TwoSites'
      BY DEF TwoSites
    <3>1. /\ schema = DR /\ UNCHANGED <<pvcs, key>>
          /\ pc'[s] = "pvc" /\ deploy'[s] = DeployType(s)
          /\ \A x \in Sites : x # s => /\ pc'[x] = pc[x] /\ deploy'[x] = deploy[x]
                                       /\ fetched'[x] = fetched[x]
      BY <1>0, <1>1 DEF StartReconcile
    <3>2. DeployType(s) = Clean => ~pvcs[s]
      BY DEF DeployType, Clean, Update
    <3> QED
      BY <1>0, <3>1, <3>2 DEF KInv, TwoSites
  <2> QED
    BY <2>1, <2>2 DEF KInv
<1>2. ASSUME NEW s \in Sites, SkipStep(s)
      PROVE  KInv'
  <2>1. Step(s) /\ pc[s] \notin {"pvc", "ssl", "sslWrite"}
    BY <1>2, IsStep DEF SkipStep, Condition
  <2> QED
    BY <1>2, <2>1, StepKInv DEF SkipStep
<1>3. ASSUME NEW s \in Sites, CreatePVC(s)
      PROVE  KInv'
  <2>1. Step(s) /\ pc[s] = "pvc"
    BY <1>3, IsStep
  <2>2. /\ pc'[s] = "idle" \/ (pc'[s] = "nodes" /\ pvcs'[s])
        /\ \A x \in Sites : x # s => pc'[x] = pc[x] /\ status'[x] = status[x]
        /\ \A x \in Sites : pvcs[x] => pvcs'[x]
        /\ UNCHANGED <<schema, pending, deploy, key, fetched>>
    <3>1. StepAfter["pvc"] = "nodes"
      BY DEF StepAfter
    <3>2. CASE GoOn(s) /\ pvcs' = [pvcs EXCEPT ![s] = TRUE]
      BY <1>0, <1>3, <2>1, <3>1, <3>2, GoOnFacts DEF CreatePVC, Step, TInv
    <3>3. CASE Abort(s) /\ pvcs' \in {pvcs, [pvcs EXCEPT ![s] = TRUE]}
      BY <1>0, <1>3, <3>3, AbortFacts DEF CreatePVC, TInv
    <3> QED
      BY <1>3, <3>2, <3>3 DEF CreatePVC
  <2>3. OneSite'
    BY <1>0, <2>1, <2>2 DEF KInv, OneSite, Step
  <2>4. TwoSites'
    BY <1>0, <2>1, <2>2 DEF KInv, TwoSites
  <2> QED
    BY <2>3, <2>4 DEF KInv
<1>4. ASSUME NEW s \in Sites, GetKeyFile(s)
      PROVE  KInv'
  <2>1. Step(s) /\ pc[s] = "ssl"
    BY <1>4, IsStep
  <2>2. /\ \A x \in Sites : x # s => /\ pc'[x] = pc[x] /\ status'[x] = status[x]
                                     /\ fetched'[x] = fetched[x]
        /\ UNCHANGED <<schema, pending, deploy, key, pvcs>>
    <3>1. \A x \in Sites : x # s => pc'[x] = pc[x] /\ status'[x] = status[x]
      BY <2>1, GoOnFacts, AbortFacts DEF Step, TInv
    <3> QED
      BY <1>0, <1>4, <3>1 DEF GetKeyFile, NoAnswer, Generate
  <2>3. OneSite'
    BY <1>0, <2>1, <2>2 DEF KInv, OneSite
  <2>4. \/ pc'[s] = "idle"
        \/ /\ pc'[s] = "sslWrite"
           /\ schema = DR => \/ /\ key[Other(s)] # NoKey
                                /\ fetched'[s] = key[Other(s)]
                             \/ s = SiteB /\ deploy[s] = Clean
    <3>1. GoOn(s) => pc'[s] = "sslWrite"
      BY <2>1, GoOnFacts, StepAfterFacts DEF Step, TInv
    <3>2. Abort(s) => pc'[s] = "idle"
      BY AbortFacts DEF TInv
    <3>3. MayGenerate(s) => s = SiteB /\ deploy[s] = Clean
      BY DEF MayGenerate, IsActive, Sites
    <3> QED
      BY <1>0, <1>4, <3>1, <3>2, <3>3 DEF GetKeyFile, NoAnswer, Generate
  <2>5. TwoSites'
    <3> SUFFICES ASSUME schema = DR PROVE TwoSites'
      BY <2>2 DEF TwoSites
    <3>1. CASE s = SiteA
      <4>1. Other(s) = SiteB
        BY <3>1 DEF Other
      <4> QED
        BY <1>0, <2>2, <2>4, <3>1, <4>1 DEF KInv, TwoSites
    <3>2. CASE s = SiteB
      <4>1. Other(s) = SiteA
        BY <1>0, <3>2 DEF Other
      <4>2. pc'[SiteB] = "sslWrite" /\ key[SiteB] # NoKey => fetched'[SiteB] = key[SiteB]
        BY <1>0, <2>1, <2>4, <3>2, <4>1 DEF KInv, TwoSites
      <4> QED
        BY <1>0, <2>1, <2>2, <2>4, <3>2, <4>2 DEF KInv, TwoSites
    <3> QED
      BY <3>1, <3>2 DEF Sites
  <2> QED
    BY <2>3, <2>5 DEF KInv
<1>5. ASSUME NEW s \in Sites, WriteKey(s)
      PROVE  KInv'
  <2>1. Step(s) /\ pc[s] = "sslWrite" /\ fetched[s] \in Keys
    BY <1>5, IsStep DEF TInv, KeyPresent
  <2>2. /\ \A x \in Sites : x # s => pc'[x] = pc[x] /\ status'[x] = status[x]
        /\ pc'[s] \in {"idle", "cnf"}
        /\ UNCHANGED <<schema, pending, deploy, fetched, pvcs>>
    <3>1. StepAfter["sslWrite"] = "cnf"
      BY DEF StepAfter
    <3> QED
      BY <1>5, <2>1, <3>1, GoOnFacts, AbortFacts DEF WriteKey, Step, TInv
  <2>3. /\ key'[s] = key[s] \/ key'[s] = fetched[s]
        /\ \A x \in Sites : x # s => key'[x] = key[x]
    BY <1>0, <1>5 DEF WriteKey
  <2>4. OneSite'
    BY <1>0, <2>1, <2>2, <2>3 DEF KInv, OneSite
  <2>5. TwoSites'
    <3> SUFFICES ASSUME schema = DR PROVE TwoSites'
      BY <2>2 DEF TwoSites
    <3>1. CASE s = SiteA
      BY <1>0, <2>1, <2>2, <2>3, <3>1 DEF KInv, TwoSites
    <3>2. CASE s = SiteB
      <4>1. pvcs[SiteB]
        BY <2>1, <3>2 DEF KInv, TwoSites, Steps
      <4>2. key[SiteB] # NoKey => key'[SiteB] = key[SiteB]
        BY <2>1, <2>3, <3>2 DEF KInv, TwoSites
      <4>3. pc[SiteA] = "sslWrite" => fetched[SiteA] \in Keys
        BY <1>0 DEF TInv, KeyPresent
      <4> QED
        BY <1>0, <2>1, <2>2, <2>3, <3>2, <4>1, <4>2, <4>3 DEF KInv, TwoSites
    <3> QED
      BY <3>1, <3>2 DEF Sites
  <2> QED
    BY <2>4, <2>5 DEF KInv
<1>6. ASSUME NEW s \in Sites,
             \/ StoreNodes(s) \/ Cleanup(s) \/ CreateCNF(s) \/ InitCNF(s) \/ CreateData(s)
             \/ InitData(s) \/ CreateMongos(s) \/ RegisterShards(s) \/ AddUser(s)
             \/ SetFCV(s) \/ RenameMemberDomain(s) \/ AddCNFReplicas(s) \/ AddDATAReplicas(s)
      PROVE  KInv'
  <2>1. Step(s) /\ pc[s] \notin {"pvc", "ssl", "sslWrite"}
    BY <1>6, IsStep
  <2>2. UNCHANGED <<pvcs, key, fetched>>
    BY <1>6 DEF StoreNodes, Cleanup, CreateCNF, InitCNF, CreateData, InitData,
       CreateMongos, RegisterShards, AddUser, SetFCV, RenameMemberDomain,
       AddCNFReplicas, AddDATAReplicas, AddReplicas
  <2> QED
    BY <2>1, <2>2, StepKInv
<1>7. ASSUME NEW s \in Sites, Finish(s) \/ Crash(s)
      PROVE  KInv'
  <2>1. /\ pc[s] # "idle" /\ pc' = [pc EXCEPT ![s] = "idle"]
        /\ UNCHANGED <<schema, deploy, fetched, pvcs, key>>
        /\ \A x \in Sites : x # s => status'[x] = status[x] /\ pending'[x] = pending[x]
    BY <1>0, <1>7 DEF Finish, Crash
  <2> QED
    BY <1>0, <2>1 DEF KInv, OneSite, TwoSites
<1>8. ASSUME NEW s \in Sites, Redeploy(s)
      PROVE  KInv'
  <2>1. /\ status[s] = "failed" /\ UNCHANGED <<schema, status, pc, deploy, fetched, pvcs, key>>
        /\ \A x \in Sites : x # s => pending'[x] = pending[x]
    BY <1>0, <1>8 DEF Redeploy
  <2> QED
    BY <1>0, <2>1 DEF KInv, OneSite, TwoSites
<1>9. ASSUME ChangeSpec
      PROVE  KInv'
  <2>1. schema # DR => UNCHANGED status[SiteB] /\ ~pending'[SiteB]
    BY <1>0, <1>9 DEF ChangeSpec, Installed
  <2> QED
    BY <1>0, <1>9, <2>1 DEF ChangeSpec, KInv, OneSite, TwoSites
<1>10. ASSUME UNCHANGED vars
       PROVE  KInv'
  BY <1>10 DEF KInv, OneSite, TwoSites
<1> QED
  BY <1>1, <1>2, <1>3, <1>4, <1>5, <1>6, <1>7, <1>8, <1>9, <1>10 DEF Next, Operator

\* The two sites never hold different keyfiles (CreateSSLSecretStep), for any
\* number of failing calls, killed operators and updates.
THEOREM KeysAgreeAlways == Spec => []KeysAgree
<1>1. Init => KInv
  BY InstallAssumption DEF Init, KInv, OneSite, TwoSites, Sites, Installed, Steps
<1>2. Spec => [](TInv /\ KInv)
  BY <1>1, TInvInit, TInvStep, KInvStep, PTL DEF Spec
<1>3. KInv => KeysAgree
  BY DEF KInv, OneSite, TwoSites, KeysAgree
<1> QED
  BY <1>2, <1>3, PTL

-----------------------------------------------------------------------------
(* One keyfile for the pods of a site.  Every part is restarted after the    *)
(* secret is written and before the compound is through, and the secret is   *)
(* not written again before the next compound has left "done".               *)

AfterCnf    == Steps \ (BeforeKey \cup {"cnf"})
AfterData   == AfterCnf \ {"initCnf", "data"}
AfterMongos == AfterData \ {"initData", "mongos"}

\* The steps behind a site; all of them when it reports success.
Past(s, sts) == status[s] = "done" \/ pc[s] \in sts

HInv == \A s \in Sites :
    /\ pc[s] # "idle" => status[s] = "running"
    /\ Sharded /\ Past(s, AfterCnf) => held[s][Cnf] \subseteq {key[s]}
    /\ Past(s, AfterData) => \A p \in Shards : held[s][p] \subseteq {key[s]}
    /\ Past(s, AfterMongos) => held[s][Router] \subseteq {key[s]}
    /\ ~Sharded => held[s][Router] = {}

LEMMA AfterFacts ==
    ASSUME NEW st \in Steps \ {"finish"}
    PROVE  /\ StepAfter[st] \in AfterCnf <=> st \in AfterCnf \cup {"cnf"}
           /\ StepAfter[st] \in AfterData <=> st \in AfterData \cup {"data"}
           /\ StepAfter[st] \in AfterMongos <=> st \in AfterMongos \cup {"mongos"}
BY DEF StepAfter, Steps, BeforeKey, AfterCnf, AfterData, AfterMongos

LEMMA PartFacts ==
    /\ Cnf \in Parts /\ Shards \subseteq Parts /\ Router \in Parts
    /\ Cnf \notin Shards /\ Router \notin Shards /\ Router # Cnf
BY InstallAssumption DEF Cnf, Shards, Router, Parts

\* What a step of site s means for its place, and for the other site.
LEMMA PlaceFacts ==
    ASSUME TInv, HInv, NEW s \in Sites, Step(s)
    PROVE  /\ pc[s] # "idle" /\ status[s] = "running" /\ pc[s] \in Steps \ {"finish"}
           /\ \/ pc'[s] = "idle" /\ status'[s] = "failed" /\ Abort(s)
              \/ pc'[s] = StepAfter[pc[s]] /\ status'[s] = "running" /\ GoOn(s)
           /\ \A x \in Sites : x # s => pc'[x] = pc[x] /\ status'[x] = status[x]
<1>1. pc[s] # "idle" /\ pc[s] \in Steps \ {"finish"}
  BY DEF Step, Steps
<1>2. status[s] = "running"
  BY <1>1 DEF HInv
<1> QED
  BY <1>1, <1>2, GoOnFacts, AbortFacts DEF Step, TInv

\* Steps before the secret is written, and those that leave the pods alone.
LEMMA EarlyHInv ==
    ASSUME TInv, HInv, NEW s \in Sites, Step(s), pc[s] \in BeforeKey,
           \A x \in Sites : x # s => held'[x] = held[x] /\ key'[x] = key[x],
           ~Sharded => held'[s][Router] = held[s][Router]
    PROVE  HInv'
<1>1. pc'[s] \notin AfterCnf /\ pc'[s] \notin AfterData /\ pc'[s] \notin AfterMongos
  BY PlaceFacts, AfterFacts DEF BeforeKey, AfterCnf, AfterData, AfterMongos, Steps
<1> SUFFICES ASSUME NEW x \in Sites
             PROVE  /\ pc'[x] # "idle" => status'[x] = "running"
                    /\ Sharded /\ Past(x, AfterCnf)' => held'[x][Cnf] \subseteq {key'[x]}
                    /\ Past(x, AfterData)' => \A p \in Shards : held'[x][p] \subseteq {key'[x]}
                    /\ Past(x, AfterMongos)' => held'[x][Router] \subseteq {key'[x]}
                    /\ ~Sharded => held'[x][Router] = {}
  BY DEF HInv
<1>2. CASE x = s
  BY <1>1, <1>2, PlaceFacts DEF Past, HInv
<1>3. CASE x # s
  BY <1>3, PlaceFacts DEF Past, HInv
<1> QED
  BY <1>2, <1>3

LEMMA SameHInv ==
    ASSUME TInv, HInv, NEW s \in Sites, Step(s), UNCHANGED <<held, key>>,
           pc[s] # "data", pc[s] \in {"cnf", "mongos"} => ~Sharded
    PROVE  HInv'
<1> SUFFICES ASSUME NEW x \in Sites
             PROVE  /\ pc'[x] # "idle" => status'[x] = "running"
                    /\ Sharded /\ Past(x, AfterCnf)' => held'[x][Cnf] \subseteq {key'[x]}
                    /\ Past(x, AfterData)' => \A p \in Shards : held'[x][p] \subseteq {key'[x]}
                    /\ Past(x, AfterMongos)' => held'[x][Router] \subseteq {key'[x]}
                    /\ ~Sharded => held'[x][Router] = {}
  BY DEF HInv
<1>1. CASE x = s
  <2>1. "idle" \notin AfterCnf /\ "idle" \notin AfterData /\ "idle" \notin AfterMongos
    BY DEF AfterCnf, AfterData, AfterMongos, Steps
  <2> QED
    BY <1>1, <2>1, PlaceFacts, AfterFacts DEF Past, HInv
<1>2. CASE x # s
  BY <1>2, PlaceFacts DEF Past, HInv
<1> QED
  BY <1>1, <1>2

\* The restart of a part: the site is at it, and puts the parts in ps on the
\* keyfile of the secret if it goes on.
LEMMA RestartHInv ==
    ASSUME TInv, HInv, NEW s \in Sites, Step(s), UNCHANGED key, NEW ps,
           \/ pc[s] = "cnf" /\ ps = {Cnf}
           \/ pc[s] = "data" /\ ps = Shards
           \/ pc[s] = "mongos" /\ ps = {Router},
           GoOn(s) => \A p \in ps : held'[s][p] \subseteq {key[s]},
           \A p \in Parts \ ps : held'[s][p] = held[s][p],
           \A x \in Sites : x # s => held'[x] = held[x],
           pc[s] = "mongos" => Sharded
    PROVE  HInv'
<1> SUFFICES ASSUME NEW x \in Sites
             PROVE  /\ pc'[x] # "idle" => status'[x] = "running"
                    /\ Sharded /\ Past(x, AfterCnf)' => held'[x][Cnf] \subseteq {key'[x]}
                    /\ Past(x, AfterData)' => \A p \in Shards : held'[x][p] \subseteq {key'[x]}
                    /\ Past(x, AfterMongos)' => held'[x][Router] \subseteq {key'[x]}
                    /\ ~Sharded => held'[x][Router] = {}
  BY DEF HInv
<1>0. "idle" \notin AfterCnf /\ "idle" \notin AfterData /\ "idle" \notin AfterMongos
  BY DEF AfterCnf, AfterData, AfterMongos, Steps
<1>1. CASE x = s /\ pc[s] = "cnf"
  <2>1. ps = {Cnf} /\ StepAfter["cnf"] = "initCnf"
        /\ "initCnf" \notin AfterData /\ "initCnf" \notin AfterMongos
    BY <1>1 DEF StepAfter, AfterData, AfterMongos
  <2> QED
    BY <1>0, <1>1, <2>1, PlaceFacts, PartFacts DEF Past, HInv
<1>2. CASE x = s /\ pc[s] = "data"
  <2>1. ps = Shards /\ StepAfter["data"] = "initData" /\ "initData" \notin AfterMongos
        /\ "data" \in AfterCnf
    BY <1>2 DEF StepAfter, AfterMongos, AfterCnf, Steps, BeforeKey
  <2> QED
    BY <1>0, <1>2, <2>1, PlaceFacts, PartFacts DEF Past, HInv
<1>3. CASE x = s /\ pc[s] = "mongos"
  <2>1. ps = {Router} /\ "mongos" \in AfterCnf /\ "mongos" \in AfterData
    BY <1>3 DEF AfterCnf, AfterData, Steps, BeforeKey
  <2> QED
    BY <1>0, <1>3, <2>1, PlaceFacts, PartFacts DEF Past, HInv
<1>4. CASE x # s
  BY <1>4, PlaceFacts DEF Past, HInv
<1> QED
  BY <1>1, <1>2, <1>3, <1>4

\* Every step keeps it.
LEMMA HInvStep == ASSUME TInv, HInv, [Next]_vars PROVE HInv'
<1> USE DEF vars, siteVars, mongoVars
<1>0. /\ pc \in [Sites -> Steps \cup {"idle"}] /\ status \in [Sites -> Statuses]
      /\ key \in [Sites -> Keys \cup {NoKey}] /\ held \in [Sites -> [Parts -> SUBSET Keys]]
      /\ "idle" \notin Steps /\ "pvc" \in Steps
  BY DEF TInv, TypeOK, Statuses, Steps
<1>1. ASSUME NEW s \in Sites, StartReconcile(s) PROVE HInv'
  <2>1. /\ pc'[s] = "pvc" /\ status'[s] = "running" /\ UNCHANGED <<held, key>>
        /\ \A x \in Sites : x # s => pc'[x] = pc[x] /\ status'[x] = status[x]
    BY <1>0, <1>1 DEF StartReconcile
  <2>2. "pvc" \notin AfterCnf /\ "pvc" \notin AfterData /\ "pvc" \notin AfterMongos
    BY DEF AfterCnf, AfterData, AfterMongos, BeforeKey
  <2> QED
    BY <2>1, <2>2 DEF HInv, Past
<1>2. ASSUME NEW s \in Sites, SkipStep(s) PROVE HInv'
  <2>1. Step(s) /\ pc[s] # "data" /\ (pc[s] \in {"cnf", "mongos"} => ~Sharded)
    BY <1>2, IsStep DEF SkipStep, Condition
  <2> QED
    BY <1>2, <2>1, SameHInv DEF SkipStep
<1>3. ASSUME NEW s \in Sites, CreatePVC(s) \/ StoreNodes(s) \/ GetKeyFile(s) \/ WriteKey(s)
      PROVE  HInv'
  <2>1. Step(s) /\ pc[s] \in BeforeKey
    BY <1>3, IsStep DEF BeforeKey
  <2>2. held' = held /\ \A x \in Sites : x # s => key'[x] = key[x]
    BY <1>0, <1>3 DEF CreatePVC, StoreNodes, GetKeyFile, WriteKey
  <2> QED
    BY <2>1, <2>2, EarlyHInv
<1>4. ASSUME NEW s \in Sites, Cleanup(s) PROVE HInv'
  <2>1. Step(s) /\ pc[s] \in BeforeKey /\ UNCHANGED key
    BY <1>4, IsStep DEF BeforeKey, Cleanup
  <2>2. \A x \in Sites : x # s => held'[x] = held[x]
    BY <1>0, <1>4 DEF Cleanup, Deleted
  <2>3. ~Sharded => held'[s][Router] = held[s][Router]
    BY <1>0, <1>4, PartFacts DEF Cleanup, Deleted
  <2> QED
    BY <2>1, <2>2, <2>3, EarlyHInv
<1>5. ASSUME NEW s \in Sites,
             \/ InitCNF(s) \/ InitData(s) \/ RegisterShards(s) \/ AddUser(s) \/ SetFCV(s)
             \/ RenameMemberDomain(s) \/ AddCNFReplicas(s) \/ AddDATAReplicas(s)
      PROVE  HInv'
  <2>1. Step(s) /\ pc[s] \notin {"cnf", "data", "mongos"}
    BY <1>5, IsStep
  <2>2. UNCHANGED <<held, key>>
    BY <1>5 DEF InitCNF, InitData, RegisterShards, AddUser, SetFCV, RenameMemberDomain,
       AddCNFReplicas, AddDATAReplicas, AddReplicas
  <2> QED
    BY <2>1, <2>2, SameHInv
<1>6. ASSUME NEW s \in Sites, CreateCNF(s) PROVE HInv'
  <2>1. Step(s) /\ pc[s] = "cnf" /\ UNCHANGED key
    BY <1>6, IsStep DEF CreateCNF
  <2>2. ~(GoOn(s) /\ Abort(s))
    BY <2>1, GoOnFacts, AbortFacts, StepAfterFacts DEF TInv, Step
  <2>3. Restarted(s, {Cnf}) \/ (HalfRestarted(s, {}, Cnf) /\ Abort(s))
    BY <1>6 DEF CreateCNF
  <2>4. /\ \A x \in Sites : x # s => held'[x] = held[x]
        /\ \A p \in Parts \ {Cnf} : held'[s][p] = held[s][p]
    BY <1>0, <2>3 DEF Restarted, HalfRestarted
  <2>5. GoOn(s) => held'[s][Cnf] = {key[s]}
    BY <1>0, <2>2, <2>3, PartFacts DEF Restarted
  <2>6. PICK ps : ps = {Cnf}
    OBVIOUS
  <2>7. /\ GoOn(s) => \A p \in ps : held'[s][p] \subseteq {key[s]}
        /\ \A p \in Parts \ ps : held'[s][p] = held[s][p]
    BY <2>4, <2>5, <2>6
  <2> QED
    BY <2>1, <2>4, <2>6, <2>7, RestartHInv
<1>7. ASSUME NEW s \in Sites, CreateData(s) PROVE HInv'
  <2>1. Step(s) /\ pc[s] = "data" /\ UNCHANGED key
    BY <1>7, IsStep DEF CreateData
  <2>2. ~(GoOn(s) /\ Abort(s))
    BY <2>1, GoOnFacts, AbortFacts, StepAfterFacts DEF TInv, Step
  <2>3. \/ Restarted(s, Shards)
        \/ \E d \in Shards : HalfRestarted(s, FirstShards(d - 1), d) /\ Abort(s)
    BY <1>7 DEF CreateData
  <2>4. \A d \in Shards : FirstShards(d - 1) \subseteq Shards
    BY InstallAssumption DEF FirstShards, Shards
  <2>5. /\ \A x \in Sites : x # s => held'[x] = held[x]
        /\ \A p \in Parts \ Shards : held'[s][p] = held[s][p]
    <3>1. CASE Restarted(s, Shards)
      BY <1>0, <3>1 DEF Restarted
    <3>2. ASSUME NEW d \in Shards, HalfRestarted(s, FirstShards(d - 1), d)
          PROVE  /\ \A x \in Sites : x # s => held'[x] = held[x]
                 /\ \A p \in Parts \ Shards : held'[s][p] = held[s][p]
      BY <1>0, <2>4, <3>2 DEF HalfRestarted
    <3> QED
      BY <2>3, <3>1, <3>2
  <2>6. GoOn(s) => \A p \in Shards : held'[s][p] = {key[s]}
    BY <1>0, <2>2, <2>3, PartFacts DEF Restarted
  <2> QED
    BY <2>1, <2>5, <2>6, RestartHInv
<1>8. ASSUME NEW s \in Sites, CreateMongos(s) PROVE HInv'
  <2>1. Step(s) /\ pc[s] = "mongos" /\ UNCHANGED key /\ Sharded
    BY <1>8, IsStep DEF CreateMongos, At, Condition
  <2>2. ~(GoOn(s) /\ Abort(s))
    BY <2>1, GoOnFacts, AbortFacts, StepAfterFacts DEF TInv, Step
  <2>3. /\ \E ks : held' = held \/ held' = [held EXCEPT ![s][Router] = ks]
        /\ GoOn(s) => held' = [held EXCEPT ![s][Router] = RouterPods(s)]
    BY <1>8, <2>2 DEF CreateMongos
  <2>4. /\ \A x \in Sites : x # s => held'[x] = held[x]
        /\ \A p \in Parts \ {Router} : held'[s][p] = held[s][p]
    BY <1>0, <2>3
  <2>5. GoOn(s) => held'[s][Router] = RouterPods(s)
    BY <1>0, <2>3, PartFacts
  <2>6. PICK ps : ps = {Router}
    OBVIOUS
  <2>7. /\ GoOn(s) => \A p \in ps : held'[s][p] \subseteq {key[s]}
        /\ \A p \in Parts \ ps : held'[s][p] = held[s][p]
    BY <2>4, <2>5, <2>6 DEF RouterPods
  <2> QED
    BY <2>1, <2>4, <2>6, <2>7, RestartHInv
<1>9. ASSUME NEW s \in Sites, Finish(s) PROVE HInv'
  <2>1. /\ pc[s] = "finish" /\ pc'[s] = "idle" /\ UNCHANGED <<held, key>>
        /\ \A x \in Sites : x # s => pc'[x] = pc[x] /\ status'[x] = status[x]
    BY <1>0, <1>9 DEF Finish
  <2>2. "finish" \in AfterCnf /\ "finish" \in AfterData /\ "finish" \in AfterMongos
    BY DEF AfterCnf, AfterData, AfterMongos, Steps, BeforeKey
  <2> QED
    BY <2>1, <2>2 DEF HInv, Past
<1>10. ASSUME NEW s \in Sites, Crash(s) PROVE HInv'
  <2>1. /\ pc[s] # "idle" /\ pc'[s] = "idle" /\ UNCHANGED <<held, key, status>>
        /\ \A x \in Sites : x # s => pc'[x] = pc[x]
    BY <1>0, <1>10 DEF Crash
  <2>2. "idle" \notin AfterCnf /\ "idle" \notin AfterData /\ "idle" \notin AfterMongos
    BY DEF AfterCnf, AfterData, AfterMongos, Steps
  <2> QED
    BY <2>1, <2>2 DEF HInv, Past
<1>11. ASSUME NEW s \in Sites, Redeploy(s) PROVE HInv'
  BY <1>11 DEF Redeploy, HInv, Past
<1>12. ASSUME ChangeSpec PROVE HInv'
  <2>1. \A x \in Sites : \/ status'[x] = status[x]
                         \/ status[x] = "done" /\ status'[x] = "new"
    BY <1>12 DEF ChangeSpec
  <2>2. UNCHANGED <<pc, held, key>>
    BY <1>12 DEF ChangeSpec
  <2> QED
    BY <2>1, <2>2 DEF HInv, Past
<1>13. ASSUME UNCHANGED vars PROVE HInv'
  BY <1>13 DEF HInv, Past
<1> QED
  BY <1>1, <1>2, <1>3, <1>4, <1>5, <1>6, <1>7, <1>8, <1>9, <1>10, <1>11, <1>12, <1>13
     DEF Next, Operator

LEMMA HInvInit == Init => HInv
<1> SUFFICES ASSUME Init PROVE HInv
  OBVIOUS
<1>1. \A s \in Sites : \A p \in Parts : held[s][p] = {}
  BY DEF Init
<1>2. \A s \in Sites : pc[s] = "idle" /\ status[s] = "new"
  BY DEF Init
<1> QED
  BY <1>1, <1>2, PartFacts DEF HInv, Past, AfterCnf, AfterData, AfterMongos, Steps

\* A deployment that reports success has all its pods on the keyfile of its
\* secret, also when attempts before it were cut off between two parts.
THEOREM DoneSharesKeyAlways == Spec => []DoneSharesKey
<1>1. Spec => [](TInv /\ HInv)
  BY TInvInit, TInvStep, HInvInit, HInvStep, PTL DEF Spec
<1>2. HInv => DoneSharesKey
  BY DEF HInv, Past, DoneSharesKey, RS
<1> QED
  BY <1>1, <1>2, PTL

-----------------------------------------------------------------------------
(* A working cluster.  The root user is only created by a clean deployment   *)
(* that has initiated every set and registered the last shard before; an     *)
(* update that finds the user in fcv relies on that, and one that does not   *)
(* find it stops there.                                                      *)

AfterInitCnf  == AfterData \cup {"data"}
AfterInitData == AfterMongos \cup {"mongos"}
AfterRegister == AfterMongos \ {"register"}
AfterFcv      == {"rename", "addCnf", "addData", "finish"}
AfterAddCnf   == {"addData", "finish"}

IInv ==
    /\ root # {} => RS \subseteq initiated /\ (Sharded => ShardCount \in registered)
    /\ deploy[SiteA] = Clean =>
         /\ Sharded /\ pc[SiteA] \in AfterInitCnf => Cnf \in initiated
         /\ pc[SiteA] \in AfterInitData => Shards \subseteq initiated
         /\ Sharded /\ pc[SiteA] \in AfterRegister => ShardCount \in registered
    /\ Past(SiteA, AfterFcv) => 1 \in root
    /\ schema = DR =>
         /\ Sharded /\ Past(SiteA, AfterAddCnf) => Cnf \in root /\ Cnf \in joined
         /\ Past(SiteA, {"finish"}) => Shards \subseteq root /\ Shards \subseteq joined

LEMMA AfterFacts2 ==
    ASSUME NEW st \in Steps \ {"finish"}
    PROVE  /\ StepAfter[st] \in AfterInitCnf <=> st \in AfterInitCnf \cup {"initCnf"}
           /\ StepAfter[st] \in AfterInitData <=> st \in AfterInitData \cup {"initData"}
           /\ StepAfter[st] \in AfterRegister <=> st \in AfterRegister \cup {"register"}
           /\ StepAfter[st] \in AfterFcv <=> st \in AfterFcv \cup {"fcv"}
           /\ StepAfter[st] \in AfterAddCnf <=> st \in AfterAddCnf \cup {"addCnf"}
           /\ StepAfter[st] = "finish" <=> st = "addData"
BY DEF StepAfter, Steps, BeforeKey, AfterCnf, AfterData, AfterMongos, AfterInitCnf,
       AfterInitData, AfterRegister, AfterFcv, AfterAddCnf

LEMMA NotIdle ==
    /\ "idle" \notin AfterInitCnf /\ "idle" \notin AfterInitData /\ "idle" \notin AfterRegister
    /\ "idle" \notin AfterFcv /\ "idle" \notin AfterAddCnf
    /\ "pvc" \notin AfterInitCnf /\ "pvc" \notin AfterInitData /\ "pvc" \notin AfterRegister
    /\ "pvc" \notin AfterFcv /\ "pvc" \notin AfterAddCnf
BY DEF Steps, BeforeKey, AfterCnf, AfterData, AfterMongos, AfterInitCnf,
       AfterInitData, AfterRegister, AfterFcv, AfterAddCnf

\* What a site that goes on has to have done.
Earned ==
    /\ deploy[SiteA] = Clean =>
         /\ Sharded /\ pc[SiteA] = "initCnf" => Cnf \in initiated'
         /\ pc[SiteA] = "initData" => Shards \subseteq initiated'
         /\ Sharded /\ pc[SiteA] = "register" => ShardCount \in registered'
    /\ pc[SiteA] = "fcv" => 1 \in root'
    /\ schema = DR =>
         /\ Sharded /\ pc[SiteA] = "addCnf" => Cnf \in root' /\ Cnf \in joined'
         /\ pc[SiteA] = "addData" => Shards \subseteq root' /\ Shards \subseteq joined'

\* Nothing is taken back.
Grows ==
    /\ initiated \subseteq initiated' /\ root \subseteq root'
    /\ registered \subseteq registered' /\ joined \subseteq joined'

LEMMA StepIInv ==
    ASSUME TInv, HInv, IInv, NEW s \in Sites, Step(s), Grows,
           root' # {} => RS \subseteq initiated' /\ (Sharded => ShardCount \in registered'),
           s = SiteA /\ GoOn(s) => Earned
    PROVE  IInv'
<1>0. SiteA \in Sites /\ UNCHANGED <<schema, deploy>>
  BY DEF Sites, Step
<1>1. CASE s # SiteA
  <2>1. pc'[SiteA] = pc[SiteA] /\ status'[SiteA] = status[SiteA]
    BY <1>0, <1>1, PlaceFacts
  <2> QED
    BY <1>0, <2>1 DEF IInv, Past, Grows
<1>2. CASE s = SiteA /\ pc'[s] = "idle" /\ status'[s] = "failed"
  BY <1>0, <1>2, NotIdle DEF IInv, Past, Grows
<1>3. CASE s = SiteA /\ pc'[s] = StepAfter[pc[s]] /\ status'[s] = "running" /\ GoOn(s)
  <2>1. pc[s] \in Steps \ {"finish"} /\ Earned
    BY <1>3 DEF Step
  <2>2. deploy[SiteA] = Clean =>
         /\ Sharded /\ pc'[SiteA] \in AfterInitCnf => Cnf \in initiated'
         /\ pc'[SiteA] \in AfterInitData => Shards \subseteq initiated'
         /\ Sharded /\ pc'[SiteA] \in AfterRegister => ShardCount \in registered'
    BY <1>3, <2>1, AfterFacts2 DEF IInv, Earned, Grows
  <2>3. Past(SiteA, AfterFcv)' => 1 \in root'
    BY <1>3, <2>1, AfterFacts2 DEF IInv, Earned, Grows, Past
  <2>4. schema = DR =>
         /\ Sharded /\ Past(SiteA, AfterAddCnf)' => Cnf \in root' /\ Cnf \in joined'
         /\ Past(SiteA, {"finish"})' => Shards \subseteq root' /\ Shards \subseteq joined'
    BY <1>3, <2>1, AfterFacts2 DEF IInv, Earned, Grows, Past
  <2> QED
    BY <1>0, <2>2, <2>3, <2>4 DEF IInv
<1> QED
  BY <1>1, <1>2, <1>3, PlaceFacts

\* Steps on the claims, the keyfile and the pods earn nothing.
LEMMA OtherIInv ==
    ASSUME TInv, HInv, IInv, NEW s \in Sites, Step(s),
           UNCHANGED <<initiated, root, registered, joined>>,
           s = SiteA /\ GoOn(s) => Earned
    PROVE  IInv'
BY StepIInv DEF Grows, IInv

\* Every step keeps it.
LEMMA IInvStep == ASSUME TInv, HInv, IInv, [Next]_vars PROVE IInv'
<1> USE DEF vars, siteVars, mongoVars
<1>0. /\ pc \in [Sites -> Steps \cup {"idle"}] /\ status \in [Sites -> Statuses]
      /\ deploy \in [Sites -> {Clean, Update}] /\ SiteA \in Sites
      /\ 1 \in Shards /\ ShardCount \in Shards /\ Shards \subseteq RS
  BY InstallAssumption DEF TInv, TypeOK, Statuses, Sites, Shards, RS
<1>1. ASSUME NEW s \in Sites, StartReconcile(s) PROVE IInv'
  <2>1. /\ pc'[s] = "pvc" /\ status'[s] = "running"
        /\ UNCHANGED <<schema, initiated, root, registered, joined>>
        /\ \A x \in Sites : x # s => /\ pc'[x] = pc[x] /\ status'[x] = status[x]
                                     /\ deploy'[x] = deploy[x]
    BY <1>0, <1>1 DEF StartReconcile
  <2>2. CASE s = SiteA
    BY <2>1, <2>2, NotIdle DEF IInv, Past
  <2>3. CASE s # SiteA
    BY <1>0, <2>1, <2>3 DEF IInv, Past
  <2> QED
    BY <2>2, <2>3
<1>2. ASSUME NEW s \in Sites, SkipStep(s) PROVE IInv'
  <2>1. Step(s) /\ UNCHANGED <<initiated, root, registered, joined>>
    BY <1>2, IsStep DEF SkipStep
  <2>2. s = SiteA => Earned
    BY <1>2 DEF SkipStep, Condition, IsActive, Earned
  <2> QED
    BY <2>1, <2>2, OtherIInv
<1>3. ASSUME NEW s \in Sites,
             \/ CreatePVC(s) \/ StoreNodes(s) \/ Cleanup(s) \/ GetKeyFile(s) \/ WriteKey(s)
             \/ CreateCNF(s) \/ CreateData(s) \/ CreateMongos(s) \/ RenameMemberDomain(s)
      PROVE  IInv'
  <2>1. Step(s) /\ pc[s] \in {"pvc", "nodes", "cleanup", "ssl", "sslWrite", "cnf", "data",
                              "mongos", "rename"}
    BY <1>3, IsStep
  <2>2. UNCHANGED <<initiated, root, registered, joined>>
    BY <1>3 DEF CreatePVC, StoreNodes, Cleanup, GetKeyFile, WriteKey, CreateCNF,
       CreateData, CreateMongos, RenameMemberDomain
  <2>3. s = SiteA => Earned
    BY <2>1 DEF Earned
  <2> QED
    BY <2>1, <2>2, <2>3, OtherIInv
<1>4. ASSUME NEW s \in Sites, InitCNF(s) \/ InitData(s) PROVE IInv'
  <2>1. Step(s) /\ pc[s] \in {"initCnf", "initData"} /\ UNCHANGED <<root, registered, joined>>
        /\ initiated \subseteq initiated'
    BY <1>4, IsStep DEF InitCNF, InitData, MongoReplicaSetInit
  <2>2. ~(GoOn(s) /\ Abort(s))
    BY <2>1, GoOnFacts, AbortFacts, StepAfterFacts DEF TInv, Step
  <2>3. FirstShards(ShardCount) = Shards
    BY DEF FirstShards, Shards
  <2>4. s = SiteA /\ GoOn(s) => Earned
    <3>1. CASE InitCNF(s)
      <4>1. pc[s] = "initCnf" /\ (GoOn(s) => Cnf \in initiated')
        BY <2>2, <3>1, IsStep DEF InitCNF, MongoReplicaSetInit
      <4> QED
        BY <4>1 DEF Earned
    <3>2. CASE InitData(s)
      <4>1. pc[s] = "initData" /\ (GoOn(s) => Shards \subseteq initiated')
        BY <2>2, <2>3, <3>2, IsStep DEF InitData, MongoReplicaSetInit
      <4> QED
        BY <4>1 DEF Earned
    <3> QED
      BY <1>4, <3>1, <3>2
  <2> QED
    BY <2>1, <2>4, StepIInv DEF Grows, IInv
<1>5. ASSUME NEW s \in Sites, RegisterShards(s) PROVE IInv'
  <2>1. Step(s) /\ pc[s] = "register" /\ UNCHANGED <<initiated, root, joined>>
        /\ registered \subseteq registered'
    BY <1>5, IsStep DEF RegisterShards, AddShards
  <2>2. ~(GoOn(s) /\ Abort(s))
    BY <2>1, GoOnFacts, AbortFacts, StepAfterFacts DEF TInv, Step
  <2>3. GoOn(s) => ShardCount \in registered'
    BY <1>0, <1>5, <2>2 DEF RegisterShards, AddShards
  <2>4. s = SiteA /\ GoOn(s) => Earned
    BY <2>1, <2>3 DEF Earned
  <2> QED
    BY <2>1, <2>4, StepIInv DEF Grows, IInv
<1>6. ASSUME NEW s \in Sites, AddUser(s) PROVE IInv'
  <2>1. Step(s) /\ pc[s] = "addUser" /\ UNCHANGED <<initiated, registered, joined>>
        /\ root \subseteq root'
    BY <1>6, IsStep DEF AddUser, CreateUser
  <2>2. s = SiteA /\ deploy[SiteA] = Clean
    BY <1>6 DEF AddUser, At, Condition, IsActive
  <2>3. "addUser" \in AfterInitCnf /\ "addUser" \in AfterInitData /\ "addUser" \in AfterRegister
    BY DEF Steps, BeforeKey, AfterCnf, AfterData, AfterMongos, AfterInitCnf,
       AfterInitData, AfterRegister
  <2>4. RS \subseteq initiated /\ (Sharded => ShardCount \in registered)
    BY <2>1, <2>2, <2>3 DEF IInv, RS
  <2>5. Earned
    BY <2>1, <2>2 DEF Earned
  <2> QED
    BY <2>1, <2>4, <2>5, StepIInv DEF Grows
<1>7. ASSUME NEW s \in Sites, SetFCV(s) PROVE IInv'
  <2>1. Step(s) /\ pc[s] = "fcv" /\ UNCHANGED <<initiated, root, registered, joined>>
    BY <1>7, IsStep DEF SetFCV
  <2>2. ~(GoOn(s) /\ Abort(s))
    BY <2>1, GoOnFacts, AbortFacts, StepAfterFacts DEF TInv, Step
  <2>3. GoOn(s) => 1 \in root
    BY <1>7, <2>2 DEF SetFCV, VersionKnown
  <2>4. s = SiteA /\ GoOn(s) => Earned
    BY <2>1, <2>3 DEF Earned
  <2> QED
    BY <2>1, <2>4, OtherIInv
<1>8. ASSUME NEW s \in Sites, NEW st \in {"addCnf", "addData"}, NEW sets,
             AddReplicas(s, st, sets), Step(s),
             st = "addCnf" => sets = {Cnf}, st = "addData" => sets = Shards
      PROVE  IInv'
  <2>1. pc[s] = st /\ UNCHANGED <<initiated, root, registered>> /\ joined \subseteq joined'
    BY <1>8 DEF AddReplicas, At
  <2>2. ~(GoOn(s) /\ Abort(s))
    BY <1>8, <2>1, GoOnFacts, AbortFacts, StepAfterFacts DEF TInv, Step
  <2>3. GoOn(s) => sets \subseteq root /\ sets \subseteq joined'
    BY <1>8, <2>2 DEF AddReplicas
  <2>4. s = SiteA /\ GoOn(s) => Earned
    BY <1>8, <2>1, <2>3 DEF Earned
  <2> QED
    BY <1>8, <2>1, <2>4, StepIInv DEF Grows, IInv
<1>9. ASSUME NEW s \in Sites, AddCNFReplicas(s) \/ AddDATAReplicas(s) PROVE IInv'
  BY <1>8, <1>9, IsStep DEF AddCNFReplicas, AddDATAReplicas
<1>10. ASSUME NEW s \in Sites, Finish(s) PROVE IInv'
  <2>1. /\ pc[s] = "finish" /\ pc'[s] = "idle" /\ status'[s] = "done"
        /\ UNCHANGED <<schema, deploy, initiated, root, registered, joined>>
        /\ \A x \in Sites : x # s => pc'[x] = pc[x] /\ status'[x] = status[x]
    BY <1>0, <1>10 DEF Finish
  <2>2. CASE s = SiteA
    BY <2>1, <2>2, NotIdle DEF IInv, Past, AfterFcv, AfterAddCnf
  <2>3. CASE s # SiteA
    BY <1>0, <2>1, <2>3 DEF IInv, Past
  <2> QED
    BY <2>2, <2>3
<1>11. ASSUME NEW s \in Sites, Crash(s) PROVE IInv'
  <2>1. /\ pc'[s] = "idle" /\ UNCHANGED <<schema, deploy, status, initiated, root, registered, joined>>
        /\ \A x \in Sites : x # s => pc'[x] = pc[x]
    BY <1>0, <1>11 DEF Crash
  <2> QED
    BY <1>0, <2>1, NotIdle DEF IInv, Past
<1>12. ASSUME Redeploy(SiteA) \/ Redeploy(SiteB) PROVE IInv'
  BY <1>12 DEF Redeploy, IInv, Past
<1>13. ASSUME ChangeSpec PROVE IInv'
  <2>1. status'[SiteA] = status[SiteA] \/ status'[SiteA] = "new"
    BY <1>0, <1>13 DEF ChangeSpec
  <2> QED
    BY <1>13, <2>1 DEF ChangeSpec, IInv, Past
<1>14. ASSUME UNCHANGED vars PROVE IInv'
  BY <1>14 DEF IInv, Past
<1> QED
  BY <1>1, <1>2, <1>3, <1>4, <1>5, <1>6, <1>7, <1>9, <1>10, <1>11, <1>12, <1>13, <1>14
     DEF Next, Operator, Sites

LEMMA IInvInit == Init => IInv
<1> SUFFICES ASSUME Init PROVE IInv
  OBVIOUS
<1>1. root = {} /\ pc[SiteA] = "idle" /\ status[SiteA] = "new"
  BY DEF Init, Sites
<1> QED
  BY <1>1, NotIdle DEF IInv, Past

\* An active site that reports success has initiated every set, registered
\* the last shard and created the root user on shard 1, and in dr on every
\* set, which all have the other site's members, although an update skips
\* the steps of the initialisation.
THEOREM DoneIsInitiatedAlways == Spec => []DoneIsInitiated
<1>1. Spec => [](TInv /\ HInv /\ IInv)
  BY TInvInit, TInvStep, HInvInit, HInvStep, IInvInit, IInvStep, PTL DEF Spec
<1>2. IInv => DoneIsInitiated
  BY DEF IInv, Past, DoneIsInitiated, RS
<1> QED
  BY <1>1, <1>2, PTL

=============================================================================

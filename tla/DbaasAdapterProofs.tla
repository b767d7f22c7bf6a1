------------------------- MODULE DbaasAdapterProofs -------------------------
(***************************************************************************)
(* Theorems about DbaasAdapter for any set of concurrent requests,         *)
(* databases, keys, shards and any number of failing commands and kills:   *)
(* the types, that the adapter user is unprivileged at rest, that an "ok"  *)
(* has all its users, that no database disappears unasked, that the "ok"   *)
(* of a request that met no other is real, and that a redistribution keeps *)
(* the shard key.                                                          *)
(***************************************************************************)
EXTENDS DbaasAdapter, TLAPS

-----------------------------------------------------------------------------
(* What the helpers on requests return. *)

\* A request's types and the database of a request in progress.
ReqOK(q) == q \in ReqType /\ (q.phase # "done" => q.db \in Dbs)

\* The phases that shard a collection.
ShardPhases == {"enable", "collection", "checkKey", "index", "shard",
                "refineIndex", "refine"}

LEMMA IdleType == Idle \in ReqType /\ Idle.phase = "done" /\ Idle.missed = {}
  BY AdapterAssumption DEF Idle, ReqType, Phases, Kinds, NoKey, Hosts

LEMMA AnswerFacts ==
    ASSUME NEW q \in ReqType, NEW res \in {"ok", "failed"}
    PROVE  /\ ReqOK(Answer(q, res))
           /\ Answer(q, res).phase = "done" /\ Answer(q, res).result = res
           /\ Answer(q, res).missed = q.missed /\ Answer(q, res).kind = q.kind
           /\ res = "ok" => Answer(q, res).wrote = q.wrote
<1> DEFINE sv == q.key = NoKey \/ isPrefix(q.key, key[q.db])
           wr == IF res = "ok" THEN q.wrote ELSE {}
<1>1. sv \in BOOLEAN /\ wr \in SUBSET ((1..RoleCount) \X Hosts)
      /\ (res = "ok" => wr = q.wrote)
  BY DEF ReqType
<1>2. Answer(q, res) =
        [Idle EXCEPT !.kind = q.kind, !.db = q.db, !.missed = q.missed, !.wrote = wr,
                     !.free = q.free, !.alone = q.alone, !.result = res, !.served = sv]
  BY DEF Answer
<1> HIDE DEF sv, wr
<1>3. /\ q.kind \in Kinds \cup {"none"} /\ q.db \in Dbs \cup {Admin}
      /\ q.missed \in SUBSET {"hosts", "body"} /\ q.free \in BOOLEAN
      /\ q.alone \in BOOLEAN
  BY DEF ReqType
<1>4. Answer(q, res) =
        [kind |-> q.kind, db |-> q.db, key |-> NoKey, move |-> FALSE,
         phase |-> "done", step |-> "body", role |-> 1, host |-> 0, seen |-> FALSE,
         docs |-> FALSE, free |-> q.free, missed |-> q.missed, wrote |-> wr,
         result |-> res, alone |-> q.alone, served |-> sv]
  BY <1>2 DEF Idle
<1> QED BY <1>1, <1>3, <1>4, AdapterAssumption DEF ReqType, ReqOK, Phases, Hosts

LEMMA EnterFacts ==
    ASSUME NEW q, ReqOK(q), q.phase # "done", NEW p \in Phases \ {"done"}
    PROVE  /\ ReqOK(Enter(q, p))
           /\ Enter(q, p).phase = p /\ Enter(q, p).db = q.db
           /\ Enter(q, p).kind = q.kind /\ Enter(q, p).missed = q.missed
           /\ Enter(q, p).free = q.free /\ Enter(q, p).key = q.key
           /\ Enter(q, p).role = q.role /\ Enter(q, p).host = q.host
           /\ Enter(q, p).wrote = q.wrote /\ Enter(q, p).step = StepIn(p)
<1> DEFINE st == StepIn(p)
<1>1. Enter(q, p) = [q EXCEPT !.phase = p, !.step = st]
  BY DEF Enter
<1>2. st \in {"grant", "body"}
  BY DEF StepIn
<1> HIDE DEF st
<1>3. /\ Enter(q, p) \in ReqType
      /\ Enter(q, p).phase = p /\ Enter(q, p).db = q.db
      /\ Enter(q, p).kind = q.kind /\ Enter(q, p).missed = q.missed
      /\ Enter(q, p).free = q.free /\ Enter(q, p).key = q.key
      /\ Enter(q, p).role = q.role /\ Enter(q, p).host = q.host
      /\ Enter(q, p).wrote = q.wrote /\ Enter(q, p).step = st
  BY <1>1, <1>2 DEF ReqOK, ReqType
<1> QED BY <1>3 DEF ReqOK, st

LEMMA NextPhaseFacts ==
    ASSUME NEW q \in ReqType, q.phase \notin {"rollback", "done"}
    PROVE  /\ NextPhase(q) \in Phases \ {"validate", "dropDb", "hosts", "rollback"}
           /\ NextPhase(q) = "userCheck" => q.phase = "validate"
           /\ NextPhase(q) = "userWrite" => q.phase = "userCheck"
           /\ NextPhase(q) \in ShardPhases => q.phase \in ShardPhases \/ q.key # NoKey
<1>1. q.phase \in Phases \ {"rollback", "done"}
  BY DEF ReqType
<1> QED BY <1>1 DEF NextPhase, Phases, OwnerPhases, ClusterPhases, ShardPhases

LEMMA FailedFacts ==
    ASSUME NEW q, ReqOK(q), q.phase \notin {"rollback", "done"}
    PROVE  /\ ReqOK(Failed(q))
           /\ Failed(q).missed = q.missed
           /\ Failed(q).phase \in {"rollback", "done"}
           /\ Failed(q).phase = "rollback" =>
                 /\ q.kind = "create" /\ q.phase # "validate"
                 /\ Failed(q).kind = q.kind /\ Failed(q).free = q.free
                 /\ Failed(q).db = q.db
           /\ (Failed(q).phase = "done" /\ q.phase # "move") => Failed(q).result = "failed"
           /\ q.phase = "move" => Failed(q) = Answer(q, "ok")
<1>1. q \in ReqType
  BY DEF ReqOK
<1>2. CASE q.phase = "move"
  BY <1>1, <1>2, AnswerFacts DEF Failed
<1>3. CASE q.phase # "move" /\ q.kind = "create" /\ q.phase # "validate"
  BY <1>1, <1>3 DEF Failed, ReqOK, ReqType, Phases
<1>4. CASE q.phase # "move" /\ ~(q.kind = "create" /\ q.phase # "validate")
  BY <1>1, <1>4, AnswerFacts DEF Failed
<1> QED BY <1>2, <1>3, <1>4

-----------------------------------------------------------------------------
(* The invariant of a request.  That an "ok" has its users rests on which    *)
(* users are written wherever the loops over roles and shards are; that a    *)
(* rollback drops nothing it should not rests on what the validation found.  *)

\* The role streaming, as a round of the loop over the roles.
StreamRole(k, i) ==
    \/ k = "createStreaming"
    \/ k \in {"create", "createRoles"} /\ RoleCount > 1 /\ i = RoleCount

\* A request of kind k has to write the user of role i to host h.
Writes(q, i, h) ==
    /\ q.kind \in OneUser => i = 1
    /\ h # 0 => StreamRole(q.kind, i) /\ "hosts" \notin q.missed

AllWritten(q) ==
    \A i \in 1..RoleCount, h \in Hosts : Writes(q, i, h) => <<i, h>> \in q.wrote

\* What comes before host n of the round the request is in is written.
WrittenBefore(q, n) ==
    \A i \in 1..RoleCount, h \in Hosts :
        (Writes(q, i, h) /\ (i < q.role \/ (i = q.role /\ h < n))) => <<i, h>> \in q.wrote

InLoops(q) ==
    /\ q.kind \in OneUser => q.role = 1
    /\ q.host # 0 => StreamRole(q.kind, q.role)

UserPhases == {"userCheck", "userWrite", "hosts"}

UserInv(q) ==
    /\ q.phase = "validate" => q.kind = "create" /\ q.role = 1 /\ q.host = 0
    /\ q.phase \in UserPhases => q.kind \in UserKinds /\ InLoops(q)
    /\ q.phase \in {"userCheck", "userWrite"} => WrittenBefore(q, q.host)
    /\ q.phase = "hosts" => WrittenBefore(q, 1) /\ q.host = 0 /\ StreamRole(q.kind, q.role)
    /\ q.kind \in UserKinds =>
          /\ q.phase \notin UserPhases \cup {"validate", "rollback", "done"} => AllWritten(q)
          /\ Answered(q, "ok") => AllWritten(q)

ReqInv(q) ==
    /\ UserInv(q)
    /\ q.phase = "dropDb" => q.kind = "drop"
    /\ (q.kind = "create" /\ q.phase \notin {"validate", "done"}) => q.free
    /\ q.phase = "rollback" => q.free
    /\ q.phase \in ShardPhases => q.key # NoKey

Sound(q) == ReqOK(q) /\ ReqInv(q)

DbInv == TypeOK /\ \A r \in Reqs : ReqInv(req[r])

LEMMA DbInvSound == DbInv => \A r \in Reqs : Sound(req[r])
  BY DEF DbInv, TypeOK, Sound, ReqOK, Busy

\* The users do not depend on the rest of a request.
LEMMA UserInvSame ==
    ASSUME NEW q, NEW e, UserInv(q),
           e.kind = q.kind, e.phase = q.phase, e.role = q.role, e.host = q.host,
           e.wrote = q.wrote, e.result = q.result,
           "hosts" \in e.missed <=> "hosts" \in q.missed
    PROVE  UserInv(e)
<1>1. \A i, h : Writes(e, i, h) <=> Writes(q, i, h)
  BY DEF Writes
<1>2. /\ AllWritten(q) => AllWritten(e)
      /\ \A n : WrittenBefore(q, n) => WrittenBefore(e, n)
      /\ InLoops(q) => InLoops(e)
      /\ Answered(e, "ok") => Answered(q, "ok")
  BY <1>1 DEF AllWritten, WrittenBefore, InLoops, Answered
<1> QED BY <1>2 DEF UserInv

\* The users of the supported roles are what OkHasUser asks for.
LEMMA AllWrittenIs ==
    ASSUME NEW q \in ReqType, AllWritten(q)
    PROVE  ToWrite(q) \subseteq q.wrote
<1> SUFFICES ASSUME NEW w \in ToWrite(q) PROVE w \in q.wrote
  OBVIOUS
<1>1. /\ w \in (1..RoleCount) \X Hosts
      /\ q.kind \in OneUser => w[1] = 1
      /\ w[2] # 0 => Streams([q EXCEPT !.role = w[1]]) /\ "hosts" \notin q.missed
  BY DEF ToWrite
<1>2. w[1] \in 1..RoleCount /\ w[2] \in Hosts /\ w = <<w[1], w[2]>>
  BY <1>1
<1>3. Streams([q EXCEPT !.role = w[1]]) => StreamRole(q.kind, w[1])
  <2> DEFINE e == [q EXCEPT !.role = w[1]]
  <2>1. e.kind = q.kind /\ e.role = w[1]
    BY DEF ReqType
  <2> HIDE DEF e
  <2>2. Streams(e) => StreamRole(q.kind, w[1])
    BY <2>1 DEF Streams, StreamRole
  <2> QED BY <2>2 DEF e
<1>4. Writes(q, w[1], w[2])
  BY <1>1, <1>3 DEF Writes
<1> QED BY <1>2, <1>4 DEF AllWritten

LEMMA AnswerSound ==
    ASSUME NEW q, ReqOK(q), NEW res \in {"ok", "failed"},
           (res = "ok" /\ q.kind \in UserKinds) => AllWritten(q)
    PROVE  Sound(Answer(q, res))
<1> DEFINE a == Answer(q, res)
<1>1. /\ ReqOK(a) /\ a.phase = "done" /\ a.result = res /\ a.kind = q.kind
      /\ a.missed = q.missed /\ (res = "ok" => a.wrote = q.wrote)
  BY AnswerFacts DEF ReqOK
<1> HIDE DEF a
<1>2. (res = "ok" /\ AllWritten(q)) => AllWritten(a)
  BY <1>1 DEF AllWritten, Writes
<1>3. UserInv(a)
  BY <1>1, <1>2 DEF UserInv, UserPhases, Answered
<1>4. Sound(a)
  BY <1>1, <1>3 DEF Sound, ReqInv, ShardPhases
<1> QED BY <1>4 DEF a

\* A request enters a phase outside the loops with all its users written.
LEMMA EnterSound ==
    ASSUME NEW q, Sound(q), q.phase \notin {"rollback", "done"},
           NEW p \in Phases \ ({"validate", "dropDb", "rollback"} \cup UserPhases),
           q.kind \in UserKinds => AllWritten(q),
           p # "done" /\ q.kind = "create" => q.free,
           p \in ShardPhases => q.key # NoKey
    PROVE  Sound(Enter(q, p))
<1>1. CASE p = "done"
  <2>1. Enter(q, p) = Answer(q, "ok") /\ ReqOK(q)
    BY <1>1 DEF Enter, Sound
  <2> QED BY <2>1, AnswerSound
<1>2. CASE p # "done"
  <2> DEFINE e == Enter(q, p)
  <2>1. /\ ReqOK(e) /\ e.phase = p /\ e.kind = q.kind /\ e.missed = q.missed
        /\ e.free = q.free /\ e.key = q.key /\ e.wrote = q.wrote
    BY <1>2, EnterFacts DEF Sound
  <2> HIDE DEF e
  <2>2. AllWritten(q) => AllWritten(e)
    BY <2>1 DEF AllWritten, Writes
  <2>3. UserInv(e)
    BY <1>2, <2>1, <2>2 DEF UserInv, UserPhases, Answered
  <2>4. Sound(e)
    BY <1>2, <2>1, <2>3 DEF Sound, ReqInv
  <2> QED BY <2>4 DEF e
<1> QED BY <1>1, <1>2

LEMMA ProceedSound ==
    ASSUME NEW q, Sound(q), q.phase \notin UserPhases \cup {"validate", "rollback", "done"}
    PROVE  Sound(Enter(q, NextPhase(q)))
<1>1. q \in ReqType /\ (q.kind = "create" => q.free)
      /\ (q.phase \in ShardPhases => q.key # NoKey)
      /\ (q.kind \in UserKinds => AllWritten(q))
  BY DEF Sound, ReqOK, ReqInv, UserInv
<1>2. NextPhase(q) \in Phases \ ({"validate", "dropDb", "rollback"} \cup UserPhases)
  BY <1>1, NextPhaseFacts DEF UserPhases
<1> QED BY <1>1, <1>2, NextPhaseFacts, EnterSound

LEMMA SoundFailed ==
    ASSUME NEW q, Sound(q), q.phase \notin {"rollback", "done"}
    PROVE  Sound(Failed(q))
<1>1. CASE q.phase = "move"
  <2>1. ReqOK(q) /\ Failed(q) = Answer(q, "ok") /\ (q.kind \in UserKinds => AllWritten(q))
    BY <1>1, FailedFacts DEF Sound, ReqInv, UserInv, UserPhases
  <2> QED BY <2>1, AnswerSound
<1>2. CASE q.phase # "move"
  <2> DEFINE f == Failed(q)
  <2>1. /\ ReqOK(f) /\ f.phase \in {"rollback", "done"}
        /\ f.phase = "rollback" => f.kind = q.kind /\ f.free = q.free /\ q.kind = "create"
                                   /\ q.phase # "validate"
        /\ f.phase = "done" => f.result = "failed"
    BY <1>2, FailedFacts DEF Sound
  <2> HIDE DEF f
  <2>2. UserInv(f)
    BY <2>1 DEF UserInv, UserPhases, Answered
  <2>3. Sound(f)
    BY <2>1, <2>2 DEF Sound, ReqInv, ShardPhases
  <2> QED BY <2>3 DEF f
<1> QED BY <1>1, <1>2

\* One request changes to a sound one.
LEMMA BecomesSound ==
    ASSUME DbInv, NEW r \in Reqs, NEW q, Sound(q), Becomes(r, q)
    PROVE  /\ req' \in [Reqs -> ReqType]
           /\ \A x \in Reqs : Busy(x)' => req'[x].db \in Dbs
           /\ \A x \in Reqs : ReqInv(req'[x])
  BY DEF DbInv, TypeOK, Becomes, Sound, ReqOK, Busy

LEMMA FaultType == TypeOK /\ Fault => faults' \in 0..MaxFaults
  BY AdapterAssumption DEF TypeOK, Fault

-----------------------------------------------------------------------------
LEMMA NewRequestSound ==
    ASSUME NEW k \in Asked, NEW d \in Dbs, NEW sk \in Keys \cup {NoKey},
           NEW mv \in BOOLEAN, NEW alone \in BOOLEAN, k = "settings" => sk # NoKey
    PROVE  Sound(NewRequest(k, d, sk, mv, alone))
<1> DEFINE p == FirstPhase(k)
           st == StepIn(p)
           new == NewRequest(k, d, sk, mv, alone)
<1>1. k \in Kinds
  BY AdapterAssumption DEF Kinds
<1>2. /\ p \in Phases \ {"rollback", "done"}
      /\ p = "dropDb" => k = "drop"
      /\ p \in ShardPhases => k = "settings"
      /\ k = "create" => p = "validate"
  BY <1>1 DEF FirstPhase, Kinds, Phases, OwnerPhases, ClusterPhases, ShardPhases
<1>3. st \in {"grant", "body"}
  BY DEF StepIn
<1>4. new = [Idle EXCEPT !.kind = k, !.db = d, !.key = sk, !.move = mv,
                         !.alone = alone, !.phase = p, !.step = st]
  BY DEF NewRequest
<1> HIDE DEF p, st, new
<1>5. /\ new \in ReqType /\ new.role = 1 /\ new.host = 0
      /\ new.kind = k /\ new.phase = p /\ new.key = sk /\ new.db = d
  <2>1. new = [kind |-> k, db |-> d, key |-> sk, move |-> mv, phase |-> p,
               step |-> st, role |-> 1, host |-> 0, seen |-> FALSE, docs |-> FALSE,
               free |-> FALSE, missed |-> {}, wrote |-> {}, result |-> "none",
               alone |-> alone, served |-> TRUE]
    BY <1>4 DEF Idle
  <2> QED BY <1>1, <1>2, <1>3, <2>1, AdapterAssumption DEF ReqType, Hosts
<1>6. UserInv(new)
  <2>1. WrittenBefore(new, 0)
    BY <1>5, AdapterAssumption DEF WrittenBefore, Hosts
  <2>2. /\ k \in UserKinds <=> p \in {"validate", "userCheck"}
        /\ p \notin {"userWrite", "hosts"} /\ (p = "validate" => k = "create")
    BY <1>1 DEF p, FirstPhase, UserKinds, OneUser, Kinds
  <2> QED BY <1>2, <1>5, <2>1, <2>2 DEF UserInv, UserPhases, InLoops, Answered
<1>7. Sound(new)
  BY <1>2, <1>5, <1>6 DEF Sound, ReqOK, ReqInv
<1> QED BY <1>7 DEF new

\* Fields the invariant does not look at.
LEMMA AloneSound ==
    ASSUME NEW q, Sound(q), NEW b \in BOOLEAN
    PROVE  Sound([q EXCEPT !.alone = b])
<1> DEFINE e == [q EXCEPT !.alone = b]
<1>1. /\ e \in ReqType /\ e.kind = q.kind /\ e.phase = q.phase /\ e.role = q.role
      /\ e.host = q.host /\ e.wrote = q.wrote /\ e.result = q.result
      /\ e.missed = q.missed /\ e.db = q.db /\ e.free = q.free /\ e.key = q.key
  BY DEF Sound, ReqOK, ReqType
<1> HIDE DEF e
<1>2. UserInv(e)
  BY <1>1, UserInvSame DEF Sound, ReqInv
<1>3. Sound(e)
  BY <1>1, <1>2 DEF Sound, ReqOK, ReqInv
<1> QED BY <1>3 DEF e

LEMMA StepSound ==
    ASSUME NEW q, Sound(q), NEW st \in {"grant", "body", "revoke"}
    PROVE  Sound([q EXCEPT !.step = st])
<1> DEFINE e == [q EXCEPT !.step = st]
<1>1. /\ e \in ReqType /\ e.kind = q.kind /\ e.phase = q.phase /\ e.role = q.role
      /\ e.host = q.host /\ e.wrote = q.wrote /\ e.result = q.result
      /\ e.missed = q.missed /\ e.db = q.db /\ e.free = q.free /\ e.key = q.key
  BY DEF Sound, ReqOK, ReqType
<1> HIDE DEF e
<1>2. UserInv(e)
  BY <1>1, UserInvSame DEF Sound, ReqInv
<1>3. Sound(e)
  BY <1>1, <1>2 DEF Sound, ReqOK, ReqInv
<1> QED BY <1>3 DEF e

LEMMA ReceiveKeeps ==
    ASSUME DbInv, NEW r \in Reqs, Receive(r)
    PROVE  DbInv'
<1>1. PICK k \in Asked, d \in Dbs, sk \in Keys \cup {NoKey}, mv \in BOOLEAN :
        /\ k = "settings" => sk # NoKey
        /\ req' = [x \in Reqs |->
                     IF x = r THEN NewRequest(k, d, sk, mv, Alone(r))
                     ELSE [req[x] EXCEPT !.alone = @ /\ ~Busy(x)]]
  BY DEF Receive
<1>2. Alone(r) \in BOOLEAN
  BY DEF Alone
<1>3. ASSUME NEW x \in Reqs PROVE Sound(req'[x])
  <2>1. CASE x = r
    BY <1>1, <1>2, <2>1, NewRequestSound
  <2>2. CASE x # r
    <3>1. req'[x] = [req[x] EXCEPT !.alone = @ /\ ~Busy(x)] /\ Sound(req[x])
      BY <1>1, <2>2, DbInvSound
    <3>2. (req[x].alone /\ ~Busy(x)) \in BOOLEAN
      OBVIOUS
    <3> QED BY <3>1, <3>2, AloneSound
  <2> QED BY <2>1, <2>2
<1>4. req' \in [Reqs -> ReqType]
  BY <1>1, <1>3 DEF Sound, ReqOK
<1>5. served' \in 0..MaxServed
  <2>1. served \in 0..MaxServed
    BY DEF DbInv, TypeOK
  <2> QED BY <2>1, AdapterAssumption DEF Receive
<1>6. bg' \in [Reqs -> TaskType] /\ \A x \in Reqs : bg'[x].step # "none" => bg'[x].db \in Dbs
  <2>1. bg' = Crowded
    BY DEF Receive
  <2>2. bg \in [Reqs -> TaskType] /\ \A x \in Reqs : bg[x].step # "none" => bg[x].db \in Dbs
    BY DEF DbInv, TypeOK, Tasking
  <2>3. ASSUME NEW x \in Reqs
        PROVE  /\ bg'[x] \in TaskType /\ bg'[x].step = bg[x].step /\ bg'[x].db = bg[x].db
    <3>1. bg'[x] = [bg[x] EXCEPT !.alone = FALSE] /\ bg[x] \in TaskType
      BY <2>1, <2>2 DEF Crowded
    <3> QED BY <3>1 DEF TaskType
  <2>4. bg' = [x \in Reqs |-> bg'[x]]
    BY <2>1 DEF Crowded
  <2>5. bg' \in [Reqs -> TaskType]
    BY <2>3, <2>4
  <2> QED BY <2>2, <2>3, <2>5
<1>7. UNCHANGED <<grants, store, leaked, faults>>
  BY DEF Receive
<1> QED
  BY <1>3, <1>4, <1>5, <1>6, <1>7 DEF DbInv, TypeOK, Sound, ReqOK, Busy, Tasking, store

\* A step of request r that leaves the databases and the tasks alone.
LEMMA RequestOnly ==
    ASSUME DbInv, NEW r \in Reqs, NEW q, Sound(q), Becomes(r, q),
           UNCHANGED <<bg, store, served>>, faults' = faults \/ Fault,
           grants' \subseteq Dbs \cup {Admin}, leaked' \subseteq Dbs \cup {Admin}
    PROVE  DbInv'
  BY BecomesSound, FaultType DEF DbInv, TypeOK, Tasking, store

LEMMA CheckKeeps ==
    ASSUME DbInv, NEW r \in Reqs, Validate(r) \/ UserCheck(r) \/ CheckKey(r)
    PROVE  DbInv'
<1>0. Sound(req[r]) /\ grants \subseteq Dbs \cup {Admin} /\ leaked \subseteq Dbs \cup {Admin}
  BY DbInvSound DEF DbInv, TypeOK
<1>1. CASE Validate(r)
  <2>1. req[r].phase = "validate"
    BY <1>1 DEF Validate
  <2>2. ASSUME Becomes(r, [Enter(req[r], NextPhase(req[r])) EXCEPT !.free = TRUE])
        PROVE  \E q : Sound(q) /\ Becomes(r, q)
    <3>1. NextPhase(req[r]) = "userCheck"
      BY <2>1 DEF NextPhase
    <3>2. "userCheck" \in Phases \ {"done"} /\ "userCheck" \notin OwnerPhases \cup ClusterPhases
      BY DEF Phases, OwnerPhases, ClusterPhases
    <3> DEFINE e == Enter(req[r], "userCheck")
               f == [e EXCEPT !.free = TRUE]
    <3>3. ReqOK(e) /\ e.phase = "userCheck" /\ e.role = 1 /\ e.host = 0 /\ e.kind = "create"
      <4>1. req[r].role = 1 /\ req[r].host = 0 /\ req[r].kind = "create" /\ ReqOK(req[r])
        BY <1>0, <2>1 DEF Sound, ReqInv, UserInv
      <4> QED BY <2>1, <3>2, <4>1, EnterFacts
    <3> HIDE DEF e
    <3>4. /\ ReqOK(f) /\ f.phase = "userCheck" /\ f.role = 1 /\ f.host = 0
          /\ f.kind = "create" /\ f.free
      BY <3>3 DEF ReqOK, ReqType
    <3> HIDE DEF f
    <3>5. WrittenBefore(f, 0)
      BY <3>4, AdapterAssumption DEF WrittenBefore, Hosts
    <3>6. UserInv(f)
      BY <3>4, <3>5 DEF UserInv, UserPhases, UserKinds, InLoops, Answered
    <3>7. Sound(f)
      BY <3>4, <3>6 DEF Sound, ReqInv, ShardPhases
    <3> QED BY <2>2, <3>1, <3>7 DEF e, f
  <2>3. ASSUME Becomes(r, Failed(req[r])) PROVE \E q : Sound(q) /\ Becomes(r, q)
    BY <1>0, <2>1, <2>3, SoundFailed
  <2>4. \E q : Sound(q) /\ Becomes(r, q)
    BY <1>1, <2>2, <2>3 DEF Validate
  <2> QED BY <1>0, <1>1, <2>4, RequestOnly DEF Validate
<1>2. CASE UserCheck(r)
  <2>1. req[r].phase = "userCheck"
    BY <1>2 DEF UserCheck
  <2>2. ASSUME NEW b \in BOOLEAN
        PROVE  Sound([Enter(req[r], "userWrite") EXCEPT !.seen = b])
    <3> DEFINE q == req[r]
               e == Enter(q, "userWrite")
               f == [e EXCEPT !.seen = b]
    <3>1. "userWrite" \in Phases \ {"done"}
      BY DEF Phases
    <3>2. /\ ReqOK(e) /\ e.phase = "userWrite" /\ e.kind = q.kind /\ e.role = q.role
          /\ e.host = q.host /\ e.wrote = q.wrote /\ e.missed = q.missed /\ e.free = q.free
      BY <1>0, <2>1, <3>1, EnterFacts DEF Sound
    <3> HIDE DEF e
    <3>3. /\ ReqOK(f) /\ f.phase = "userWrite" /\ f.kind = q.kind /\ f.role = q.role
          /\ f.host = q.host /\ f.wrote = q.wrote /\ f.missed = q.missed /\ f.free = q.free
      BY <3>2 DEF ReqOK, ReqType
    <3>4. UserInv(q) /\ (q.kind = "create" => q.free)
      BY <1>0, <2>1 DEF Sound, ReqInv
    <3> HIDE DEF f, q
    <3>5. q.phase = "userCheck"
      BY <2>1 DEF q
    <3>6. f.kind \in UserKinds /\ InLoops(f) /\ WrittenBefore(f, f.host)
      <4>1. q.kind \in UserKinds /\ InLoops(q) /\ WrittenBefore(q, q.host)
        BY <3>4, <3>5 DEF UserInv, UserPhases
      <4> QED BY <3>3, <4>1 DEF InLoops, WrittenBefore, Writes
    <3>7. UserInv(f)
      BY <3>3, <3>6 DEF UserInv, UserPhases, Answered
    <3>8. Sound(f)
      BY <3>3, <3>4, <3>7 DEF Sound, ReqInv, ShardPhases
    <3> QED BY <3>8 DEF f, e, q
  <2>3. Sound(Failed(req[r]))
    BY <1>0, <2>1, SoundFailed
  <2>4. (req[r].host \in users[req[r].db] /\ Named(req[r])) \in BOOLEAN
    BY DEF Named
  <2>5. \E q : Sound(q) /\ Becomes(r, q)
    BY <1>2, <2>2, <2>3, <2>4 DEF UserCheck
  <2> QED BY <1>0, <1>2, <2>5, RequestOnly DEF UserCheck
<1>3. CASE CheckKey(r)
  <2>1. req[r].phase = "checkKey"
    BY <1>3 DEF CheckKey
  <2>2. /\ "index" \in Phases \ ({"validate", "dropDb", "rollback"} \cup UserPhases)
        /\ "refineIndex" \in Phases \ ({"validate", "dropDb", "rollback"} \cup UserPhases)
        /\ req[r].kind = "create" => req[r].free
        /\ req[r].kind \in UserKinds => AllWritten(req[r])
        /\ req[r].key # NoKey
    BY <1>0, <2>1 DEF Phases, OwnerPhases, Sound, ReqInv, ShardPhases, UserInv, UserPhases
  <2>3. Sound(Enter(req[r], "index")) /\ Sound(Enter(req[r], "refineIndex"))
    BY <1>0, <2>1, <2>2, EnterSound
  <2>4. docs[req[r].db] \in BOOLEAN
    BY <1>0, <2>1 DEF DbInv, TypeOK, Sound, ReqOK
  <2>5. Sound([Enter(req[r], "index") EXCEPT !.docs = docs[req[r].db]])
    <3> DEFINE q == Enter(req[r], "index")
               e == [q EXCEPT !.docs = docs[req[r].db]]
    <3>1. /\ Sound(q) /\ q.phase = "index"
      BY <1>0, <2>1, <2>2, <2>3, EnterFacts DEF Sound
    <3> HIDE DEF q
    <3>2. /\ e \in ReqType /\ e.kind = q.kind /\ e.phase = q.phase /\ e.role = q.role
          /\ e.host = q.host /\ e.wrote = q.wrote /\ e.result = q.result
          /\ e.missed = q.missed /\ e.db = q.db /\ e.free = q.free /\ e.key = q.key
      BY <2>4, <3>1 DEF Sound, ReqOK, ReqType
    <3> HIDE DEF e
    <3>3. UserInv(e)
      BY <3>1, <3>2, UserInvSame DEF Sound, ReqInv
    <3>4. Sound(e)
      BY <3>1, <3>2, <3>3 DEF Sound, ReqOK, ReqInv
    <3> QED BY <3>4 DEF e, q
  <2>6. Sound(Failed(req[r])) /\ Sound(Enter(req[r], NextPhase(req[r])))
    BY <1>0, <2>1, SoundFailed, ProceedSound DEF UserPhases
  <2>7. \E q : Sound(q) /\ Becomes(r, q)
    BY <1>3, <2>3, <2>5, <2>6 DEF CheckKey, Proceed
  <2> QED BY <1>0, <1>3, <2>7, RequestOnly DEF CheckKey
<1> QED BY <1>1, <1>2, <1>3

StoreType ==
    /\ users \in [Dbs -> SUBSET Hosts] /\ meta \in [Dbs -> BOOLEAN]
    /\ coll \in [Dbs -> BOOLEAN] /\ docs \in [Dbs -> BOOLEAN]
    /\ key \in [Dbs -> Keys \cup {NoKey}] /\ idx \in [Dbs -> SUBSET Keys]

\* A step of request r that may change the databases as well.
LEMMA RequestAndStore ==
    ASSUME DbInv, NEW r \in Reqs, NEW q, Sound(q), Becomes(r, q), StoreType',
           UNCHANGED <<bg, grants, leaked, served>>, faults' = faults \/ Fault
    PROVE  DbInv'
  BY BecomesSound, FaultType DEF DbInv, TypeOK, Tasking, StoreType

\* The round of a role is over: the next one, or the next phase.
LEMMA UserDoneSound ==
    ASSUME NEW q, ReqOK(q), q.phase \in {"userWrite", "hosts"}, q.kind \in UserKinds,
           InLoops(q), q.kind = "create" => q.free,
           \A i \in 1..RoleCount, h \in Hosts :
              (Writes(q, i, h) /\ i <= q.role) => <<i, h>> \in q.wrote
    PROVE  Sound(UserDone(q))
<1>0. q \in ReqType /\ q.role \in 1..RoleCount
  BY DEF ReqOK, ReqType
<1>1. CASE MoreRoles(q)
  <2> DEFINE n == Enter(q, "userCheck")
             e == [n EXCEPT !.role = @ + 1, !.host = 0]
  <2>1. "userCheck" \in Phases \ {"done"}
    BY DEF Phases
  <2>2. /\ ReqOK(n) /\ n.phase = "userCheck" /\ n.kind = q.kind /\ n.missed = q.missed
        /\ n.free = q.free /\ n.role = q.role /\ n.wrote = q.wrote
    BY <2>1, EnterFacts
  <2>3. q.role + 1 \in 1..RoleCount /\ 0 \in Hosts /\ q.kind \notin OneUser
    BY <1>0, <1>1, AdapterAssumption DEF MoreRoles, Hosts
  <2> HIDE DEF n
  <2>4. /\ ReqOK(e) /\ e.phase = "userCheck" /\ e.kind = q.kind /\ e.missed = q.missed
        /\ e.free = q.free /\ e.role = q.role + 1 /\ e.wrote = q.wrote /\ e.host = 0
    BY <2>2, <2>3 DEF ReqOK, ReqType
  <2>5. UserDone(q) = e
    BY <1>1 DEF UserDone, n
  <2> HIDE DEF e
  <2>6. WrittenBefore(e, 0)
    <3>1. ASSUME NEW i \in 1..RoleCount, NEW h \in Hosts, i < e.role \/ (i = e.role /\ h < 0)
          PROVE  i <= q.role
      BY <1>0, <2>4, <3>1, AdapterAssumption DEF Hosts
    <3>2. ASSUME NEW i, NEW h PROVE Writes(e, i, h) <=> Writes(q, i, h)
      BY <2>4 DEF Writes
    <3> QED BY <2>4, <3>1, <3>2 DEF WrittenBefore
  <2>7. UserInv(e)
    BY <2>3, <2>4, <2>6 DEF UserInv, UserPhases, InLoops, Answered
  <2>8. Sound(e)
    BY <2>4, <2>7 DEF Sound, ReqInv, ShardPhases
  <2> QED BY <2>5, <2>8
<1>2. CASE ~MoreRoles(q)
  <2> DEFINE n == [q EXCEPT !.host = 0]
             e == Enter(n, "meta")
  <2>1. /\ ReqOK(n) /\ n.phase = q.phase /\ n.kind = q.kind /\ n.missed = q.missed
        /\ n.free = q.free /\ n.wrote = q.wrote
    BY AdapterAssumption DEF ReqOK, ReqType, Hosts
  <2>2. UserDone(q) = IF q.kind = "create" THEN e ELSE Enter(n, "done")
    BY <1>2 DEF UserDone, NextPhase
  <2>3. ASSUME NEW i \in 1..RoleCount, NEW h, Writes(q, i, h) PROVE i <= q.role
    BY <1>0, <1>2, <2>3, AdapterAssumption DEF MoreRoles, Writes, InLoops
  <2> HIDE DEF n
  <2>4. AllWritten(n)
    BY <2>1, <2>3 DEF AllWritten, Writes
  <2>5. Sound(Enter(n, "done"))
    BY <2>1, <2>4, AnswerSound DEF Enter
  <2>6. "meta" \in Phases \ {"done"}
    BY DEF Phases, OwnerPhases
  <2>7. /\ ReqOK(e) /\ e.phase = "meta" /\ e.kind = n.kind /\ e.missed = n.missed
        /\ e.free = n.free /\ e.wrote = n.wrote
    BY <2>1, <2>6, EnterFacts
  <2> HIDE DEF e
  <2>8. AllWritten(e)
    BY <2>4, <2>7 DEF AllWritten, Writes
  <2>9. UserInv(e)
    BY <2>7, <2>8 DEF UserInv, UserPhases, Answered
  <2>10. Sound(e)
    BY <2>1, <2>7, <2>9 DEF Sound, ReqInv, ShardPhases
  <2> QED BY <2>2, <2>5, <2>10
<1> QED BY <1>1, <1>2

\* A request goes on to a host of the round it is in, or asks for the shards.
LEMMA NextHostSound ==
    ASSUME NEW q, ReqOK(q), q.phase \in UserPhases, q.kind \in UserKinds, InLoops(q),
           q.kind = "create" => q.free, NEW e, NEW p \in {"userCheck", "hosts"}, NEW n \in Hosts,
           e = [Enter(q, p) EXCEPT !.host = n],
           n # 0 => StreamRole(q.kind, q.role),
           p = "userCheck" => WrittenBefore(q, n),
           p = "hosts" => WrittenBefore(q, 1) /\ n = 0 /\ StreamRole(q.kind, q.role)
    PROVE  Sound(e)
<1> DEFINE o == Enter(q, p)
<1>1. p \in Phases \ {"done"} /\ q.phase # "done"
  BY DEF Phases, UserPhases
<1>2. /\ ReqOK(o) /\ o.phase = p /\ o.kind = q.kind /\ o.missed = q.missed
      /\ o.free = q.free /\ o.role = q.role /\ o.wrote = q.wrote
  BY <1>1, EnterFacts
<1> HIDE DEF o
<1>3. /\ ReqOK(e) /\ e.phase = p /\ e.kind = q.kind /\ e.missed = q.missed
      /\ e.free = q.free /\ e.role = q.role /\ e.wrote = q.wrote /\ e.host = n
  BY <1>2 DEF ReqOK, ReqType, o
<1>4. \A m : WrittenBefore(q, m) => WrittenBefore(e, m)
  BY <1>3 DEF WrittenBefore, Writes
<1>5. UserInv(e)
  BY <1>3, <1>4 DEF UserInv, UserPhases, InLoops, Answered
<1> QED BY <1>3, <1>5 DEF Sound, ReqInv, ShardPhases

\* A user of the round has been written on the host the request is at.
LEMMA AfterWriteSound ==
    ASSUME NEW o, Sound(o), o.phase = "userWrite",
           NEW q, q = [o EXCEPT !.wrote = @ \cup {<<o.role, o.host>>}]
    PROVE  Sound(AfterWrite(q))
<1>1. /\ ReqOK(q) /\ q.phase = "userWrite" /\ q.kind = o.kind /\ q.missed = o.missed
      /\ q.free = o.free /\ q.role = o.role /\ q.host = o.host
      /\ q.wrote = o.wrote \cup {<<o.role, o.host>>}
  <2>1. o \in ReqType /\ <<o.role, o.host>> \in (1..RoleCount) \X Hosts
    BY DEF Sound, ReqOK, ReqType
  <2>2. (o.wrote \cup {<<o.role, o.host>>}) \in SUBSET ((1..RoleCount) \X Hosts)
    BY <2>1 DEF ReqType
  <2> QED BY <2>1, <2>2 DEF Sound, ReqOK, ReqType
<1>2. /\ q.role \in 1..RoleCount /\ q.host \in 0..ShardCount /\ q \in ReqType
      /\ RoleCount \in Nat /\ ShardCount \in Nat
  BY <1>1, AdapterAssumption DEF ReqOK, ReqType, Hosts
<1>3. q.kind = "create" => q.free
  BY <1>1 DEF Sound, ReqInv
<1>4. q.kind \in UserKinds /\ InLoops(q) /\ WrittenBefore(o, o.host)
  <2>1. o.kind \in UserKinds /\ InLoops(o) /\ WrittenBefore(o, o.host)
    BY DEF Sound, ReqInv, UserInv, UserPhases
  <2> QED BY <1>1, <2>1 DEF InLoops
<1>5. WrittenBefore(q, q.host + 1)
  <2> SUFFICES ASSUME NEW i \in 1..RoleCount, NEW h \in Hosts,
                      Writes(q, i, h), i < q.role \/ (i = q.role /\ h < q.host + 1)
               PROVE  <<i, h>> \in q.wrote
    BY DEF WrittenBefore
  <2>1. Writes(o, i, h)
    BY <1>1 DEF Writes
  <2>2. i < o.role \/ (i = o.role /\ h < o.host) \/ (i = o.role /\ h = o.host)
    BY <1>1, <1>2 DEF Hosts
  <2> QED BY <1>1, <1>4, <2>1, <2>2 DEF WrittenBefore
<1>6. Streams(q) <=> StreamRole(q.kind, q.role)
  BY DEF Streams, StreamRole
<1>7. CASE q.host = 0 /\ Streams(q)
  <2> DEFINE e == Enter(q, "hosts")
  <2>1. "hosts" \in Phases \ {"done"}
    BY DEF Phases
  <2>2. e \in ReqType /\ e.host = 0
    BY <1>1, <1>7, <2>1, EnterFacts DEF ReqOK
  <2>3. e = [e EXCEPT !.host = 0]
    <3> HIDE DEF e
    <3> QED BY <2>2 DEF ReqType
  <2>4. 0 \in Hosts
    BY <1>2 DEF Hosts
  <2>5. WrittenBefore(q, 1)
    BY <1>5, <1>7
  <2>6. Sound([Enter(q, "hosts") EXCEPT !.host = 0])
    BY <1>1, <1>3, <1>4, <1>6, <1>7, <2>4, <2>5, NextHostSound DEF UserPhases
  <2> QED BY <1>7, <2>3, <2>6 DEF AfterWrite
<1>8. CASE ~(q.host = 0 /\ Streams(q)) /\ q.host \in 1..(ShardCount - 1)
  <2>1. [Enter(q, "userCheck") EXCEPT !.host = @ + 1] =
        [Enter(q, "userCheck") EXCEPT !.host = q.host + 1]
    <3>1. "userCheck" \in Phases \ {"done"}
      BY DEF Phases
    <3>2. Enter(q, "userCheck").host = q.host
      BY <1>1, <3>1, EnterFacts
    <3> QED BY <3>2
  <2>2. q.host + 1 \in Hosts /\ StreamRole(q.kind, q.role)
    BY <1>2, <1>4, <1>8 DEF Hosts, InLoops
  <2>3. Sound([Enter(q, "userCheck") EXCEPT !.host = q.host + 1])
    BY <1>1, <1>3, <1>4, <1>5, <2>2, NextHostSound DEF UserPhases
  <2> QED BY <1>8, <2>1, <2>3 DEF AfterWrite
<1>9. CASE ~(q.host = 0 /\ Streams(q)) /\ q.host \notin 1..(ShardCount - 1)
  <2>1. ASSUME NEW i \in 1..RoleCount, NEW h \in Hosts, Writes(q, i, h), i <= q.role
        PROVE  <<i, h>> \in q.wrote
    <3>1. i < q.role \/ i = q.role
      BY <1>2, <2>1
    <3>2. i = q.role => h < q.host + 1
      <4>1. CASE q.host = 0
        BY <1>6, <1>9, <2>1, <4>1 DEF Writes
      <4>2. CASE q.host # 0
        BY <1>2, <1>9, <4>2 DEF Hosts
      <4> QED BY <4>1, <4>2
    <3> QED BY <1>5, <2>1, <3>1, <3>2 DEF WrittenBefore
  <2>2. Sound(UserDone(q))
    BY <1>1, <1>3, <1>4, <2>1, UserDoneSound
  <2> QED BY <1>9, <2>2 DEF AfterWrite
<1> QED BY <1>7, <1>8, <1>9

\* The shards are listed, or cannot be and the user counts as written.
LEMMA HostsSound ==
    ASSUME NEW q, Sound(q), q.phase = "hosts"
    PROVE  /\ ShardCount > 0 => Sound([Enter(q, "userCheck") EXCEPT !.host = 1])
           /\ ShardCount = 0 => Sound(UserDone(q))
           /\ Sound(UserDone([q EXCEPT !.missed = @ \cup {"hosts"}]))
<1>1. /\ ReqOK(q) /\ q.kind \in UserKinds /\ InLoops(q) /\ WrittenBefore(q, 1) /\ q.host = 0
      /\ StreamRole(q.kind, q.role) /\ (q.kind = "create" => q.free)
  BY DEF Sound, ReqInv, UserInv, UserPhases
<1>2. q \in ReqType /\ q.role \in 1..RoleCount /\ ShardCount \in Nat /\ RoleCount \in Nat
  BY <1>1, AdapterAssumption DEF ReqOK, ReqType
<1>3. ShardCount > 0 => Sound([Enter(q, "userCheck") EXCEPT !.host = 1])
  <2>1. ShardCount > 0 => 1 \in Hosts
    BY <1>2 DEF Hosts
  <2> QED BY <1>1, <2>1, NextHostSound DEF UserPhases
<1>4. ASSUME NEW i \in 1..RoleCount, NEW h \in Hosts, Writes(q, i, h), i <= q.role, h = 0
      PROVE  <<i, h>> \in q.wrote
  <2>1. i < q.role \/ (i = q.role /\ h < 1)
    BY <1>2, <1>4
  <2> QED BY <1>1, <1>4, <2>1 DEF WrittenBefore
<1>5. ShardCount = 0 => Sound(UserDone(q))
  <2>1. ShardCount = 0 => \A h \in Hosts : h = 0
    BY DEF Hosts
  <2> QED BY <1>1, <1>4, <2>1, UserDoneSound
<1>6. Sound(UserDone([q EXCEPT !.missed = @ \cup {"hosts"}]))
  <2> DEFINE e == [q EXCEPT !.missed = @ \cup {"hosts"}]
  <2>1. /\ ReqOK(e) /\ e.phase = "hosts" /\ e.kind = q.kind /\ e.free = q.free
        /\ e.role = q.role /\ e.host = q.host /\ e.wrote = q.wrote /\ "hosts" \in e.missed
    BY <1>1 DEF ReqOK, ReqType
  <2> HIDE DEF e
  <2>2. InLoops(e)
    BY <1>1, <2>1 DEF InLoops
  <2>3. ASSUME NEW i, NEW h, Writes(e, i, h) PROVE h = 0 /\ Writes(q, i, h)
    BY <2>1, <2>3 DEF Writes
  <2>4. Sound(UserDone(e))
    BY <1>1, <1>4, <2>1, <2>2, <2>3, UserDoneSound
  <2> QED BY <2>4 DEF e
<1> QED BY <1>3, <1>5, <1>6

LEMMA UserKeeps ==
    ASSUME DbInv, NEW r \in Reqs, UserWrite(r) \/ DropUser(r) \/ GetReplicaSetHosts(r)
    PROVE  DbInv'
<1>0. Sound(req[r])
  BY DbInvSound
<1>1. CASE UserWrite(r)
  <2> DEFINE q == req[r]
             done == [q EXCEPT !.wrote = @ \cup {<<q.role, q.host>>}]
  <2>1. q.phase = "userWrite"
    BY <1>1 DEF UserWrite
  <2>2. Sound(Failed(q)) /\ Sound(AfterWrite(done))
    BY <1>0, <2>1, SoundFailed, AfterWriteSound
  <2>3. Becomes(r, Failed(q)) \/ Becomes(r, AfterWrite(done))
    BY <1>1 DEF UserWrite
  <2>4. StoreType'
    <3>1. /\ users \in [Dbs -> SUBSET Hosts] /\ StoreType
          /\ q.host \in Hosts /\ q.db \in Dbs
      BY <1>0, <2>1 DEF StoreType, DbInv, TypeOK, Sound, ReqOK, ReqType
    <3>2. users' = users \/ users' = [users EXCEPT ![q.db] = IF Named(q) THEN @ \cup {q.host} ELSE @]
      BY <1>1 DEF UserWrite
    <3>3. users' \in [Dbs -> SUBSET Hosts]
      BY <3>1, <3>2
    <3>4. UNCHANGED <<meta, coll, docs, key, idx>>
      BY <1>1 DEF UserWrite
    <3> QED
      BY <3>1, <3>3, <3>4 DEF StoreType
  <2> HIDE DEF done
  <2> QED BY <1>1, <2>2, <2>3, <2>4, RequestAndStore DEF UserWrite
<1>2. CASE GetReplicaSetHosts(r)
  <2>1. req[r].phase = "hosts"
    BY <1>2 DEF GetReplicaSetHosts
  <2>2. ShardCount > 0 \/ ShardCount = 0
    BY AdapterAssumption
  <2>3. PICK q : Sound(q) /\ Becomes(r, q)
    BY <1>0, <1>2, <2>1, <2>2, HostsSound DEF GetReplicaSetHosts
  <2>4. StoreType'
    BY <1>2 DEF GetReplicaSetHosts, StoreType, store, DbInv, TypeOK
  <2> QED BY <1>2, <2>3, <2>4, RequestAndStore DEF GetReplicaSetHosts
<1>3. CASE DropUser(r)
  <2>1. req[r].phase = "dropUser"
    BY <1>3 DEF DropUser
  <2>2. Sound(Failed(req[r])) /\ Sound(Enter(req[r], NextPhase(req[r])))
    BY <1>0, <2>1, SoundFailed, ProceedSound DEF UserPhases
  <2>3. Becomes(r, Failed(req[r])) \/ Becomes(r, Enter(req[r], NextPhase(req[r])))
    BY <1>3 DEF DropUser, Proceed
  <2>4. StoreType'
    <3>1. users \in [Dbs -> SUBSET Hosts] /\ StoreType
      BY DEF StoreType, DbInv, TypeOK
    <3>2. users' = users \/ users' = [users EXCEPT ![req[r].db] = @ \ {0}]
      BY <1>3 DEF DropUser
    <3>3. users' \in [Dbs -> SUBSET Hosts]
      BY <3>1, <3>2
    <3>4. UNCHANGED <<meta, coll, docs, key, idx>>
      BY <1>3 DEF DropUser
    <3> QED
      BY <3>1, <3>3, <3>4 DEF StoreType
  <2> QED BY <1>3, <2>2, <2>3, <2>4, RequestAndStore DEF DropUser
<1> QED BY <1>1, <1>2, <1>3

LEMMA GrantRoleKeeps ==
    ASSUME DbInv, NEW r \in Reqs, GrantRole(r)
    PROVE  DbInv'
<1>0. Sound(req[r])
  BY DbInvSound
<1>1. req[r].phase \notin {"rollback", "done", "validate"} /\ req[r].db \in Dbs
  BY <1>0 DEF GrantRole, Granted, OwnerPhases, ClusterPhases, Sound, ReqOK
<1>2. Sound(Failed(req[r])) /\ Sound([req[r] EXCEPT !.step = "body"])
  <2>1. Sound([req[r] EXCEPT !.step = "body"])
    BY <1>0, StepSound
  <2> QED BY <1>0, <1>1, <2>1, SoundFailed
<1>3. grants' \subseteq Dbs \cup {Admin} /\ leaked' \subseteq Dbs \cup {Admin}
  BY <1>1 DEF GrantRole, RoleDb, DbInv, TypeOK
<1>4. Becomes(r, Failed(req[r])) \/ Becomes(r, [req[r] EXCEPT !.step = "body"])
  BY DEF GrantRole
<1> QED BY <1>2, <1>3, <1>4, RequestOnly DEF GrantRole

LEMMA EffectType ==
    ASSUME DbInv, NEW q, Sound(q), q.phase # "done", Effect(q)
    PROVE  StoreType'
<1>1. q.db \in Dbs /\ q.key \in Keys \cup {NoKey}
  BY DEF Sound, ReqOK, ReqType
<1>2. q.phase \in ShardPhases => q.key \in Keys
  BY <1>1 DEF Sound, ReqInv
<1>3. CASE q.phase = "meta"
  BY <1>3 DEF Effect, StoreType, DbInv, TypeOK, DropContents
<1>4. CASE q.phase \in {"collection", "index", "refineIndex"}
  <2>1. /\ coll' = [coll EXCEPT ![q.db] = TRUE]
        /\ idx' = [idx EXCEPT ![q.db] = IF q.phase = "collection" THEN @
                                        ELSE @ \cup {q.key}]
        /\ UNCHANGED <<users, meta, docs, key>>
    BY <1>4 DEF Effect
  <2>2. q.key \in Keys
    BY <1>2, <1>4 DEF ShardPhases
  <2>3. idx' \in [Dbs -> SUBSET Keys]
    <3>1. idx \in [Dbs -> SUBSET Keys]
      BY DEF DbInv, TypeOK
    <3>2. idx' = idx \/ idx' = [idx EXCEPT ![q.db] = idx[q.db] \cup {q.key}]
      BY <2>1, <3>1
    <3> QED BY <1>1, <2>2, <3>1, <3>2
  <2>4. coll' \in [Dbs -> BOOLEAN]
    BY <2>1 DEF DbInv, TypeOK
  <2> QED BY <2>1, <2>3, <2>4 DEF StoreType, DbInv, TypeOK
<1>5. CASE q.phase \in {"shard", "refine"}
  <2>1. /\ key' = [key EXCEPT ![q.db] = q.key]
        /\ coll' = [coll EXCEPT ![q.db] = TRUE]
        /\ idx' = [idx EXCEPT ![q.db] = idx[q.db] \cup {q.key}]
        /\ UNCHANGED <<users, meta, docs>>
    BY <1>5 DEF Effect
  <2>2. q.key \in Keys
    BY <1>2, <1>5 DEF ShardPhases
  <2>3. idx' \in [Dbs -> SUBSET Keys]
    <3>1. idx \in [Dbs -> SUBSET Keys]
      BY DEF DbInv, TypeOK
    <3> QED BY <1>1, <2>1, <2>2, <3>1
  <2>4. coll' \in [Dbs -> BOOLEAN] /\ key' \in [Dbs -> Keys \cup {NoKey}]
    BY <1>1, <2>1 DEF DbInv, TypeOK
  <2> QED BY <2>1, <2>3, <2>4 DEF StoreType, DbInv, TypeOK
<1>6. CASE q.phase = "dropDb"
  BY <1>6 DEF Effect, StoreType, DbInv, TypeOK, DropContents, NoKey
<1>7. CASE q.phase \in {"enable", "move"}
  BY <1>7 DEF Effect, StoreType, DbInv, TypeOK, store
<1> QED BY <1>3, <1>4, <1>5, <1>6, <1>7 DEF Effect

LEMMA BodyKeeps ==
    ASSUME DbInv, NEW r \in Reqs, Body(r)
    PROVE  DbInv'
<1> DEFINE after == [req[r] EXCEPT !.step = "revoke"]
           missed == [after EXCEPT !.missed = @ \cup {"body"}]
<1>0. Sound(req[r])
  BY DbInvSound
<1>1. req[r].phase # "done"
  BY DEF Body, Granted, OwnerPhases, ClusterPhases
<1>2. Sound(after)
  BY <1>0, StepSound
<1>3. Sound(missed)
  <2> HIDE DEF after
  <2>1. /\ missed \in ReqType /\ missed.kind = after.kind /\ missed.phase = after.phase
        /\ missed.role = after.role /\ missed.host = after.host /\ missed.wrote = after.wrote
        /\ missed.result = after.result /\ missed.missed = after.missed \cup {"body"}
        /\ missed.db = after.db /\ missed.free = after.free /\ missed.key = after.key
    BY <1>2 DEF Sound, ReqOK, ReqType
  <2> HIDE DEF missed
  <2>2. UserInv(missed)
    BY <1>2, <2>1, UserInvSame DEF Sound, ReqInv
  <2> QED BY <1>2, <2>1, <2>2 DEF Sound, ReqOK, ReqInv
<1>4. Becomes(r, after) \/ Becomes(r, missed)
  BY DEF Body
<1>5. Effect(req[r]) \/ UNCHANGED store
  BY DEF Body
<1>6. StoreType'
  BY <1>0, <1>1, <1>5, EffectType DEF StoreType, DbInv, TypeOK, store
<1>7. UNCHANGED <<bg, grants, leaked, served>> /\ (faults' = faults \/ Fault)
  BY DEF Body
<1> HIDE DEF after, missed
<1> QED BY <1>2, <1>3, <1>4, <1>6, <1>7, RequestAndStore

LEMMA RevokeRoleKeeps ==
    ASSUME DbInv, NEW r \in Reqs, RevokeRole(r)
    PROVE  DbInv'
<1> DEFINE q == [req[r] EXCEPT !.alone = @ /\ ~(StartsTask(req[r]) /\ req[r].move)]
<1>0. Sound(req[r])
  BY DbInvSound
<1>1. /\ req[r].phase \notin UserPhases \cup {"rollback", "done", "validate"}
      /\ req[r].db \in Dbs
  BY <1>0 DEF RevokeRole, Granted, OwnerPhases, ClusterPhases, UserPhases, Sound, ReqOK
<1>2. Sound(q) /\ q.phase = req[r].phase
  <2>1. (req[r].alone /\ ~(StartsTask(req[r]) /\ req[r].move)) \in BOOLEAN
    OBVIOUS
  <2>2. q.phase = req[r].phase
    BY <1>0 DEF Sound, ReqOK, ReqType
  <2> QED BY <1>0, <2>1, <2>2, AloneSound
<1>3. Becomes(r, Failed(req[r])) \/ Becomes(r, Enter(q, NextPhase(q)))
  BY DEF RevokeRole
<1> HIDE DEF q
<1>4. Sound(Failed(req[r])) /\ Sound(Enter(q, NextPhase(q)))
  BY <1>0, <1>1, <1>2, SoundFailed, ProceedSound
<1>5. bg' \in [Reqs -> TaskType] /\ \A x \in Reqs : bg'[x].step # "none" => bg'[x].db \in Dbs
  <2>1. req[r].key \in Keys \cup {NoKey}
    BY <1>0 DEF Sound, ReqOK, ReqType
  <2> DEFINE t == NewTask(req[r])
  <2>2. (req[r].alone /\ ~req[r].move) \in BOOLEAN
    OBVIOUS
  <2>3. t \in TaskType /\ t.db \in Dbs
    BY <1>1, <2>1, <2>2 DEF TaskType, NewTask
  <2>4. bg' = bg \/ bg' = [bg EXCEPT ![r] = t]
    BY DEF RevokeRole
  <2> HIDE DEF t
  <2> QED BY <2>3, <2>4 DEF DbInv, TypeOK, Tasking
<1>6. grants' \subseteq Dbs \cup {Admin} /\ leaked' \subseteq Dbs \cup {Admin}
  BY <1>1 DEF RevokeRole, RoleDb, Revoked, DbInv, TypeOK
<1>7. UNCHANGED <<store, served>> /\ faults' \in 0..MaxFaults
  BY FaultType DEF RevokeRole, DbInv, TypeOK
<1> QED BY <1>3, <1>4, <1>5, <1>6, <1>7, BecomesSound DEF DbInv, TypeOK, Tasking, store

LEMMA RollbackKeeps ==
    ASSUME DbInv, NEW r \in Reqs, Rollback(r)
    PROVE  DbInv'
<1>0. Sound(req[r])
  BY DbInvSound
<1>1. Sound(Answer(req[r], "failed"))
  BY <1>0, AnswerSound DEF Sound
<1>2. DropContents(req[r].db) \/ UNCHANGED store
  BY DEF Rollback
<1>3. StoreType'
  BY <1>2 DEF StoreType, DropContents, DbInv, TypeOK, store, NoKey
<1> QED BY <1>1, <1>3, RequestAndStore DEF Rollback

LEMMA TaskKeeps ==
    ASSUME DbInv, NEW r \in Reqs, Task(r)
    PROVE  DbInv'
<1>0. bg[r].step # "none" /\ bg[r] \in TaskType /\ bg[r].db \in Dbs
  BY DEF Task, TaskGrant, TaskBody, TaskRevoke, DbInv, TypeOK, Tasking, TaskType
<1>1. bg' \in [Reqs -> TaskType] /\ \A x \in Reqs : bg'[x].step # "none" => bg'[x].db \in Dbs
  <2>1. \/ bg' = [bg EXCEPT ![r] = NoTask]
        \/ bg' = [bg EXCEPT ![r].step = "body"] \/ bg' = [bg EXCEPT ![r].step = "revoke"]
    BY DEF Task, TaskGrant, TaskBody, TaskRevoke
  <2>2. NoTask \in TaskType /\ NoTask.step = "none"
    BY DEF NoTask, TaskType
  <2>3. ASSUME NEW st \in {"body", "revoke"}, bg' = [bg EXCEPT ![r].step = st]
        PROVE  <1>1!1 /\ <1>1!2
    BY <1>0, <2>3 DEF DbInv, TypeOK, Tasking, TaskType
  <2>4. CASE bg' = [bg EXCEPT ![r] = NoTask]
    BY <2>2, <2>4 DEF DbInv, TypeOK, Tasking
  <2> QED BY <2>1, <2>3, <2>4
<1>2. grants' \subseteq Dbs \cup {Admin} /\ leaked' \subseteq Dbs \cup {Admin}
  BY DEF Task, TaskGrant, TaskBody, TaskRevoke, DbInv, TypeOK, store
<1>3. key' \in [Dbs -> Keys \cup {NoKey}]
  BY <1>0 DEF Task, TaskGrant, TaskBody, TaskRevoke, DbInv, TypeOK, store, TaskType
<1>4. faults' \in 0..MaxFaults
  BY FaultType DEF Task, TaskGrant, TaskBody, TaskRevoke, DbInv, TypeOK
<1>5. UNCHANGED <<req, users, meta, coll, docs, idx, served>>
  BY DEF Task, TaskGrant, TaskBody, TaskRevoke, store
<1> QED BY <1>1, <1>2, <1>3, <1>4, <1>5 DEF DbInv, TypeOK, Busy, Tasking

LEMMA CrashKeeps == DbInv /\ Crash => DbInv'
<1> SUFFICES ASSUME DbInv, Crash PROVE DbInv'
  OBVIOUS
<1>1. /\ req' = [r \in Reqs |-> IF Busy(r) THEN Idle ELSE req[r]]
      /\ bg' = [r \in Reqs |-> NoTask] /\ UNCHANGED <<grants, store, served>>
      /\ leaked' = leaked \cup grants /\ Fault
  BY DEF Crash
<1>2. Idle \in ReqType /\ Idle.phase = "done" /\ UserInv(Idle) /\ ReqInv(Idle)
  <2>1. Idle.phase = "done" /\ Idle.result = "none"
    BY DEF Idle
  <2> QED BY <2>1, IdleType DEF UserInv, UserPhases, Answered, ReqInv, ShardPhases
<1>3. NoTask \in TaskType /\ NoTask.step = "none"
  BY DEF NoTask, TaskType
<1>4. ASSUME NEW r \in Reqs
      PROVE  /\ req'[r] \in ReqType /\ ReqInv(req'[r]) /\ ~Busy(r)'
             /\ bg'[r] \in TaskType /\ ~Tasking(r)'
  BY <1>1, <1>2, <1>3 DEF DbInv, TypeOK, Busy, Tasking
<1>5. faults' \in 0..MaxFaults
  BY <1>1, FaultType DEF DbInv
<1> QED BY <1>1, <1>4, <1>5 DEF DbInv, TypeOK, store

LEMMA ClientWritesKeeps ==
    ASSUME DbInv, NEW d \in Dbs, ClientWrites(d)
    PROVE  DbInv'
<1>1. coll' \in [Dbs -> BOOLEAN] /\ docs' \in [Dbs -> BOOLEAN]
  BY DEF ClientWrites, DbInv, TypeOK
<1> QED BY <1>1 DEF ClientWrites, DbInv, TypeOK, Busy, Tasking

-----------------------------------------------------------------------------
LEMMA DbInit == Init => DbInv
<1> SUFFICES ASSUME Init PROVE DbInv
  OBVIOUS
<1>1. req \in [Reqs -> ReqType] /\ \A r \in Reqs : ~Busy(r) /\ ReqInv(req[r])
  <2>1. Idle.phase = "done" /\ Idle.result = "none"
    BY DEF Idle
  <2>2. ReqInv(Idle)
    BY <2>1 DEF UserInv, UserPhases, Answered, ReqInv, ShardPhases
  <2> QED BY <2>1, <2>2, IdleType DEF Init, Busy
<1>2. NoTask \in TaskType /\ NoTask.step = "none"
  BY DEF NoTask, TaskType
<1>3. bg \in [Reqs -> TaskType] /\ \A r \in Reqs : ~Tasking(r)
  BY <1>2 DEF Init, Tasking
<1>4. served \in 0..MaxServed /\ faults \in 0..MaxFaults
  BY AdapterAssumption DEF Init
<1> QED BY <1>1, <1>3, <1>4 DEF Init, DbInv, TypeOK, NoKey

LEMMA DbStep == DbInv /\ [Next]_vars => DbInv'
<1> SUFFICES ASSUME DbInv, [Next]_vars PROVE DbInv'
  OBVIOUS
<1>1. ASSUME NEW r \in Reqs, Handle(r) PROVE DbInv'
  BY <1>1, CheckKeeps, UserKeeps, GrantRoleKeeps, BodyKeeps, RevokeRoleKeeps,
     RollbackKeeps DEF Handle
<1>2. CASE UNCHANGED vars
  BY <1>2 DEF DbInv, TypeOK, vars, store, Busy, Tasking
<1> QED BY <1>1, <1>2, ReceiveKeeps, TaskKeeps, ClientWritesKeeps, CrashKeeps DEF Next

LEMMA DbAlways == Spec => []DbInv
  BY DbInit, DbStep, PTL DEF Spec

\* Every variable keeps its type, and a call in progress names a logical
\* database, for any requests, databases, keys and failures.
THEOREM TypeCorrect == Spec => []TypeOK
<1>1. DbInv => TypeOK
  BY DEF DbInv
<1> QED BY <1>1, DbAlways, PTL

\* An "ok" has all its users: whatever command of CreateOrUpdateUser fails in
\* the loops over roles and shards, and whatever the later commands, the
\* deferred revokes and the other requests do, each user was written wherever it
\* belongs.  The error the code drops, of GetReplicaSetHosts, leaves a streaming
\* user out of all shards, never of some.
THEOREM OkHasUserAlways == Spec => []OkHasUser
<1>1. DbInv => OkHasUser
  <2> SUFFICES ASSUME DbInv, NEW r \in Reqs, Answered(req[r], "ok"), req[r].kind \in UserKinds
               PROVE  ToWrite(req[r]) \subseteq req[r].wrote
    BY DEF OkHasUser
  <2>1. AllWritten(req[r]) /\ req[r] \in ReqType
    BY DEF DbInv, TypeOK, ReqInv, UserInv
  <2> QED BY <2>1, AllWrittenIs
<1> QED BY <1>1, DbAlways, PTL

-----------------------------------------------------------------------------
(* Who holds a role.  A request or a task that gives up its hold takes the   *)
(* role away with it, or the role has leaked; RoleHasHolder is inductive.    *)

Holding(q, d) == Granted(q) /\ q.step # "grant" /\ RoleDb(q) = d
TaskHolding(t, d) == d = Admin /\ t.step \in {"body", "revoke"}

LEMMA RoleHasHolderIs ==
    RoleHasHolder <=>
        \A d \in grants : \/ d \in leaked
                          \/ \E r \in Reqs : Holding(req[r], d) \/ TaskHolding(bg[r], d)
  BY DEF RoleHasHolder, Holders, TaskHolders, Holding, TaskHolding

LEMMA RoleHasHolderIsNext ==
    RoleHasHolder' <=>
        \A d \in grants' : \/ d \in leaked'
                           \/ \E r \in Reqs : Holding(req'[r], d) \/ TaskHolding(bg'[r], d)
  BY DEF RoleHasHolder, Holders, TaskHolders, Holding, TaskHolding, Granted, RoleDb

\* A step of request r: it still holds what it held, or gives up what is no
\* longer granted.
LEMMA RequestHolds ==
    ASSUME DbInv, RoleHasHolder, NEW r \in Reqs, NEW q, Becomes(r, q),
           \A d \in grants' : d \in leaked => d \in leaked',
           \A d \in grants' : \/ d \in leaked' \/ Holding(q, d)
                              \/ d \in grants /\ ~Holding(req[r], d),
           \A d \in grants' : TaskHolding(bg[r], d) => TaskHolding(bg'[r], d),
           \A x \in Reqs \ {r} : bg'[x] = bg[x]
    PROVE  RoleHasHolder'
<1>1. req'[r] = q /\ \A x \in Reqs \ {r} : req'[x] = req[x]
  BY DEF Becomes, DbInv, TypeOK
<1>2. ASSUME NEW d \in grants', d \notin leaked', ~Holding(q, d)
      PROVE  \E x \in Reqs : Holding(req'[x], d) \/ TaskHolding(bg'[x], d)
  <2>1. d \in grants /\ ~Holding(req[r], d) /\ d \notin leaked
    BY <1>2
  <2>2. PICK x \in Reqs : Holding(req[x], d) \/ TaskHolding(bg[x], d)
    BY <2>1, RoleHasHolderIs
  <2>3. CASE x = r
    BY <2>1, <2>2, <2>3
  <2>4. CASE x # r
    BY <1>1, <2>2, <2>4
  <2> QED BY <2>3, <2>4
<1> QED BY <1>1, <1>2, RoleHasHolderIsNext

\* A request outside the phases that run under a role holds none.
LEMMA UngrantedHolds ==
    ASSUME DbInv, RoleHasHolder, NEW r \in Reqs, NEW q, Becomes(r, q),
           ~Granted(req[r]), UNCHANGED <<bg, grants, leaked>>
    PROVE  RoleHasHolder'
  BY RequestHolds DEF Holding

LEMMA HolderStep ==
    ASSUME DbInv, RoleHasHolder, [Next]_vars
    PROVE  RoleHasHolder'
<1>1. ASSUME NEW r \in Reqs, Receive(r) PROVE RoleHasHolder'
  <2>1. ASSUME NEW x \in Reqs, NEW d, Holding(req[x], d) PROVE Holding(req'[x], d)
    <3>1. x # r
      BY <1>1, <2>1 DEF Receive, Busy, Holding, Granted, OwnerPhases, ClusterPhases
    <3>2. req'[x] = [req[x] EXCEPT !.alone = @ /\ ~Busy(x)] /\ req[x] \in ReqType
      BY <1>1, <3>1 DEF Receive, DbInv, TypeOK
    <3>3. req'[x].phase = req[x].phase /\ req'[x].step = req[x].step /\ req'[x].db = req[x].db
      BY <3>2 DEF ReqType
    <3> QED BY <2>1, <3>3 DEF Holding, Granted, RoleDb
  <2>2. UNCHANGED <<grants, leaked>> /\ bg' = Crowded
    BY <1>1 DEF Receive
  <2>3. ASSUME NEW x \in Reqs, NEW d, TaskHolding(bg[x], d) PROVE TaskHolding(bg'[x], d)
    BY <2>2, <2>3 DEF Crowded, TaskHolding, DbInv, TypeOK, TaskType
  <2> QED BY <2>1, <2>2, <2>3, RoleHasHolderIs, RoleHasHolderIsNext
<1>2. ASSUME NEW r \in Reqs,
             Validate(r) \/ UserCheck(r) \/ UserWrite(r) \/ GetReplicaSetHosts(r)
             \/ DropUser(r) \/ CheckKey(r) \/ Rollback(r)
      PROVE  RoleHasHolder'
  <2>1. ~Granted(req[r])
    BY <1>2 DEF Validate, UserCheck, UserWrite, GetReplicaSetHosts, DropUser, CheckKey, Rollback,
                Granted, OwnerPhases, ClusterPhases
  <2>2. UNCHANGED <<bg, grants, leaked>>
    BY <1>2 DEF Validate, UserCheck, UserWrite, GetReplicaSetHosts, DropUser, CheckKey, Rollback
  <2>3. \E q : Becomes(r, q)
    BY <1>2 DEF Validate, UserCheck, UserWrite, GetReplicaSetHosts, DropUser, CheckKey, Rollback,
                Proceed
  <2> QED BY <2>1, <2>2, <2>3, UngrantedHolds
<1>3. ASSUME NEW r \in Reqs, GrantRole(r) PROVE RoleHasHolder'
  <2>1. \A d : ~Holding(req[r], d)
    BY <1>3 DEF GrantRole, Holding
  <2>2. UNCHANGED <<bg, leaked>>
    BY <1>3 DEF GrantRole
  <2>3. CASE grants' = grants \cup {RoleDb(req[r])} /\ Becomes(r, [req[r] EXCEPT !.step = "body"])
    <3>1. Holding([req[r] EXCEPT !.step = "body"], RoleDb(req[r]))
      BY <1>3 DEF GrantRole, Holding, Granted, RoleDb, DbInv, TypeOK, ReqType
    <3> QED BY <2>1, <2>2, <2>3, <3>1, RequestHolds
  <2>4. CASE grants' = grants /\ Becomes(r, Failed(req[r]))
    BY <2>1, <2>2, <2>4, RequestHolds
  <2> QED BY <1>3, <2>3, <2>4 DEF GrantRole
<1>4. ASSUME NEW r \in Reqs, Body(r) PROVE RoleHasHolder'
  <2> DEFINE after == [req[r] EXCEPT !.step = "revoke"]
             missed == [after EXCEPT !.missed = @ \cup {"body"}]
  <2>1. UNCHANGED <<bg, grants, leaked>> /\ (Becomes(r, after) \/ Becomes(r, missed))
    BY <1>4 DEF Body
  <2>2. req[r] \in ReqType
    BY DEF DbInv, TypeOK
  <2>3. /\ after.phase = req[r].phase /\ after.step = "revoke" /\ after.db = req[r].db
        /\ missed.phase = req[r].phase /\ missed.step = "revoke" /\ missed.db = req[r].db
    BY <2>2 DEF ReqType
  <2> HIDE DEF after, missed
  <2>4. \A d : Holding(req[r], d) => Holding(after, d) /\ Holding(missed, d)
    BY <2>3 DEF Holding, Granted, RoleDb
  <2>5. PICK q : Becomes(r, q) /\ \A d : Holding(req[r], d) => Holding(q, d)
    BY <2>1, <2>4
  <2>6. \A d \in grants' : \/ d \in leaked' \/ Holding(q, d)
                           \/ d \in grants /\ ~Holding(req[r], d)
    BY <2>1, <2>5
  <2>7. /\ leaked' = leaked /\ \A x \in Reqs \ {r} : bg'[x] = bg[x]
        /\ \A d \in grants' : TaskHolding(bg[r], d) => TaskHolding(bg'[r], d)
    BY <2>1
  <2>8. Becomes(r, q)
    BY <2>5
  <2> QED BY <2>6, <2>7, <2>8, RequestHolds
<1>5. ASSUME NEW r \in Reqs, RevokeRole(r) PROVE RoleHasHolder'
  <2>1. \A d : Holding(req[r], d) <=> d = RoleDb(req[r])
    BY <1>5 DEF RevokeRole, Holding
  <2>2. \E q : Becomes(r, q)
    BY <1>5 DEF RevokeRole
  <2>3. /\ \A d \in grants' : d \in leaked => d \in leaked'
        /\ \A x \in Reqs \ {r} : bg'[x] = bg[x]
    BY <1>5 DEF RevokeRole, Revoked, DbInv, TypeOK
  <2>4. \A d \in grants' : d \in grants /\ (d = RoleDb(req[r]) => d \in leaked')
    BY <1>5 DEF RevokeRole, Revoked
  <2>5. bg' = bg \/ grants' = grants \ {Admin}
    BY <1>5 DEF RevokeRole, Revoked, StartsTask, RoleDb, ClusterPhases
  <2>6. \A d \in grants' : TaskHolding(bg[r], d) => TaskHolding(bg'[r], d)
    BY <2>5 DEF TaskHolding
  <2>7. PICK q : Becomes(r, q)
    BY <2>2
  <2>8. \A d \in grants' : \/ d \in leaked' \/ Holding(q, d)
                           \/ d \in grants /\ ~Holding(req[r], d)
    BY <2>1, <2>4
  <2> QED BY <2>3, <2>6, <2>7, <2>8, RequestHolds
<1>6. ASSUME NEW r \in Reqs, Task(r) PROVE RoleHasHolder'
  <2>1. /\ req' = req /\ \A x \in Reqs \ {r} : bg'[x] = bg[x]
        /\ \A d \in grants' : d \in leaked => d \in leaked'
    BY <1>6 DEF Task, TaskGrant, TaskBody, TaskRevoke, DbInv, TypeOK
  <2>2. bg[r] \in TaskType
    BY DEF DbInv, TypeOK
  <2>3. ASSUME NEW d \in grants', d \notin leaked'
        PROVE  TaskHolding(bg'[r], d) \/ (d \in grants /\ ~TaskHolding(bg[r], d))
    <3>1. CASE TaskGrant(r)
      BY <2>2, <2>3, <3>1 DEF TaskGrant, TaskHolding, DbInv, TypeOK, TaskType
    <3>2. CASE TaskBody(r)
      BY <2>2, <2>3, <3>2 DEF TaskBody, TaskHolding, DbInv, TypeOK, TaskType
    <3>3. CASE TaskRevoke(r)
      BY <2>3, <3>3 DEF TaskRevoke, TaskHolding
    <3> QED BY <1>6, <3>1, <3>2, <3>3 DEF Task
  <2>4. ASSUME NEW d \in grants', d \notin leaked'
        PROVE  \E x \in Reqs : Holding(req'[x], d) \/ TaskHolding(bg'[x], d)
    <3>1. CASE d \in grants /\ ~TaskHolding(bg[r], d)
      <4>1. PICK x \in Reqs : Holding(req[x], d) \/ TaskHolding(bg[x], d)
        BY <2>1, <2>4, <3>1, RoleHasHolderIs
      <4> QED BY <2>1, <3>1, <4>1
    <3> QED BY <2>3, <2>4, <3>1
  <2> QED BY <2>4, RoleHasHolderIsNext
<1>7. CASE UNCHANGED <<req, bg, grants, leaked>>
  BY <1>7, RoleHasHolderIs, RoleHasHolderIsNext
<1>8. ASSUME NEW d \in Dbs, ClientWrites(d) PROVE UNCHANGED <<req, bg, grants, leaked>>
  BY <1>8 DEF ClientWrites
<1>9. ASSUME Crash PROVE RoleHasHolder'
  BY <1>9, RoleHasHolderIsNext DEF Crash
<1> QED BY <1>1, <1>2, <1>3, <1>4, <1>5, <1>6, <1>7, <1>8, <1>9 DEF Next, Handle, vars

\* The adapter user is unprivileged at rest: however the grants and revokes
\* of concurrent requests and background tasks interleave and fail, a role it
\* has belongs to a call in progress, or was left behind by a revoke that failed
\* or an adapter that was killed and by no call since.
THEOREM RoleHasHolderAlways == Spec => []RoleHasHolder
<1>1. Init => RoleHasHolder
  BY DEF Init, RoleHasHolder
<1>2. DbInv /\ RoleHasHolder /\ [Next]_vars => RoleHasHolder'
  BY HolderStep
<1> QED BY <1>1, <1>2, DbAlways, PTL DEF Spec

-----------------------------------------------------------------------------
\* A step that makes a database disappear drops its contents.
LEMMA DroppedBy ==
    ASSUME DbInv, [Next]_vars, NEW d \in Dbs, Exists(d), ~Exists(d)'
    PROVE  \E r \in Reqs : /\ req[r].db = d
                           /\ \/ Granted(req[r]) /\ req[r].phase = "dropDb"
                              \/ req[r].phase = "rollback"
<1>1. ~UNCHANGED <<meta, coll>>
  BY DEF Exists
<1>2. ASSUME NEW e \in Dbs, ClientWrites(e) PROVE FALSE
  <2>1. meta' = meta /\ coll' = [coll EXCEPT ![e] = TRUE]
    BY <1>2 DEF ClientWrites
  <2> QED BY <2>1 DEF Exists, DbInv, TypeOK
<1>3. PICK r \in Reqs : Body(r) \/ Rollback(r)
  BY <1>1, <1>2 DEF Next, Handle, Task, Receive, Validate, UserCheck, UserWrite,
                    GetReplicaSetHosts, DropUser, GrantRole, RevokeRole, CheckKey,
                    TaskGrant, TaskBody, TaskRevoke, Crash, vars, store
<1>4. CASE Body(r)
  <2>1. Effect(req[r])
    BY <1>1, <1>4 DEF Body, store
  <2>2. /\ meta \in [Dbs -> BOOLEAN] /\ coll \in [Dbs -> BOOLEAN]
    BY DEF DbInv, TypeOK
  <2>3. \/ meta' = [meta EXCEPT ![req[r].db] = TRUE] /\ coll' = coll
        \/ coll' = [coll EXCEPT ![req[r].db] = TRUE] /\ meta' = meta
        \/ meta' = meta /\ coll' = coll
        \/ req[r].phase = "dropDb" /\ DropContents(req[r].db)
    BY <2>1 DEF Effect, store
  <2>4. req[r].phase = "dropDb" /\ DropContents(req[r].db)
    BY <2>2, <2>3 DEF Exists
  <2>5. req[r].db = d
    BY <2>2, <2>4 DEF DropContents, Exists
  <2> QED BY <1>4, <2>4, <2>5 DEF Body
<1>5. CASE Rollback(r)
  <2>1. req[r].phase = "rollback" /\ DropContents(req[r].db)
    BY <1>1, <1>5 DEF Rollback, store
  <2>2. req[r].db = d
    BY <2>1 DEF DropContents, Exists, DbInv, TypeOK
  <2> QED BY <2>1, <2>2
<1> QED BY <1>3, <1>4, <1>5

\* Data disappears only by a request in progress to drop the database or by the
\* rollback of a creation that had found the name free.
THEOREM DropIsAskedForAlways == Spec => DropIsAskedFor
<1> DEFINE Asks == \A d \in Dbs : (Exists(d) /\ ~Exists(d)') =>
                     \E r \in Reqs : /\ req[r].db = d
                                     /\ \/ req[r].phase = "dropDb"
                                        \/ req[r].phase = "rollback" /\ req[r].free
<1>1. DbInv /\ [Next]_vars => Asks
  <2> SUFFICES ASSUME DbInv, [Next]_vars, NEW d \in Dbs, Exists(d), ~Exists(d)'
               PROVE  \E r \in Reqs : /\ req[r].db = d
                                      /\ \/ req[r].phase = "dropDb"
                                         \/ req[r].phase = "rollback" /\ req[r].free
    OBVIOUS
  <2>1. PICK r \in Reqs : /\ req[r].db = d
                          /\ req[r].phase \in {"dropDb", "rollback"}
    BY DroppedBy
  <2> QED BY <2>1 DEF DbInv, ReqInv
<1>2. DbInv /\ [Next]_vars => [Asks]_vars
  BY <1>1
<1> QED BY <1>2, DbAlways, PTL DEF Spec, DropIsAskedFor

-----------------------------------------------------------------------------
(* What a call that is alone can rely on. *)

\* Which kind of request gets into a phase, and which asks for a key.
KindOK(q) ==
    q.phase # "done" =>
        /\ q.kind \notin {"create", "settings"} => q.key = NoKey
        /\ q.phase = "validate" => q.kind = "create"
        /\ q.phase \in UserPhases => q.kind \in UserKinds
        /\ q.phase = "dropUser" => q.kind = "dropUser"
        /\ q.phase = "meta" => q.kind \in {"create", "metadata"}

\* A request that is alone is the only call in progress, and so is a
\* redistribution that is.
OnlyCall ==
    \A r \in Reqs : (Busy(r) /\ req[r].alone) =>
        \A x \in Reqs : ~Tasking(x) /\ (x # r => ~Busy(x))
OnlyTask ==
    \A r \in Reqs : (Tasking(r) /\ bg[r].alone) =>
        \A x \in Reqs : ~Busy(x) /\ (x # r => ~Tasking(x))

\* A collection that was not sharded when it was looked at is not sharded
\* until the command of this request.
KeySeen(q) ==
    /\ q.phase = "index" => key[q.db] = NoKey
    /\ q.phase = "shard" => key[q.db] = NoKey \/ (q.step = "revoke" /\ key[q.db] = q.key)

Serves(q) == q.key = NoKey \/ isPrefix(q.key, key[q.db])

\* Without a failing command: the role that was granted is there, what was
\* looked at has not changed, and the index and the key were written.
NoError(q) ==
    /\ q.missed = {}
    /\ (Granted(q) /\ q.step = "body") => RoleDb(q) \in grants
    /\ (q.phase = "userWrite" /\ Named(q)) => (q.seen <=> q.host \in users[q.db])
    /\ q.phase \in {"refineIndex", "refine"}
          => key[q.db] # NoKey /\ isPrefix(key[q.db], q.key)
    /\ (q.phase \in {"index", "refineIndex"} /\ q.step = "revoke") => q.key \in idx[q.db]
    /\ q.phase \in {"shard", "refine"} => IF q.step = "revoke" THEN key[q.db] = q.key
                                          ELSE q.key \in idx[q.db]
    /\ q.phase = "move" => Serves(q)

Undisturbed(q) ==
    (q.phase # "done" /\ q.alone) => KeySeen(q) /\ (faults = 0 => NoError(q))

\* An "ok" of a request that was alone.
OkReal(q) ==
    (Answered(q, "ok") /\ q.alone /\ faults = 0) => q.missed = {} /\ q.served

\* The redistribution finds the key it was started for, or none.
TaskKey(t) ==
    (t.step # "none" /\ t.alone) => key[t.db] \in {NoKey, t.key}

Solo(q) == KindOK(q) /\ Undisturbed(q) /\ OkReal(q)

SoloInv == OnlyCall /\ OnlyTask /\ \A r \in Reqs : Solo(req[r]) /\ TaskKey(bg[r])


\* Keys: a key serves itself, one that answers "exact" serves the request, and
\* one that needs a refinement is a prefix of the requested one.
LEMMA KeyFacts ==
    ASSUME NEW k \in Keys, NEW c \in Keys
    PROVE  /\ k # NoKey /\ isPrefix(k, k)
           /\ shardKeyMatches(c, k) = Exact => isPrefix(k, c)
           /\ shardKeyMatches(c, k) = NeedsRefine => isPrefix(c, k)
<1>1. /\ k \in Seq(STRING) /\ k # <<>> /\ c \in Seq(STRING)
      /\ Len(k) \in Nat /\ Len(c) \in Nat
  BY AdapterAssumption
<1>2. k # NoKey /\ isPrefix(k, k)
  BY <1>1 DEF isPrefix, NoKey
<1>3. shardKeyMatches(c, k) = Exact => isPrefix(k, c)
  BY DEF shardKeyMatches, Exact, NeedsRefine, Different
<1>4. ASSUME shardKeyMatches(c, k) = NeedsRefine PROVE isPrefix(c, k)
  <2> DEFINE s == SubSeq(k, 1, Len(c))
  <2>1. Len(c) < Len(k) /\ isPrefix(s, c)
    BY <1>4 DEF shardKeyMatches, Exact, NeedsRefine, Different
  <2>2. Len(s) = Len(c) /\ \A i \in 1..Len(c) : s[i] = k[i]
    BY <1>1, <2>1
  <2> HIDE DEF s
  <2> QED BY <1>1, <2>1, <2>2 DEF isPrefix
<1> QED BY <1>2, <1>3, <1>4

\* What a request keeps from phase to phase.
Same(q, e) ==
    /\ e.kind = q.kind /\ e.db = q.db /\ e.key = q.key /\ e.move = q.move
    /\ e.missed = q.missed /\ e.alone = q.alone

LEMMA EnterSame ==
    ASSUME NEW q, ReqOK(q), NEW p \in Phases \ {"done"}
    PROVE  /\ Same(q, Enter(q, p)) /\ Enter(q, p).phase = p /\ Enter(q, p).step = StepIn(p)
           /\ Enter(q, p).role = q.role /\ Enter(q, p).host = q.host
<1> DEFINE st == StepIn(p)
<1>1. Enter(q, p) = [q EXCEPT !.phase = p, !.step = st] /\ q \in ReqType
  BY DEF Enter, ReqOK
<1> HIDE DEF st
<1>2. /\ Same(q, Enter(q, p)) /\ Enter(q, p).phase = p /\ Enter(q, p).step = st
      /\ Enter(q, p).role = q.role /\ Enter(q, p).host = q.host
  BY <1>1 DEF ReqType, Same
<1> QED BY <1>2 DEF st

LEMMA AnswerSame ==
    ASSUME NEW q \in ReqType, NEW res \in {"ok", "failed"}
    PROVE  /\ Answer(q, res).alone = q.alone /\ Answer(q, res).served = Serves(q)
<1> DEFINE sv == Serves(q)
           wr == IF res = "ok" THEN q.wrote ELSE {}
<1>1. Answer(q, res) =
        [Idle EXCEPT !.kind = q.kind, !.db = q.db, !.missed = q.missed, !.wrote = wr,
                     !.free = q.free, !.alone = q.alone, !.result = res, !.served = sv]
  BY DEF Answer, Serves
<1>2. sv \in BOOLEAN
  BY DEF Serves
<1> HIDE DEF sv, wr
<1>3. Answer(q, res).alone = q.alone /\ Answer(q, res).served = sv
  BY <1>1, <1>2 DEF Idle
<1> QED BY <1>3 DEF sv

LEMMA FailedSame ==
    ASSUME NEW q, ReqOK(q), q.phase \notin {"rollback", "done"}
    PROVE  /\ Failed(q).alone = q.alone
           /\ Failed(q).phase = "rollback" => Same(q, Failed(q)) /\ Failed(q).step = "body"
<1>1. q \in ReqType
  BY DEF ReqOK
<1>2. CASE q.phase = "move"
  BY <1>1, <1>2, AnswerFacts, AnswerSame DEF Failed
<1>3. CASE q.phase # "move" /\ q.kind = "create" /\ q.phase # "validate"
  BY <1>1, <1>3 DEF Failed, ReqType, Same
<1>4. CASE q.phase # "move" /\ ~(q.kind = "create" /\ q.phase # "validate")
  BY <1>1, <1>4, AnswerFacts, AnswerSame DEF Failed
<1> QED BY <1>2, <1>3, <1>4

\* A step of the request r in progress: any other call is not alone, so what
\* matters is r itself.
LEMMA RequestSolo ==
    ASSUME DbInv, SoloInv, NEW r \in Reqs, Busy(r), NEW q, Becomes(r, q),
           q.alone => req[r].alone, faults' = faults \/ Fault, bg' = bg,
           Solo(req[r])'
    PROVE  SoloInv'
<1>1. req'[r] = q /\ \A x \in Reqs \ {r} : req'[x] = req[x]
  BY DEF Becomes, DbInv, TypeOK
<1>2. faults' = 0 => faults = 0
  BY DEF Fault, DbInv, TypeOK
<1>3. \A x \in Reqs \ {r} : Busy(x) => ~req[x].alone
  BY DEF SoloInv, OnlyCall
<1>4. \A x \in Reqs : Tasking(x) => ~bg[x].alone
  BY DEF SoloInv, OnlyTask
<1>5. OnlyCall' /\ OnlyTask'
  BY <1>1, <1>3, <1>4 DEF SoloInv, OnlyCall, Busy, Tasking, OnlyTask
<1>6. ASSUME NEW x \in Reqs PROVE Solo(req[x])' /\ TaskKey(bg[x])'
  <2>1. TaskKey(bg[x])'
    BY <1>4 DEF TaskKey, Tasking
  <2>2. CASE x # r
    <3>1. req'[x] = req[x] /\ Solo(req[x])
      BY <1>1, <2>2 DEF SoloInv
    <3> QED BY <1>2, <1>3, <2>1, <2>2, <3>1 DEF Solo, KindOK, Undisturbed, OkReal, Busy, Answered
  <2> QED BY <2>1, <2>2
<1> QED BY <1>5, <1>6 DEF SoloInv

\* The three ways a request goes on: to the next phase, to its answer, to a
\* failure.
LEMMA EnterSolo ==
    ASSUME DbInv, NEW r \in Reqs, NEW q, ReqOK(q), NEW p \in Phases \ {"done"},
           Becomes(r, Enter(q, p))
    PROVE  Same(q, req'[r]) /\ req'[r].phase = p /\ req'[r].step = StepIn(p)
<1>1. req'[r] = Enter(q, p)
  BY DEF Becomes, DbInv, TypeOK
<1> QED BY <1>1, EnterSame

LEMMA AnswerSolo ==
    ASSUME DbInv, NEW r \in Reqs, NEW q, ReqOK(q), NEW res \in {"ok", "failed"},
           Becomes(r, Answer(q, res)),
           (res = "ok" /\ q.alone /\ faults' = 0) => q.missed = {} /\ Serves(q)
    PROVE  Solo(req[r])' /\ req'[r].alone = q.alone
<1>1. req'[r] = Answer(q, res) /\ q \in ReqType
  BY DEF Becomes, DbInv, TypeOK, ReqOK
<1>2. /\ req'[r].phase = "done" /\ req'[r].result = res /\ req'[r].missed = q.missed
      /\ req'[r].alone = q.alone /\ req'[r].served = Serves(q)
  BY <1>1, AnswerFacts, AnswerSame
<1> QED BY <1>2 DEF Solo, KindOK, Undisturbed, OkReal, Answered

LEMMA FailedSolo ==
    ASSUME DbInv, NEW r \in Reqs, NEW q, ReqOK(q), q.phase \notin {"rollback", "done"},
           KindOK(q), Becomes(r, Failed(q)),
           (q.alone /\ faults' = 0) => q.missed = {} /\ q.phase # "move"
    PROVE  Solo(req[r])' /\ req'[r].alone = q.alone
<1>1. req'[r] = Failed(q)
  BY DEF Becomes, DbInv, TypeOK
<1>2. /\ req'[r].missed = q.missed /\ req'[r].phase \in {"rollback", "done"}
      /\ req'[r].alone = q.alone
      /\ req'[r].phase = "rollback" => Same(q, req'[r]) /\ req'[r].step = "body"
      /\ (req'[r].phase = "done" /\ q.phase # "move") => req'[r].result = "failed"
  BY <1>1, FailedFacts, FailedSame
<1>3. KindOK(req[r])'
  BY <1>2 DEF KindOK, Same, UserPhases
<1>4. Undisturbed(req[r])'
  BY <1>2 DEF Undisturbed, KeySeen, NoError, Granted, OwnerPhases, ClusterPhases
<1>5. OkReal(req[r])'
  BY <1>2 DEF OkReal, Answered
<1> QED BY <1>2, <1>3, <1>4, <1>5 DEF Solo

-----------------------------------------------------------------------------
\* What a call in progress has from the invariants.
LEMMA InProgress ==
    ASSUME DbInv, SoloInv, NEW r \in Reqs
    PROVE  /\ ReqOK(req[r]) /\ ReqInv(req[r]) /\ KindOK(req[r]) /\ Undisturbed(req[r])
           /\ req[r].db \in Dbs => key[req[r].db] \in Keys \cup {NoKey}
           /\ req[r].key \in Keys \cup {NoKey}
  BY DbInvSound DEF Sound, SoloInv, Solo, DbInv, TypeOK, ReqOK, ReqType

LEMMA NoFault == DbInv /\ Fault => faults' # 0
  BY DEF Fault, DbInv, TypeOK

LEMMA ValidateSolo ==
    ASSUME DbInv, SoloInv, NEW r \in Reqs, Validate(r)
    PROVE  SoloInv'
<1> DEFINE q == req[r]
<1>1. /\ q.phase = "validate" /\ Busy(r) /\ bg' = bg /\ UNCHANGED <<grants, store>>
      /\ faults' = faults \/ Fault
  BY DEF Validate, Busy
<1>2. ReqOK(q) /\ KindOK(q) /\ Undisturbed(q) /\ q.kind = "create"
  BY <1>1, InProgress DEF KindOK
<1>3. (q.alone /\ faults = 0) => q.missed = {}
  BY <1>1, <1>2 DEF Undisturbed, NoError
<1>4. CASE Becomes(r, Failed(q))
  <2>1. (q.alone /\ faults' = 0) => q.missed = {} /\ q.phase # "move"
    BY <1>1, <1>3, NoFault
  <2>2. Solo(req[r])' /\ req'[r].alone = q.alone
    BY <1>1, <1>2, <1>4, <2>1, FailedSolo
  <2>3. req'[r] = Failed(q)
    BY <1>4 DEF Becomes, DbInv, TypeOK
  <2> QED BY <1>1, <1>4, <2>2, <2>3, RequestSolo
<1>5. CASE ~Fault /\ Becomes(r, [Enter(q, NextPhase(q)) EXCEPT !.free = TRUE])
  <2> DEFINE e == Enter(q, "userCheck")
  <2>1. NextPhase(q) = "userCheck" /\ "userCheck" \in Phases \ {"done"}
    BY <1>1 DEF NextPhase, Phases
  <2>2. Same(q, e) /\ e.phase = "userCheck" /\ e \in ReqType
    <3>1. ReqOK(e)
      BY <1>1, <1>2, <2>1, EnterFacts
    <3> QED BY <1>2, <2>1, <3>1, EnterSame DEF ReqOK
  <2>3. req'[r] = [e EXCEPT !.free = TRUE] /\ Becomes(r, [e EXCEPT !.free = TRUE])
    BY <1>5, <2>1 DEF Becomes, DbInv, TypeOK
  <2> HIDE DEF e
  <2>4. Same(q, req'[r]) /\ req'[r].phase = "userCheck"
    BY <2>2, <2>3 DEF Same, ReqType
  <2>5. faults' = faults
    BY <1>1, <1>5
  <2>6. KindOK(req[r])'
    BY <1>1, <1>2, <2>4 DEF KindOK, Same, UserKinds
  <2>7. Undisturbed(req[r])'
    BY <1>3, <2>4, <2>5 DEF Undisturbed, KeySeen, NoError, Granted, OwnerPhases,
                            ClusterPhases, Same
  <2>8. Solo(req[r])'
    BY <2>4, <2>6, <2>7 DEF Solo, OkReal, Answered
  <2>9. req'[r].alone => q.alone
    BY <2>4 DEF Same
  <2> QED BY <1>1, <2>3, <2>8, <2>9, RequestSolo
<1>6. Becomes(r, Failed(q)) \/ (~Fault /\ Becomes(r, [Enter(q, NextPhase(q)) EXCEPT !.free = TRUE]))
  <2>1. DbInv /\ Fault => faults' # faults
    BY DEF Fault, DbInv, TypeOK
  <2> QED BY <2>1 DEF Validate
<1> QED BY <1>4, <1>5, <1>6

LEMMA UserCheckSolo ==
    ASSUME DbInv, SoloInv, NEW r \in Reqs, UserCheck(r)
    PROVE  SoloInv'
<1> DEFINE q == req[r]
           b == q.host \in users[q.db] /\ Named(q)
<1>1. /\ q.phase = "userCheck" /\ Busy(r) /\ bg' = bg /\ UNCHANGED <<grants, store>>
      /\ faults' = faults \/ Fault
  BY DEF UserCheck, Busy
<1>2. ReqOK(q) /\ KindOK(q) /\ Undisturbed(q)
  BY <1>1, InProgress
<1>3. (q.alone /\ faults' = 0) => q.missed = {}
  BY <1>1, <1>2, NoFault DEF Undisturbed, NoError
<1>4. CASE Becomes(r, Failed(q))
  <2>1. Solo(req[r])' /\ req'[r].alone = q.alone
    BY <1>1, <1>2, <1>3, <1>4, FailedSolo
  <2>2. req'[r] = Failed(q)
    BY <1>4 DEF Becomes, DbInv, TypeOK
  <2> QED BY <1>1, <1>4, <2>1, <2>2, RequestSolo
<1>5. ASSUME NEW s \in BOOLEAN, Becomes(r, [Enter(q, "userWrite") EXCEPT !.seen = s]),
             faults' = 0 => (s <=> b)
      PROVE  SoloInv'
  <2> DEFINE e == Enter(q, "userWrite")
  <2>1. "userWrite" \in Phases \ {"done"}
    BY DEF Phases
  <2>2. /\ Same(q, e) /\ e.phase = "userWrite" /\ e.role = q.role /\ e.host = q.host
        /\ e \in ReqType
    <3>1. ReqOK(e)
      BY <1>1, <1>2, <2>1, EnterFacts
    <3> QED BY <1>1, <1>2, <2>1, <3>1, EnterSame DEF ReqOK
  <2>3. req'[r] = [e EXCEPT !.seen = s] /\ Becomes(r, [e EXCEPT !.seen = s])
    BY <1>5 DEF Becomes, DbInv, TypeOK
  <2> HIDE DEF e
  <2>4. /\ Same(q, req'[r]) /\ req'[r].phase = "userWrite" /\ req'[r].role = q.role
        /\ req'[r].host = q.host /\ req'[r].seen = s
    BY <2>2, <2>3 DEF Same, ReqType
  <2>5. KindOK(req[r])'
    BY <1>1, <1>2, <2>4 DEF KindOK, Same, UserPhases
  <2>6. (faults' = 0 /\ Named(req[r])') => (req'[r].seen <=> req'[r].host \in users[req'[r].db])
    <3>1. Named(req[r])' = Named(q) /\ req'[r].db = q.db
      BY <2>4 DEF Named, Same
    <3> HIDE DEF q
    <3> QED BY <1>5, <2>4, <3>1
  <2>7. users' = users
    BY <1>1 DEF store
  <2>8. Undisturbed(req[r])'
    BY <1>3, <2>4, <2>6, <2>7
       DEF Undisturbed, KeySeen, NoError, Granted, OwnerPhases, ClusterPhases, Same
  <2>9. Solo(req[r])' /\ (req'[r].alone => q.alone)
    BY <2>4, <2>5, <2>8 DEF Solo, OkReal, Answered, Same
  <2> QED BY <1>1, <2>3, <2>9, RequestSolo
<1>6. \/ Becomes(r, Failed(q))
      \/ Becomes(r, [Enter(q, "userWrite") EXCEPT !.seen = b])
      \/ Fault /\ Becomes(r, [Enter(q, "userWrite") EXCEPT !.seen = FALSE])
  BY DEF UserCheck
<1>7. b \in BOOLEAN
  OBVIOUS
<1> HIDE DEF b, q
<1> QED BY <1>4, <1>5, <1>6, <1>7, NoFault

\* A request that is alone and met no failing command goes on: it does what
\* its next phase needs, or answers with all it stands for.
LEMMA ProceedSolo ==
    ASSUME DbInv, NEW r \in Reqs, NEW q, ReqOK(q), KindOK(q),
           q.phase \notin {"validate", "userCheck", "rollback", "done"},
           q.phase = "dropDb" => q.kind = "drop",
           q.phase = "checkKey" => q.key # NoKey,
           Becomes(r, Enter(q, NextPhase(q))), key' = key, idx' = idx,
           q.alone => (q.phase = "index" => key[q.db] = NoKey),
           (q.alone /\ faults' = 0) =>
              /\ q.missed = {}
              /\ q.phase \in {"checkKey", "shard", "refine", "move"} => Serves(q)
              /\ q.phase \in {"index", "refineIndex"} => q.key \in idx[q.db]
              /\ q.phase = "refineIndex" => key[q.db] # NoKey /\ isPrefix(key[q.db], q.key)
    PROVE  Solo(req[r])' /\ req'[r].alone = q.alone
<1> DEFINE p == NextPhase(q)
<1>1. q \in ReqType /\ p \in Phases \ {"validate", "dropDb", "rollback"}
  BY NextPhaseFacts DEF ReqOK
<1>2. /\ p \notin UserPhases \cup {"index", "refineIndex", "dropUser"}
      /\ p = "meta" => q.kind = "create"
      /\ p = "shard" => q.phase = "index"
      /\ p = "refine" => q.phase = "refineIndex"
      /\ p \in {"move", "done"} =>
            \/ q.phase \in {"checkKey", "shard", "refine", "move"}
            \/ q.phase \in {"userWrite", "hosts"} /\ q.kind # "create"
            \/ q.phase \in {"dropUser", "dropDb"}
            \/ q.phase = "meta" /\ (q.kind # "create" \/ q.key = NoKey)
  <2>1. q.phase \in Phases \ {"validate", "userCheck", "rollback", "done"}
    BY <1>1 DEF ReqType
  <2> QED BY <2>1 DEF NextPhase, Phases, OwnerPhases, ClusterPhases, UserPhases
<1>3. (p \in {"move", "done"} /\ q.alone /\ faults' = 0) => Serves(q)
  BY <1>2 DEF KindOK, Serves, UserPhases, UserKinds, OneUser
<1>4. CASE p = "done"
  <2>1. Becomes(r, Answer(q, "ok"))
    BY <1>4 DEF Enter
  <2> QED BY <1>3, <1>4, <2>1, AnswerSolo
<1>5. CASE p # "done"
  <2>1. p \in Phases \ {"done"}
    BY <1>1, <1>5
  <2>2. Same(q, req'[r]) /\ req'[r].phase = p /\ req'[r].step = StepIn(p)
    BY <2>1, EnterSolo
  <2> HIDE DEF p
  <2>3. KindOK(req[r])'
    BY <1>1, <1>2, <2>2 DEF KindOK, Same
  <2>4. p \in OwnerPhases \cup ClusterPhases => req'[r].step = "grant"
    BY <2>2 DEF StepIn
  <2>5. p = "shard" => p \in OwnerPhases \cup ClusterPhases
    BY DEF ClusterPhases
  <2>6. req'[r].alone => KeySeen(req[r])'
    BY <1>2, <2>2, <2>4, <2>5 DEF KeySeen, Same
  <2>7. (req'[r].alone /\ faults' = 0) => NoError(req[r])'
    <3> SUFFICES ASSUME req'[r].alone, faults' = 0 PROVE NoError(req[r])'
      OBVIOUS
    <3>1. /\ q.alone /\ req'[r].missed = {} /\ req'[r].key = q.key /\ req'[r].db = q.db
      BY <2>2 DEF Same
    <3>2. ~(Granted(req[r])' /\ req'[r].step = "body")
      BY <2>2, <2>4 DEF Granted
    <3>3. p = "move" => Serves(req[r])'
      BY <1>3, <3>1 DEF Serves
    <3>4. p \in {"shard", "refine"} => req'[r].step # "revoke" /\ q.key \in idx[q.db]
      BY <1>2, <2>4, <3>1 DEF ClusterPhases
    <3>5. p = "refine" => key[q.db] # NoKey /\ isPrefix(key[q.db], q.key)
      BY <1>2, <3>1
    <3> QED BY <1>2, <2>2, <3>1, <3>2, <3>3, <3>4, <3>5 DEF NoError, UserPhases
  <2>8. Undisturbed(req[r])'
    BY <2>6, <2>7 DEF Undisturbed
  <2> QED BY <1>5, <2>2, <2>3, <2>8 DEF Solo, OkReal, Answered, Same
<1> QED BY <1>4, <1>5

\* A request goes on in the loops over roles and shards, or has left them.
LEMMA LoopSolo ==
    ASSUME DbInv, NEW r \in Reqs, NEW q, KindOK(q), q.phase \in UserPhases,
           NEW e, Becomes(r, e), Same(q, e), e.phase \in {"userCheck", "hosts"},
           (q.alone /\ faults' = 0) => q.missed = {}
    PROVE  Solo(req[r])' /\ req'[r].alone = q.alone
<1>1. req'[r] = e
  BY DEF Becomes, DbInv, TypeOK
<1>2. KindOK(req[r])'
  BY <1>1 DEF KindOK, Same, UserPhases
<1>3. Undisturbed(req[r])'
  BY <1>1 DEF Undisturbed, KeySeen, NoError, Granted, OwnerPhases, ClusterPhases, Same
<1> QED BY <1>1, <1>2, <1>3 DEF Solo, OkReal, Answered, Same

LEMMA UserDoneSolo ==
    ASSUME DbInv, NEW r \in Reqs, NEW q, ReqOK(q), KindOK(q),
           q.phase \in {"userWrite", "hosts"}, Becomes(r, UserDone(q)),
           key' = key, idx' = idx, (q.alone /\ faults' = 0) => q.missed = {}
    PROVE  Solo(req[r])' /\ req'[r].alone = q.alone
<1>1. CASE MoreRoles(q)
  <2> DEFINE n == Enter(q, "userCheck")
             e == [n EXCEPT !.role = @ + 1, !.host = 0]
  <2>1. "userCheck" \in Phases \ {"done"}
    BY DEF Phases
  <2>2. Same(q, n) /\ n.phase = "userCheck" /\ n \in ReqType
    BY <2>1, EnterSame, EnterFacts DEF ReqOK
  <2> HIDE DEF n
  <2>3. Same(q, e) /\ e.phase = "userCheck"
    BY <2>2 DEF Same, ReqType
  <2>4. Becomes(r, e)
    BY <1>1 DEF UserDone, n
  <2> HIDE DEF e
  <2> QED BY <2>3, <2>4, LoopSolo DEF UserPhases
<1>2. CASE ~MoreRoles(q)
  <2> DEFINE n == [q EXCEPT !.host = 0]
  <2>1. ReqOK(n) /\ Same(q, n) /\ n.phase = q.phase
    BY AdapterAssumption DEF ReqOK, ReqType, Hosts, Same
  <2>2. NextPhase(n) = NextPhase(q)
    BY <2>1 DEF NextPhase, Same
  <2>3. Becomes(r, Enter(n, NextPhase(n)))
    BY <1>2, <2>2 DEF UserDone
  <2> HIDE DEF n
  <2>4. KindOK(n)
    BY <2>1 DEF KindOK, Same
  <2>5. (n.alone /\ faults' = 0) => n.missed = {}
    BY <2>1 DEF Same
  <2>6. Solo(req[r])' /\ req'[r].alone = n.alone
    BY <2>1, <2>3, <2>4, <2>5, ProceedSolo
  <2> QED BY <2>1, <2>6 DEF Same
<1> QED BY <1>1, <1>2

LEMMA AfterWriteSolo ==
    ASSUME DbInv, NEW r \in Reqs, NEW q, ReqOK(q), KindOK(q),
           q.phase = "userWrite", Becomes(r, AfterWrite(q)),
           key' = key, idx' = idx, (q.alone /\ faults' = 0) => q.missed = {}
    PROVE  Solo(req[r])' /\ req'[r].alone = q.alone
<1>1. "hosts" \in Phases \ {"done"} /\ "userCheck" \in Phases \ {"done"}
  BY DEF Phases
<1>2. CASE Becomes(r, Enter(q, "hosts"))
  <2>1. Same(q, Enter(q, "hosts")) /\ Enter(q, "hosts").phase = "hosts"
    BY <1>1, EnterSame
  <2> QED BY <1>2, <2>1, LoopSolo DEF UserPhases
<1>3. CASE Becomes(r, [Enter(q, "userCheck") EXCEPT !.host = @ + 1])
  <2> DEFINE n == Enter(q, "userCheck")
             e == [n EXCEPT !.host = @ + 1]
  <2>1. Same(q, n) /\ n.phase = "userCheck" /\ n \in ReqType
    BY <1>1, EnterSame, EnterFacts DEF ReqOK
  <2>2. Becomes(r, e)
    BY <1>3
  <2> HIDE DEF n
  <2>3. Same(q, e) /\ e.phase = "userCheck"
    BY <2>1 DEF Same, ReqType
  <2> HIDE DEF e
  <2> QED BY <2>2, <2>3, LoopSolo DEF UserPhases
<1>4. CASE Becomes(r, UserDone(q))
  BY <1>4, UserDoneSolo
<1> QED BY <1>2, <1>3, <1>4 DEF AfterWrite

LEMMA UserSolo ==
    ASSUME DbInv, SoloInv, NEW r \in Reqs, UserWrite(r) \/ DropUser(r)
    PROVE  SoloInv'
<1> DEFINE q == req[r]
           done == [q EXCEPT !.wrote = @ \cup {<<q.role, q.host>>}]
<1>1. /\ q.phase \in {"userWrite", "dropUser"} /\ Busy(r) /\ bg' = bg
      /\ UNCHANGED <<grants, meta, coll, docs, key, idx>>
      /\ faults' = faults \/ Fault
  BY DEF UserWrite, DropUser, Busy
<1>2. ReqOK(q) /\ ReqInv(q) /\ KindOK(q) /\ Undisturbed(q)
  BY <1>1, InProgress
<1>3. (q.alone /\ faults' = 0) => q.missed = {}
  BY <1>1, <1>2, NoFault DEF Undisturbed, NoError
<1>4. CASE q.phase = "dropUser" /\ Becomes(r, Enter(q, NextPhase(q)))
  <2>1. Solo(req[r])' /\ req'[r].alone = q.alone
    BY <1>1, <1>2, <1>3, <1>4, ProceedSolo
  <2>2. req'[r] = Enter(q, NextPhase(q))
    BY <1>4 DEF Becomes, DbInv, TypeOK
  <2> QED BY <1>1, <1>4, <2>1, <2>2, RequestSolo
<1>5. CASE Becomes(r, Failed(q))
  <2>1. Solo(req[r])' /\ req'[r].alone = q.alone
    BY <1>1, <1>2, <1>3, <1>5, FailedSolo
  <2>2. req'[r] = Failed(q)
    BY <1>5 DEF Becomes, DbInv, TypeOK
  <2> QED BY <1>1, <1>5, <2>1, <2>2, RequestSolo
<1>6. CASE q.phase = "userWrite" /\ Becomes(r, AfterWrite(done))
  <2>1. Sound(q) /\ q \in ReqType
    BY <1>2 DEF Sound, ReqOK
  <2>2. /\ ReqOK(done) /\ done.phase = q.phase /\ done.kind = q.kind /\ done.key = q.key
        /\ done.alone = q.alone /\ done.missed = q.missed
    <3>1. <<q.role, q.host>> \in (1..RoleCount) \X Hosts
      BY <2>1 DEF ReqType
    <3>2. (q.wrote \cup {<<q.role, q.host>>}) \in SUBSET ((1..RoleCount) \X Hosts)
      BY <2>1, <3>1 DEF ReqType
    <3> QED BY <1>2, <2>1, <3>2 DEF ReqOK, ReqType
  <2>3. req'[r] = AfterWrite(done)
    BY <1>6 DEF Becomes, DbInv, TypeOK
  <2> HIDE DEF done
  <2>4. KindOK(done)
    BY <1>2, <2>2 DEF KindOK
  <2>5. Solo(req[r])' /\ req'[r].alone = done.alone
    BY <1>1, <1>3, <1>6, <2>2, <2>4, AfterWriteSolo
  <2> QED BY <1>1, <1>6, <2>2, <2>3, <2>5, RequestSolo
<1>7. \/ Becomes(r, Failed(q))
      \/ q.phase = "dropUser" /\ Becomes(r, Enter(q, NextPhase(q)))
      \/ q.phase = "userWrite" /\ Becomes(r, AfterWrite(done))
  BY DEF UserWrite, DropUser, Proceed
<1> QED BY <1>4, <1>5, <1>6, <1>7

LEMMA HostsSolo ==
    ASSUME DbInv, SoloInv, NEW r \in Reqs, GetReplicaSetHosts(r)
    PROVE  SoloInv'
<1> DEFINE q == req[r]
           late == [q EXCEPT !.missed = @ \cup {"hosts"}]
           n == Enter(q, "userCheck")
           e == [n EXCEPT !.host = 1]
<1>1. /\ q.phase = "hosts" /\ Busy(r) /\ bg' = bg /\ UNCHANGED <<grants, store>>
      /\ faults' = faults \/ Fault
  BY DEF GetReplicaSetHosts, Busy
<1>2. ReqOK(q) /\ KindOK(q) /\ Undisturbed(q) /\ q \in ReqType
  BY <1>1, InProgress DEF ReqOK
<1>3. (q.alone /\ faults' = 0) => q.missed = {}
  BY <1>1, <1>2, NoFault DEF Undisturbed, NoError
<1>4. key' = key /\ idx' = idx
  BY <1>1 DEF store
<1>5. /\ ReqOK(late) /\ late.phase = q.phase /\ late.kind = q.kind /\ late.key = q.key
      /\ late.alone = q.alone
  BY <1>2 DEF ReqOK, ReqType
<1>6. CASE Becomes(r, e)
  <2>1. "userCheck" \in Phases \ {"done"}
    BY DEF Phases
  <2>2. Same(q, n) /\ n.phase = "userCheck" /\ n \in ReqType
    BY <1>1, <1>2, <2>1, EnterSame, EnterFacts DEF ReqOK
  <2>3. req'[r] = e
    BY <1>6 DEF Becomes, DbInv, TypeOK
  <2> HIDE DEF n
  <2>4. Same(q, e) /\ e.phase = "userCheck"
    BY <2>2 DEF Same, ReqType
  <2> HIDE DEF e
  <2>5. Solo(req[r])' /\ req'[r].alone = q.alone
    BY <1>1, <1>2, <1>3, <1>6, <2>4, LoopSolo DEF UserPhases
  <2> QED BY <1>1, <1>6, <2>3, <2>5, RequestSolo
<1>7. CASE Becomes(r, UserDone(q))
  <2>1. Solo(req[r])' /\ req'[r].alone = q.alone
    BY <1>1, <1>2, <1>3, <1>4, <1>7, UserDoneSolo
  <2>2. req'[r] = UserDone(q)
    BY <1>7 DEF Becomes, DbInv, TypeOK
  <2> QED BY <1>1, <1>7, <2>1, <2>2, RequestSolo
<1>8. CASE Fault /\ Becomes(r, UserDone(late))
  <2>1. req'[r] = UserDone(late) /\ faults' # 0
    BY <1>8, NoFault DEF Becomes, DbInv, TypeOK
  <2> HIDE DEF late
  <2>2. KindOK(late)
    BY <1>2, <1>5 DEF KindOK
  <2>3. Solo(req[r])' /\ req'[r].alone = late.alone
    BY <1>1, <1>4, <1>5, <1>8, <2>1, <2>2, UserDoneSolo
  <2> QED BY <1>1, <1>5, <1>8, <2>1, <2>3, RequestSolo
<1>9. \/ Becomes(r, e) \/ Becomes(r, UserDone(q))
      \/ Fault /\ Becomes(r, UserDone(late))
  BY DEF GetReplicaSetHosts
<1> QED BY <1>6, <1>7, <1>8, <1>9

LEMMA GrantRoleSolo ==
    ASSUME DbInv, SoloInv, NEW r \in Reqs, GrantRole(r)
    PROVE  SoloInv'
<1> DEFINE q == req[r]
           e == [q EXCEPT !.step = "body"]
<1>1. /\ Granted(q) /\ q.step = "grant" /\ Busy(r) /\ bg' = bg /\ UNCHANGED store
      /\ q.phase \notin {"rollback", "done"}
      /\ faults' = faults \/ Fault
  BY DEF GrantRole, Busy, Granted, OwnerPhases, ClusterPhases
<1>2. ReqOK(q) /\ ReqInv(q) /\ KindOK(q) /\ Undisturbed(q)
  BY <1>1, InProgress
<1>3. CASE Fault /\ Becomes(r, Failed(q))
  <2>1. Solo(req[r])' /\ req'[r].alone = q.alone
    <3>1. faults' # 0 /\ Becomes(r, Failed(q))
      BY <1>3, NoFault
    <3> QED BY <1>1, <1>2, <3>1, FailedSolo
  <2>2. req'[r] = Failed(q)
    BY <1>3 DEF Becomes, DbInv, TypeOK
  <2> QED BY <1>1, <1>3, <2>1, <2>2, RequestSolo
<1>4. CASE faults' = faults /\ Becomes(r, e) /\ grants' = grants \cup {RoleDb(q)}
  <2>1. req'[r] = e
    BY <1>4 DEF Becomes, DbInv, TypeOK
  <2>2. /\ Same(q, req'[r]) /\ req'[r].phase = q.phase /\ req'[r].step = "body"
        /\ req'[r].role = q.role /\ req'[r].seen = q.seen
    BY <1>2, <2>1 DEF ReqOK, ReqType, Same
  <2>3. KindOK(req[r])'
    BY <1>2, <2>2 DEF KindOK, Same
  <2>4. key' = key /\ idx' = idx /\ users' = users
    BY <1>1 DEF store
  <2>5. (RoleDb(req[r]) \in grants)'
    BY <1>4, <2>2 DEF RoleDb, Same
  <2>6. q.phase \notin {"userWrite"}
    BY <1>1 DEF Granted, OwnerPhases, ClusterPhases
  <2>7. Undisturbed(req[r])'
    BY <1>1, <1>2, <1>4, <2>2, <2>4, <2>5, <2>6 DEF Undisturbed, KeySeen, NoError, Same, Serves
  <2>8. Solo(req[r])' /\ (req'[r].alone => q.alone)
    BY <1>1, <2>2, <2>3, <2>7 DEF Solo, OkReal, Answered, Same
  <2> HIDE DEF e
  <2> QED BY <1>1, <1>4, <2>1, <2>8, RequestSolo
<1> QED BY <1>3, <1>4 DEF GrantRole

\* The command of a body, as far as the keys and the indexes go.
LEMMA EffectFacts ==
    ASSUME DbInv, NEW q, ReqOK(q), q.phase # "done", Effect(q)
    PROVE  /\ q.phase \notin {"shard", "refine", "dropDb"} => key' = key
           /\ q.phase \in {"index", "refineIndex"} => q.key \in idx'[q.db]
           /\ q.phase \in {"shard", "refine"} => key'[q.db] = q.key
<1>1. q.db \in Dbs /\ key \in [Dbs -> Keys \cup {NoKey}] /\ idx \in [Dbs -> SUBSET Keys]
  BY DEF ReqOK, DbInv, TypeOK
<1>2. q.phase \notin {"shard", "refine", "dropDb"} => key' = key
  BY DEF Effect, store
<1>3. q.phase \in {"index", "refineIndex"} => q.key \in idx'[q.db]
  BY <1>1 DEF Effect
<1>4. q.phase \in {"shard", "refine"} => key'[q.db] = q.key
  BY <1>1 DEF Effect
<1> QED BY <1>2, <1>3, <1>4

LEMMA BodySolo ==
    ASSUME DbInv, SoloInv, NEW r \in Reqs, Body(r)
    PROVE  SoloInv'
<1> DEFINE q == req[r]
           after == [q EXCEPT !.step = "revoke"]
           missed == [after EXCEPT !.missed = @ \cup {"body"}]
           able == RoleDb(q) \in grants /\ Accepted(q)
<1>1. /\ Granted(q) /\ q.step = "body" /\ Busy(r) /\ bg' = bg /\ UNCHANGED grants
      /\ q.phase \notin {"rollback", "done", "userWrite", "validate", "userCheck", "dropUser"}
  BY DEF Body, Busy, Granted, OwnerPhases, ClusterPhases
<1>2. ReqOK(q) /\ ReqInv(q) /\ KindOK(q) /\ Undisturbed(q) /\ q.db \in Dbs
  BY <1>1, InProgress DEF ReqOK
<1>3. faults' = faults \/ Fault
  BY DEF Body
<1>4. \/ Effect(q) /\ Becomes(r, after) /\ faults' = faults
      \/ ~able /\ Becomes(r, missed) /\ UNCHANGED store /\ faults' = faults
      \/ Fault /\ Becomes(r, missed) /\ UNCHANGED store
  BY DEF Body
<1>5. q.phase \in {"shard", "refine"} => q.key \in Keys
  BY <1>2 DEF ReqInv, ShardPhases, ReqOK, ReqType
<1>6. (q.alone /\ faults = 0) => able
  <2> SUFFICES ASSUME q.alone, faults = 0 PROVE able
    OBVIOUS
  <2>1. KeySeen(q) /\ NoError(q)
    BY <1>1, <1>2 DEF Undisturbed
  <2>2. RoleDb(q) \in grants
    BY <1>1, <2>1 DEF NoError
  <2>3. q.phase \in {"shard", "refine"} => Indexed(q)
    BY <1>1, <1>5, <2>1, KeyFacts DEF NoError, Indexed
  <2>4. q.phase = "shard" => key[q.db] = NoKey
    BY <1>1, <2>1 DEF KeySeen
  <2>5. q.phase = "refine" => key[q.db] # NoKey /\ isPrefix(key[q.db], q.key)
    BY <2>1 DEF NoError
  <2> QED BY <2>2, <2>3, <2>4, <2>5 DEF Accepted
<1>7. /\ after.phase = q.phase /\ after.kind = q.kind /\ after.db = q.db
      /\ after.key = q.key /\ after.alone = q.alone /\ after.step = "revoke"
      /\ after.missed = q.missed /\ after \in ReqType
  BY <1>2 DEF ReqOK, ReqType
<1>8. /\ missed.phase = q.phase /\ missed.kind = q.kind /\ missed.db = q.db
      /\ missed.key = q.key /\ missed.alone = q.alone /\ missed.step = "revoke"
  <2> HIDE DEF after
  <2> QED BY <1>7 DEF ReqType
<1> HIDE DEF after, missed, able
<1>9. PICK e : /\ Becomes(r, e) /\ e.phase = q.phase /\ e.kind = q.kind /\ e.db = q.db
               /\ e.key = q.key /\ e.alone = q.alone /\ e.step = "revoke"
               /\ (q.alone /\ faults' = 0) => Effect(q) /\ e.missed = q.missed
  BY <1>4, <1>6, <1>7, <1>8, NoFault
<1>10. req'[r] = e
  BY <1>9 DEF Becomes, DbInv, TypeOK
<1>11. KindOK(req[r])'
  BY <1>2, <1>9, <1>10 DEF KindOK
<1>12. req'[r].alone => KeySeen(req[r])'
  <2>1. CASE Effect(q)
    BY <1>1, <1>2, <1>9, <1>10, <2>1, EffectFacts DEF KeySeen, Undisturbed
  <2>2. CASE UNCHANGED store
    BY <1>1, <1>2, <1>9, <1>10, <2>2 DEF KeySeen, Undisturbed, store
  <2> QED BY <1>4, <2>1, <2>2
<1>13. (req'[r].alone /\ faults' = 0) => NoError(req[r])'
  <2> SUFFICES ASSUME req'[r].alone, faults' = 0 PROVE NoError(req[r])'
    OBVIOUS
  <2>1. q.alone /\ faults = 0 /\ Effect(q) /\ e.missed = q.missed
    BY <1>3, <1>9, <1>10, NoFault
  <2>2. NoError(q)
    BY <1>1, <1>2, <2>1 DEF Undisturbed
  <2>3. e.missed = {}
    BY <2>1, <2>2 DEF NoError
  <2>4. /\ q.phase \in {"index", "refineIndex"} => q.key \in idx'[q.db]
        /\ q.phase \in {"shard", "refine"} => key'[q.db] = q.key
        /\ q.phase \in {"refineIndex", "move"} => key' = key
    BY <1>1, <1>2, <2>1, EffectFacts
  <2>5. q.phase \in {"refineIndex", "refine"}
            => key'[q.db] # NoKey /\ isPrefix(key'[q.db], q.key)
    BY <1>5, <2>2, <2>4, KeyFacts DEF NoError
  <2>6. q.phase = "move" => Serves(req[r])'
    BY <1>9, <1>10, <2>2, <2>4 DEF NoError, Serves
  <2> QED BY <1>1, <1>9, <1>10, <2>3, <2>4, <2>5, <2>6 DEF NoError
<1>14. Solo(req[r])'
  BY <1>1, <1>9, <1>10, <1>11, <1>12, <1>13 DEF Solo, Undisturbed, OkReal, Answered
<1> QED BY <1>1, <1>3, <1>9, <1>14, RequestSolo

LEMMA RollbackSolo ==
    ASSUME DbInv, SoloInv, NEW r \in Reqs, Rollback(r)
    PROVE  SoloInv'
<1>1. /\ Busy(r) /\ bg' = bg /\ Becomes(r, Answer(req[r], "failed"))
  BY DEF Rollback, Busy
<1>2. faults' = faults \/ Fault
  BY DEF Rollback
<1>3. ReqOK(req[r])
  BY InProgress
<1>4. Solo(req[r])' /\ req'[r].alone = req[r].alone
  BY <1>1, <1>3, AnswerSolo
<1>5. req'[r] = Answer(req[r], "failed")
  BY <1>1 DEF Becomes, DbInv, TypeOK
<1> QED BY <1>1, <1>2, <1>4, <1>5, RequestSolo

LEMMA CheckKeySolo ==
    ASSUME DbInv, SoloInv, NEW r \in Reqs, CheckKey(r)
    PROVE  SoloInv'
<1> DEFINE q == req[r]
           answer == shardKeyMatches(key[q.db], q.key)
<1>1. /\ q.phase = "checkKey" /\ Busy(r) /\ bg' = bg /\ UNCHANGED <<grants, store>>
  BY DEF CheckKey, Busy
<1>2. faults' = faults \/ Fault
  BY DEF CheckKey
<1>3. /\ ReqOK(q) /\ ReqInv(q) /\ KindOK(q) /\ Undisturbed(q) /\ q.db \in Dbs
      /\ key[q.db] \in Keys \cup {NoKey} /\ q.key \in Keys
  BY <1>1, InProgress DEF ReqOK, ReqInv, ShardPhases
<1>4. (q.alone /\ faults' = 0) => q.missed = {}
  BY <1>1, <1>2, <1>3, NoFault DEF Undisturbed, NoError
<1>5. key' = key /\ idx' = idx /\ users' = users
  BY <1>1 DEF store
<1>6. CASE Becomes(r, Failed(q))
  <2>1. Solo(req[r])' /\ req'[r].alone = q.alone
    BY <1>1, <1>3, <1>4, <1>6, FailedSolo
  <2>2. req'[r] = Failed(q)
    BY <1>6 DEF Becomes, DbInv, TypeOK
  <2> QED BY <1>1, <1>2, <1>6, <2>1, <2>2, RequestSolo
<1>7. CASE key[q.db] # NoKey /\ answer = Exact /\ Becomes(r, Enter(q, NextPhase(q)))
  <2>1. Serves(q)
    BY <1>3, <1>7, KeyFacts DEF Serves
  <2>2. q.key # NoKey
    BY <1>3, KeyFacts
  <2>3. Solo(req[r])' /\ req'[r].alone = q.alone
    BY <1>1, <1>3, <1>4, <1>5, <1>7, <2>1, <2>2, ProceedSolo
  <2>4. req'[r] = Enter(q, NextPhase(q))
    BY <1>7 DEF Becomes, DbInv, TypeOK
  <2> QED BY <1>1, <1>2, <1>7, <2>3, <2>4, RequestSolo
<1>8. ASSUME NEW p \in {"index", "refineIndex"}, NEW e, Becomes(r, e), Same(q, e),
             e.phase = p, e.step = "grant",
             p = "index" => key[q.db] = NoKey,
             p = "refineIndex" => key[q.db] # NoKey /\ isPrefix(key[q.db], q.key)
      PROVE  SoloInv'
  <2>1. req'[r] = e
    BY <1>8 DEF Becomes, DbInv, TypeOK
  <2>2. KindOK(req[r])'
    BY <1>1, <1>3, <1>8, <2>1 DEF KindOK, Same, UserPhases
  <2>3. Undisturbed(req[r])'
    BY <1>4, <1>5, <1>8, <2>1 DEF Undisturbed, KeySeen, NoError, Same
  <2>4. Solo(req[r])' /\ (req'[r].alone => q.alone)
    BY <1>8, <2>1, <2>2, <2>3 DEF Solo, OkReal, Answered, Same
  <2> QED BY <1>1, <1>2, <1>8, <2>1, <2>4, RequestSolo
<1>9. /\ "index" \in Phases \ {"done"} /\ "refineIndex" \in Phases \ {"done"}
      /\ StepIn("index") = "grant" /\ StepIn("refineIndex") = "grant"
  BY DEF Phases, StepIn, OwnerPhases
<1>10. CASE key[q.db] = NoKey /\ Becomes(r, [Enter(q, "index") EXCEPT !.docs = docs[q.db]])
  <2> DEFINE n == Enter(q, "index")
             e == [n EXCEPT !.docs = docs[q.db]]
  <2>1. Same(q, n) /\ n.phase = "index" /\ n.step = "grant" /\ n \in ReqType
    <3>1. ReqOK(n)
      BY <1>1, <1>3, <1>9, EnterFacts
    <3> QED BY <1>3, <1>9, <3>1, EnterSame DEF ReqOK
  <2> HIDE DEF n
  <2>2. Same(q, e) /\ e.phase = "index" /\ e.step = "grant"
    BY <2>1 DEF Same, ReqType
  <2>3. Becomes(r, e)
    BY <1>10 DEF n
  <2> HIDE DEF e
  <2> QED BY <1>8, <1>10, <2>2, <2>3
<1>11. CASE key[q.db] # NoKey /\ answer = NeedsRefine /\ Becomes(r, Enter(q, "refineIndex"))
  <2>1. isPrefix(key[q.db], q.key)
    BY <1>3, <1>11, KeyFacts
  <2> DEFINE e == Enter(q, "refineIndex")
  <2>2. Same(q, e) /\ e.phase = "refineIndex" /\ e.step = "grant"
    BY <1>3, <1>9, EnterSame
  <2>3. Becomes(r, e)
    BY <1>11
  <2> HIDE DEF e
  <2> QED BY <1>8, <1>11, <2>1, <2>2, <2>3
<1> QED BY <1>6, <1>7, <1>10, <1>11 DEF CheckKey, Proceed

\* The deferred revoke, and the redistribution it may start: a request that is
\* alone hands that over to its task, which finds the key just written.
LEMMA RevokeRoleSolo ==
    ASSUME DbInv, SoloInv, NEW r \in Reqs, RevokeRole(r)
    PROVE  SoloInv'
<1> DEFINE o == req[r]
           starts == StartsTask(o)
           q == [o EXCEPT !.alone = @ /\ ~(starts /\ o.move)]
<1>1. /\ Granted(o) /\ o.step = "revoke" /\ Busy(r) /\ UNCHANGED store
      /\ o.phase \notin {"rollback", "done", "userWrite", "validate", "userCheck",
                         "dropUser", "checkKey"}
  BY DEF RevokeRole, Busy, Granted, OwnerPhases, ClusterPhases
<1>2. faults' = faults \/ Fault
  BY DEF RevokeRole
<1>3. ReqOK(o) /\ ReqInv(o) /\ KindOK(o) /\ Undisturbed(o) /\ o.db \in Dbs /\ o \in ReqType
  BY <1>1, InProgress DEF ReqOK
<1>4. key' = key /\ idx' = idx
  BY <1>1 DEF store
<1>5. CASE Fault /\ Becomes(r, Failed(o)) /\ bg' = bg
  <2>1. faults' # 0
    BY <1>5, NoFault
  <2>2. Solo(req[r])' /\ req'[r].alone = o.alone
    BY <1>1, <1>3, <1>5, <2>1, FailedSolo
  <2>3. req'[r] = Failed(o)
    BY <1>5 DEF Becomes, DbInv, TypeOK
  <2> QED BY <1>1, <1>2, <1>5, <2>2, <2>3, RequestSolo
<1>6. CASE /\ Becomes(r, Enter(q, NextPhase(q)))
           /\ bg' = IF starts THEN [bg EXCEPT ![r] = NewTask(o)] ELSE bg
  <2>1. (o.alone /\ ~(starts /\ o.move)) \in BOOLEAN
    OBVIOUS
  <2>2. /\ q.phase = o.phase /\ q.kind = o.kind /\ q.db = o.db /\ q.key = o.key
        /\ q.missed = o.missed /\ q.free = o.free /\ q.move = o.move
        /\ q.alone = (o.alone /\ ~(starts /\ o.move)) /\ q \in ReqType
    BY <1>3, <2>1 DEF ReqType
  <2> HIDE DEF q
  <2>3. ReqOK(q) /\ KindOK(q) /\ (q.phase = "dropDb" => q.kind = "drop")
    <3> HIDE DEF o, starts
    <3> QED BY <1>1, <1>3, <2>2 DEF ReqInv, ReqOK, KindOK
  <2>4. o.alone => /\ o.phase = "index" => key[o.db] = NoKey
                   /\ o.phase = "shard" => key[o.db] \in {NoKey, o.key}
    BY <1>1, <1>3 DEF Undisturbed, KeySeen
  <2>5. (o.alone /\ faults' = 0) =>
           /\ o.missed = {}
           /\ o.phase \in {"checkKey", "shard", "refine", "move"} => Serves(o)
           /\ o.phase \in {"index", "refineIndex"} => o.key \in idx[o.db]
           /\ o.phase = "refineIndex" => key[o.db] # NoKey /\ isPrefix(key[o.db], o.key)
    <3> SUFFICES ASSUME o.alone, faults' = 0 PROVE <2>5!2
      OBVIOUS
    <3>1. NoError(o)
      BY <1>1, <1>2, <1>3, NoFault DEF Undisturbed
    <3>2. o.phase \in {"shard", "refine"} => o.key \in Keys
      BY <1>3 DEF ReqInv, ShardPhases, ReqType
    <3>3. o.phase \in {"shard", "refine"} => Serves(o)
      BY <1>1, <3>1, <3>2, KeyFacts DEF NoError, Serves
    <3> QED BY <1>1, <3>1, <3>3 DEF NoError
  <2>6. Serves(q) <=> Serves(o)
    BY <2>2 DEF Serves
  <2>7. (q.alone /\ faults' = 0) =>
           /\ q.missed = {}
           /\ q.phase \in {"checkKey", "shard", "refine", "move"} => Serves(q)
           /\ q.phase \in {"index", "refineIndex"} => q.key \in idx[q.db]
           /\ q.phase = "refineIndex" => key[q.db] # NoKey /\ isPrefix(key[q.db], q.key)
    <3>1. q.alone => o.alone
      BY <2>2
    <3> HIDE DEF o
    <3> QED BY <2>2, <2>5, <2>6, <3>1
  <2>8. Solo(req[r])' /\ req'[r].alone = q.alone
    <3>1. q.alone => (q.phase = "index" => key[q.db] = NoKey)
      BY <2>2, <2>4
    <3>2. /\ q.phase \notin {"validate", "userCheck", "rollback", "done"}
          /\ q.phase = "checkKey" => q.key # NoKey
      BY <1>1, <2>2
    <3> QED BY <1>4, <1>6, <2>3, <2>7, <3>1, <3>2, ProceedSolo
  <2>9. req'[r] = Enter(q, NextPhase(q)) /\ \A x \in Reqs \ {r} : req'[x] = req[x]
    BY <1>6 DEF Becomes, DbInv, TypeOK
  <2>10. CASE ~starts
    <3>1. bg' = bg
      BY <1>6, <2>10
    <3>2. req'[r].alone => o.alone
      BY <2>2, <2>8
    <3> QED BY <1>1, <1>2, <1>6, <2>8, <2>9, <3>1, <3>2, RequestSolo
  <2>11. CASE starts
    <3>1. o.phase = "shard" /\ q.alone = (o.alone /\ ~o.move)
      BY <2>2, <2>11 DEF StartsTask
    <3>2. ~o.move => ~Busy(r)'
      <4>1. ~o.move => NextPhase(q) = "done"
        BY <2>2, <3>1 DEF NextPhase
      <4>2. NextPhase(q) = "done" => req'[r].phase = "done"
        BY <2>2, <2>9, AnswerFacts DEF Enter
      <4> QED BY <4>1, <4>2 DEF Busy
    <3> DEFINE t == NewTask(o)
    <3>3. /\ bg'[r] = t /\ t.db = o.db /\ t.key = o.key /\ t.step = "grant"
          /\ t.alone = (o.alone /\ ~o.move)
          /\ \A x \in Reqs \ {r} : bg'[x] = bg[x]
      BY <1>6, <2>11 DEF NewTask, DbInv, TypeOK
    <3> HIDE DEF t, starts
    <3>4. \A x \in Reqs \ {r} : Busy(x) => ~req[x].alone
      BY <1>1 DEF SoloInv, OnlyCall
    <3>5. \A x \in Reqs : Tasking(x) => ~bg[x].alone
      BY <1>1 DEF SoloInv, OnlyTask
    <3>6. o.alone => \A x \in Reqs \ {r} : ~Busy(x) /\ ~Tasking(x)
      BY <1>1 DEF SoloInv, OnlyCall
    <3>7. req'[r].alone => o.alone /\ ~o.move
      BY <2>8, <3>1
    <3>8. OnlyCall'
      <4> SUFFICES ASSUME NEW x \in Reqs, Busy(x)', req'[x].alone PROVE FALSE
        BY DEF OnlyCall
      <4>1. x # r
        BY <3>2, <3>7
      <4> QED BY <2>9, <3>4, <4>1 DEF Busy
    <3>9. OnlyTask'
      <4> SUFFICES ASSUME NEW x \in Reqs, Tasking(x)', bg'[x].alone
                   PROVE  \A y \in Reqs : ~Busy(y)' /\ (y # x => ~Tasking(y)')
        BY DEF OnlyTask
      <4>1. x = r
        BY <3>3, <3>5 DEF Tasking
      <4>2. o.alone /\ ~o.move
        BY <3>3, <4>1
      <4> QED BY <2>9, <3>2, <3>3, <3>6, <4>1, <4>2 DEF Busy, Tasking
    <3>10. ASSUME NEW x \in Reqs PROVE Solo(req[x])' /\ TaskKey(bg[x])'
      <4>1. CASE x = r
        <5>1. TaskKey(bg[r])'
          BY <1>4, <2>4, <3>1, <3>3 DEF TaskKey
        <5> QED BY <2>8, <4>1, <5>1
      <4>2. CASE x # r
        <5>1. req'[x] = req[x] /\ bg'[x] = bg[x] /\ Solo(req[x])
          BY <2>9, <3>3, <4>2 DEF SoloInv
        <5>2. TaskKey(bg[x])'
          BY <3>5, <5>1 DEF TaskKey, Tasking
        <5>3. faults' = 0 => faults = 0
          BY <1>2, NoFault
        <5> QED BY <3>4, <4>2, <5>1, <5>2, <5>3
                DEF Solo, KindOK, Undisturbed, OkReal, Busy, Answered
      <4> QED BY <4>1, <4>2
    <3> QED BY <3>8, <3>9, <3>10 DEF SoloInv
  <2> QED BY <2>10, <2>11
<1>7. \/ Fault /\ Becomes(r, Failed(o)) /\ bg' = bg
      \/ /\ Becomes(r, Enter(q, NextPhase(q)))
         /\ bg' = IF starts THEN [bg EXCEPT ![r] = NewTask(o)] ELSE bg
  BY DEF RevokeRole
<1> QED BY <1>5, <1>6, <1>7

LEMMA ReceiveSolo ==
    ASSUME DbInv, SoloInv, NEW r \in Reqs, Receive(r)
    PROVE  SoloInv'
<1>1. /\ ~Busy(r) /\ ~Tasking(r) /\ bg' = Crowded /\ UNCHANGED <<grants, store, faults>>
  BY DEF Receive
<1>2. PICK k \in Asked, d \in Dbs, sk \in Keys \cup {NoKey}, mv \in BOOLEAN :
        /\ k \notin {"create", "settings"} => sk = NoKey
        /\ req' = [x \in Reqs |->
                     IF x = r THEN NewRequest(k, d, sk, mv, Alone(r))
                     ELSE [req[x] EXCEPT !.alone = @ /\ ~Busy(x)]]
  BY DEF Receive
<1>3. ASSUME NEW x \in Reqs
      PROVE  bg'[x].alone = FALSE /\ Tasking(x)' = Tasking(x)
  <2>1. bg'[x] = [bg[x] EXCEPT !.alone = FALSE] /\ bg[x] \in TaskType
    BY <1>1 DEF Crowded, DbInv, TypeOK
  <2> QED BY <2>1 DEF TaskType, Tasking
<1>4. ASSUME NEW x \in Reqs \ {r}
      PROVE  /\ req'[x].phase = req[x].phase /\ req'[x].result = req[x].result
             /\ req'[x].missed = req[x].missed /\ req'[x].served = req[x].served
             /\ req'[x].kind = req[x].kind /\ req'[x].key = req[x].key
             /\ req'[x].alone = (req[x].alone /\ ~Busy(x))
  <2>1. (req[x].alone /\ ~Busy(x)) \in BOOLEAN /\ req[x] \in ReqType
    BY DEF DbInv, TypeOK
  <2>2. req'[x] = [req[x] EXCEPT !.alone = @ /\ ~Busy(x)]
    BY <1>2
  <2> QED BY <2>1, <2>2 DEF ReqType
<1> DEFINE p == FirstPhase(k)
           st == StepIn(p)
           al == Alone(r)
<1>5. /\ req'[r].kind = k /\ req'[r].key = sk /\ req'[r].phase = p /\ req'[r].step = st
      /\ req'[r].missed = {} /\ req'[r].alone = al
  <2>1. req'[r] = [Idle EXCEPT !.kind = k, !.db = d, !.key = sk, !.move = mv,
                               !.alone = al, !.phase = p, !.step = st]
    BY <1>2 DEF NewRequest
  <2> HIDE DEF p, st, al
  <2> QED BY <2>1 DEF Idle
<1>6. /\ p \in {"validate", "dropDb", "dropUser", "userCheck", "meta", "enable"}
      /\ p = "validate" => k = "create"
      /\ p = "userCheck" => k \in UserKinds
      /\ p = "dropUser" => k = "dropUser"
      /\ p = "meta" => k = "metadata"
  <2>1. k \in Kinds
    BY AdapterAssumption DEF Kinds
  <2> QED BY <2>1 DEF FirstPhase, Kinds, UserKinds, OneUser
<1>7. p \in OwnerPhases \cup ClusterPhases => st = "grant"
  BY DEF StepIn
<1> HIDE DEF p, st
<1>8. Solo(req[r])'
  <2>1. KindOK(req[r])'
    BY <1>2, <1>5, <1>6 DEF KindOK, UserPhases
  <2>2. KeySeen(req[r])' /\ NoError(req[r])'
    BY <1>5, <1>6, <1>7 DEF KeySeen, NoError, Granted
  <2> QED BY <1>5, <1>6, <2>1, <2>2 DEF Solo, Undisturbed, OkReal, Answered
<1>9. ASSUME NEW x \in Reqs \ {r} PROVE Solo(req[x])'
  <2>1. Solo(req[x])
    BY DEF SoloInv
  <2>2. KindOK(req[x])'
    <3>1. KindOK(req[x])
      BY <2>1 DEF Solo
    <3> QED BY <1>4, <3>1 DEF KindOK
  <2>3. Undisturbed(req[x])'
    BY <1>4 DEF Undisturbed, Busy
  <2>4. OkReal(req[x])'
    BY <1>1, <1>4, <2>1 DEF Solo, OkReal, Answered
  <2> QED BY <2>2, <2>3, <2>4 DEF Solo
<1>10. \A x \in Reqs : TaskKey(bg[x])'
  BY <1>3 DEF TaskKey
<1>11. OnlyTask'
  BY <1>3 DEF OnlyTask
<1>12. OnlyCall'
  <2> SUFFICES ASSUME NEW x \in Reqs, Busy(x)', req'[x].alone
               PROVE  \A y \in Reqs : ~Tasking(y)' /\ (y # x => ~Busy(y)')
    BY DEF OnlyCall
  <2>1. x = r
    BY <1>4 DEF Busy
  <2>2. \A y \in Reqs \ {r} : ~Busy(y) /\ ~Tasking(y)
    BY <1>5, <2>1 DEF Alone
  <2>3. \A y \in Reqs : ~Tasking(y)
    BY <1>1, <2>2
  <2>4. \A y \in Reqs \ {r} : Busy(y)' <=> Busy(y)
    BY <1>4 DEF Busy
  <2> QED BY <1>3, <2>1, <2>2, <2>3, <2>4
<1> QED BY <1>8, <1>9, <1>10, <1>11, <1>12 DEF SoloInv

LEMMA TaskSolo ==
    ASSUME DbInv, SoloInv, NEW r \in Reqs, Task(r)
    PROVE  SoloInv'
<1>1. Tasking(r) /\ req' = req
  BY DEF Task, TaskGrant, TaskBody, TaskRevoke, Tasking
<1>2. faults' = faults \/ Fault
  BY DEF Task, TaskGrant, TaskBody, TaskRevoke
<1>3. faults' = 0 => faults = 0
  BY <1>2, NoFault
<1>4. bg[r] \in TaskType /\ bg[r].db \in Dbs /\ key \in [Dbs -> Keys \cup {NoKey}]
  BY <1>1 DEF DbInv, TypeOK
<1>5. /\ \A x \in Reqs \ {r} : bg'[x] = bg[x]
      /\ bg'[r].step # "none" => /\ bg'[r].alone = bg[r].alone /\ bg'[r].key = bg[r].key
                                 /\ bg'[r].db = bg[r].db
  <2>1. \/ bg' = [bg EXCEPT ![r] = NoTask]
        \/ bg' = [bg EXCEPT ![r].step = "body"] \/ bg' = [bg EXCEPT ![r].step = "revoke"]
    BY DEF Task, TaskGrant, TaskBody, TaskRevoke
  <2>2. NoTask.step = "none"
    BY DEF NoTask
  <2>3. bg \in [Reqs -> TaskType]
    BY DEF DbInv, TypeOK
  <2>4. CASE bg' = [bg EXCEPT ![r] = NoTask]
    BY <2>2, <2>3, <2>4
  <2>5. ASSUME NEW s \in {"body", "revoke"}, bg' = [bg EXCEPT ![r].step = s] PROVE <1>5!1 /\ <1>5!2
    BY <1>4, <2>3, <2>5 DEF TaskType
  <2> QED BY <2>1, <2>4, <2>5
<1>6. key'[bg[r].db] \in {key[bg[r].db], bg[r].key}
  BY <1>4 DEF Task, TaskGrant, TaskBody, TaskRevoke, store
<1>7. \A x \in Reqs : Busy(x) => ~req[x].alone
  BY <1>1 DEF SoloInv, OnlyCall
<1>8. \A x \in Reqs \ {r} : Tasking(x) => ~bg[x].alone
  BY <1>1 DEF SoloInv, OnlyTask
<1>9. OnlyCall'
  BY <1>1, <1>7 DEF OnlyCall, Busy
<1>10. OnlyTask'
  <2> SUFFICES ASSUME NEW x \in Reqs, Tasking(x)', bg'[x].alone
               PROVE  \A y \in Reqs : ~Busy(y)' /\ (y # x => ~Tasking(y)')
    BY DEF OnlyTask
  <2>1. x = r
    BY <1>5, <1>8 DEF Tasking
  <2>2. bg[r].alone
    BY <1>5, <2>1 DEF Tasking
  <2>3. \A y \in Reqs : ~Busy(y) /\ (y # r => ~Tasking(y))
    BY <1>1, <2>2 DEF SoloInv, OnlyTask
  <2> QED BY <1>1, <1>5, <2>1, <2>3 DEF Busy, Tasking
<1>11. ASSUME NEW x \in Reqs PROVE Solo(req[x])' /\ TaskKey(bg[x])'
  <2>1. Solo(req[x]) /\ TaskKey(bg[x])
    BY DEF SoloInv
  <2>2. Solo(req[x])'
    BY <1>1, <1>3, <1>7, <2>1 DEF Solo, KindOK, Undisturbed, OkReal, Busy, Answered
  <2>3. TaskKey(bg[x])'
    <3>1. CASE x = r
      BY <1>1, <1>5, <1>6, <2>1, <3>1 DEF TaskKey, Tasking
    <3>2. CASE x # r
      BY <1>5, <1>8, <3>2 DEF TaskKey, Tasking
    <3> QED BY <3>1, <3>2
  <2> QED BY <2>2, <2>3
<1> QED BY <1>9, <1>10, <1>11 DEF SoloInv

\* A step that changes neither the calls nor what they rely on.
LEMMA UnchangedSolo ==
    ASSUME SoloInv, UNCHANGED <<req, bg, grants, users, key, idx, faults>>
    PROVE  SoloInv'
<1>1. OnlyCall' /\ OnlyTask'
  BY DEF SoloInv, OnlyCall, OnlyTask, Busy, Tasking
<1>2. ASSUME NEW r \in Reqs PROVE Solo(req[r])' /\ TaskKey(bg[r])'
  <2>1. Solo(req[r]) /\ TaskKey(bg[r])
    BY DEF SoloInv
  <2>2. KindOK(req[r])' /\ OkReal(req[r])' /\ TaskKey(bg[r])'
    BY <2>1 DEF Solo, KindOK, OkReal, Answered, TaskKey
  <2>3. Undisturbed(req[r])'
    BY <2>1 DEF Solo, Undisturbed, KeySeen, NoError, Serves, Granted, RoleDb, Named
  <2> QED BY <2>2, <2>3 DEF Solo
<1> QED BY <1>1, <1>2 DEF SoloInv

\* A kill leaves nobody in progress, and counts as a failing command.
LEMMA CrashSolo == DbInv /\ Crash => SoloInv'
<1> SUFFICES ASSUME DbInv, Crash PROVE SoloInv'
  OBVIOUS
<1>1. faults' # 0
  BY NoFault DEF Crash
<1>2. ASSUME NEW r \in Reqs PROVE req'[r].phase = "done" /\ bg'[r].step = "none"
  <2>1. Idle.phase = "done" /\ NoTask.step = "none"
    BY DEF Idle, NoTask
  <2> QED BY <2>1 DEF Crash, Busy
<1> QED BY <1>1, <1>2 DEF SoloInv, OnlyCall, OnlyTask, Busy, Tasking, Solo, KindOK, Undisturbed,
                          OkReal, TaskKey

LEMMA SoloInit == Init => SoloInv
<1> SUFFICES ASSUME Init PROVE SoloInv
  OBVIOUS
<1>1. ASSUME NEW r \in Reqs
      PROVE  /\ req[r].phase = "done" /\ req[r].result = "none" /\ bg[r].step = "none"
  BY DEF Init, Idle, NoTask
<1> QED BY <1>1 DEF SoloInv, OnlyCall, OnlyTask, Busy, Tasking, Solo, KindOK, Undisturbed,
                    OkReal, Answered, TaskKey

LEMMA SoloStep == DbInv /\ SoloInv /\ [Next]_vars => SoloInv'
<1> SUFFICES ASSUME DbInv, SoloInv, [Next]_vars PROVE SoloInv'
  OBVIOUS
<1>1. ASSUME NEW r \in Reqs, Handle(r) PROVE SoloInv'
  BY <1>1, ValidateSolo, UserCheckSolo, UserSolo, HostsSolo, GrantRoleSolo, BodySolo,
     RevokeRoleSolo, CheckKeySolo, RollbackSolo DEF Handle
<1>2. ASSUME NEW d \in Dbs, ClientWrites(d) PROVE SoloInv'
  BY <1>2, UnchangedSolo DEF ClientWrites
<1>3. CASE UNCHANGED vars
  BY <1>3, UnchangedSolo DEF vars, store
<1> QED BY <1>1, <1>2, <1>3, ReceiveSolo, TaskSolo, CrashSolo DEF Next

LEMMA SoloAlways == Spec => []SoloInv
  BY SoloInit, SoloStep, DbAlways, PTL DEF Spec

\* A request that met no failing command and no other call in progress did all
\* its "ok" stands for: every command of its bodies was carried out, although
\* their errors are lost behind the deferred revoke, and the collection it was
\* to shard has a key that serves the requested one.  Whatever the requests
\* before it left behind, for any databases and keys.
THEOREM SoloOkIsRealAlways == Spec => []SoloOkIsReal
<1>1. SoloInv => SoloOkIsReal
  BY DEF SoloInv, Solo, OkReal, SoloOkIsReal
<1> QED BY <1>1, SoloAlways, PTL

\* The redistribution behind the answer reshards with the key the collection
\* has, unless a request came in between (or its own request was not alone).
THEOREM RedistributeKeepsKeyAlways == Spec => RedistributeKeepsKey
<1> DEFINE Keeps == \A r \in Reqs :
              (bg[r].step = "body" /\ bg[r].alone /\ bg'[r].step = "revoke") => UNCHANGED key
<1>1. DbInv /\ SoloInv /\ [Next]_vars => Keeps
  <2> SUFFICES ASSUME DbInv, SoloInv, [Next]_vars, NEW r \in Reqs, bg[r].step = "body",
                      bg[r].alone, bg'[r].step = "revoke"
               PROVE  key' = key
    OBVIOUS
  <2>1. Tasking(r) /\ bg \in [Reqs -> TaskType] /\ key \in [Dbs -> Keys \cup {NoKey}]
        /\ bg[r].db \in Dbs
    BY DEF Tasking, DbInv, TypeOK
  <2>2. \A x \in Reqs : ~Busy(x) /\ (x # r => ~Tasking(x))
    BY <2>1 DEF SoloInv, OnlyTask
  <2>3. ASSUME NEW x \in Reqs PROVE ~Handle(x)
    BY <2>2 DEF Handle, Validate, UserCheck, UserWrite, GetReplicaSetHosts, DropUser, GrantRole,
                Body, RevokeRole, CheckKey, Rollback, Busy, Granted, OwnerPhases, ClusterPhases
  <2>4. ASSUME NEW x \in Reqs, Receive(x) PROVE key' = key
    BY <2>4 DEF Receive, store
  <2>5. ASSUME NEW x \in Reqs, Task(x) PROVE key' = key
    <3>1. x = r
      BY <2>2, <2>5 DEF Task, TaskGrant, TaskBody, TaskRevoke, Tasking
    <3>2. TaskBody(r)
      BY <2>5, <3>1 DEF Task, TaskGrant, TaskRevoke
    <3>3. key[bg[r].db] \in {NoKey, bg[r].key}
      BY <2>1 DEF SoloInv, TaskKey, Tasking
    <3>4. \/ key' = key
          \/ key[bg[r].db] # NoKey /\ key' = [key EXCEPT ![bg[r].db] = bg[r].key]
      BY <3>2 DEF TaskBody
    <3> QED BY <2>1, <3>3, <3>4
  <2>6. ASSUME NEW d \in Dbs, ClientWrites(d) PROVE key' = key
    BY <2>6 DEF ClientWrites
  <2>7. CASE UNCHANGED vars \/ Crash
    BY <2>7 DEF vars, store, Crash
  <2> QED BY <2>3, <2>4, <2>5, <2>6, <2>7 DEF Next
<1>2. DbInv /\ SoloInv /\ [Next]_vars => [Keeps]_vars
  BY <1>1
<1> QED BY <1>2, DbAlways, SoloAlways, PTL DEF Spec, RedistributeKeepsKey

=============================================================================

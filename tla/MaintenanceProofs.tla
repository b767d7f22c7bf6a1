-------------------------- MODULE MaintenanceProofs --------------------------
(***************************************************************************)
(* Theorems about Maintenance for any number of shards, members, sizes,    *)
(* requests, reconciles and faults: the types, that the oplog steps end    *)
(* with every listed member resized, that a primary is resized last, and   *)
(* that a compaction that answers "ok" has compacted every member.         *)
(***************************************************************************)
EXTENDS Maintenance, TLAPS

-----------------------------------------------------------------------------
(* The types, in parts that change separately. *)

Phases == {"idle", "lookup", "secondaries", "stepDown", "poll", "last", "ok", "failed"}
ReqType == [phase : Phases, shard : Shards, member : Members,
            target : Members \cup {None}, done : SUBSET (Shards \X Members),
            again : BOOLEAN, lost : BOOLEAN]
ItemType == [listed : BOOLEAN, primary : BOOLEAN, size : Sizes \cup {None}]

SetTypes ==
    /\ prim \in [RS -> Members \cup {None}] /\ view \in [RS -> Members \cup {None}]
    /\ up \in [RS -> SUBSET Members] /\ frozen \in [RS -> SUBSET Members]

RunTypes ==
    /\ step \in {"idle", "report", "status", "secondaries", "primaries", "done"}
    /\ group \in Groups /\ want \in [Groups -> Sizes \cup {None}]
    /\ at \in [set : RS, member : Members]
    /\ report \in [RS -> [Members -> ItemType]]
    /\ size \in [RS -> [Members -> Sizes]]
    /\ runs \in 0..MaxRuns

LEMMA TypeParts ==
    TypeOK <=> /\ SetTypes /\ RunTypes /\ moved \in [RS -> BOOLEAN]
               /\ req \in [Reqs -> ReqType] /\ faults \in 0..MaxFaults
BY DEF TypeOK, SetTypes, RunTypes, ReqType, ItemType, Phases

\* The numbers that name sets, members and "none".
LEMMA Numbers ==
    /\ Shards \subseteq RS /\ Cnf \in RS /\ Cnf \notin Shards /\ 1 \in Shards
    /\ 1 \in Members /\ None \notin Members /\ None \notin Sizes
    /\ \A rs \in RS : rs \in Nat
    /\ \A m \in Members : m \in Nat /\ m <= N /\ (m < N => m + 1 \in Members)
    /\ \A s \in Shards : s <= ShardCount /\ (s < ShardCount => s + 1 \in Shards)
BY MaintenanceAssumption DEF Shards, RS, Cnf, Members, None

-----------------------------------------------------------------------------
(* The oplog steps of the reconcile. *)

\* (rs, m) comes before the item the loop is at.
Passed(rs, m) == rs < at.set \/ (rs = at.set /\ m < at.member)

\* What the loops over a group leave behind: nothing is listed in vain.
Finished(g) ==
    want[g] # None =>
        \A rs \in SetsOf(g), m \in Members :
            report[rs][m].listed => size[rs][m] = want[g]

\* A listed member has its new size if its turn is over, and otherwise the
\* one that was reported.
Progress ==
    \A rs \in SetsOf(group), m \in Members : report[rs][m].listed =>
        LET over == CASE step = "secondaries" -> ~report[rs][m].primary /\ Passed(rs, m)
                      [] step = "primaries" -> ~report[rs][m].primary \/ Passed(rs, m)
                      [] OTHER -> FALSE
        IN size[rs][m] = IF over THEN want[group] ELSE report[rs][m].size

Working == step \in {"report", "status", "secondaries", "primaries"}

LoopInv ==
    /\ at.set \in SetsOf(group)
    /\ step \in {"status", "secondaries", "primaries"} => want[group] # None
    /\ step = "status" => at = FirstOf(group)
    /\ group = "cnf" => \A rs \in Shards, m \in Members : ~report[rs][m].listed
    /\ Working => Progress
    /\ Working /\ group = "data" => Finished("cnf")
    /\ step = "done" => Finished("cnf") /\ Finished("data")

RunInv == RunTypes /\ LoopInv

\* The first item and the next one are items of the group, and a loop that is
\* at its last item has passed all others.
LEMMA ItemFacts ==
    ASSUME NEW g \in Groups
    PROVE  /\ FirstOf(g) \in [set : RS, member : Members]
           /\ FirstOf(g).set \in SetsOf(g)
           /\ \A rs \in SetsOf(g), m \in Members :
                ~(rs < FirstOf(g).set \/ (rs = FirstOf(g).set /\ m < FirstOf(g).member))
BY Numbers, MaintenanceAssumption DEF FirstOf, SetsOf, Groups, Shards, Members, Cnf, RS

LEMMA BehindFacts ==
    ASSUME RunTypes, LoopInv, ~IsLast(group, at)
    PROVE  /\ Behind(at) \in [set : RS, member : Members]
           /\ Behind(at).set \in SetsOf(group)
           /\ \A rs \in SetsOf(group), m \in Members :
                (rs < Behind(at).set \/ (rs = Behind(at).set /\ m < Behind(at).member))
                    <=> (Passed(rs, m) \/ (rs = at.set /\ m = at.member))
<1> DEFINE n == Behind(at)
<1>0. /\ at.set \in RS /\ at.set \in Nat /\ at.member \in Members
      /\ at.member \in Nat /\ at.set \in SetsOf(group)
      /\ at \in [set : RS, member : Members]
  BY Numbers DEF RunTypes, LoopInv
<1>1. \A rs \in SetsOf(group) : rs \in RS /\ rs \in Nat
  BY Numbers DEF SetsOf
<1>2. CASE at.member < N
  <2>1. n.set = at.set /\ n.member = at.member + 1
        /\ n \in [set : RS, member : Members]
    BY <1>0, <1>2, Numbers DEF Behind
  <2> QED
    BY <1>0, <1>1, <2>1, Numbers DEF Passed
<1>3. CASE ~(at.member < N)
  <2>1. at.member = N
    BY <1>0, <1>3, Numbers, MaintenanceAssumption
  <2>2. n = [set |-> at.set + 1, member |-> 1] /\ at.set + 1 \in SetsOf(group)
    BY <1>3, <2>1 DEF Behind, IsLast
  <2>3. n.set = at.set + 1 /\ n.member = 1 /\ n \in [set : RS, member : Members]
    BY <1>1, <2>2, Numbers
  <2> QED
    BY <1>0, <1>1, <2>1, <2>2, <2>3, Numbers DEF Passed, Members
<1> QED
  BY <1>2, <1>3

LEMMA LastFacts ==
    ASSUME RunTypes, LoopInv, IsLast(group, at)
    PROVE  \A rs \in SetsOf(group), m \in Members :
              Passed(rs, m) \/ (rs = at.set /\ m = at.member)
BY Numbers, MaintenanceAssumption
   DEF RunTypes, LoopInv, IsLast, SetsOf, Groups, Passed, Shards, Members, Cnf, RS

\* A new reconcile, or the end of one, starts from a blank report.
LEMMA BlankKeeps ==
    ASSUME RunInv, StartReconcile \/ (GiveUp /\ UNCHANGED <<size, runs>>)
    PROVE  RunInv'
<1>1. Blank \in [RS -> [Members -> ItemType]]
      /\ \A rs \in RS, m \in Members : ~Blank[rs][m].listed
  BY DEF Blank, NoItem, ItemType
<1>2. report' = Blank /\ group' = "cnf" /\ at' = FirstOf("cnf")
      /\ step' \in {"idle", "report"} /\ size' = size
      /\ want' \in [Groups -> Sizes \cup {None}] /\ runs' \in 0..MaxRuns
  BY MaintenanceAssumption DEF StartReconcile, GiveUp, RunInv, RunTypes
<1>3. RunTypes'
  BY <1>1, <1>2, ItemFacts DEF RunInv, RunTypes, Groups
<1>4. LoopInv'
  BY <1>1, <1>2, ItemFacts, Numbers DEF LoopInv, Progress, SetsOf, Groups
<1> QED
  BY <1>3, <1>4 DEF RunInv

\* The steps of a group are through.
LEMMA NextGroupKeeps ==
    ASSUME RunInv, RunTypes', Working, NextGroup, UNCHANGED want,
           NEW g \in Groups, g = group, Finished(g)',
           \A rs \in RS \ SetsOf(g) :
              report'[rs] = report[rs] /\ size'[rs] = size[rs]
    PROVE  LoopInv'
<1>0. RunTypes /\ LoopInv
  BY DEF RunInv
<1>1. CASE group = "cnf"
  <2>1. step' = "report" /\ group' = "data" /\ at' = FirstOf("data")
    BY <1>1 DEF NextGroup
  <2>2. \A rs \in Shards, m \in Members : ~report'[rs][m].listed
    BY <1>0, <1>1, Numbers DEF LoopInv, SetsOf
  <2>3. Finished("cnf")'
    BY <1>1
  <2> QED
    BY <2>1, <2>2, <2>3, ItemFacts DEF LoopInv, Progress, SetsOf, Groups, Working
<1>2. CASE group # "cnf"
  <2>1. group = "data" /\ step' = "done" /\ UNCHANGED <<group, at>>
    BY <1>0, <1>2 DEF NextGroup, RunTypes, Groups
  <2>2. Finished("cnf")'
    BY <1>0, <2>1, Numbers DEF LoopInv, Finished, SetsOf, Working
  <2>3. Finished("data")'
    BY <2>1
  <2> QED
    BY <1>0, <2>1, <2>2, <2>3 DEF LoopInv, Working
<1> QED
  BY <1>1, <1>2

\* The loops of a group go on.
LEMMA GroupKeeps ==
    ASSUME RunInv, RunTypes', Working, Working', UNCHANGED <<group, want>>,
           at'.set \in SetsOf(group), step' = "report" \/ want[group] # None, Progress',
           step' = "status" => at' = FirstOf(group),
           \A rs \in RS \ SetsOf(group) :
              report'[rs] = report[rs] /\ size'[rs] = size[rs]
    PROVE  RunInv'
<1>1. group = "cnf" => \A rs \in Shards, m \in Members : ~report'[rs][m].listed
  BY Numbers DEF RunInv, LoopInv, SetsOf
<1>2. group = "data" => Finished("cnf")'
  BY Numbers DEF RunInv, LoopInv, Finished, SetsOf
<1>3. group \in Groups
  BY DEF RunInv, RunTypes
<1> QED
  BY <1>1, <1>2, <1>3 DEF RunInv, LoopInv, SetsOf, Groups, Working

\* Passing to the next group keeps the types.
LEMMA NextGroupType ==
    ASSUME RunInv, NextGroup
    PROVE  /\ step' \in {"report", "done"} /\ group' \in Groups
           /\ at' \in [set : RS, member : Members]
BY ItemFacts DEF RunInv, RunTypes, NextGroup, Groups

LEMMA NoSizeWantedKeeps == ASSUME RunInv, NoSizeWanted PROVE RunInv'
<1>1. RunTypes'
  BY NextGroupType DEF RunInv, RunTypes, NoSizeWanted
<1>2. Finished(group) /\ UNCHANGED <<report, size, want>>
  BY DEF NoSizeWanted, Finished
<1>3. \A g \in Groups : Finished(g) => Finished(g)'
  BY <1>2 DEF Finished
<1>4. group \in Groups /\ Working /\ NextGroup
  BY DEF NoSizeWanted, Working, RunInv, RunTypes
<1> QED
  BY <1>1, <1>2, <1>3, <1>4, NextGroupKeeps DEF RunInv

\* A round of the report: rep differs from report, if at all, in a true item.
LEMMA ReportedKeeps ==
    ASSUME RunInv, step = "report", want[group] # None, NEW rep, Reported(rep),
           \/ rep = report
           \/ \E it \in ItemType : /\ it.size = size[at.set][at.member]
                                   /\ rep = [report EXCEPT ![at.set][at.member] = it],
           UNCHANGED <<size, want, runs>>
    PROVE  RunInv'
<1>0. RunTypes /\ LoopInv /\ Working
  BY DEF RunInv, Working
<1>1. /\ rep \in [RS -> [Members -> ItemType]] /\ report' = rep
      /\ \A rs \in RS \ SetsOf(group) : rep[rs] = report[rs]
  <2>1. report' = rep /\ at.set \in SetsOf(group)
    BY <1>0 DEF Reported, LoopInv
  <2>2. report \in [RS -> [Members -> ItemType]] /\ at.set \in RS /\ at.member \in Members
    BY <1>0 DEF RunTypes
  <2>3. CASE rep = report
    BY <2>1, <2>2, <2>3
  <2>4. ASSUME NEW it \in ItemType, rep = [report EXCEPT ![at.set][at.member] = it]
        PROVE  /\ rep \in [RS -> [Members -> ItemType]]
               /\ \A rs \in RS \ SetsOf(group) : rep[rs] = report[rs]
    BY <2>1, <2>2, <2>4
  <2> QED
    BY <2>1, <2>3, <2>4
<1>2. \A rs \in SetsOf(group), m \in Members :
         rep[rs][m].listed => size[rs][m] = rep[rs][m].size
  <2> SUFFICES ASSUME NEW rs \in SetsOf(group), NEW m \in Members, rep[rs][m].listed
               PROVE  size[rs][m] = rep[rs][m].size
    OBVIOUS
  <2>1. rs \in RS
    BY Numbers DEF SetsOf
  <2>2. report[rs][m].listed => size[rs][m] = report[rs][m].size
    BY <1>0 DEF LoopInv, Progress
  <2> QED
    BY <1>0, <2>1, <2>2 DEF RunTypes
<1>3. CASE ~IsLast(group, at)
  <2>1. at' = Behind(at) /\ UNCHANGED <<step, group>>
    BY <1>3 DEF Reported
  <2>2. RunTypes'
    BY <1>0, <1>1, <1>3, <2>1, BehindFacts DEF RunTypes
  <2> QED
    <3>1. Progress'
      BY <1>1, <1>2, <2>1 DEF Progress
    <3>2. at'.set \in SetsOf(group)
      BY <1>0, <1>3, <2>1, BehindFacts
    <3> QED
      BY <1>0, <1>1, <2>1, <2>2, <3>1, <3>2, GroupKeeps DEF Working
<1>4. CASE IsLast(group, at) /\ NeedsResize(rep)
  <2>1. step' = "status" /\ at' = FirstOf(group) /\ UNCHANGED group
    BY <1>4 DEF Reported
  <2>2. RunTypes'
    BY <1>0, <1>1, <2>1, ItemFacts DEF RunTypes
  <2> QED
    <3>1. Progress'
      BY <1>1, <1>2, <2>1 DEF Progress
    <3>2. at'.set \in SetsOf(group)
      BY <1>0, <2>1, ItemFacts DEF RunTypes
    <3> QED
      BY <1>0, <1>1, <2>1, <2>2, <3>1, <3>2, GroupKeeps DEF Working
<1>5. CASE IsLast(group, at) /\ ~NeedsResize(rep)
  <2>1. NextGroup
    BY <1>5 DEF Reported
  <2>2. RunTypes'
    BY <1>0, <1>1, <2>1, NextGroupType DEF RunTypes
  <2>3. \A rs \in SetsOf(group), m \in Members :
           rep[rs][m].listed => size[rs][m] = want[group]
    BY <1>2, <1>5 DEF NeedsResize
  <2>4. PICK g \in Groups : g = group
    BY <1>0 DEF RunTypes
  <2>5. Finished(g)'
    BY <1>1, <2>3, <2>4 DEF Finished
  <2> QED
    BY <1>0, <1>1, <2>1, <2>2, <2>4, <2>5, NextGroupKeeps DEF RunInv
<1> QED
  BY <1>3, <1>4, <1>5

LEMMA ReportMemberKeeps == ASSUME RunInv, ReportMember PROVE RunInv'
<1>0. /\ RunTypes /\ step = "report" /\ want[group] # None
      /\ UNCHANGED <<size, want, runs>>
  BY DEF ReportMember, RunInv
<1>1. CASE Reported(report)
  BY <1>0, <1>1, ReportedKeeps
<1>2. ASSUME NEW p, Reported(NewReport(p))
      PROVE  RunInv'
  <2> DEFINE it == [listed |-> TRUE, primary |-> p = at.member,
                    size |-> size[at.set][at.member]]
  <2>1. it \in ItemType /\ it.size = size[at.set][at.member]
    BY <1>0 DEF RunTypes, ItemType
  <2>2. NewReport(p) = [report EXCEPT ![at.set][at.member] = it]
    BY DEF NewReport
  <2> QED
    BY <1>0, <1>2, <2>1, <2>2, ReportedKeeps
<1> QED
  BY <1>1, <1>2 DEF ReportMember

LEMMA CheckStatusKeeps == ASSUME RunInv, CheckStatus PROVE RunInv'
<1>1. CASE GiveUp
  BY <1>1, BlankKeeps DEF CheckStatus
<1>2. CASE step' = "secondaries" /\ UNCHANGED <<group, want, at, report, moved>>
  <2>1. step = "status" /\ UNCHANGED <<size, runs>>
    BY DEF CheckStatus
  <2>2. RunTypes'
    BY <1>2, <2>1 DEF RunInv, RunTypes
  <2>3. Progress'
    <3>1. \A rs \in SetsOf(group), m \in Members : ~Passed(rs, m)'
      BY <1>2, <2>1, ItemFacts DEF Passed, RunInv, RunTypes, LoopInv
    <3> QED
      BY <1>2, <2>1, <3>1 DEF Progress, RunInv, LoopInv, Working
  <2> QED
    BY <1>2, <2>1, <2>2, <2>3, GroupKeeps DEF RunInv, RunTypes, LoopInv, Working
<1> QED
  BY <1>1, <1>2 DEF CheckStatus

\* The loop leaves the item it is at, which has its new size if its turn was
\* now; sizes of other items are what they were.
LEMMA LoopOnKeeps ==
    ASSUME RunInv, step \in {"secondaries", "primaries"}, LoopOn,
           size' \in [RS -> [Members -> Sizes]], UNCHANGED <<want, report, runs>>,
           \A rs \in RS, m \in Members :
              (rs # at.set \/ m # at.member) => size'[rs][m] = size[rs][m],
           report[at.set][at.member].listed =>
              size'[at.set][at.member] =
                IF InLoop(at.set, at.member) THEN want[group] ELSE size[at.set][at.member]
    PROVE  RunInv'
<1>0. RunTypes /\ LoopInv /\ Working /\ group \in Groups /\ Progress /\ want[group] # None
  BY DEF RunInv, RunTypes, LoopInv, Working
<1>1. \A rs \in SetsOf(group) : rs \in RS
  BY Numbers DEF SetsOf
<1>2. \A rs \in RS \ SetsOf(group) : report'[rs] = report[rs] /\ size'[rs] = size[rs]
  <2> SUFFICES ASSUME NEW rs \in RS \ SetsOf(group) PROVE size'[rs] = size[rs]
    OBVIOUS
  <2>1. rs # at.set
    BY <1>0 DEF LoopInv
  <2> QED
    BY <1>0, <2>1 DEF RunTypes
<1> DEFINE Over(rs, m) == Passed(rs, m) \/ (rs = at.set /\ m = at.member)
<1>3. ASSUME NEW rs \in SetsOf(group), NEW m \in Members, report[rs][m].listed
      PROVE  size'[rs][m] =
                IF (step = "secondaries" /\ ~report[rs][m].primary /\ Over(rs, m))
                   \/ (step = "primaries" /\ (~report[rs][m].primary \/ Over(rs, m)))
                THEN want[group] ELSE report[rs][m].size
  <2>1. rs \in Nat /\ m \in Nat
    BY <1>1, Numbers
  <2>2. CASE rs = at.set /\ m = at.member
    BY <1>0, <1>3, <2>1, <2>2 DEF Progress, Passed, InLoop
  <2>3. CASE rs # at.set \/ m # at.member
    BY <1>0, <1>1, <1>3, <2>3 DEF Progress
  <2> QED
    BY <2>2, <2>3
<1>4. CASE ~IsLast(group, at)
  <2>1. at' = Behind(at) /\ UNCHANGED <<step, group>>
    BY <1>4 DEF LoopOn
  <2>2. RunTypes'
    BY <1>0, <1>4, <2>1, BehindFacts DEF RunTypes
  <2>3. \A rs \in SetsOf(group), m \in Members : Passed(rs, m)' <=> Over(rs, m)
    BY <1>0, <1>4, <2>1, BehindFacts DEF Passed
  <2>4. Progress'
    BY <1>3, <2>1, <2>3 DEF Progress
  <2> QED
    BY <1>0, <1>2, <1>4, <2>1, <2>2, <2>4, BehindFacts, GroupKeeps DEF Working
<1>5. CASE IsLast(group, at) /\ step = "secondaries"
  <2>1. step' = "primaries" /\ at' = FirstOf(group) /\ UNCHANGED group
    BY <1>5 DEF LoopOn
  <2>2. RunTypes'
    BY <1>0, <2>1, ItemFacts DEF RunTypes
  <2>3. \A rs \in SetsOf(group), m \in Members : Over(rs, m) /\ ~Passed(rs, m)'
    BY <1>0, <1>5, <2>1, LastFacts, ItemFacts DEF Passed
  <2>4. Progress'
    BY <1>3, <1>5, <2>1, <2>3 DEF Progress
  <2> QED
    BY <1>0, <1>2, <2>1, <2>2, <2>4, ItemFacts, GroupKeeps DEF Working
<1>6. CASE IsLast(group, at) /\ step = "primaries"
  <2>1. NextGroup
    BY <1>6 DEF LoopOn
  <2>2. RunTypes'
    BY <1>0, <2>1, NextGroupType DEF RunTypes
  <2>3. PICK g \in Groups : g = group
    BY <1>0
  <2>4. Finished(g)'
    BY <1>0, <1>3, <1>6, <2>3, LastFacts DEF Finished
  <2> QED
    BY <1>0, <1>2, <2>1, <2>2, <2>3, <2>4, NextGroupKeeps DEF RunInv
<1> QED
  BY <1>4, <1>5, <1>6

LEMMA PassOverKeeps == ASSUME RunInv, PassOver PROVE RunInv'
<1>0. RunTypes /\ Progress /\ step \in {"secondaries", "primaries"} /\ LoopOn
      /\ UNCHANGED <<size, want, report, runs>> /\ ~ToResize(at.set, at.member)
      /\ at.set \in SetsOf(group) /\ at.set \in Nat /\ at.member \in Nat
  BY Numbers DEF PassOver, RunInv, RunTypes, LoopInv, Working
<1>1. report[at.set][at.member].listed =>
        size[at.set][at.member] =
          IF InLoop(at.set, at.member) THEN want[group] ELSE size[at.set][at.member]
  <2> SUFFICES ASSUME report[at.set][at.member].listed, InLoop(at.set, at.member)
               PROVE  size[at.set][at.member] = want[group]
    OBVIOUS
  <2>1. report[at.set][at.member].size = want[group]
    BY <1>0 DEF ToResize
  <2> QED
    BY <1>0, <2>1 DEF Progress, RunTypes
<1> QED
  BY <1>0, <1>1, LoopOnKeeps DEF RunTypes

LEMMA ResizeMemberKeeps == ASSUME RunInv, ResizeMember PROVE RunInv'
<1>0. /\ RunTypes /\ step \in {"secondaries", "primaries"} /\ UNCHANGED runs
      /\ ToResize(at.set, at.member) /\ want[group] \in Sizes
      /\ size' = [size EXCEPT ![at.set][at.member] = want[group]]
  BY DEF ResizeMember, RunInv, RunTypes, LoopInv
<1>1. at.set \in RS /\ at.member \in Members /\ size \in [RS -> [Members -> Sizes]]
  BY <1>0 DEF RunTypes
<1>2. /\ size' \in [RS -> [Members -> Sizes]]
      /\ size'[at.set][at.member] = want[group]
      /\ \A rs \in RS, m \in Members :
           (rs # at.set \/ m # at.member) => size'[rs][m] = size[rs][m]
  BY <1>0, <1>1
<1>3. CASE LoopOn /\ UNCHANGED <<want, report, moved, faults>>
  BY <1>0, <1>2, <1>3, LoopOnKeeps DEF ToResize
<1>4. CASE GiveUp
  <2>1. Blank \in [RS -> [Members -> ItemType]]
        /\ \A rs \in RS, m \in Members : ~Blank[rs][m].listed
    BY DEF Blank, NoItem, ItemType
  <2> QED
    BY <1>0, <1>2, <1>4, <2>1, ItemFacts, Numbers
       DEF GiveUp, RunInv, RunTypes, LoopInv, Working, SetsOf, Groups
<1> QED
  BY <1>3, <1>4 DEF ResizeMember

\* Every step of the reconcile, and its end by a crash.
LEMMA ReconcileKeeps == ASSUME RunInv, Reconcile PROVE RunInv'
BY BlankKeeps, NoSizeWantedKeeps, ReportMemberKeeps, CheckStatusKeeps, PassOverKeeps,
   ResizeMemberKeeps DEF Reconcile, RunFails

\* What requests and replica sets do leaves the reconcile alone.
RunSame == UNCHANGED <<size, step, group, want, at, report, runs>>

LEMMA RunSameKeeps == ASSUME RunInv, RunSame PROVE RunInv'
BY DEF RunInv, RunSame, RunTypes, LoopInv, Progress, Finished, Working, Passed

-----------------------------------------------------------------------------
(* The compaction requests. *)

\* Everything of the current shard but its old primary has been compacted.
OthersDone(q) == \A m \in Members \ {q.target} : <<q.shard, m>> \in q.done

\* Whom the loop over the secondaries has passed without compacting it was
\* the primary then, so that the target is not, unless it is elected again.
\* Once the target has stepped down nothing is missing but itself.
ReqInv(q, p) ==
    /\ Handling(q) => q.target \in Members
    /\ ~q.again /\ ~q.lost =>
         /\ Running(q) => \A s \in Shards, m \in Members : s < q.shard => <<s, m>> \in q.done
         /\ q.phase = "secondaries" /\ p[q.shard] = q.target =>
              \A m \in Members \ {q.target} : m < q.member => <<q.shard, m>> \in q.done
         /\ q.phase = "stepDown" /\ p[q.shard] = q.target => OthersDone(q)
         /\ q.phase \in {"poll", "last"} => OthersDone(q) /\ p[q.shard] # q.target
         /\ q.phase = "ok" => q.done = Shards \X Members

ReqsInv == \A r \in Reqs : ReqInv(req[r], prim)

\* Requests that have not started, or have failed.
LEMMA AnswerFacts ==
    ASSUME NEW p
    PROVE  /\ Idle \in ReqType /\ ReqInv(Idle, p)
           /\ Failed \in ReqType /\ ReqInv(Failed, p)
           /\ [Idle EXCEPT !.phase = "lookup"] \in ReqType
           /\ ReqInv([Idle EXCEPT !.phase = "lookup"], p)
<1> DEFINE looking == [Idle EXCEPT !.phase = "lookup"]
<1>1. Idle \in ReqType /\ Failed \in ReqType /\ looking \in ReqType
  BY Numbers DEF Idle, Failed, ReqType, Phases
<1>2. Idle.phase = "idle" /\ Failed.phase = "failed"
      /\ looking.phase = "lookup" /\ looking.shard = 1
  BY DEF Idle, Failed
<1>3. \A s \in Shards : ~(s < 1)
  BY MaintenanceAssumption DEF Shards
<1> QED
  BY <1>1, <1>2, <1>3 DEF ReqInv, Handling, Running

\* A primary that changes hurts no request at work on its set, unless the
\* member the request had found is primary now.
LEMMA OtherPrimary ==
    ASSUME NEW q \in ReqType, NEW p, NEW p2, ReqInv(q, p),
           p2[q.shard] = p[q.shard] \/ (Handling(q) => p2[q.shard] # q.target)
    PROVE  ReqInv(q, p2)
BY DEF ReqInv, Handling

\* The request r goes on, and the primaries of all sets stay.
LEMMA BecomesKeeps ==
    ASSUME req \in [Reqs -> ReqType], ReqsInv, NEW r \in Reqs, UNCHANGED prim,
           NEW q \in ReqType, ReqInv(q, prim), Becomes(r, q)
    PROVE  req' \in [Reqs -> ReqType] /\ ReqsInv'
BY DEF ReqsInv, Becomes

\* The loop over the secondaries leaves a member that was compacted, or was
\* not to be.
LEMMA NextMemberKeeps ==
    ASSUME NEW q \in ReqType, NEW p, ReqInv(q, p), q.phase = "secondaries",
           (~q.again /\ ~q.lost /\ p[q.shard] = q.target /\ q.member # q.target)
              => <<q.shard, q.member>> \in q.done
    PROVE  NextMember(q) \in ReqType /\ ReqInv(NextMember(q), p)
<1>0. q.member \in Members /\ q.member \in Nat /\ q.target \in Members
  BY Numbers DEF ReqType, ReqInv, Handling
<1>1. CASE q.member < N
  <2> DEFINE n == [q EXCEPT !.member = @ + 1]
  <2>1. n \in ReqType /\ NextMember(q) = n
    BY <1>0, <1>1, Numbers DEF NextMember, ReqType
  <2>2. /\ n.phase = q.phase /\ n.shard = q.shard /\ n.target = q.target
        /\ n.done = q.done /\ n.again = q.again /\ n.lost = q.lost
        /\ n.member = q.member + 1
    BY DEF ReqType
  <2>3. \A m \in Members : m < n.member => m < q.member \/ m = q.member
    BY <1>0, <2>2, Numbers
  <2> QED
    BY <1>0, <2>1, <2>2, <2>3 DEF ReqInv, Handling, Running
<1>2. CASE ~(q.member < N)
  <2> DEFINE n == [q EXCEPT !.phase = "stepDown"]
  <2>1. n \in ReqType /\ NextMember(q) = n
    BY <1>2 DEF NextMember, ReqType, Phases
  <2>2. /\ n.phase = "stepDown" /\ n.shard = q.shard /\ n.target = q.target
        /\ n.done = q.done /\ n.again = q.again /\ n.lost = q.lost
    BY DEF ReqType
  <2>3. \A m \in Members : m < q.member \/ m = q.member
    BY <1>0, <1>2, Numbers, MaintenanceAssumption
  <2> QED
    BY <1>0, <2>1, <2>2, <2>3 DEF ReqInv, Handling, Running, OthersDone
<1> QED
  BY <1>1, <1>2

\* The loop over the shards leaves one whose members are all compacted.
LEMMA NextShardKeeps ==
    ASSUME NEW q \in ReqType, NEW p, ReqInv(q, p), q.phase = "last",
           (~q.again /\ ~q.lost) => <<q.shard, q.target>> \in q.done
    PROVE  NextShard(q) \in ReqType /\ ReqInv(NextShard(q), p)
<1>0. q.shard \in Shards /\ q.shard \in Nat /\ q.target \in Members
  BY Numbers DEF ReqType, ReqInv, Handling
<1>1. (~q.again /\ ~q.lost) => \A s \in Shards, m \in Members :
         s <= q.shard => <<s, m>> \in q.done
  <2> SUFFICES ASSUME ~q.again, ~q.lost, NEW s \in Shards, NEW m \in Members, s <= q.shard
               PROVE  <<s, m>> \in q.done
    OBVIOUS
  <2>1. s < q.shard \/ s = q.shard
    BY <1>0, Numbers
  <2> QED
    BY <2>1 DEF ReqInv, Running, Handling, OthersDone
<1>2. CASE q.shard < ShardCount
  <2> DEFINE n == [q EXCEPT !.phase = "lookup", !.shard = @ + 1, !.member = 1,
                            !.target = None]
  <2>1. n \in ReqType /\ NextShard(q) = n
    BY <1>0, <1>2, Numbers DEF NextShard, ReqType, Phases
  <2>2. /\ n.phase = "lookup" /\ n.shard = q.shard + 1
        /\ n.done = q.done /\ n.again = q.again /\ n.lost = q.lost
    BY DEF ReqType
  <2>3. \A s \in Shards : s < n.shard => s <= q.shard
    BY <1>0, <2>2, Numbers
  <2> QED
    BY <1>1, <2>1, <2>2, <2>3 DEF ReqInv, Handling, Running
<1>3. CASE ~(q.shard < ShardCount)
  <2> DEFINE n == [Idle EXCEPT !.phase = "ok", !.done = q.done, !.again = q.again,
                               !.lost = q.lost]
  <2>1. NextShard(q) = n
    BY <1>3 DEF NextShard, Ok
  <2>2. n \in ReqType
    BY Numbers DEF Idle, ReqType, Phases
  <2>3. n.phase = "ok" /\ n.done = q.done /\ n.again = q.again /\ n.lost = q.lost
    BY DEF Idle
  <2>4. \A s \in Shards : s <= q.shard
    BY <1>0, <1>3, Numbers, MaintenanceAssumption
  <2>5. ~q.again /\ ~q.lost => q.done = Shards \X Members
    BY <1>1, <2>4 DEF ReqType
  <2> QED
    BY <2>1, <2>2, <2>3, <2>5 DEF ReqInv, Handling, Running
<1> QED
  BY <1>2, <1>3
-----------------------------------------------------------------------------
(* The invariant. *)

\* While no primary has moved the report tells who is primary.
ReportTrue ==
    \A rs \in RS, m \in Members : (~moved[rs] /\ report[rs][m].listed)
        => (report[rs][m].primary <=> prim[rs] = m)

MInv == TypeOK /\ LoopInv /\ ReportTrue /\ ReqsInv

LEMMA FaultFacts == ASSUME TypeOK, Fault PROVE faults' \in 0..MaxFaults
BY MaintenanceAssumption DEF TypeOK, Fault

LEMMA LookupFacts ==
    ASSUME TypeOK, NEW rs \in RS, NEW p \in Lookup(rs)
    PROVE  p \in Members \cup {None}
BY DEF TypeOK, Lookup

\* Put together again.
LEMMA Composed ==
    ASSUME SetTypes', RunInv', (moved \in [RS -> BOOLEAN])', ReportTrue',
           (req \in [Reqs -> ReqType])', ReqsInv', (faults \in 0..MaxFaults)'
    PROVE  MInv'
BY TypeParts, PTL DEF MInv, RunInv

\* A step of a request that leaves everything else but faults alone.
LEMMA RequestKeeps ==
    ASSUME MInv, NEW r \in Reqs, NEW q \in ReqType, ReqInv(q, prim), Becomes(r, q),
           UNCHANGED <<rsVars, size, runVars>>, faults' \in 0..MaxFaults
    PROVE  MInv'
<1>1. RunInv' /\ SetTypes' /\ (moved \in [RS -> BOOLEAN])'
  BY TypeParts, RunSameKeeps DEF MInv, RunInv, RunSame, runVars, rsVars, SetTypes
<1>2. ReportTrue'
  BY DEF MInv, ReportTrue, runVars, rsVars
<1>3. (req \in [Reqs -> ReqType])' /\ ReqsInv'
  BY BecomesKeeps, TypeParts DEF MInv, rsVars
<1> QED
  BY <1>1, <1>2, <1>3, Composed

LEMMA FindPrimaryKeeps == ASSUME MInv, NEW r \in Reqs, FindPrimary(r) PROVE MInv'
<1>0. /\ req[r] \in ReqType /\ ReqInv(req[r], prim) /\ req[r].phase = "lookup"
      /\ faults' \in 0..MaxFaults /\ UNCHANGED <<rsVars, size, runVars>>
  BY TypeParts DEF MInv, ReqsInv, FindPrimary
<1>1. PICK p \in Lookup(req[r].shard) :
         Becomes(r, IF p = None THEN Failed
                    ELSE [req[r] EXCEPT !.phase = "secondaries", !.member = 1,
                                        !.target = p])
  BY DEF FindPrimary
<1>2. p \in Members \cup {None}
  BY <1>0, <1>1, LookupFacts, Numbers DEF MInv, ReqType
<1> DEFINE n == [req[r] EXCEPT !.phase = "secondaries", !.member = 1, !.target = p]
<1>3. n \in ReqType
  BY <1>0, <1>2, Numbers DEF ReqType, Phases
<1>4. p # None => ReqInv(n, prim)
  <2>1. /\ n.phase = "secondaries" /\ n.member = 1 /\ n.target = p
        /\ n.shard = req[r].shard /\ n.done = req[r].done
        /\ n.again = req[r].again /\ n.lost = req[r].lost
    BY <1>0 DEF ReqType
  <2>2. \A m \in Members : ~(m < 1)
    BY MaintenanceAssumption DEF Members
  <2> QED
    BY <1>0, <1>2, <2>1, <2>2 DEF ReqInv, Handling, Running
<1> QED
  BY <1>0, <1>1, <1>3, <1>4, AnswerFacts, RequestKeeps

\* The three outcomes of the compact command.
LEMMA CompactFacts ==
    ASSUME MInv, NEW r \in Reqs, NEW m \in Members, Compact(r, m)
    PROVE  /\ faults' \in 0..MaxFaults
           /\ \/ /\ m # prim[req[r].shard]
                 /\ Becomes(r, AfterCompact([req[r] EXCEPT !.done = @ \cup {<<req[r].shard, m>>}]))
              \/ m = prim[req[r].shard] /\ Becomes(r, AfterCompact(req[r]))
              \/ Becomes(r, AfterCompact([req[r] EXCEPT !.lost = TRUE]))
BY FaultFacts DEF Compact, MInv, TypeOK

\* More that is compacted, or a command that is lost, hurts nothing.
LEMMA MoreDone ==
    ASSUME NEW q \in ReqType, NEW p, ReqInv(q, p), Handling(q), NEW m \in Members
    PROVE  LET done == [q EXCEPT !.done = @ \cup {<<q.shard, m>>}]
               lost == [q EXCEPT !.lost = TRUE]
           IN /\ done \in ReqType /\ ReqInv(done, p) /\ done.phase = q.phase
              /\ done.shard = q.shard /\ done.member = q.member
              /\ done.target = q.target /\ <<q.shard, m>> \in done.done
              /\ lost \in ReqType /\ ReqInv(lost, p) /\ lost.lost
              /\ lost.phase = q.phase
<1> DEFINE done == [q EXCEPT !.done = @ \cup {<<q.shard, m>>}]
           lost == [q EXCEPT !.lost = TRUE]
<1>0. <<q.shard, m>> \in Shards \X Members /\ q.done \in SUBSET (Shards \X Members)
  BY DEF ReqType
<1>1. done \in ReqType /\ lost \in ReqType
  BY <1>0 DEF ReqType
<1>2. /\ done.phase = q.phase /\ done.shard = q.shard /\ done.member = q.member
      /\ done.target = q.target /\ done.done = q.done \cup {<<q.shard, m>>}
      /\ done.again = q.again /\ done.lost = q.lost
  BY DEF ReqType
<1>3. lost.phase = q.phase /\ lost.target = q.target /\ lost.lost
  BY DEF ReqType
<1>4. ReqInv(lost, p)
  BY <1>3 DEF ReqInv, Handling
<1>5. ReqInv(done, p)
  BY <1>2 DEF ReqInv, Handling, Running, OthersDone
<1> QED
  BY <1>1, <1>2, <1>3, <1>4, <1>5

LEMMA CompactSecondaryKeeps == ASSUME MInv, NEW r \in Reqs, CompactSecondary(r) PROVE MInv'
<1> DEFINE q == req[r]
<1>0. /\ q \in ReqType /\ ReqInv(q, prim) /\ q.phase = "secondaries" /\ Handling(q)
      /\ q.member \in Members /\ UNCHANGED <<rsVars, size, runVars>>
  BY TypeParts DEF MInv, ReqsInv, CompactSecondary, Handling, ReqType
<1>1. CASE q.member = q.target
  <2>1. NextMember(q) \in ReqType /\ ReqInv(NextMember(q), prim)
    BY <1>0, <1>1, NextMemberKeeps
  <2>2. Becomes(r, NextMember(q)) /\ faults' \in 0..MaxFaults
    BY <1>1 DEF CompactSecondary, MInv, TypeOK
  <2> QED
    BY <1>0, <2>1, <2>2, RequestKeeps
<1>2. CASE q.member # q.target
  <2> DEFINE done == [q EXCEPT !.done = @ \cup {<<q.shard, q.member>>}]
             lost == [q EXCEPT !.lost = TRUE]
  <2>1. Compact(r, q.member)
    BY <1>2 DEF CompactSecondary
  <2>2. CASE q.member # prim[q.shard] /\ Becomes(r, AfterCompact(done))
    <3>1. NextMember(done) \in ReqType /\ ReqInv(NextMember(done), prim)
          /\ AfterCompact(done) = NextMember(done)
      BY <1>0, MoreDone, NextMemberKeeps DEF AfterCompact
    <3> QED
      BY <1>0, <2>1, <2>2, <3>1, CompactFacts, RequestKeeps
  <2>3. CASE q.member = prim[q.shard] /\ Becomes(r, AfterCompact(q))
    <3>1. NextMember(q) \in ReqType /\ ReqInv(NextMember(q), prim)
          /\ AfterCompact(q) = NextMember(q)
      BY <1>0, <1>2, <2>3, NextMemberKeeps DEF AfterCompact
    <3> QED
      BY <1>0, <2>1, <2>3, <3>1, CompactFacts, RequestKeeps
  <2>4. CASE Becomes(r, AfterCompact(lost))
    <3>1. NextMember(lost) \in ReqType /\ ReqInv(NextMember(lost), prim)
          /\ AfterCompact(lost) = NextMember(lost)
      BY <1>0, MoreDone, NextMemberKeeps DEF AfterCompact
    <3> QED
      BY <1>0, <2>1, <2>4, <3>1, CompactFacts, RequestKeeps
  <2> QED
    BY <1>0, <2>1, <2>2, <2>3, <2>4, CompactFacts
<1> QED
  BY <1>1, <1>2

LEMMA CompactOldPrimaryKeeps == ASSUME MInv, NEW r \in Reqs, CompactOldPrimary(r) PROVE MInv'
<1> DEFINE q == req[r]
           done == [q EXCEPT !.done = @ \cup {<<q.shard, q.target>>}]
           lost == [q EXCEPT !.lost = TRUE]
<1>0. /\ q \in ReqType /\ ReqInv(q, prim) /\ q.phase = "last" /\ Handling(q)
      /\ UNCHANGED <<rsVars, size, runVars>> /\ Compact(r, q.target)
  BY TypeParts DEF MInv, ReqsInv, CompactOldPrimary, Handling
<1>1. q.target \in Members
  BY <1>0 DEF ReqInv
<1>2. CASE q.target # prim[q.shard] /\ Becomes(r, AfterCompact(done))
  <2>1. NextShard(done) \in ReqType /\ ReqInv(NextShard(done), prim)
        /\ AfterCompact(done) = NextShard(done)
    BY <1>0, <1>1, MoreDone, NextShardKeeps DEF AfterCompact
  <2> QED
    BY <1>0, <1>1, <1>2, <2>1, CompactFacts, RequestKeeps
<1>3. CASE q.target = prim[q.shard] /\ Becomes(r, AfterCompact(q))
  <2>1. ~(~q.again /\ ~q.lost)
    BY <1>0, <1>3 DEF ReqInv
  <2>2. NextShard(q) \in ReqType /\ ReqInv(NextShard(q), prim)
        /\ AfterCompact(q) = NextShard(q)
    BY <1>0, <2>1, NextShardKeeps DEF AfterCompact
  <2> QED
    BY <1>0, <1>1, <1>3, <2>2, CompactFacts, RequestKeeps
<1>4. CASE Becomes(r, AfterCompact(lost))
  <2>1. NextShard(lost) \in ReqType /\ ReqInv(NextShard(lost), prim)
        /\ AfterCompact(lost) = NextShard(lost)
    BY <1>0, <1>1, MoreDone, NextShardKeeps DEF AfterCompact
  <2> QED
    BY <1>0, <1>1, <1>4, <2>1, CompactFacts, RequestKeeps
<1> QED
  BY <1>0, <1>1, <1>2, <1>3, <1>4, CompactFacts

\* A step that changes the primary of rs, or nothing of the sets, and leaves
\* the reconcile and the requests alone.
LEMMA SetKeeps ==
    ASSUME MInv, SetTypes', RunSame, moved' \in [RS -> BOOLEAN], faults' \in 0..MaxFaults,
           \A rs \in RS : moved'[rs] \/ (moved'[rs] = moved[rs] /\ prim'[rs] = prim[rs]),
           req' \in [Reqs -> ReqType],
           \A r \in Reqs : ReqInv(req'[r], prim')
    PROVE  MInv'
<1>1. RunInv'
  BY TypeParts, RunSameKeeps DEF MInv, RunInv
<1>2. ReportTrue'
  BY DEF MInv, ReportTrue, RunSame
<1> QED
  BY <1>1, <1>2, Composed DEF ReqsInv

\* A set that loses its primary.
LEMMA NoPrimaryFacts ==
    ASSUME MInv, NEW rs \in RS, NoPrimary(rs)
    PROVE  /\ prim' \in [RS -> Members \cup {None}] /\ view' \in [RS -> Members \cup {None}]
           /\ \A x \in RS \ {rs} : prim'[x] = prim[x]
           /\ \A r \in Reqs : ReqInv(req[r], prim')
<1>1. /\ prim \in [RS -> Members \cup {None}] /\ view \in [RS -> Members \cup {None}]
      /\ prim' = [prim EXCEPT ![rs] = None]
      /\ view' = [view EXCEPT ![rs] = IF @ = 1 THEN None ELSE @]
  BY DEF MInv, TypeOK, NoPrimary
<1>2. prim'[rs] = None /\ \A x \in RS \ {rs} : prim'[x] = prim[x]
  BY <1>1
<1>3. ASSUME NEW r \in Reqs PROVE ReqInv(req[r], prim')
  <2>1. req[r] \in ReqType /\ ReqInv(req[r], prim)
    BY TypeParts DEF MInv, ReqsInv
  <2>2. Handling(req[r]) => req[r].target \in Members
    BY <2>1 DEF ReqInv
  <2>3. req[r].shard \in RS
    BY <2>1, Numbers DEF ReqType
  <2> QED
    BY <1>2, <2>1, <2>2, <2>3, Numbers, OtherPrimary
<1>4. view' \in [RS -> Members \cup {None}]
  BY <1>1
<1> QED
  BY <1>1, <1>2, <1>3, <1>4

LEMMA StepDownKeeps == ASSUME MInv, NEW r \in Reqs, StepDown(r) PROVE MInv'
<1> DEFINE q == req[r]
           n == [q EXCEPT !.phase = "poll"]
<1>0. /\ q \in ReqType /\ ReqInv(q, prim) /\ q.phase = "stepDown"
      /\ q.shard \in RS /\ UNCHANGED <<up, size, step, group, want, at, report, runs>>
  BY TypeParts, Numbers DEF MInv, ReqsInv, StepDown, ReqType
<1>1. CASE /\ CanStepDown(q) /\ NoPrimary(q.shard)
           /\ frozen' = [frozen EXCEPT ![q.shard] = @ \cup {q.target}]
           /\ moved' = [moved EXCEPT ![q.shard] = TRUE]
           /\ Becomes(r, n) /\ UNCHANGED faults
  <2>1. q.target \in Members /\ prim[q.shard] = q.target
    BY <1>0, <1>1 DEF ReqInv, Handling, CanStepDown
  <2>2. SetTypes' /\ moved' \in [RS -> BOOLEAN] /\ faults' \in 0..MaxFaults
        /\ moved'[q.shard]
    BY <1>0, <1>1, <2>1, NoPrimaryFacts DEF MInv, TypeOK, SetTypes
  <2>3. n \in ReqType
    BY <1>0 DEF ReqType, Phases
  <2>4. /\ n.phase = "poll" /\ n.shard = q.shard /\ n.target = q.target
        /\ n.done = q.done /\ n.again = q.again /\ n.lost = q.lost
    BY <1>0 DEF ReqType
  <2>5. prim'[q.shard] # q.target
    BY <1>0, <1>1, <2>1, Numbers DEF NoPrimary, MInv, TypeOK
  <2>6. ReqInv(n, prim')
    BY <1>0, <2>1, <2>4, <2>5 DEF ReqInv, Handling, Running, OthersDone
  <2>7. /\ req' \in [Reqs -> ReqType]
        /\ \A x \in Reqs : ReqInv(req'[x], prim')
    BY <1>0, <1>1, <2>3, <2>6, NoPrimaryFacts, TypeParts DEF Becomes, MInv
  <2>8. \A rs \in RS : moved'[rs] \/ (moved'[rs] = moved[rs] /\ prim'[rs] = prim[rs])
    BY <1>0, <1>1, <2>2, NoPrimaryFacts DEF MInv, TypeOK
  <2> QED
    BY <1>0, <2>2, <2>7, <2>8, SetKeeps DEF RunSame
<1>2. CASE /\ faults' = IF CanStepDown(q) THEN faults + 1 ELSE faults
           /\ ~CanStepDown(q) \/ faults < MaxFaults
           /\ Becomes(r, Failed) /\ UNCHANGED <<prim, view, frozen, moved>>
  <2>1. faults' \in 0..MaxFaults
    BY <1>2, MaintenanceAssumption DEF MInv, TypeOK
  <2> QED
    BY <1>0, <1>2, <2>1, AnswerFacts, RequestKeeps DEF rsVars, runVars
<1> QED
  BY <1>1, <1>2 DEF StepDown

LEMMA PollKeeps == ASSUME MInv, NEW r \in Reqs, Poll(r) PROVE MInv'
<1> DEFINE q == req[r]
           n == [q EXCEPT !.phase = "last"]
<1>0. /\ q \in ReqType /\ ReqInv(q, prim) /\ q.phase = "poll"
      /\ UNCHANGED <<rsVars, size, runVars>> /\ faults' \in 0..MaxFaults
      /\ Becomes(r, Failed) \/ Becomes(r, n)
  BY TypeParts DEF MInv, ReqsInv, Poll
<1>1. n \in ReqType
  BY <1>0 DEF ReqType, Phases
<1>2. /\ n.phase = "last" /\ n.shard = q.shard /\ n.target = q.target
      /\ n.done = q.done /\ n.again = q.again /\ n.lost = q.lost
  BY <1>0 DEF ReqType
<1>3. ReqInv(n, prim)
  BY <1>0, <1>2 DEF ReqInv, Handling, Running, OthersDone
<1> QED
  BY <1>0, <1>1, <1>3, AnswerFacts, RequestKeeps

LEMMA ReceiveKeeps == ASSUME MInv, NEW r \in Reqs, Receive(r) PROVE MInv'
BY AnswerFacts, RequestKeeps DEF Receive, MInv, TypeOK

-----------------------------------------------------------------------------
(* The reconcile, a crash, and the replica sets. *)

\* The report of a member: the history records a primary that was not told.
LEMMA ReportTrueKeeps == ASSUME MInv, Reconcile PROVE ReportTrue' /\ moved' \in [RS -> BOOLEAN]
<1>0. /\ moved \in [RS -> BOOLEAN] /\ at.set \in RS /\ at.member \in Members
      /\ report \in [RS -> [Members -> ItemType]] /\ ReportTrue /\ UNCHANGED prim
  BY TypeParts DEF MInv, RunTypes, Reconcile, StartReconcile, NoSizeWanted, ReportMember,
     RunFails, CheckStatus, PassOver, ResizeMember, rsVars
<1>1. CASE report' = Blank /\ moved' = [rs \in RS |-> FALSE]
  BY <1>1 DEF ReportTrue, Blank, NoItem
<1>2. CASE UNCHANGED <<report, moved>>
  BY <1>0, <1>2 DEF ReportTrue
<1>3. ASSUME NEW p, report' = NewReport(p),
             moved' = [moved EXCEPT ![at.set] = @ \/ p # prim[at.set]]
      PROVE  ReportTrue' /\ moved' \in [RS -> BOOLEAN]
  <2>1. moved' \in [RS -> BOOLEAN]
    BY <1>0, <1>3
  <2>2. ASSUME NEW rs \in RS, NEW m \in Members, ~moved'[rs], report'[rs][m].listed
        PROVE  report'[rs][m].primary <=> prim'[rs] = m
    <3>1. CASE rs = at.set /\ m = at.member
      <4>1. report'[rs][m] = [listed |-> TRUE, primary |-> p = at.member,
                              size |-> size[at.set][at.member]]
        BY <1>0, <1>3, <3>1 DEF NewReport
      <4>2. p = prim[rs]
        BY <1>0, <1>3, <2>2, <3>1
      <4>3. report'[rs][m].primary = (p = at.member)
        BY <4>1
      <4> QED
        BY <1>0, <3>1, <4>2, <4>3
    <3>2. CASE ~(rs = at.set /\ m = at.member)
      <4>1. report'[rs][m] = report[rs][m]
        BY <1>0, <1>3, <3>2 DEF NewReport
      <4>2. ~moved[rs]
        BY <1>0, <1>3, <2>2
      <4> QED
        BY <1>0, <2>2, <4>1, <4>2 DEF ReportTrue
    <3> QED
      BY <3>1, <3>2
  <2> QED
    BY <2>1, <2>2 DEF ReportTrue
<1>4. \/ report' = Blank /\ moved' = [rs \in RS |-> FALSE]
      \/ UNCHANGED <<report, moved>>
      \/ \E p : /\ report' = NewReport(p)
                /\ moved' = [moved EXCEPT ![at.set] = @ \/ p # prim[at.set]]
  BY DEF Reconcile, StartReconcile, NoSizeWanted, ReportMember, Reported, RunFails,
         CheckStatus, PassOver, ResizeMember, GiveUp
<1> QED
  BY <1>1, <1>2, <1>3, <1>4

LEMMA ReconcileMInv == ASSUME MInv, Reconcile PROVE MInv'
<1>1. RunInv'
  BY ReconcileKeeps, TypeParts DEF MInv, RunInv
<1>2. faults' \in 0..MaxFaults
  BY FaultFacts DEF MInv, TypeOK, Reconcile, StartReconcile, NoSizeWanted, ReportMember,
     RunFails, CheckStatus, PassOver, ResizeMember
<1>3. UNCHANGED <<rsVars, req>>
  BY DEF Reconcile, StartReconcile, NoSizeWanted, ReportMember, RunFails, CheckStatus,
         PassOver, ResizeMember
<1>4. SetTypes' /\ (req \in [Reqs -> ReqType])' /\ ReqsInv'
  BY <1>3, TypeParts DEF MInv, SetTypes, rsVars, ReqsInv
<1> QED
  BY <1>1, <1>2, <1>4, ReportTrueKeeps, Composed

LEMMA CrashKeeps == ASSUME MInv, Crash PROVE MInv'
<1>0. /\ RunInv /\ UNCHANGED <<rsVars, size, runs>> /\ faults' \in 0..MaxFaults
      /\ req' = [r \in Reqs |-> IF Running(req[r]) THEN Failed ELSE req[r]]
      /\ GiveUp \/ UNCHANGED <<step, group, want, at, report, moved>>
  BY TypeParts, FaultFacts DEF MInv, RunInv, Crash
<1>1. RunInv'
  BY <1>0, BlankKeeps, RunSameKeeps DEF RunSame
<1>2. ReportTrue' /\ (moved \in [RS -> BOOLEAN])'
  <2>1. CASE GiveUp
    BY <2>1 DEF GiveUp, ReportTrue, Blank, NoItem
  <2>2. CASE UNCHANGED <<step, group, want, at, report, moved>>
    BY <1>0, <2>2, TypeParts DEF MInv, ReportTrue, rsVars
  <2> QED
    BY <1>0, <2>1, <2>2
<1>3. SetTypes'
  BY <1>0, TypeParts DEF MInv, SetTypes, rsVars
<1>4. (req \in [Reqs -> ReqType])' /\ ReqsInv'
  BY <1>0, AnswerFacts, TypeParts DEF MInv, ReqsInv, rsVars
<1> QED
  BY <1>0, <1>1, <1>2, <1>3, <1>4, Composed

\* An election: the request that had found the new primary before is marked.
LEMMA ElectKeeps == ASSUME MInv, NEW rs \in RS, NEW m \in Members, Elect(rs, m) PROVE MInv'
<1>0. /\ prim \in [RS -> Members \cup {None}] /\ view \in [RS -> Members \cup {None}]
      /\ prim' = [prim EXCEPT ![rs] = m] /\ UNCHANGED <<up, frozen, faults>>
      /\ view' = [view EXCEPT ![rs] = IF m = 1 THEN 1 ELSE @]
      /\ moved \in [RS -> BOOLEAN] /\ moved' = [moved EXCEPT ![rs] = TRUE] /\ RunSame
  BY DEF MInv, TypeOK, Elect, RunSame
<1>1. /\ prim' \in [RS -> Members \cup {None}] /\ prim'[rs] = m
      /\ \A x \in RS \ {rs} : prim'[x] = prim[x]
      /\ view' \in [RS -> Members \cup {None}]
  BY <1>0, Numbers
<1>2. SetTypes' /\ faults' \in 0..MaxFaults
  BY <1>0, <1>1 DEF MInv, TypeOK, SetTypes
<1>3. /\ moved' \in [RS -> BOOLEAN]
      /\ \A x \in RS : moved'[x] \/ (moved'[x] = moved[x] /\ prim'[x] = prim[x])
  BY <1>0, <1>1
<1> DEFINE Hit(r) == Handling(req[r]) /\ req[r].shard = rs /\ req[r].target = m
           n(r) == [req[r] EXCEPT !.again = @ \/ Hit(r)]
<1>4. req' = [r \in Reqs |-> n(r)]
  BY DEF Elect
<1>5. ASSUME NEW r \in Reqs PROVE n(r) \in ReqType /\ ReqInv(n(r), prim')
  <2>1. req[r] \in ReqType /\ ReqInv(req[r], prim) /\ req[r].shard \in RS
    BY TypeParts, Numbers DEF MInv, ReqsInv, ReqType
  <2>2. /\ n(r).phase = req[r].phase /\ n(r).target = req[r].target
        /\ n(r).again = (req[r].again \/ Hit(r))
    BY <2>1 DEF ReqType
  <2>3. n(r) \in ReqType
    BY <2>1 DEF ReqType
  <2>4. CASE Hit(r)
    BY <2>1, <2>2, <2>3, <2>4 DEF ReqInv, Handling
  <2>5. CASE ~Hit(r)
    <3>1. n(r) = req[r]
      BY <2>1, <2>5 DEF ReqType
    <3> QED
      BY <1>1, <2>1, <2>5, <3>1, OtherPrimary
  <2> QED
    BY <2>3, <2>4, <2>5
<1> HIDE DEF n
<1>6. req' \in [Reqs -> ReqType] /\ \A r \in Reqs : ReqInv(req'[r], prim')
  BY <1>4, <1>5
<1> QED
  BY <1>0, <1>2, <1>3, <1>6, SetKeeps

LEMMA LosePrimaryKeeps == ASSUME MInv, NEW rs \in RS, LosePrimary(rs) PROVE MInv'
<1>0. /\ NoPrimary(rs) /\ RunSame /\ UNCHANGED <<up, frozen, req>>
      /\ moved' = [moved EXCEPT ![rs] = TRUE] /\ moved \in [RS -> BOOLEAN]
      /\ faults' \in 0..MaxFaults
  BY FaultFacts DEF MInv, TypeOK, LosePrimary, RunSame
<1>1. SetTypes' /\ req' \in [Reqs -> ReqType] /\ \A r \in Reqs : ReqInv(req'[r], prim')
  BY <1>0, NoPrimaryFacts, TypeParts DEF MInv, SetTypes
<1>2. /\ moved' \in [RS -> BOOLEAN]
      /\ \A x \in RS : moved'[x] \/ (moved'[x] = moved[x] /\ prim'[x] = prim[x])
  BY <1>0, NoPrimaryFacts
<1> QED
  BY <1>0, <1>1, <1>2, SetKeeps

\* Steps of a replica set that keep its primary.
LEMMA SamePrimaryKeeps ==
    ASSUME MInv, SetTypes', RunSame, UNCHANGED <<prim, moved, req>>, faults' \in 0..MaxFaults
    PROVE  MInv'
BY TypeParts, SetKeeps DEF MInv, ReqsInv

LEMMA MemberFailsKeeps ==
    ASSUME MInv, NEW rs \in RS, NEW m \in Members, MemberFails(rs, m) PROVE MInv'
<1>0. /\ RunSame /\ UNCHANGED <<frozen, req>> /\ faults' \in 0..MaxFaults
      /\ up' = [up EXCEPT ![rs] = @ \ {m}] /\ moved \in [RS -> BOOLEAN]
      /\ up \in [RS -> SUBSET Members] /\ frozen \in [RS -> SUBSET Members]
  BY FaultFacts DEF MInv, TypeOK, MemberFails, RunSame
<1>1. up' \in [RS -> SUBSET Members]
  BY <1>0
<1>2. CASE NoPrimary(rs) /\ moved' = [moved EXCEPT ![rs] = TRUE]
  <2>1. SetTypes' /\ req' \in [Reqs -> ReqType] /\ \A r \in Reqs : ReqInv(req'[r], prim')
    BY <1>0, <1>1, <1>2, NoPrimaryFacts, TypeParts DEF MInv, SetTypes
  <2>2. /\ moved' \in [RS -> BOOLEAN]
        /\ \A x \in RS : moved'[x] \/ (moved'[x] = moved[x] /\ prim'[x] = prim[x])
    BY <1>0, <1>2, NoPrimaryFacts
  <2> QED
    BY <1>0, <2>1, <2>2, SetKeeps
<1>3. CASE UNCHANGED <<prim, view, moved>>
  BY <1>0, <1>1, <1>3, SamePrimaryKeeps DEF SetTypes, MInv, TypeOK
<1> QED
  BY <1>2, <1>3 DEF MemberFails

LEMMA MemberKeeps ==
    ASSUME MInv, NEW rs \in RS, NEW m \in Members,
           MemberRecovers(rs, m) \/ Heartbeat(rs) \/ Thaw(rs, m)
    PROVE  MInv'
<1>0. /\ prim \in [RS -> Members \cup {None}] /\ view \in [RS -> Members \cup {None}]
      /\ up \in [RS -> SUBSET Members] /\ frozen \in [RS -> SUBSET Members]
      /\ RunSame /\ UNCHANGED <<prim, moved, req>> /\ faults' \in 0..MaxFaults
  BY DEF MInv, TypeOK, MemberRecovers, Heartbeat, Thaw, RunSame, runVars
<1>1. CASE MemberRecovers(rs, m)
  BY <1>0, <1>1, SamePrimaryKeeps DEF MemberRecovers, SetTypes
<1>2. CASE Heartbeat(rs)
  BY <1>0, <1>2, SamePrimaryKeeps DEF Heartbeat, SetTypes
<1>3. CASE Thaw(rs, m)
  BY <1>0, <1>3, SamePrimaryKeeps DEF Thaw, SetTypes
<1> QED
  BY <1>1, <1>2, <1>3

-----------------------------------------------------------------------------
(* The invariant is inductive. *)

LEMMA MInit == Init => MInv
<1> SUFFICES ASSUME Init PROVE MInv
  OBVIOUS
<1>1. /\ SetTypes /\ moved \in [RS -> BOOLEAN] /\ faults \in 0..MaxFaults
      /\ runs \in 0..MaxRuns /\ size \in [RS -> [Members -> Sizes]]
  BY Numbers, MaintenanceAssumption DEF Init, SetTypes
<1>2. /\ report \in [RS -> [Members -> ItemType]]
      /\ \A rs \in RS, m \in Members : ~report[rs][m].listed
  BY DEF Init, NoItem, ItemType
<1>3. RunTypes
  BY <1>1, <1>2, ItemFacts DEF Init, RunTypes, Groups
<1>4. LoopInv
  BY <1>2, ItemFacts, Numbers DEF Init, LoopInv, Working, Groups, SetsOf
<1>5. req \in [Reqs -> ReqType] /\ ReqsInv
  BY AnswerFacts DEF Init, ReqsInv
<1> QED
  BY <1>1, <1>2, <1>3, <1>4, <1>5, TypeParts DEF MInv, ReportTrue

LEMMA MStep == MInv /\ [Next]_vars => MInv'
<1> SUFFICES ASSUME MInv, [Next]_vars PROVE MInv'
  OBVIOUS
<1>1. CASE Reconcile \/ Crash
  BY <1>1, ReconcileMInv, CrashKeeps
<1>2. ASSUME NEW r \in Reqs, Receive(r) \/ Serve(r) PROVE MInv'
  BY <1>2, ReceiveKeeps, FindPrimaryKeeps, CompactSecondaryKeeps, StepDownKeeps,
     PollKeeps, CompactOldPrimaryKeeps DEF Serve
<1>3. ASSUME NEW rs \in RS, LosePrimary(rs) \/ Heartbeat(rs) PROVE MInv'
  BY <1>3, LosePrimaryKeeps, MemberKeeps, Numbers
<1>4. ASSUME NEW rs \in RS, NEW m \in Members,
             Elect(rs, m) \/ Thaw(rs, m) \/ MemberFails(rs, m) \/ MemberRecovers(rs, m)
      PROVE  MInv'
  BY <1>4, ElectKeeps, MemberFailsKeeps, MemberKeeps
<1>5. CASE UNCHANGED vars
  BY <1>5, SamePrimaryKeeps, TypeParts DEF vars, rsVars, runVars, MInv, SetTypes, RunSame, TypeOK
<1> QED
  BY <1>1, <1>2, <1>3, <1>4, <1>5 DEF Next

LEMMA MAlways == Spec => []MInv
BY MInit, MStep, PTL DEF Spec

\* Every variable keeps its type, whatever fails or is elected.
THEOREM MaintenanceTypeCorrect == Spec => []TypeOK
<1>1. MInv => TypeOK
  BY DEF MInv
<1> QED
  BY <1>1, MAlways, PTL

\* When the oplog steps are through, every member their reports list has the
\* size of the spec: UpdateOplogSize misses none between its two loops.
THEOREM DoneIsResizedAlways == Spec => []DoneIsResized
<1>1. MInv => DoneIsResized
  BY DEF MInv, LoopInv, Finished, DoneIsResized, Groups
<1> QED
  BY <1>1, MAlways, PTL

\* A compaction that answers "ok" has compacted every member of every shard,
\* if no command was lost and no old primary was elected again.
THEOREM OkIsCompactedAlways == Spec => []OkIsCompacted
<1>1. MInv => OkIsCompacted
  BY DEF MInv, ReqsInv, ReqInv, OkIsCompacted
<1> QED
  BY <1>1, MAlways, PTL

\* The only step that changes a size is ResizeMember, at its own member.
LEMMA OnlyResizeResizes ==
    ASSUME MInv, [Next]_vars, NEW rs \in RS, NEW m \in Members,
           size'[rs][m] # size[rs][m]
    PROVE  ResizeMember /\ rs = at.set /\ m = at.member
<1>1. ResizeMember
  BY DEF Next, vars, rsVars, runVars, Reconcile, StartReconcile, NoSizeWanted, ReportMember,
     RunFails, CheckStatus, PassOver, Crash, Receive, Serve, FindPrimary, CompactSecondary,
     StepDown, Poll, CompactOldPrimary, LosePrimary, Heartbeat, Elect, Thaw, MemberFails,
     MemberRecovers
<1>2. size \in [RS -> [Members -> Sizes]] /\ at.set \in RS /\ at.member \in Members
      /\ size' = [size EXCEPT ![at.set][at.member] = want[group]]
  BY <1>1 DEF MInv, TypeOK, ResizeMember
<1> QED
  BY <1>1, <1>2

\* While a set keeps the primary the report saw, that primary is resized only
\* when every other listed member of its set has the new size.
THEOREM PrimaryResizedLastAlways == Spec => PrimaryResizedLast
<1>1. ASSUME MInv, [Next]_vars, NEW rs \in RS, NEW m \in Members,
             size'[rs][m] # size[rs][m], prim[rs] = m, ~moved[rs],
             NEW x \in Members \ {m}, report[rs][x].listed
      PROVE  size[rs][x] = want[group]
  <2>1. ResizeMember /\ rs = at.set /\ m = at.member
    BY <1>1, OnlyResizeResizes
  <2>2. report[rs][m].listed /\ InLoop(rs, m) /\ step \in {"secondaries", "primaries"}
    BY <2>1 DEF ResizeMember, ToResize
  <2>3. report[rs][m].primary /\ ~report[rs][x].primary
    BY <1>1, <2>2 DEF MInv, ReportTrue
  <2>4. step = "primaries"
    BY <2>2, <2>3 DEF InLoop
  <2>5. rs \in SetsOf(group) /\ Progress
    BY <1>1, <2>1, <2>4 DEF MInv, LoopInv, Working
  <2> QED
    BY <1>1, <2>3, <2>4, <2>5 DEF Progress
<1>2. MInv /\ [Next]_vars =>
        [\A rs \in RS, m \in Members :
            (size'[rs][m] # size[rs][m] /\ prim[rs] = m /\ ~moved[rs])
                => \A x \in Members \ {m} :
                      report[rs][x].listed => size[rs][x] = want[group]]_vars
  BY <1>1
<1> QED
  BY <1>2, MAlways, PTL DEF Spec, PrimaryResizedLast

=============================================================================

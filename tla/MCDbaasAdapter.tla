--------------------------- MODULE MCDbaasAdapter ---------------------------
(***************************************************************************)
(* Small instances of the DBaaS adapter: two requests at a time, two keys  *)
(* and one that refines the first.  Behind the first MaxConcurrent         *)
(* requests only requests without faults that come one after the other     *)
(* are followed, to see what longer sequences of calls leave behind.       *)
(***************************************************************************)
EXTENDS DbaasAdapter, TLC

CONSTANTS r1, r2, d1

MCReqs  == {r1, r2}
MCSolo  == {r1}
MCOneDb == {d1}
MCKeys  == {<<"a">>, <<"b">>, <<"a", "b">>}
MCOneKey == {<<"a">>}
MCAll    == {"create", "drop", "dropUser", "createUser", "createStreaming",
             "createRoles", "metadata", "settings"}

MaxConcurrent == 2
Bounded ==
    served > MaxConcurrent =>
        /\ faults = 0 /\ Cardinality({r \in Reqs : Busy(r) \/ Tasking(r)}) <= 1
        /\ \A r \in Reqs : Busy(r) => req[r].alone

MCSymmetry == Permutations(MCReqs)

=============================================================================

---------------------------- MODULE MCMaintenance ----------------------------
(***************************************************************************)
(* A small instance of Maintenance: a config set and two shards of two     *)
(* members, two requests, and two reconciles.                              *)
(***************************************************************************)
EXTENDS Maintenance

CONSTANTS r1, r2

MCReqs  == {r1, r2}
MCSizes == {1, 2}

\* The oplogs start with size 1, and the spec asks for 2 or for nothing.  A
\* second request comes only without a reconcile, a second reconcile only
\* without a request and for the data sets; while a request is served the
\* reconcile is at the data sets and nothing happens to the config set.
Bounded ==
    /\ want \in [Groups -> {None, 2}]
    /\ runs = 0 => \A rs \in RS : size[rs][1] = 1
    /\ req[r2].phase # "idle" => runs = 0
    /\ runs > 1 => req[r1].phase = "idle" /\ want["cnf"] = None
    /\ Running(req[r1]) => /\ step \in {"idle", "done"} \/ group = "data"
                           /\ up[Cnf] = Members /\ prim[Cnf] = 1 /\ view[Cnf] = 1

=============================================================================

---------------------------- MODULE MCSupplServices ----------------------------
(***************************************************************************)
(* Small instances of the supplementary services operator: a single site,  *)
(* both sites of a dr deployment, and a site that is disabled.             *)
(***************************************************************************)
EXTENDS SupplServices

Site(schema_, mode_, sharded_, installed_) ==
    [schema |-> schema_, mode |-> mode_, sharded |-> sharded_,
     installed |-> installed_]

MCDeployments == {Site(HA, Active, TRUE, {"backup", "dbaas"}),
                  Site(DR, Active, TRUE, {"backup", "exporter", "robot"}),
                  Site(DR, Standby, TRUE, {"backup", "dbaas"}),
                  Site(DR, Standby, FALSE, {"dbaas", "exporter"}),
                  Site(DR, Disable, TRUE, {"backup"})}

=============================================================================

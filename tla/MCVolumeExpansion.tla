--------------------------- MODULE MCVolumeExpansion ---------------------------
(***************************************************************************)
(* VolumeExpansion for TLC: a sharded cluster, an unsharded one, and two    *)
(* whose config set and data set have different sizes.                     *)
(***************************************************************************)
EXTENDS VolumeExpansion

Deployment(sharded, shards, cnf, data) ==
    [sharded |-> sharded, shards |-> shards, cnf |-> cnf, data |-> data]

MCOneShard == {Deployment(TRUE, 1, 3, 3)}
MCDeployments == MCOneShard \cup
    {Deployment(FALSE, 1, 3, 3), Deployment(TRUE, 1, 3, 1),
     Deployment(TRUE, 1, 1, 3)}
=============================================================================

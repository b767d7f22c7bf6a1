---------------------------- MODULE MCStatusProbe ----------------------------
(* StatusProbe on a sharded cluster of two shards with two members per set. *)
EXTENDS StatusProbe

MCProbeModes == {Active, Standby}
=============================================================================

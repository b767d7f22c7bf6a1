------------------------------ MODULE MCInstall ------------------------------
(* Install for TLC: both schemas, five keyfiles. *)
EXTENDS Install

MCSchemas == {HA, DR}
MCSchemaDR == {DR}
MCKeys == 1..5
=============================================================================

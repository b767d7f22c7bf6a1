---------------------------- MODULE MCSwitchover ----------------------------
(* Switchover for TLC. *)
EXTENDS Switchover
=============================================================================

---------------------------- MODULE MCReplayPath ----------------------------
(* ReplayPath for TLC. *)
EXTENDS ReplayPath
=============================================================================

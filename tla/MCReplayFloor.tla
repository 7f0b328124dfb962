---- MODULE MCReplayFloor ----
(* Small instances of ReplayFloor for TLC. *)
EXTENDS ReplayFloor
====

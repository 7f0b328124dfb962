---- MODULE MCPbLink ----
(* Small instances of PbLink for TLC. *)
EXTENDS PbLink
====

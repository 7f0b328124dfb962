---- MODULE MCShmemRing ----
(* Small instances of ShmemRing for TLC. *)
EXTENDS ShmemRing

CONSTANTS m1, m2

MCMessages == {m1, m2}
====

----------------------------- MODULE MCNvmeQueue -----------------------------
(* Small instances of NvmeQueue for TLC. *)
EXTENDS NvmeQueue

CONSTANT d1

MCLbas == {0, 1}
MCData == {d1}
==============================================================================

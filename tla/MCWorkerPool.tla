---------------------------- MODULE MCWorkerPool ----------------------------
(* Small instances of WorkerPool for TLC: one range shorter than the team, one not. *)
EXTENDS WorkerPool

CONSTANTS a, b

MCJobs == {a, b}
MCEnds == {1, 3}
=============================================================================

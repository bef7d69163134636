---------------------------- MODULE MCWorkerPool ----------------------------
(***************************************************************************)
(* Small pools for TLC: two slots, a container of a slot that the pool no  *)
(* longer has, and one of the former per-job containers.                   *)
(***************************************************************************)
EXTENDS WorkerPool, TLC

CONSTANTS r0, r1, r9, j7

PairNames == (0 :> r0) @@ (1 :> r1)
OldLeft   == (r1 :> 100) @@ (j7 :> 101)
StrayLeft == (r0 :> 101) @@ (r9 :> 100)
=============================================================================

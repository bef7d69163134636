---------------------------- MODULE MCController ----------------------------
(***************************************************************************)
(* Small instances of the run loop for TLC.                                *)
(***************************************************************************)
EXTENDS Controller, TLC

CONSTANTS s0, s1, e0, e1

PairOf == (e0 :> s0) @@ (e1 :> s1)
=============================================================================

----------------------------- MODULE MCKeyStore -----------------------------
(***************************************************************************)
(* A small key store for TLC: pools of up to three slots, and keys enough  *)
(* to create one for a slot, lose it half-written and create another.      *)
(***************************************************************************)
EXTENDS KeyStore, TLC

CONSTANTS k1, k2, k3, k4, k5

Interchangeable == Permutations({k1, k2, k3, k4, k5})
=============================================================================

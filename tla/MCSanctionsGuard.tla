-------------------------- MODULE MCSanctionsGuard --------------------------
(***************************************************************************)
(* Three requests in the name of one address, a cache life of two time     *)
(* units, answers saved within one; the clock runs past a listing, a late  *)
(* row and its whole life.                                                 *)
(***************************************************************************)
EXTENDS SanctionsGuard, TLC

CONSTANTS r1, r2, r3

Symmetric == Permutations({r1, r2, r3})
=============================================================================

---------------------------- MODULE MCIndexerSync ----------------------------
(***************************************************************************)
(* Three markets and pages of two: two overlapping runs over three blocks  *)
(* with one restart, or one run over two blocks.                           *)
(***************************************************************************)
EXTENDS IndexerSync, TLC

CONSTANTS m1, m2, m3, run1, run2

Symmetric == Permutations({m1, m2, m3}) \cup Permutations({run1, run2})
=============================================================================

------------------------------- MODULE Totals -------------------------------
(***************************************************************************)
(* Sums of naturals, shared by the contract modules.                       *)
(*                                                                         *)
(* The contracts add stakes up in loops (ArenaMarket.refund) and in        *)
(* running counters (totalPool, outcomePools).  Total(f) is the sum of f   *)
(* over its domain, written as the number of unit tokens that f stands     *)
(* for: a sum is then the cardinality of a finite set, and what a proof    *)
(* needs to know of it (one entry changes, one function is below another)  *)
(* follows from the cardinality theorems with no induction.                *)
(***************************************************************************)
EXTENDS Integers, FiniteSets

Units(f) == UNION {{x} \X (1 .. f[x]) : x \in DOMAIN f}

Total(f) == Cardinality(Units(f))
=============================================================================

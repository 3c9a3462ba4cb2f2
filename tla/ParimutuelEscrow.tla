-------------------------- MODULE ParimutuelEscrow --------------------------
(***************************************************************************)
(* What a market promises the people who bet, whatever its contract does   *)
(* inside: an escrow that takes deposits, is then either settled once or   *)
(* cancelled for good, and owes each account an amount that only that      *)
(* account's own withdrawal takes away.                                    *)
(***************************************************************************)
EXTENDS Totals

CONSTANTS Accounts

VARIABLES phase,  \* "betting", "settled" or "cancelled"
          owed,   \* the least each account will be paid
          pot     \* what the escrow holds to pay it

vars == <<phase, owed, pot>>

Covered == Total(owed) <= pot

Init == phase = "betting" /\ owed = [a \in Accounts |-> 0] /\ pot = 0

Deposit(a) ==
  /\ phase = "betting" /\ UNCHANGED phase
  /\ pot' > pot
  /\ owed' = [owed EXCEPT ![a] = @ + (pot' - pot)]

Cancel == phase = "betting" /\ phase' = "cancelled" /\ UNCHANGED <<owed, pot>>

\* The winners' shares replace the deposits; fees leave the pot.
Settle ==
  /\ phase = "betting" /\ phase' = "settled"
  /\ pot' \in 0 .. pot
  /\ owed' \in [Accounts -> 0 .. pot'] /\ Covered'

\* A cancelled escrow pays back exactly the deposit; a settled one may add the
\* rounding that would otherwise stay, never out of what it owes the others.
Withdraw(a) ==
  /\ phase \in {"settled", "cancelled"} /\ UNCHANGED phase
  /\ pot - pot' >= owed[a] /\ (phase = "cancelled" => pot - pot' = owed[a])
  /\ owed' = [owed EXCEPT ![a] = 0] /\ Covered'

Next == Cancel \/ Settle \/ \E a \in Accounts : Deposit(a) \/ Withdraw(a)

Spec == Init /\ [][Next]_vars
=============================================================================

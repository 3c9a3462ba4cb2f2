--------------------------- MODULE MCArenaRegistry ---------------------------
(***************************************************************************)
(* A small registry and factory under one admin, who is operator too.      *)
(* Two schedules within the cap and one above, proposed again and executed *)
(* late; one creator, who can pay one bond at a time, and one market; time *)
(* for two timelocks.                                                      *)
(***************************************************************************)
EXTENDS ArenaFactory

CONSTANTS admin, dora, market, usdc

S(p, c, r, d) == [protocol |-> p, creator |-> c, referral |-> r, disputeReserve |-> d]

DefaultFees == S(275, 100, 50, 75)
MCSchedules == {S(300, 100, 50, 75), S(4775, 100, 50, 75), S(4776, 100, 50, 75)}

\* What only markets read, the run of the protocol changes: here it stays.
Focus ==
  /\ challengeBondAmount = 0 /\ sanctioned = {} /\ ~registryPaused
  /\ whitelistedCollaterals = Tokens /\ oracleModule = NoAccount /\ isMarket = Deployed
=============================================================================

--------------------------- MODULE MCArenaProtocol ---------------------------
(***************************************************************************)
(* One market under one admin who is also operator and, once granted,      *)
(* oracle.  The creator seeds one outcome and one bettor takes the other.  *)
(* Fee schedules of 30, 47 and (refused) 90 per cent make the fees of a    *)
(* pool of sixteen units visible; the timelock of two clock steps ends at  *)
(* the last step of a market that can be finalised from the second on.     *)
(***************************************************************************)
EXTENDS ArenaProtocol

CONSTANTS admin, alice, bob, market, usdc, yes, no

MCAccounts == {admin, alice, bob}

S(p, c, r, d) == [protocol |-> p, creator |-> c, referral |-> r, disputeReserve |-> d]

MCFees      == S(1275, 700, 550, 475)
MCSchedules == {S(2500, 900, 600, 700), S(9000, 0, 0, 0)}
MCGrants    == {<<"ORACLE", admin>>}

V(u, o, m, n, d) ==
  [signer |-> admin, user |-> u, outcome |-> o, amount |-> m, nonce |-> n, deadline |-> d]

MCVouchers == {V(alice, no, 9, 1, 3), V(bob, yes, 7, 1, 3)}

MCChoices ==
  {[ creator |-> alice, referrer |-> NoAccount, openTime |-> 1, closeTime |-> 2,
     resolveTime |-> 2, challengeWindowSeconds |-> 2 ]}
=============================================================================

---------------------------- MODULE MCArenaMarket ----------------------------
(***************************************************************************)
(* Small markets: three bettors, one of them the creator, an oracle, and   *)
(* an owner that holds both roles and the treasury.  Amounts and fees are  *)
(* chosen so that pools of a few units leave rounding dust, that the       *)
(* creator cap is met, exceeded and bypassed by seeding, and that two      *)
(* vouchers carry the same nonce.  Two outcomes; time runs past the        *)
(* challenge window.                                                       *)
(***************************************************************************)
EXTENDS ArenaMarket

CONSTANTS alice, bob, carol, oracle, owner, yes, no

MCAccounts == {alice, bob, carol, oracle, owner}
MCOutcomes == {yes, no}

V(u, o, m, n, d) ==
  [signer |-> oracle, user |-> u, outcome |-> o, amount |-> m, nonce |-> n, deadline |-> d]

\* One nonce of each bettor was signed twice.
GoodVouchers ==
  { V(alice, yes, 7, 1, 3), V(alice, no, 5, 1, 3), V(bob, yes, 4, 1, 3),
    V(bob, no, 9, 2, 2), V(bob, yes, 3, 2, 3), V(carol, yes, 2, 1, 3), V(carol, no, 1, 2, 3),
    V(carol, yes, 1, 2, 3) }

\* What the contract must refuse whatever the order.
BadVouchers ==
  { V(NoAccount, yes, 7, 1, 3), V(bob, NoOutcome, 4, 1, 3), V(bob, no, 9, 2, 6),
    V(bob, yes, 99, 3, 3), V(bob, yes, 0, 3, 3), [V(bob, yes, 4, 5, 3) EXCEPT !.signer = bob] }

MCVouchers == GoodVouchers \cup BadVouchers

Registry(p, c, r, d) ==
  [ oracles |-> {oracle, owner}, operators |-> {owner}, treasury |-> owner,
    protocolFeeBps |-> p, creatorFeeBps |-> c, referralFeeBps |-> r,
    disputeReserveBps |-> d, minBet |-> 1, maxBet |-> 20,
    challengeBondAmount |-> 3, paused |-> FALSE, sanctioned |-> {} ]

\* What the owners may change: the fees up to near the cap, the treasury, the
\* roles, the bond, the sanctions.
MCViews ==
  { Registry(1275, 700, 550, 475),
    [Registry(2500, 1000, 700, 800) EXCEPT
       !.treasury = bob, !.oracles = {owner}, !.challengeBondAmount = 0, !.sanctioned = {alice}] }

P(ref, open, close, resolve, window) ==
  [ creator |-> carol, referrer |-> ref, openTime |-> open, closeTime |-> close,
    resolveTime |-> resolve, challengeWindowSeconds |-> window ]

\* The last two are refused by initialize.
MCChoices == { P(NoAccount, 1, 2, 2, 1), P(bob, 1, 2, 2, 0), P(bob, 2, 2, 2, 1),
               P(bob, 1, 3, 2, 1) }
=============================================================================

------------------------------ MODULE MCSubgraph ------------------------------
(***************************************************************************)
(* One market of two bettors and a creator, the handlers up to three       *)
(* events behind; the registry pauses betting and sanctions a bettor.      *)
(***************************************************************************)
EXTENDS Subgraph

CONSTANTS alice, bob, carol, owner, yes, no

MCAccounts == {alice, bob, carol, owner}
MCOutcomes == {yes, no}

V(u, o, m, n) ==
  [signer |-> owner, user |-> u, outcome |-> o, amount |-> m, nonce |-> n, deadline |-> 2]

\* Up to two winners of "yes", whose stakes do not divide the pool: one claims last.
MCVouchers ==
  { V(alice, yes, 7, 1), V(alice, yes, 5, 2), V(bob, yes, 4, 1), V(bob, no, 9, 2) }

View ==
  [ oracles |-> {owner}, operators |-> {owner}, treasury |-> owner,
    protocolFeeBps |-> 1000, creatorFeeBps |-> 0, referralFeeBps |-> 0,
    disputeReserveBps |-> 0, minBet |-> 1, maxBet |-> 20,
    challengeBondAmount |-> 3, paused |-> FALSE, sanctioned |-> {} ]

\* The owners may pause everything, sanction a bettor and change the treasury.
MCViews ==
  {View, [View EXCEPT !.paused = TRUE, !.sanctioned = {alice}, !.treasury = bob]}

MCChoices ==
  { [ creator |-> carol, referrer |-> NoAccount, openTime |-> 1, closeTime |-> 2,
      resolveTime |-> 2, challengeWindowSeconds |-> 1 ] }
=============================================================================

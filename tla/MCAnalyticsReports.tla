------------------------- MODULE MCAnalyticsReports -------------------------
(***************************************************************************)
(* Three bets of two users on two markets.  A page has one row, the        *)
(* summary takes one user of two, and the two bets that the whale query    *)
(* takes may be of one whale.  A collection may run into the next one.     *)
(* The second market has no creator.  Amounts and thresholds are small.    *)
(***************************************************************************)
EXTENDS AnalyticsReports

CONSTANTS b1, b2, b3, alice, bob, m1, m2, c1, c2

MCAmountOf  == (b1 :> 10 @@ b2 :> 20 @@ b3 :> 50)
MCUserOf    == (b1 :> alice @@ b2 :> alice @@ b3 :> bob)
MCMarketOf  == (b1 :> m1 @@ b2 :> m2 @@ b3 :> m2)
MCCreatorOf == (m1 :> c1 @@ m2 :> "none")
MCShares    == (c1 :> 100 @@ c2 :> 50)

MCThresholds == [whale |-> 50, power |-> 20, regular |-> 10]
MCFeeBps == [protocol |-> 275, creator |-> 100, referral |-> 50, disputeReserve |-> 75,
             total |-> 500]

\* Bounds: reports and the collector share only the bets.  Reports are made, and
\* the third bet placed, while cycles end at once and nothing fails.  A pool, which
\* no action reads, is written while nothing is asked for.  Nothing is looked at
\* after the last page.
AtOnce ==
  /\ now <= 4 /\ faults = 0
  /\ \A t \in DOMAIN collecting :
       t = now /\ \A f \in DOMAIN collecting[t] : collecting[t][f] = {b \in Bets : placedAt[b] \in 1 .. now - 1}
  /\ latestSnapshot # NoSnapshot => latestSnapshot.allTime = latestSnapshot.whales

Focus ==
  /\ AtOnce \/ (request = NoRequest /\ reader.began = 0 /\ Placed \subseteq {b1, b3})
  /\ ~reader.done
  /\ (\E m \in DOMAIN CreatorOf : totalPool[m] # 0) =>
       AtOnce /\ request = NoRequest /\ reader.began = 0
  /\ request.kind = "whales" => now <= 2 /\ latestSnapshot = NoSnapshot
=============================================================================

--------------------------- MODULE MCAlertsService ---------------------------
(***************************************************************************)
(* Two whale bets of one user, one default rule and one that is added.     *)
(* Whale bets are looked for over three units of time, spikes over two and *)
(* rapid betting over one or, its window unknown, over all time; a day has *)
(* four hours.                                                             *)
(***************************************************************************)
EXTENDS AlertsService

CONSTANTS b1, b2, alice, c1, c2

MCAmountOf == (b1 :> 1000 @@ b2 :> 2000)
MCUserOf   == (b1 :> alice @@ b2 :> alice)
MCQuiet    == [volume_spike |-> 2, rapid_betting |-> 1]

Rule(type, threshold, window) ==
  [type |-> type, threshold |-> threshold, window |-> window, enabled |-> TRUE]

MCRules   == <<Rule("whale_bet", 1000, 3)>>
NewRules  == {Rule("volume_spike", 2, 2), Rule("rapid_betting", 2, 1),
              Rule("rapid_betting", 2, NoWindow), Rule("revenue_milestone", 80, 100)}
Symmetric == Permutations(Checks)

\* Bounds: a whale bet takes six units of time to be overdue, an added rule is
\* followed for three, rapid betting for four; snapshots only where a spike looks
\* for them.
Collecting == collected # {} \/ latestSnapshot # -1

Focus ==
  /\ Len(rules) = 2 => now <= IF rules[2].type = "rapid_betting" THEN 4 ELSE 3
  /\ \A i \in Switched : disabledAt[i] <= 2
  /\ Collecting => now <= 3 /\ Len(rules) = 2 /\ rules[2].type = "volume_spike"
                     /\ \A i \in Switched : disabledAt[i] = 0
=============================================================================

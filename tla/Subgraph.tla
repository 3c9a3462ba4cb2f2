------------------------------ MODULE Subgraph ------------------------------
(***************************************************************************)
(* What The Graph shows of one market: the handlers of subgraph/src over   *)
(* the events of ArenaMarket, ArenaFactory and ArenaRegistry.              *)
(*                                                                         *)
(* Graph-node (external) runs the handlers one event at a time, in chain   *)
(* order, at its own pace, so the entities lag behind the chain; the       *)
(* events of a market start when the handler of MarketCreated has created  *)
(* its template.  Events without a handler are not in the log: approval,   *)
(* challenges and fees.  refund emits no event.                            *)
(***************************************************************************)
EXTENDS ArenaMarket, Sequences

CONSTANT MaxLag   \* bound on the events the handlers are behind

VARIABLES
  unhandled,      \* events of the chain the handlers have not seen
  market,         \* the Market entity
  poolAmount,     \* Outcome.poolAmount by outcome
  user,           \* User entities: totalBets, totalVolume, totalWon
  bets,           \* Bet entities, by outcome
  deposited, betsPlaced  \* history: what each account has staked, in how many bets

entities == <<market, poolAmount, user, bets>>
history  == <<deposited, betsPlaced>>
subgraphVars == <<vars, unhandled, entities, history>>

NewUser == [totalBets |-> 0, totalVolume |-> 0, totalWon |-> 0]

\* createMarket emits, in this order: the registry's event, then the factory's;
\* the market's own MarketInitialized is seen once the template exists.
CreationEvents ==
  << [type |-> "MarketRegistered"], [type |-> "MarketCreated"],
     [type |-> "MarketInitialized"] >>

SubgraphInit ==
  /\ Init
  /\ unhandled = CreationEvents
  /\ market = [status |-> "none", totalPool |-> 0, winner |-> NoOutcome, pool |-> 0]
  /\ poolAmount = [o \in Outcomes |-> 0]
  /\ user = [a \in Accounts |-> NewUser]
  /\ bets = [o \in Outcomes |-> 0]
  /\ deposited = [a \in Accounts |-> 0] /\ betsPlaced = [a \in Accounts |-> 0]

------------------------------------------------------------------------------
(* The chain.                                                               *)

Emit(e) == unhandled' = Append(unhandled, e) /\ UNCHANGED entities

\* Bound: apart from claims nothing happens while the handlers are far behind.
Behind == Len(unhandled) >= MaxLag

Emits(type) == Emit([type |-> type]) /\ UNCHANGED history

Bets(v) ==
  /\ PlaceBet(v)
  /\ Emit([type |-> "BetPlaced", user |-> v.user, outcome |-> v.outcome,
           amount |-> v.amount, newTotal |-> totalPool'])
  /\ deposited' = [deposited EXCEPT ![v.user] = @ + v.amount]
  /\ betsPlaced' = [betsPlaced EXCEPT ![v.user] = @ + 1]

Claims(a) ==
  /\ Claim(a)
  /\ Emit([type |-> "ClaimExecuted", user |-> a, amount |-> payout'[a]])
  /\ UNCHANGED history

Finalizes(a) ==
  /\ FinalizeResolution(a)
  /\ Emit([type |-> "MarketFinalized", winner |-> winningOutcome,
           pool |-> distributablePool'])
  /\ UNCHANGED history

\* Operators may register a market again, under another identifier, at any time.
RegistersAgain == ~Behind /\ Emits("MarketRegistered") /\ UNCHANGED vars

Refunds(a) == Refund(a) /\ UNCHANGED <<unhandled, entities, history>>

Chain ==
  \/ \E v \in Vouchers : ~Behind /\ Bets(v)
  \/ RegistersAgain
  \/ \E a \in Accounts : Claims(a) \/ Refunds(a)
  \/ ~Behind /\ \E a \in Accounts :
       \/ CloseMarket(a) /\ Emits("MarketClosed")
       \/ \E o \in Outcomes : ProposeResolution(a, o) /\ Emits("ResolutionProposed")
       \/ Finalizes(a)
       \/ VoidMarket(a) /\ Emits("MarketVoided")
  \/ /\ \/ Tick \/ RegistryChange
        \/ \E a \in Accounts : ApproveMarket(a) \/ ChallengeResolution(a)
     /\ UNCHANGED <<unhandled, entities, history>>

------------------------------------------------------------------------------
(* The handlers.                                                            *)

SetStatus(s) == market' = [market EXCEPT !.status = s] /\ UNCHANGED <<poolAmount, user, bets>>

\* Mutant: registering always starts the entity anew.
RegisterAnew ==
  market' = [market EXCEPT !.status = "REGISTERED"] /\ UNCHANGED <<poolAmount, user, bets>>

\* An entity that exists only gets the new identifier.
HandleMarketRegistered ==
  IF market.status = "none" THEN SetStatus("REGISTERED") ELSE UNCHANGED entities

\* A new Market of the same id replaces what MarketRegistered stored.
HandleMarketCreated ==
  /\ market' = [market EXCEPT !.status = "PENDING_APPROVAL", !.totalPool = 0]
  /\ UNCHANGED <<poolAmount, user, bets>>

HandleMarketInitialized ==
  IF market.status = "none" THEN SetStatus("PENDING_APPROVAL") ELSE UNCHANGED entities

AddToPool(e) == [poolAmount EXCEPT ![e.outcome] = @ + e.amount]

\* Mutant: the user is saved before the bet is counted.
UncountedBet(e) == user

CountBet(e) ==
  [user EXCEPT ![e.user].totalBets = @ + 1, ![e.user].totalVolume = @ + e.amount]

HandleBetPlaced(e) ==
  /\ poolAmount' = AddToPool(e)
  /\ bets' = [bets EXCEPT ![e.outcome] = @ + 1]
  /\ user' = CountBet(e)
  /\ market' = [market EXCEPT !.totalPool = e.newTotal]

HandleMarketFinalized(e) ==
  /\ market' = [market EXCEPT !.status = "FINALIZED", !.winner = e.winner, !.pool = e.pool]
  /\ UNCHANGED <<poolAmount, user, bets>>

HandleClaimExecuted(e) ==
  /\ user' = [user EXCEPT ![e.user].totalWon = @ + e.amount]
  /\ UNCHANGED <<market, poolAmount, bets>>

Handle ==
  /\ unhandled # <<>> /\ unhandled' = Tail(unhandled)
  /\ LET e == Head(unhandled) IN
       CASE e.type = "MarketRegistered"   -> HandleMarketRegistered
         [] e.type = "MarketCreated"      -> HandleMarketCreated
         [] e.type = "MarketInitialized"  -> HandleMarketInitialized
         [] e.type = "BetPlaced"          -> HandleBetPlaced(e)
         [] e.type = "MarketClosed"       -> SetStatus("CLOSED")
         [] e.type = "ResolutionProposed" -> SetStatus("PROPOSED")
         [] e.type = "MarketFinalized"    -> HandleMarketFinalized(e)
         [] e.type = "ClaimExecuted"      -> HandleClaimExecuted(e)
         [] e.type = "MarketVoided"       -> SetStatus("VOIDED")
  /\ UNCHANGED <<vars, history>>

SubgraphNext == Chain \/ Handle

\* claim and refund need no permission and no pause stops them: an account that
\* keeps trying is eventually mined.
SubgraphSpec ==
  /\ SubgraphInit /\ [][SubgraphNext]_subgraphVars
  /\ \A a \in Accounts : WF_subgraphVars(Claims(a)) /\ WF_subgraphVars(Refunds(a))

------------------------------------------------------------------------------
(* Properties.                                                              *)

CaughtUp == unhandled = <<>>

\* Once the handlers have caught up, the entities are the market's own counters:
\* pools, what each user staked in how many bets, what each was paid.  The total,
\* which comes from the event, and the pools, which the handler sums, are in step
\* however far the handlers lag.
CountersMatchChain ==
  /\ market.totalPool = Total(poolAmount)
  /\ CaughtUp =>
       /\ poolAmount = outcomePools /\ market.totalPool = totalPool
       /\ \A a \in Accounts :
            /\ user[a].totalVolume = deposited[a] /\ user[a].totalBets = betsPlaced[a]
            /\ user[a].totalWon = payout[a]

\* The status a market is shown with: approval and challenges emit events that no
\* handler takes.
Shown == [s \in States |-> CASE s = "OPEN"       -> "PENDING_APPROVAL"
                             [] s = "CHALLENGED" -> "PROPOSED"
                             [] OTHER            -> s]

\* Once caught up, the status is the last one the chain announced, whatever
\* registrations came in between, and a final market shows its winner and pool.
StatusMatchesChain ==
  CaughtUp =>
    /\ market.status = Shown[state]
    /\ state = "FINALIZED" =>
         market.winner = winningOutcome /\ market.pool = distributablePool

\* A market that ended is never shown as running again, not while lagging either.
EndIsShownForGood ==
  [][market.status \in {"FINALIZED", "VOIDED"} => market'.status = market.status]_subgraphVars
==============================================================================

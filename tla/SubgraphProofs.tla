--------------------------- MODULE SubgraphProofs ----------------------------
(***************************************************************************)
(* What is read of the chain: the subgraph shows it, for any accounts,     *)
(* outcomes, vouchers and registry states and however far the handlers     *)
(* lag, and the indexer that reads the subgraph skips no market.           *)
(*                                                                         *)
(* The invariant looks at what the handlers have still to do: the entities *)
(* as they are, followed through every event in the queue, end in exactly  *)
(* the state of the chain.  A call of the market lengthens that path by    *)
(* one, a handler takes its first step.  The invariants of the indexer are *)
(* CursorInv, that no market is skipped, and, for runs that do not overlap,*)
(* CurrentInv, that rows behind the cursor are the subgraph's.             *)
(***************************************************************************)
EXTENDS Subgraph, IndexerSync, ArenaMarketProofs, SequenceTheorems

Plain == {"MarketRegistered", "MarketCreated", "MarketInitialized", "MarketClosed",
          "ResolutionProposed", "MarketVoided"}

Event ==
  [type : Plain]
    \cup [type : {"BetPlaced"}, user : Accounts, outcome : Outcomes, amount : Nat, newTotal : Nat]
    \cup [type : {"ClaimExecuted"}, user : Accounts, amount : Nat]
    \cup [type : {"MarketFinalized"}, winner : Outcomes \cup {NoOutcome}, pool : Nat]

Statuses == States \cup {"none", "REGISTERED"}

MarketEntity ==
  [status : Statuses, totalPool : Nat, winner : Outcomes \cup {NoOutcome}, pool : Nat]
Pools == [Outcomes -> Nat]
Users == [Accounts -> [totalBets : Nat, totalVolume : Nat, totalWon : Nat]]

\* What the handler of an event makes of each entity.
MarketAfter(m, e) ==
  IF e.type = "MarketRegistered"
    THEN IF m.status = "none" THEN [m EXCEPT !.status = "REGISTERED"] ELSE m
  ELSE IF e.type = "MarketCreated"
    THEN [m EXCEPT !.status = "PENDING_APPROVAL", !.totalPool = 0]
  ELSE IF e.type = "MarketInitialized"
    THEN IF m.status = "none" THEN [m EXCEPT !.status = "PENDING_APPROVAL"] ELSE m
  ELSE IF e.type = "BetPlaced" THEN [m EXCEPT !.totalPool = e.newTotal]
  ELSE IF e.type = "MarketClosed" THEN [m EXCEPT !.status = "CLOSED"]
  ELSE IF e.type = "ResolutionProposed" THEN [m EXCEPT !.status = "PROPOSED"]
  ELSE IF e.type = "MarketFinalized"
    THEN [m EXCEPT !.status = "FINALIZED", !.winner = e.winner, !.pool = e.pool]
  ELSE IF e.type = "MarketVoided" THEN [m EXCEPT !.status = "VOIDED"]
  ELSE m

PoolsAfter(p, e) ==
  IF e.type = "BetPlaced" THEN [p EXCEPT ![e.outcome] = @ + e.amount] ELSE p

UsersAfter(u, e) ==
  IF e.type = "BetPlaced"
    THEN [u EXCEPT ![e.user].totalBets = @ + 1, ![e.user].totalVolume = @ + e.amount]
  ELSE IF e.type = "ClaimExecuted" THEN [u EXCEPT ![e.user].totalWon = @ + e.amount]
  ELSE u

Ended(m) == m.status \in {"FINALIZED", "VOIDED"}

\* The entities m, p and u are the chain's own state.
InStep(m, p, u) ==
  /\ m.status = Shown[state] /\ m.totalPool = totalPool
  /\ state = "FINALIZED" => m.winner = winningOutcome /\ m.pool = distributablePool
  /\ p = outcomePools
  /\ \A a \in Accounts :
       /\ u[a].totalVolume = deposited[a] /\ u[a].totalBets = betsPlaced[a]
       /\ u[a].totalWon = payout[a]

\* The path ms, ps, us leads the entities through the queue q.
Path(q, ms, ps, us) ==
  /\ ms \in [1 .. Len(q) + 1 -> MarketEntity] /\ ps \in [1 .. Len(q) + 1 -> Pools]
  /\ us \in [1 .. Len(q) + 1 -> Users]
  /\ \A i \in 1 .. Len(q) :
       /\ ms[i + 1] = MarketAfter(ms[i], q[i]) /\ ps[i + 1] = PoolsAfter(ps[i], q[i])
       /\ us[i + 1] = UsersAfter(us[i], q[i])
       /\ Ended(ms[i]) => ms[i + 1].status = ms[i].status
  /\ \A i \in 1 .. Len(q) + 1 : ms[i].totalPool = Total(ps[i])

\* The entities as they are lead through what is unhandled to the chain's state.
HandlersCatchUp ==
  \E ms, ps, us :
    /\ Path(unhandled, ms, ps, us)
    /\ ms[1] = market /\ ps[1] = poolAmount /\ us[1] = user
    /\ InStep(ms[Len(unhandled) + 1], ps[Len(unhandled) + 1], us[Len(unhandled) + 1])

ChainTypes ==
  /\ TypeOK /\ LedgerInv
  /\ unhandled \in Seq(Event)
  /\ deposited \in [Accounts -> Nat] /\ betsPlaced \in [Accounts -> Nat]
  /\ \A a \in Accounts : ~hasClaimed[a] => payout[a] = 0

SubgraphInv == ChainTypes /\ HandlersCatchUp

------------------------------------------------------------------------------
(* Handlers as functions.                                                   *)

LEMMA ShownValues ==
  ASSUME NEW s \in States
  PROVE  Shown[s] = (IF s = "OPEN" THEN "PENDING_APPROVAL"
                     ELSE IF s = "CHALLENGED" THEN "PROPOSED" ELSE s)
BY DEF Shown, States

LEMMA AfterTypes ==
  ASSUME NEW e \in Event, NEW m \in MarketEntity, NEW p \in Pools, NEW u \in Users
  PROVE  /\ MarketAfter(m, e) \in MarketEntity
         /\ PoolsAfter(p, e) \in Pools
         /\ UsersAfter(u, e) \in Users
<1>1. MarketAfter(m, e) \in MarketEntity
  BY DEF Event, Plain, MarketEntity, MarketAfter, Statuses, States
<1>2. PoolsAfter(p, e) \in Pools
  BY DEF Event, Plain, Pools, PoolsAfter
<1>3. UsersAfter(u, e) \in Users
  BY DEF Event, Plain, Users, UsersAfter
<1> QED
  BY <1>1, <1>2, <1>3

\* One step of graph-node is the next step of the path.
LEMMA HandleApplies ==
  ASSUME Handle, unhandled \in Seq(Event)
  PROVE  /\ market' = MarketAfter(market, Head(unhandled))
         /\ poolAmount' = PoolsAfter(poolAmount, Head(unhandled))
         /\ user' = UsersAfter(user, Head(unhandled))
<1> DEFINE e == Head(unhandled)
<1>1. e \in Event
  BY HeadTailProperties DEF Handle
<1>2. e.type \in Plain \cup {"BetPlaced", "ClaimExecuted", "MarketFinalized"}
  BY <1>1 DEF Event, Plain
<1> USE DEF MarketAfter, PoolsAfter, UsersAfter, SetStatus, entities
<1>3. CASE e.type = "MarketRegistered"
  BY <1>3 DEF Handle, HandleMarketRegistered
<1>4. CASE e.type = "MarketCreated"
  BY <1>4 DEF Handle, HandleMarketCreated
<1>5. CASE e.type = "MarketInitialized"
  BY <1>5 DEF Handle, HandleMarketInitialized
<1>6. CASE e.type = "BetPlaced"
  BY <1>6 DEF Handle, HandleBetPlaced, AddToPool, CountBet
<1>7. CASE e.type = "MarketClosed"
  BY <1>7 DEF Handle
<1>8. CASE e.type = "ResolutionProposed"
  BY <1>8 DEF Handle
<1>9. CASE e.type = "MarketFinalized"
  BY <1>9 DEF Handle, HandleMarketFinalized
<1>10. CASE e.type = "ClaimExecuted"
  BY <1>10 DEF Handle, HandleClaimExecuted
<1>11. CASE e.type = "MarketVoided"
  BY <1>11 DEF Handle
<1> QED
  BY <1>2, <1>3, <1>4, <1>5, <1>6, <1>7, <1>8, <1>9, <1>10, <1>11 DEF Plain

------------------------------------------------------------------------------
(* How the path moves.                                                      *)

\* A call that emits nothing leaves the path alone.
LEMMA QuietPath ==
  ASSUME HandlersCatchUp, unhandled \in Seq(Event), UNCHANGED <<unhandled, entities>>,
         \A m \in MarketEntity, p \in Pools, u \in Users : InStep(m, p, u) => InStep(m, p, u)'
  PROVE  HandlersCatchUp'
<1> DEFINE n == Len(unhandled)
<1>1. PICK ms, ps, us :
        /\ Path(unhandled, ms, ps, us)
        /\ ms[1] = market /\ ps[1] = poolAmount /\ us[1] = user
        /\ InStep(ms[n + 1], ps[n + 1], us[n + 1])
  BY DEF HandlersCatchUp
<1>2. n \in Nat /\ n + 1 \in 1 .. n + 1
  BY LenProperties
<1>3. ms[n + 1] \in MarketEntity /\ ps[n + 1] \in Pools /\ us[n + 1] \in Users
  BY <1>1, <1>2 DEF Path
<1>4. InStep(ms[n + 1], ps[n + 1], us[n + 1])'
  BY <1>1, <1>3
<1> QED
  BY <1>1, <1>4 DEF HandlersCatchUp, entities

\* An event the chain emits is one more step of the path, if its handler would lead
\* entities that were in step to entities that are again.
LEMMA PushPath ==
  ASSUME HandlersCatchUp, unhandled \in Seq(Event), NEW e \in Event,
         unhandled' = Append(unhandled, e), UNCHANGED entities,
         \A m \in MarketEntity, p \in Pools, u \in Users :
           InStep(m, p, u) =>
             /\ InStep(MarketAfter(m, e), PoolsAfter(p, e), UsersAfter(u, e))'
             /\ MarketAfter(m, e).totalPool = Total(PoolsAfter(p, e))
             /\ Ended(m) => MarketAfter(m, e).status = m.status
  PROVE  HandlersCatchUp' /\ unhandled' \in Seq(Event)
<1>0. PICK n \in Nat : n = Len(unhandled)
  BY LenProperties
<1>1. PICK ms, ps, us :
        /\ Path(unhandled, ms, ps, us)
        /\ ms[1] = market /\ ps[1] = poolAmount /\ us[1] = user
        /\ InStep(ms[n + 1], ps[n + 1], us[n + 1])
  BY <1>0 DEF HandlersCatchUp
<1>2. n \in Nat
  OBVIOUS
<1>3. /\ unhandled' \in Seq(Event) /\ Len(unhandled') = n + 1
      /\ \A i \in 1 .. n : unhandled'[i] = unhandled[i]
      /\ unhandled'[n + 1] = e
  BY <1>0, AppendProperties
<1>4. ms[n + 1] \in MarketEntity /\ ps[n + 1] \in Pools /\ us[n + 1] \in Users
  BY <1>0, <1>1, <1>2 DEF Path
<1> DEFINE m == MarketAfter(ms[n + 1], e)
           p == PoolsAfter(ps[n + 1], e)
           u == UsersAfter(us[n + 1], e)
           mt == [i \in 1 .. n + 2 |-> IF i = n + 2 THEN m ELSE ms[i]]
           pt == [i \in 1 .. n + 2 |-> IF i = n + 2 THEN p ELSE ps[i]]
           ut == [i \in 1 .. n + 2 |-> IF i = n + 2 THEN u ELSE us[i]]
<1>5. m \in MarketEntity /\ p \in Pools /\ u \in Users
  BY <1>4, AfterTypes
<1>6. /\ InStep(m, p, u)' /\ m.totalPool = Total(p)
      /\ Ended(ms[n + 1]) => m.status = ms[n + 1].status
  BY <1>1, <1>4
<1> HIDE DEF m, p, u
<1>7. /\ \A i \in 1 .. n + 1 : mt[i] = ms[i] /\ pt[i] = ps[i] /\ ut[i] = us[i]
      /\ mt[n + 2] = m /\ pt[n + 2] = p /\ ut[n + 2] = u
  BY <1>2
<1>8. /\ mt \in [1 .. n + 2 -> MarketEntity] /\ pt \in [1 .. n + 2 -> Pools]
      /\ ut \in [1 .. n + 2 -> Users]
  BY <1>0, <1>1, <1>2, <1>5 DEF Path
<1> HIDE DEF mt, pt, ut
<1>9. ASSUME NEW i \in 1 .. n + 1
      PROVE  /\ mt[i + 1] = MarketAfter(mt[i], unhandled'[i])
             /\ pt[i + 1] = PoolsAfter(pt[i], unhandled'[i])
             /\ ut[i + 1] = UsersAfter(ut[i], unhandled'[i])
             /\ Ended(mt[i]) => mt[i + 1].status = mt[i].status
  <2>1. CASE i = n + 1
    BY <1>2, <1>3, <1>6, <1>7, <2>1 DEF m, p, u
  <2>2. CASE i \in 1 .. n
    BY <1>0, <1>1, <1>2, <1>3, <1>7, <2>2 DEF Path
  <2>3. i = n + 1 \/ i \in 1 .. n
    BY <1>2
  <2> QED
    BY <2>1, <2>2, <2>3
<1>10. ASSUME NEW i \in 1 .. n + 2 PROVE mt[i].totalPool = Total(pt[i])
  <2>1. CASE i = n + 2
    BY <1>6, <1>7, <2>1
  <2>2. CASE i \in 1 .. n + 1
    BY <1>0, <1>1, <1>7, <2>2 DEF Path
  <2> QED
    BY <1>2, <2>1, <2>2
<1>11. Path(unhandled', mt, pt, ut)
  BY <1>2, <1>3, <1>8, <1>9, <1>10 DEF Path
<1>12. /\ mt[1] = market' /\ pt[1] = poolAmount' /\ ut[1] = user'
       /\ InStep(mt[n + 2], pt[n + 2], ut[n + 2])'
  BY <1>1, <1>2, <1>6, <1>7 DEF entities
<1>13. HandlersCatchUp'
  BY <1>2, <1>3, <1>11, <1>12 DEF HandlersCatchUp
<1> QED
  BY <1>3, <1>13

\* A handler takes the first step of the path.
LEMMA PopPath ==
  ASSUME HandlersCatchUp, unhandled \in Seq(Event), Handle
  PROVE  /\ HandlersCatchUp' /\ unhandled' \in Seq(Event)
         /\ Ended(market) => market'.status = market.status
<1>0. PICK n \in Nat : n = Len(unhandled)
  BY LenProperties
<1>1. PICK ms, ps, us :
        /\ Path(unhandled, ms, ps, us)
        /\ ms[1] = market /\ ps[1] = poolAmount /\ us[1] = user
        /\ InStep(ms[n + 1], ps[n + 1], us[n + 1])
  BY <1>0 DEF HandlersCatchUp
<1>2. unhandled # <<>> /\ unhandled' = Tail(unhandled)
  BY DEF Handle
<1>3. n \in Nat \ {0} /\ Head(unhandled) = unhandled[1]
  BY <1>0, <1>2, EmptySeq, LenProperties
<1>4. /\ unhandled' \in Seq(Event) /\ Len(unhandled') = n - 1
      /\ \A i \in 1 .. n - 1 : unhandled'[i] = unhandled[i + 1]
  BY <1>0, <1>2, HeadTailProperties
<1>5. market' = ms[2] /\ poolAmount' = ps[2] /\ user' = us[2]
  BY <1>0, <1>1, <1>3, HandleApplies DEF Path
<1> DEFINE mt == [i \in 1 .. n |-> ms[i + 1]]
           pt == [i \in 1 .. n |-> ps[i + 1]]
           ut == [i \in 1 .. n |-> us[i + 1]]
<1>6. Path(unhandled', mt, pt, ut)
  <2>1. /\ mt \in [1 .. n -> MarketEntity] /\ pt \in [1 .. n -> Pools] /\ ut \in [1 .. n -> Users]
    BY <1>0, <1>1, <1>3 DEF Path
  <2>2. \A i \in 1 .. n - 1 :
          /\ mt[i + 1] = MarketAfter(mt[i], unhandled'[i])
          /\ pt[i + 1] = PoolsAfter(pt[i], unhandled'[i])
          /\ ut[i + 1] = UsersAfter(ut[i], unhandled'[i])
          /\ Ended(mt[i]) => mt[i + 1].status = mt[i].status
    BY <1>0, <1>1, <1>3, <1>4 DEF Path
  <2>3. \A i \in 1 .. n : mt[i].totalPool = Total(pt[i])
    BY <1>0, <1>1, <1>3 DEF Path
  <2> HIDE DEF mt, pt, ut
  <2> QED
    BY <1>3, <1>4, <2>1, <2>2, <2>3 DEF Path
<1>7. \A m, p, u : InStep(m, p, u)' = InStep(m, p, u)
  BY DEF Handle, InStep, history, vars, envVars, stakeVars, feeVars, claimVars, phaseVars
<1>8. HandlersCatchUp'
  <2>1. mt[1] = market' /\ pt[1] = poolAmount' /\ ut[1] = user'
    BY <1>3, <1>5
  <2>2. InStep(mt[n], pt[n], ut[n])'
    BY <1>1, <1>3, <1>7
  <2> HIDE DEF mt, pt, ut
  <2> QED
    BY <1>3, <1>4, <1>6, <2>1, <2>2 DEF HandlersCatchUp
<1>9. Ended(market) => market'.status = market.status
  BY <1>0, <1>1, <1>3, <1>5 DEF Path
<1> QED
  BY <1>4, <1>8, <1>9

------------------------------------------------------------------------------
(* The calls of the chain.                                                  *)

\* What a call emits leads on from the state before it to the state after it, and a
\* market that ended is not announced as anything else.
LeadsOn(e) ==
  /\ e \in Event
  /\ \A m \in MarketEntity, p \in Pools, u \in Users :
       InStep(m, p, u) =>
         /\ InStep(MarketAfter(m, e), PoolsAfter(p, e), UsersAfter(u, e))'
         /\ Ended(m) => MarketAfter(m, e).status = m.status

LEMMA EmitStep ==
  ASSUME SubgraphInv, NEW e, Emit(e), LeadsOn(e), LedgerInv'
  PROVE  HandlersCatchUp' /\ unhandled' \in Seq(Event)
<1>1. totalPool' = Total(outcomePools')
  BY DEF ChainTypes, LedgerInv, PoolsMatchStakes
<1>2. \A m \in MarketEntity, p \in Pools, u \in Users :
        InStep(m, p, u) =>
          /\ InStep(MarketAfter(m, e), PoolsAfter(p, e), UsersAfter(u, e))'
          /\ MarketAfter(m, e).totalPool = Total(PoolsAfter(p, e))
          /\ Ended(m) => MarketAfter(m, e).status = m.status
  BY <1>1 DEF LeadsOn, InStep
<1> QED
  BY <1>2, PushPath DEF LeadsOn, Emit, SubgraphInv, ChainTypes

LEMMA BetStep ==
  ASSUME SubgraphInv, TypeOK', LedgerInv', NEW v \in Vouchers, Bets(v)
  PROVE  SubgraphInv'
<1>1. v.user \in Accounts /\ v.outcome \in Outcomes /\ v.amount \in Nat
  BY VouchersAssumption DEF Bets, PlaceBet, BetOk, Bet, ValidOutcome
<1>2. PICK e : /\ Emit(e)
               /\ e = [type |-> "BetPlaced", user |-> v.user, outcome |-> v.outcome,
                       amount |-> v.amount, newTotal |-> totalPool']
  BY DEF Bets
<1>3. e \in Event
  BY <1>1, <1>2 DEF Event, TypeOK
<1>4. e.type = "BetPlaced" /\ e.user = v.user /\ e.outcome = v.outcome /\ e.amount = v.amount
        /\ e.newTotal = totalPool'
  BY <1>2
<1>5. /\ UNCHANGED <<state, winningOutcome, distributablePool, payout, hasClaimed>>
      /\ outcomePools' = [outcomePools EXCEPT ![v.outcome] = @ + v.amount]
      /\ deposited' = [deposited EXCEPT ![v.user] = @ + v.amount]
      /\ betsPlaced' = [betsPlaced EXCEPT ![v.user] = @ + 1]
  BY DEF Bets, PlaceBet, AddStake, phaseVars, feeVars, claimVars
<1>6. ASSUME NEW m \in MarketEntity, NEW p \in Pools, NEW u \in Users, InStep(m, p, u)
      PROVE  /\ InStep(MarketAfter(m, e), PoolsAfter(p, e), UsersAfter(u, e))'
             /\ Ended(m) => MarketAfter(m, e).status = m.status
  <2>1. /\ MarketAfter(m, e) = [m EXCEPT !.totalPool = totalPool']
        /\ PoolsAfter(p, e) = [p EXCEPT ![v.outcome] = @ + v.amount]
        /\ UsersAfter(u, e) = [u EXCEPT ![v.user].totalBets = @ + 1,
                                        ![v.user].totalVolume = @ + v.amount]
    BY <1>4 DEF MarketAfter, PoolsAfter, UsersAfter
  <2>2. /\ UNCHANGED Shown[state]
        /\ \A a \in Accounts :
             /\ UsersAfter(u, e)[a].totalVolume = deposited'[a]
             /\ UsersAfter(u, e)[a].totalBets = betsPlaced'[a]
             /\ UsersAfter(u, e)[a].totalWon = payout'[a]
    BY <1>1, <1>5, <1>6, <2>1 DEF InStep, Users, SubgraphInv, ChainTypes
  <2> QED
    BY <1>5, <1>6, <2>1, <2>2 DEF InStep, MarketEntity
<1>7. LeadsOn(e)
  BY <1>3, <1>6 DEF LeadsOn
<1>8. HandlersCatchUp' /\ unhandled' \in Seq(Event)
  BY <1>2, <1>7, EmitStep
<1>9. ChainTypes'
  BY <1>1, <1>5, <1>8 DEF SubgraphInv, ChainTypes
<1> QED
  BY <1>8, <1>9 DEF SubgraphInv

LEMMA ClaimStep ==
  ASSUME SubgraphInv, TypeOK', LedgerInv', NEW a \in Accounts, Claims(a)
  PROVE  SubgraphInv'
<1>1. PICK e : Emit(e) /\ e = [type |-> "ClaimExecuted", user |-> a, amount |-> payout'[a]]
  BY DEF Claims
<1>2. e \in Event /\ e.type = "ClaimExecuted" /\ e.user = a /\ e.amount = payout'[a]
  BY <1>1 DEF Event, TypeOK
<1>3. /\ UNCHANGED <<state, winningOutcome, distributablePool, outcomePools, totalPool,
                     deposited, betsPlaced>>
      /\ \A b \in Accounts : b # a => payout'[b] = payout[b] /\ hasClaimed'[b] = hasClaimed[b]
      /\ hasClaimed'[a] /\ payout[a] = 0
  BY DEF Claims, Claim, phaseVars, feeVars, stakeVars, history, SubgraphInv, ChainTypes, TypeOK
<1>4. ASSUME NEW m \in MarketEntity, NEW p \in Pools, NEW u \in Users, InStep(m, p, u)
      PROVE  /\ InStep(MarketAfter(m, e), PoolsAfter(p, e), UsersAfter(u, e))'
             /\ Ended(m) => MarketAfter(m, e).status = m.status
  <2>1. /\ MarketAfter(m, e) = m /\ PoolsAfter(p, e) = p
        /\ UsersAfter(u, e) = [u EXCEPT ![a].totalWon = @ + payout'[a]]
    BY <1>2 DEF MarketAfter, PoolsAfter, UsersAfter
  <2>2. \A b \in Accounts :
          /\ UsersAfter(u, e)[b].totalVolume = deposited'[b]
          /\ UsersAfter(u, e)[b].totalBets = betsPlaced'[b]
          /\ UsersAfter(u, e)[b].totalWon = payout'[b]
    BY <1>3, <1>4, <2>1 DEF InStep, Users, TypeOK
  <2> QED
    BY <1>3, <1>4, <2>1, <2>2 DEF InStep
<1>5. HandlersCatchUp' /\ unhandled' \in Seq(Event)
  BY <1>1, <1>2, <1>4, EmitStep DEF LeadsOn
<1> QED
  BY <1>3, <1>5 DEF SubgraphInv, ChainTypes

\* The calls that change the status the market is shown with, and registrations.
StatusEmits(e) ==
  \/ RegistersAgain /\ e = [type |-> "MarketRegistered"]
  \/ \E a \in Accounts :
       \/ CloseMarket(a) /\ UNCHANGED history /\ e = [type |-> "MarketClosed"]
       \/ \E o \in Outcomes :
            ProposeResolution(a, o) /\ UNCHANGED history /\ e = [type |-> "ResolutionProposed"]
       \/ Finalizes(a) /\ e = [type |-> "MarketFinalized", winner |-> winningOutcome,
                               pool |-> distributablePool']
       \/ VoidMarket(a) /\ UNCHANGED history /\ e = [type |-> "MarketVoided"]

LEMMA StatusStep ==
  ASSUME SubgraphInv, TypeOK', LedgerInv', NEW e, Emit(e), StatusEmits(e)
  PROVE  SubgraphInv'
<1>1. e \in Event
  <2>1. winningOutcome \in Outcomes \cup {NoOutcome} /\ distributablePool' \in Nat
    BY DEF SubgraphInv, ChainTypes, TypeOK
  <2> QED
    BY <2>1 DEF StatusEmits, Event, Plain
<1>2. /\ UNCHANGED <<outcomePools, totalPool, payout, hasClaimed, deposited, betsPlaced>>
      /\ state \in States
  <2>1. state \in States
    BY DEF SubgraphInv, ChainTypes, TypeOK
  <2>2. UNCHANGED <<stakeVars, claimVars, history>>
    BY DEF StatusEmits, RegistersAgain, CloseMarket, ProposeResolution, Finalizes,
       FinalizeResolution, VoidMarket, vars, Emits
  <2> QED
    BY <2>1, <2>2 DEF stakeVars, claimVars, history
<1>3. \/ e.type = "MarketRegistered" /\ UNCHANGED <<state, winningOutcome, distributablePool>>
      \/ /\ e.type = "MarketClosed"
         /\ state = "OPEN" /\ state' = "CLOSED"
      \/ /\ e.type = "ResolutionProposed"
         /\ state = "CLOSED" /\ state' = "PROPOSED"
      \/ /\ e.type = "MarketFinalized"
         /\ state \in {"PROPOSED", "CHALLENGED"} /\ state' = "FINALIZED"
         /\ e.winner = winningOutcome' /\ e.pool = distributablePool'
      \/ /\ e.type = "MarketVoided"
         /\ state # "FINALIZED" /\ state' = "VOIDED"
  BY DEF StatusEmits, RegistersAgain, CloseMarket, ProposeResolution, Finalizes,
     FinalizeResolution, VoidMarket, Voidable, vars, phaseVars, feeVars
<1>4. ASSUME NEW m \in MarketEntity, NEW p \in Pools, NEW u \in Users, InStep(m, p, u)
      PROVE  /\ InStep(MarketAfter(m, e), PoolsAfter(p, e), UsersAfter(u, e))'
             /\ Ended(m) => MarketAfter(m, e).status = m.status
  <2>1. PoolsAfter(p, e) = p /\ UsersAfter(u, e) = u
    BY <1>3 DEF PoolsAfter, UsersAfter
  <2>2. m.status = (IF state = "OPEN" THEN "PENDING_APPROVAL"
                    ELSE IF state = "CHALLENGED" THEN "PROPOSED" ELSE state)
    BY <1>2, <1>4, ShownValues DEF InStep
  <2>3. Shown[state'] = (IF state' = "OPEN" THEN "PENDING_APPROVAL"
                         ELSE IF state' = "CHALLENGED" THEN "PROPOSED" ELSE state')
    BY ShownValues DEF TypeOK
  <2>4. /\ MarketAfter(m, e).status = Shown[state']
        /\ MarketAfter(m, e).totalPool = totalPool'
        /\ state' = "FINALIZED" =>
             MarketAfter(m, e).winner = winningOutcome' /\ MarketAfter(m, e).pool = distributablePool'
        /\ Ended(m) => MarketAfter(m, e).status = m.status
    BY <1>2, <1>3, <1>4, <2>2, <2>3 DEF MarketAfter, InStep, MarketEntity, Ended, States
  <2> QED
    BY <1>2, <1>4, <2>1, <2>4 DEF InStep
<1>5. HandlersCatchUp' /\ unhandled' \in Seq(Event)
  BY <1>1, <1>4, EmitStep DEF LeadsOn
<1> QED
  BY <1>2, <1>5 DEF SubgraphInv, ChainTypes

\* Approval, challenges, refunds, time and the registry emit nothing a handler takes.
LEMMA QuietStep ==
  ASSUME SubgraphInv, TypeOK', LedgerInv', UNCHANGED <<unhandled, entities, history>>,
         \/ UNCHANGED vars \/ Tick \/ RegistryChange
         \/ \E a \in Accounts : ApproveMarket(a) \/ ChallengeResolution(a) \/ Refund(a)
  PROVE  SubgraphInv'
<1>1. /\ UNCHANGED <<outcomePools, totalPool, payout, hasClaimed, deposited, betsPlaced,
                     winningOutcome, distributablePool>>
      /\ \/ state' = state
         \/ state = "PENDING_APPROVAL" /\ state' = "OPEN"
         \/ state = "PROPOSED" /\ state' = "CHALLENGED"
  BY DEF vars, Tick, RegistryChange, ApproveMarket, ChallengeResolution, Refund, phaseVars,
     feeVars, stakeVars, claimVars, history
<1>2. UNCHANGED Shown[state]
  <2>1. state \in States /\ state' \in States
    BY DEF SubgraphInv, ChainTypes, TypeOK
  <2> QED
    BY <1>1, <2>1, ShownValues
<1>3. \A m, p, u : InStep(m, p, u) => InStep(m, p, u)'
  BY <1>1, <1>2 DEF InStep
<1>4. HandlersCatchUp'
  BY <1>3, QuietPath DEF SubgraphInv, ChainTypes
<1> QED
  BY <1>1, <1>4 DEF SubgraphInv, ChainTypes, history

------------------------------------------------------------------------------
(* The invariant.                                                           *)

LEMMA SubgraphInitInv == SubgraphInit => SubgraphInv
<1> SUFFICES ASSUME SubgraphInit PROVE SubgraphInv
  OBVIOUS
<1>1. TypeOK /\ LedgerInv
  BY InitType, InitializedLedger DEF SubgraphInit, Init
<1> DEFINE e1 == [type |-> "MarketRegistered"]
           e2 == [type |-> "MarketCreated"]
           e3 == [type |-> "MarketInitialized"]
           M(s) == [status |-> s, totalPool |-> 0, winner |-> NoOutcome, pool |-> 0]
           ms == <<M("none"), M("REGISTERED"), M("PENDING_APPROVAL"), M("PENDING_APPROVAL")>>
           p == [o \in Outcomes |-> 0]
           u == [a \in Accounts |-> NewUser]
           ps == [i \in 1 .. 4 |-> p]
           us == [i \in 1 .. 4 |-> u]
<1>2. /\ unhandled = <<e1, e2, e3>> /\ e1 \in Event /\ e2 \in Event /\ e3 \in Event
  BY DEF SubgraphInit, CreationEvents, Event, Plain
<1>3. /\ unhandled \in Seq(Event) /\ Len(unhandled) = 3
      /\ unhandled[1] = e1 /\ unhandled[2] = e2 /\ unhandled[3] = e3
  BY <1>2
<1>4. \A s \in Statuses : M(s) \in MarketEntity
  BY DEF MarketEntity
<1>5. p \in Pools /\ u \in Users /\ Total(p) = 0
  BY TotalZero DEF Pools, Users, NewUser
<1>6. \A i \in 1 .. 3 :
        /\ ms[i + 1] = MarketAfter(ms[i], unhandled[i])
        /\ Ended(ms[i]) => ms[i + 1].status = ms[i].status
  <2>1. /\ MarketAfter(M("none"), e1) = M("REGISTERED")
        /\ MarketAfter(M("REGISTERED"), e2) = M("PENDING_APPROVAL")
        /\ MarketAfter(M("PENDING_APPROVAL"), e3) = M("PENDING_APPROVAL")
    BY DEF MarketAfter
  <2>2. ~Ended(M("none")) /\ ~Ended(M("REGISTERED")) /\ ~Ended(M("PENDING_APPROVAL"))
    BY DEF Ended
  <2>3. \A i \in 1 .. 3 : i = 1 \/ i = 2 \/ i = 3
    OBVIOUS
  <2>4. /\ ms[1] = M("none") /\ ms[2] = M("REGISTERED")
        /\ ms[3] = M("PENDING_APPROVAL") /\ ms[4] = M("PENDING_APPROVAL")
    OBVIOUS
  <2> HIDE DEF ms, M, e1, e2, e3
  <2> QED
    BY <1>3, <2>1, <2>2, <2>3, <2>4
<1>7. \A i \in 1 .. 3 : PoolsAfter(p, unhandled[i]) = p /\ UsersAfter(u, unhandled[i]) = u
  BY <1>3 DEF PoolsAfter, UsersAfter
<1>8. Path(unhandled, ms, ps, us)
  <2>1. ms \in [1 .. 4 -> MarketEntity]
    BY <1>4 DEF Statuses, States
  <2>2. \A i \in 1 .. 4 : ms[i].totalPool = 0
    OBVIOUS
  <2> HIDE DEF ms, p, u
  <2> QED
    BY <1>3, <1>5, <1>6, <1>7, <2>1, <2>2 DEF Path
<1>9. InStep(ms[4], ps[4], us[4])
  <2>1. Shown["PENDING_APPROVAL"] = "PENDING_APPROVAL"
    BY ShownValues DEF States
  <2> QED
    BY <2>1 DEF InStep, SubgraphInit, Init, Initialized, NewUser
<1>10. ms[1] = market /\ ps[1] = poolAmount /\ us[1] = user
  BY DEF SubgraphInit
<1>11. HandlersCatchUp
  <2> HIDE DEF ms, ps, us
  <2> QED
    BY <1>3, <1>8, <1>9, <1>10 DEF HandlersCatchUp
<1>12. ChainTypes
  BY <1>1, <1>3 DEF ChainTypes, SubgraphInit, Init, Initialized
<1> QED
  BY <1>11, <1>12 DEF SubgraphInv

LEMMA SubgraphStepInv == SubgraphInv /\ [SubgraphNext]_subgraphVars => SubgraphInv'
<1> SUFFICES ASSUME SubgraphInv, [SubgraphNext]_subgraphVars PROVE SubgraphInv'
  OBVIOUS
<1>1. [Next]_vars
  BY DEF SubgraphNext, Chain, Handle, RegistersAgain, Refunds, Bets, Claims, Finalizes, Next,
     subgraphVars
<1>2. TypeOK' /\ LedgerInv'
  BY <1>1, StepType, StepLedger DEF SubgraphInv, ChainTypes
<1>3. CASE Handle
  <2>1. UNCHANGED <<hasClaimed, payout, deposited, betsPlaced>>
    BY <1>3 DEF Handle, vars, claimVars, history
  <2> QED
    BY <1>2, <1>3, <2>1, PopPath DEF SubgraphInv, ChainTypes
<1>4. CASE UNCHANGED subgraphVars
  BY <1>2, <1>4, QuietStep DEF subgraphVars
<1>5. ASSUME NEW v \in Vouchers, Bets(v) PROVE SubgraphInv'
  BY <1>2, <1>5, BetStep
<1>6. ASSUME NEW a \in Accounts, Claims(a) PROVE SubgraphInv'
  BY <1>2, <1>6, ClaimStep
<1>7. CASE RegistersAgain
  BY <1>2, <1>7, StatusStep DEF RegistersAgain, Emits, StatusEmits
<1>8. ASSUME NEW a \in Accounts, Finalizes(a) PROVE SubgraphInv'
  <2>1. PICK e : Emit(e) /\ e = [type |-> "MarketFinalized", winner |-> winningOutcome,
                                 pool |-> distributablePool']
    BY <1>8 DEF Finalizes
  <2>2. StatusEmits(e)
    BY <1>8, <2>1 DEF StatusEmits
  <2> QED
    BY <1>2, <2>1, <2>2, StatusStep
<1>9. ASSUME NEW a \in Accounts,
             \/ CloseMarket(a) /\ Emits("MarketClosed")
             \/ \E o \in Outcomes : ProposeResolution(a, o) /\ Emits("ResolutionProposed")
             \/ VoidMarket(a) /\ Emits("MarketVoided")
      PROVE  SubgraphInv'
  BY <1>2, <1>9, StatusStep DEF Emits, StatusEmits
<1>10. CASE /\ \/ Tick \/ RegistryChange
               \/ \E a \in Accounts : ApproveMarket(a) \/ ChallengeResolution(a) \/ Refund(a)
            /\ UNCHANGED <<unhandled, entities, history>>
  BY <1>2, <1>10, QuietStep
<1> QED
  BY <1>3, <1>4, <1>5, <1>6, <1>7, <1>8, <1>9, <1>10 DEF SubgraphNext, Chain, Refunds

\* However far the handlers lag, the entities lead through what they have still to
\* handle to the state of the chain.
THEOREM SubgraphCorrect == SubgraphSpec => []SubgraphInv
BY SubgraphInitInv, SubgraphStepInv, PTL DEF SubgraphSpec

LEMMA CaughtUpInStep ==
  ASSUME SubgraphInv
  PROVE  /\ market.totalPool = Total(poolAmount)
         /\ CaughtUp => InStep(market, poolAmount, user)
<1>1. PICK ms, ps, us :
        /\ Path(unhandled, ms, ps, us)
        /\ ms[1] = market /\ ps[1] = poolAmount /\ us[1] = user
        /\ InStep(ms[Len(unhandled) + 1], ps[Len(unhandled) + 1], us[Len(unhandled) + 1])
  BY DEF SubgraphInv, HandlersCatchUp
<1>2. Len(unhandled) \in Nat /\ (CaughtUp => Len(unhandled) = 0)
  BY LenProperties, EmptySeq DEF CaughtUp, SubgraphInv, ChainTypes
<1> QED
  BY <1>1, <1>2 DEF Path

\* The counters of the subgraph are the market's own once it has caught up, and its
\* total and its pools are in step at every lag.
THEOREM CountersAreTrue == SubgraphSpec => []CountersMatchChain
<1>1. SubgraphInv => CountersMatchChain
  BY CaughtUpInStep DEF CountersMatchChain, InStep
<1> QED
  BY <1>1, SubgraphCorrect, PTL

\* The status the subgraph shows is the last one the chain announced.
THEOREM StatusIsTrue == SubgraphSpec => []StatusMatchesChain
<1>1. SubgraphInv => StatusMatchesChain
  BY CaughtUpInStep DEF StatusMatchesChain, InStep
<1> QED
  BY <1>1, SubgraphCorrect, PTL

\* A market that ended is never shown as running again, at any lag.
THEOREM EndsStay == SubgraphSpec => EndIsShownForGood
<1>1. SubgraphInv /\ [SubgraphNext]_subgraphVars =>
        [market.status \in {"FINALIZED", "VOIDED"} => market'.status = market.status]_subgraphVars
  <2> SUFFICES ASSUME SubgraphInv, SubgraphNext, Ended(market)
               PROVE  market'.status = market.status
    BY DEF Ended
  <2>1. CASE Handle
    BY <2>1, PopPath DEF SubgraphInv, ChainTypes
  <2>2. CASE Chain
    BY <2>2 DEF Chain, Bets, RegistersAgain, Claims, Refunds, Finalizes, Emits, Emit, entities
  <2> QED
    BY <2>1, <2>2 DEF SubgraphNext
<1> QED
  BY <1>1, SubgraphCorrect, PTL DEF SubgraphSpec, EndIsShownForGood

------------------------------------------------------------------------------
(* Why the indexer skips no market, for any number of markets, overlapping  *)
(* runs, blocks and crashes and any page size: every number that can become *)
(* the cursor is below every market that still lacks its row.               *)

\* The markets a cursor at c would never ask for again are all in Postgres.
Safe(c) ==
  /\ c \in 0 .. head
  /\ \A m \in Markets : version[m] # 0 /\ rows[m] = 0 => version[m] > c

\* Committing page p and moving the cursor to its last block would be safe.
SafePage(p) ==
  /\ DOMAIN p \subseteq Markets /\ DOMAIN p # {}
  /\ \A m \in DOMAIN p : p[m] \in 1 .. head
  /\ \A m \in Markets \ DOMAIN p :
       version[m] # 0 /\ rows[m] = 0 => \A n \in DOMAIN p : version[m] > p[n]

Versions ==
  /\ head \in Nat /\ version \in [Markets -> 0 .. head] /\ rows \in [Markets -> Nat]
  /\ \A m, n \in Markets : version[m] = version[n] /\ version[m] # 0 => m = n

CursorInv ==
  /\ Versions
  /\ DOMAIN pc = Runs /\ DOMAIN page = Runs
  /\ DOMAIN afterBlock = Runs /\ DOMAIN newBlock = Runs
  /\ Safe(savedCursor) /\ Safe(lastProcessedBlock)
  /\ \A r \in Runs :
       /\ pc[r] = "fetch"  => Safe(afterBlock[r])
       /\ pc[r] = "commit" => SafePage(page[r])
       /\ pc[r] = "save"   => Safe(newBlock[r])

------------------------------------------------------------------------------
(* Steps of the indexer.                                                    *)

\* A run that ends leaves the others as they are.
LEMMA EndKeeps ==
  ASSUME CursorInv, NEW r \in Runs, End(r)
  PROVE  /\ DOMAIN pc' = Runs /\ DOMAIN page' = Runs
         /\ DOMAIN afterBlock' = Runs /\ DOMAIN newBlock' = Runs
         /\ pc'[r] = "idle"
         /\ \A q \in Runs \ {r} : /\ pc'[q] = pc[q] /\ page'[q] = page[q]
                                  /\ afterBlock'[q] = afterBlock[q]
                                  /\ newBlock'[q] = newBlock[q]
  BY DEF CursorInv, End

\* Postgres only gains rows, and the subgraph's markets stand still: what was safe
\* stays safe.
LEMMA RowsGrow ==
  ASSUME UNCHANGED sourceVars, rows' \in [Markets -> Nat],
         \A m \in Markets : rows[m] # 0 => rows'[m] # 0
  PROVE  /\ \A c : Safe(c) => Safe(c)'
         /\ \A p : SafePage(p) => SafePage(p)'
         /\ Versions => Versions'
  BY DEF sourceVars, Safe, SafePage, Versions

\* A block moves one market, and moves it past everything.
LEMMA BlockKeeps ==
  ASSUME CursorInv, PerBlock <= 1, NEW ms \in SUBSET Markets, Block(ms)
  PROVE  CursorInv'
PROOF
  <1>1. /\ head' = head + 1 /\ head \in Nat
        /\ version' = [m \in Markets |-> IF m \in ms THEN head + 1 ELSE version[m]]
        /\ UNCHANGED <<rows, savedCursor, lastProcessedBlock, runVars>>
        /\ version \in [Markets -> 0 .. head] /\ rows \in [Markets -> Nat]
    BY DEF Block, CursorInv, Versions
  <1>2. \A m, n \in ms : m = n
    <2>1. IsFiniteSet(ms) /\ Cardinality(ms) \in Nat /\ Cardinality(ms) <= 1 /\ ms # {}
      BY IndexerAssumption, FS_Subset, FS_CardinalityType DEF Block
    <2>2. Cardinality(ms) = 1
      BY <2>1, FS_EmptySet
    <2>3. \E x : ms = {x}
      BY <2>1, <2>2, FS_Singleton
    <2> QED BY <2>3
  <1>3. Versions'
    <2>1. \A m \in Markets : version'[m] = IF m \in ms THEN head + 1 ELSE version[m]
      BY <1>1
    <2>2. \A m \in Markets : version[m] \in Nat /\ version[m] < head + 1
      BY <1>1
    <2>3. ASSUME NEW m \in Markets, NEW n \in Markets, version'[m] = version'[n], version'[m] # 0
          PROVE  m = n
      BY <1>1, <1>2, <2>1, <2>2, <2>3 DEF CursorInv, Versions
    <2> QED BY <1>1, <2>3 DEF Versions
  <1>4. \A m \in Markets : version'[m] = version[m] \/ version'[m] > head
    BY <1>1
  <1>5. ASSUME NEW c, Safe(c) PROVE Safe(c)'
    <2>1. c \in 0 .. head'
      BY <1>1, <1>5 DEF Safe
    <2>2. ASSUME NEW m \in Markets, version'[m] # 0, rows'[m] = 0 PROVE version'[m] > c
      BY <1>1, <1>4, <1>5, <2>2 DEF Safe
    <2> QED BY <2>1, <2>2 DEF Safe
  <1>6. ASSUME NEW p, SafePage(p) PROVE SafePage(p)'
    <2>1. \A m \in DOMAIN p : p[m] \in 1 .. head /\ p[m] \in 1 .. head'
      BY <1>1, <1>6 DEF SafePage
    <2>2. ASSUME NEW m \in Markets \ DOMAIN p, version'[m] # 0, rows'[m] = 0, NEW n \in DOMAIN p
          PROVE  version'[m] > p[n]
      BY <1>1, <1>4, <1>6, <2>1, <2>2 DEF SafePage
    <2> QED BY <1>6, <2>1, <2>2 DEF SafePage
  <1> QED BY <1>1, <1>3, <1>5, <1>6 DEF CursorInv, runVars

LEMMA FetchKeeps ==
  ASSUME CursorInv, NEW r \in Runs, Fetch(r)
  PROVE  CursorInv'
PROOF
  <1>1. /\ pc[r] = "fetch" /\ Safe(afterBlock[r]) /\ Versions
        /\ UNCHANGED <<head, version, hasBlockNumber, rows, savedCursor, lastProcessedBlock>>
    BY DEF Fetch, CursorInv, sourceVars
  <1>2. /\ \A c : Safe(c) => Safe(c)'
        /\ \A p : SafePage(p) => SafePage(p)'
        /\ Versions'
    BY <1>1, RowsGrow DEF Versions, sourceVars
  <1>3. CASE End(r)
    BY <1>1, <1>2, <1>3, EndKeeps DEF CursorInv
  <1>4. ASSUME NEW ms \in Pages(afterBlock[r]), ms # {},
               page' = [page EXCEPT ![r] = [m \in ms |-> version[m]]],
               pc' = [pc EXCEPT ![r] = "commit"], UNCHANGED <<afterBlock, newBlock>>
        PROVE  CursorInv'
    <2> DEFINE p == [m \in ms |-> version[m]]
               c == afterBlock[r]
    <2>1. /\ ms \subseteq After(c)
          /\ \A m \in ms, n \in After(c) \ ms : version[m] <= version[n]
      BY <1>4 DEF Pages
    <2>2. ASSUME NEW m \in Markets \ ms, version[m] # 0, rows[m] = 0, NEW n \in ms
          PROVE  version[m] > p[n]
      <3>1. version[m] > c
        BY <1>1, <2>2 DEF Safe
      <3>2. m \in After(c) \ ms /\ n \in Markets
        BY <2>1, <2>2, <3>1 DEF After
      <3>3. version[n] <= version[m] /\ version[n] # version[m]
        BY <1>1, <2>1, <2>2, <3>2 DEF Versions
      <3> QED BY <1>1, <3>2, <3>3 DEF Versions
    <2>3. ASSUME NEW n \in ms PROVE n \in Markets /\ p[n] \in 1 .. head
      <3>1. n \in Markets /\ version[n] > c /\ c \in 0 .. head
        BY <1>1, <2>1 DEF After, Safe
      <3> QED BY <1>1, <3>1 DEF Versions
    <2>4. SafePage(p)
      BY <1>4, <2>2, <2>3 DEF SafePage
    <2>5. /\ pc'[r] = "commit" /\ page'[r] = p
          /\ \A q \in Runs \ {r} : pc'[q] = pc[q] /\ page'[q] = page[q]
          /\ DOMAIN pc' = Runs /\ DOMAIN page' = Runs
      BY <1>4 DEF CursorInv
    <2> HIDE DEF p, c
    <2> QED BY <1>1, <1>2, <1>4, <2>4, <2>5 DEF CursorInv
  <1> QED BY <1>3, <1>4 DEF Fetch

\* The last block of a page is the largest of its versions.
LEMMA LastOfPage ==
  ASSUME CursorInv, NEW p, SafePage(p)
  PROVE  /\ MaxBlockOf(p) \in 1 .. head
         /\ \E n \in DOMAIN p : MaxBlockOf(p) = p[n]
         /\ \A n \in DOMAIN p : p[n] <= MaxBlockOf(p)
PROOF
  <1> DEFINE S == {p[m] : m \in DOMAIN p}
  <1>1. head \in Nat
    BY DEF CursorInv, Versions
  <1>2. S \in SUBSET (1 .. head) /\ S # {}
    BY DEF SafePage
  <1>3. S \in SUBSET Nat /\ \A x \in S : x <= head
    BY <1>1, <1>2
  <1>4. \E x \in S : \A y \in S : x >= y
    <2> HIDE DEF S
    <2>1. PICK x \in S : \A y \in S : y <= x
      BY <1>1, <1>2, <1>3, LargestExists
    <2> QED BY <1>3, <2>1
  <1>5. Max(S) \in S /\ \A y \in S : Max(S) >= y
    <2> HIDE DEF S
    <2> QED BY <1>4 DEF Max
  <1>6. MaxBlockOf(p) = Max(S)
    BY DEF MaxBlockOf
  <1>7. MaxBlockOf(p) \in S /\ \A y \in S : y <= MaxBlockOf(p)
    BY <1>2, <1>5, <1>6
  <1> QED BY <1>2, <1>7

\* The rows of a committed page are there, so that its last block is a safe cursor.
LEMMA CommittedIsSafe ==
  ASSUME CursorInv, NEW p, SafePage(p), UNCHANGED sourceVars, rows' = Upserted(p)
  PROVE  /\ rows' \in [Markets -> Nat]
         /\ \A m \in Markets : rows[m] # 0 => rows'[m] # 0
         /\ Safe(MaxBlockOf(p))'
PROOF
  <1>1. /\ head \in Nat /\ rows \in [Markets -> Nat] /\ head' = head /\ version' = version
    BY DEF CursorInv, Versions, sourceVars
  <1>2. \A m \in DOMAIN p : p[m] \in Nat \ {0}
    BY <1>1 DEF SafePage
  <1>3. rows' \in [Markets -> Nat] /\ \A m \in Markets : rows[m] # 0 => rows'[m] # 0
    BY <1>1, <1>2 DEF Upserted
  <1>4. ASSUME NEW m \in Markets, rows'[m] = 0 PROVE m \notin DOMAIN p /\ rows[m] = 0
    BY <1>2, <1>4 DEF Upserted
  <1>5. MaxBlockOf(p) \in 1 .. head /\ \E n \in DOMAIN p : MaxBlockOf(p) = p[n]
    BY LastOfPage
  <1>6. ASSUME NEW m \in Markets, version'[m] # 0, rows'[m] = 0
        PROVE  version'[m] > MaxBlockOf(p)
    BY <1>1, <1>4, <1>5, <1>6 DEF SafePage
  <1>7. MaxBlockOf(p)' = MaxBlockOf(p)
    OBVIOUS
  <1> QED BY <1>1, <1>3, <1>5, <1>6, <1>7 DEF Safe

\* A run that keeps its own state keeps what it holds safe.
LEMMA OthersKeep ==
  ASSUME CursorInv, NEW q \in Runs,
         pc'[q] = pc[q], page'[q] = page[q], afterBlock'[q] = afterBlock[q],
         newBlock'[q] = newBlock[q],
         \A c : Safe(c) => Safe(c)', \A p : SafePage(p) => SafePage(p)'
  PROVE  /\ pc'[q] = "fetch"  => Safe(afterBlock[q])'
         /\ pc'[q] = "commit" => SafePage(page[q])'
         /\ pc'[q] = "save"   => Safe(newBlock[q])'
PROOF
  <1>1. /\ pc[q] = "fetch"  => Safe(afterBlock[q])
        /\ pc[q] = "commit" => SafePage(page[q])
        /\ pc[q] = "save"   => Safe(newBlock[q])
    BY DEF CursorInv
  <1>2. CASE pc[q] = "fetch"
    BY <1>1, <1>2 DEF Safe
  <1>3. CASE pc[q] = "commit"
    BY <1>1, <1>3 DEF SafePage
  <1>4. CASE pc[q] = "save"
    BY <1>1, <1>4 DEF Safe
  <1> QED BY <1>2, <1>3, <1>4

LEMMA CommitKeeps ==
  ASSUME CursorInv, NEW r \in Runs, Commit(r)
  PROVE  CursorInv'
PROOF
  <1>0. PICK p, last : p = page[r] /\ last = MaxBlockOf(p)
    OBVIOUS
  <1>1. /\ pc[r] = "commit" /\ SafePage(p) /\ Versions
        /\ UNCHANGED sourceVars /\ rows' = Upserted(p) /\ savedCursor' = savedCursor
    BY <1>0 DEF Commit, CursorInv
  <1>2. /\ rows' \in [Markets -> Nat]
        /\ \A m \in Markets : rows[m] # 0 => rows'[m] # 0
        /\ Safe(last)'
    BY <1>0, <1>1, CommittedIsSafe
  <1>3. /\ \A c : Safe(c) => Safe(c)'
        /\ \A q : SafePage(q) => SafePage(q)'
        /\ Versions'
    BY <1>1, <1>2, RowsGrow
  <1>4. CASE End(r) /\ UNCHANGED lastProcessedBlock
    <2>1. Safe(lastProcessedBlock)' /\ Safe(savedCursor)'
      BY <1>1, <1>3, <1>4 DEF CursorInv, Safe
    <2>2. ASSUME NEW q \in Runs
          PROVE  /\ pc'[q] = "fetch"  => Safe(afterBlock[q])'
                 /\ pc'[q] = "commit" => SafePage(page[q])'
                 /\ pc'[q] = "save"   => Safe(newBlock[q])'
      <3>1. CASE q = r
        BY <1>4, <3>1, EndKeeps
      <3>2. CASE q # r
        BY <1>3, <1>4, <3>2, OthersKeep, EndKeeps
      <3> QED BY <3>1, <3>2
    <2> QED BY <1>3, <1>4, <2>1, <2>2, EndKeeps DEF CursorInv
  <1>5. CASE /\ lastProcessedBlock' = last
             /\ newBlock' = [newBlock EXCEPT ![r] = last]
             /\ page' = [page EXCEPT ![r] = NoPage]
             /\ pc' = [pc EXCEPT ![r] = "save"] /\ UNCHANGED afterBlock
    <2>1. Safe(lastProcessedBlock)' /\ Safe(savedCursor)'
      BY <1>1, <1>2, <1>3, <1>5 DEF CursorInv, Safe
    <2>2. ASSUME NEW q \in Runs
          PROVE  /\ pc'[q] = "fetch"  => Safe(afterBlock[q])'
                 /\ pc'[q] = "commit" => SafePage(page[q])'
                 /\ pc'[q] = "save"   => Safe(newBlock[q])'
      <3>1. CASE q = r
        <4>1. pc'[q] = "save" /\ newBlock'[q] = last
          BY <1>5, <3>1 DEF CursorInv
        <4> QED BY <1>1, <1>2, <4>1 DEF Safe, sourceVars
      <3>2. CASE q # r
        <4>1. /\ pc'[q] = pc[q] /\ page'[q] = page[q]
              /\ afterBlock'[q] = afterBlock[q] /\ newBlock'[q] = newBlock[q]
          BY <1>5, <3>2 DEF CursorInv
        <4> QED BY <1>3, <4>1, OthersKeep
      <3> QED BY <3>1, <3>2
    <2>3. DOMAIN pc' = Runs /\ DOMAIN page' = Runs /\ DOMAIN afterBlock' = Runs
          /\ DOMAIN newBlock' = Runs
      BY <1>5 DEF CursorInv
    <2> QED BY <1>3, <2>1, <2>2, <2>3 DEF CursorInv
  <1> QED BY <1>0, <1>4, <1>5 DEF Commit

LEMMA ThrowKeeps ==
  ASSUME CursorInv, NEW r \in Runs, Throw(r)
  PROVE  CursorInv'
PROOF
  <1>1. /\ End(r) /\ UNCHANGED <<head, version, hasBlockNumber>> /\ lastProcessedBlock' = lastProcessedBlock
        /\ Versions
    BY DEF Throw, CursorInv, sourceVars
  <1>2. rows' \in [Markets -> Nat] /\ \A m \in Markets : rows[m] # 0 => rows'[m] # 0
    <2>1. CASE rows' = rows
      BY <1>1, <2>1 DEF Versions
    <2>2. CASE pc[r] = "commit" /\ rows' = Upserted(page[r])
      BY <1>1, <2>2, CommittedIsSafe DEF CursorInv, sourceVars
    <2> QED BY <2>1, <2>2 DEF Throw
  <1>3. /\ \A c : Safe(c) => Safe(c)'
        /\ \A q : SafePage(q) => SafePage(q)'
        /\ Versions'
    BY <1>1, <1>2, RowsGrow DEF sourceVars
  <1>4. Safe(savedCursor')
    BY DEF Throw, CursorInv
  <1>5. Safe(savedCursor)'
    BY <1>3, <1>4 DEF Safe
  <1> QED BY <1>1, <1>3, <1>5, EndKeeps DEF CursorInv

LEMMA StepCursor == PerBlock <= 1 /\ CursorInv /\ [IndexerNext]_indexerVars => CursorInv'
PROOF
  <1> SUFFICES ASSUME PerBlock <= 1, CursorInv, [IndexerNext]_indexerVars PROVE CursorInv'
    OBVIOUS
  <1>1. ASSUME NEW ms \in SUBSET Markets, Block(ms) PROVE CursorInv'
    BY <1>1, BlockKeeps
  <1>2. ASSUME NEW r \in Runs, Ask(r) PROVE CursorInv'
    BY <1>2 DEF Ask, sourceVars, CursorInv, Versions, Safe, SafePage
  <1>3. ASSUME NEW r \in Runs, Fetch(r) PROVE CursorInv'
    BY <1>3, FetchKeeps
  <1>4. ASSUME NEW r \in Runs, Commit(r) PROVE CursorInv'
    BY <1>4, CommitKeeps
  <1>5. ASSUME NEW r \in Runs, SaveCursor(r) PROVE CursorInv'
    <2>1. UNCHANGED <<head, version, hasBlockNumber, rows, lastProcessedBlock>> /\ savedCursor' = newBlock[r]
          /\ End(r) /\ pc[r] = "save"
      BY <1>5 DEF SaveCursor, sourceVars
    <2>2. /\ \A c : Safe(c) => Safe(c)'
          /\ \A q : SafePage(q) => SafePage(q)'
          /\ Versions'
      BY <2>1, RowsGrow DEF CursorInv, Versions, sourceVars
    <2>3. Safe(savedCursor)'
      BY <2>1, <2>2 DEF CursorInv, Safe
    <2> QED BY <2>1, <2>2, <2>3, EndKeeps DEF CursorInv
  <1>6. ASSUME NEW r \in Runs, Throw(r) PROVE CursorInv'
    BY <1>6, ThrowKeeps
  <1>7. CASE Crash
    BY <1>7 DEF Crash, sourceVars, CursorInv, Versions, Safe
  <1>8. CASE LoadCursor
    <2>1. UNCHANGED <<head, version, hasBlockNumber, rows, savedCursor, pc, afterBlock, page, newBlock>>
          /\ lastProcessedBlock' \in {savedCursor, 0}
      BY <1>8 DEF LoadCursor, Loaded, sourceVars, runVars
    <2>2. Safe(0)
      <3>1. /\ head \in Nat /\ \A m \in Markets : version[m] \in Nat
        BY DEF CursorInv, Versions
      <3> QED BY <3>1 DEF Safe
    <2>3. Safe(lastProcessedBlock')
      BY <2>1, <2>2 DEF CursorInv
    <2> QED BY <2>1, <2>3 DEF CursorInv, Versions, Safe, SafePage
  <1>9. CASE UNCHANGED indexerVars
    BY <1>9 DEF indexerVars, sourceVars, runVars, CursorInv, Versions, Safe, SafePage
  <1> QED BY <1>1, <1>2, <1>3, <1>4, <1>5, <1>6, <1>7, <1>8, <1>9 DEF IndexerNext

\* When blocks change one market at a time, no overlap of runs, no order of saved
\* cursors, no failed step and no crash makes the indexer skip a market.
THEOREM NoneIsSkipped ==
  ASSUME PerBlock <= 1
  PROVE  IndexerSpec => []NoMarketIsSkipped
PROOF
  <1>1. IndexerInit => CursorInv
    BY DEF IndexerInit, Idle, CursorInv, Versions, Safe
  <1>2. CursorInv /\ [IndexerNext]_indexerVars => CursorInv'
    BY StepCursor
  <1>3. CursorInv => NoMarketIsSkipped
    BY DEF CursorInv, Safe, NoMarketIsSkipped
  <1> QED BY <1>1, <1>2, <1>3, PTL DEF IndexerSpec

------------------------------------------------------------------------------
(* What overlap costs: while no two runs overlap, the rows behind a cursor  *)
(* are those of the subgraph.                                               *)

Stale(m) == version[m] # 0 /\ rows[m] # version[m]

\* A cursor at c still asks for every market whose row is not up to date.
Past(c) == \A m \in Markets : Stale(m) => version[m] > c

\* What changed since page p was fetched is after every cursor, and what p leaves out
\* after its last block.
Whole(p) ==
  /\ \A m \in DOMAIN p : p[m] # version[m] =>
       /\ version[m] > savedCursor /\ version[m] > lastProcessedBlock
       /\ \A n \in DOMAIN p : version[m] > p[n]
  /\ \A m \in Markets \ DOMAIN p : Stale(m) => \A n \in DOMAIN p : version[m] > p[n]

CurrentInv ==
  /\ CursorInv /\ Past(savedCursor) /\ Past(lastProcessedBlock)
  /\ \A r \in Runs :
       /\ pc[r] = "fetch"  => Past(afterBlock[r])
       /\ pc[r] = "commit" => Whole(page[r])
       /\ pc[r] = "save"   => Past(newBlock[r])

LEMMA BlockCurrent ==
  ASSUME CurrentInv, CursorInv', NEW ms \in SUBSET Markets, Block(ms)
  PROVE  CurrentInv'
<1>1. /\ head \in Nat /\ version \in [Markets -> 0 .. head]
      /\ UNCHANGED <<rows, savedCursor, lastProcessedBlock, pc, afterBlock, page, newBlock>>
      /\ \A m \in Markets : version'[m] = version[m] \/ version'[m] = head + 1
  BY DEF Block, CurrentInv, CursorInv, Versions, runVars
<1>2. ASSUME NEW c \in 0 .. head, Past(c) PROVE Past(c)'
  BY <1>1, <1>2 DEF Past, Stale
<1>3. savedCursor \in 0 .. head /\ lastProcessedBlock \in 0 .. head
  BY DEF CurrentInv, CursorInv, Safe
<1>4. ASSUME NEW p, SafePage(p), Whole(p) PROVE Whole(p)'
  <2>1. /\ \A n \in DOMAIN p : p[n] \in 1 .. head
        /\ DOMAIN p \subseteq Markets
    BY <1>4 DEF SafePage
  <2>2. ASSUME NEW m \in Markets, version'[m] = head + 1
        PROVE  /\ version'[m] > savedCursor' /\ version'[m] > lastProcessedBlock'
               /\ \A n \in DOMAIN p : version'[m] > p[n]
    BY <1>1, <1>3, <2>1, <2>2
  <2>3. ASSUME NEW m \in Markets, version'[m] = version[m]
        PROVE  /\ m \in DOMAIN p /\ p[m] # version'[m] =>
                    /\ version'[m] > savedCursor' /\ version'[m] > lastProcessedBlock'
                    /\ \A n \in DOMAIN p : version'[m] > p[n]
               /\ m \notin DOMAIN p /\ Stale(m)' => \A n \in DOMAIN p : version'[m] > p[n]
    BY <1>1, <1>4, <2>3 DEF Whole, Stale
  <2> QED
    BY <1>1, <2>1, <2>2, <2>3 DEF Whole
<1>5. ASSUME NEW r \in Runs
      PROVE  /\ pc'[r] = "fetch"  => Past(afterBlock[r])'
             /\ pc'[r] = "commit" => Whole(page[r])'
             /\ pc'[r] = "save"   => Past(newBlock[r])'
  <2>1. CASE pc[r] = "fetch"
    <3>1. PICK c \in 0 .. head : c = afterBlock[r] /\ Past(c)
      BY <2>1 DEF CurrentInv, CursorInv, Safe
    <3>2. Past(c)'
      BY <1>2, <3>1
    <3> QED
      BY <1>1, <2>1, <3>1, <3>2 DEF Past
  <2>2. CASE pc[r] = "commit"
    <3>1. PICK p : p = page[r] /\ SafePage(p) /\ Whole(p)
      BY <2>2 DEF CurrentInv, CursorInv
    <3>2. Whole(p)'
      BY <1>4, <3>1
    <3> QED
      BY <1>1, <2>2, <3>1, <3>2
  <2>3. CASE pc[r] = "save"
    <3>1. PICK c \in 0 .. head : c = newBlock[r] /\ Past(c)
      BY <2>3 DEF CurrentInv, CursorInv, Safe
    <3>2. Past(c)'
      BY <1>2, <3>1
    <3> QED
      BY <1>1, <2>3, <3>1, <3>2 DEF Past
  <2> QED
    BY <1>1, <2>1, <2>2, <2>3
<1>6. Past(savedCursor)' /\ Past(lastProcessedBlock)'
  <2>1. PICK s \in 0 .. head, l \in 0 .. head :
          s = savedCursor /\ l = lastProcessedBlock /\ Past(s) /\ Past(l)
    BY <1>3 DEF CurrentInv
  <2>2. Past(s)' /\ Past(l)'
    BY <1>2, <2>1
  <2> QED
    BY <1>1, <2>1, <2>2 DEF Past
<1> QED
  BY <1>5, <1>6 DEF CurrentInv

\* Nothing but the rows of a page moves when it is written, and what is not up to
\* date then is after the page and after every cursor.
LEMMA WrittenIsCurrent ==
  ASSUME CurrentInv, NEW p, SafePage(p), Whole(p), UNCHANGED sourceVars, rows' = Upserted(p)
  PROVE  /\ Past(MaxBlockOf(p))'
         /\ \A m \in Markets : Stale(m)' => version[m] > savedCursor /\ version[m] > lastProcessedBlock
<1>1. /\ version' = version /\ \A m \in Markets : rows'[m] = IF m \in DOMAIN p THEN p[m] ELSE rows[m]
      /\ DOMAIN p \subseteq Markets
  BY DEF sourceVars, Upserted, SafePage
<1>2. PICK n \in DOMAIN p : MaxBlockOf(p) = p[n]
  BY LastOfPage DEF CurrentInv
<1>3. ASSUME NEW m \in Markets, Stale(m)'
      PROVE  /\ version[m] > savedCursor /\ version[m] > lastProcessedBlock /\ version[m] > p[n]
  <2>1. CASE m \in DOMAIN p
    BY <1>1, <1>3, <2>1 DEF Whole, Stale
  <2>2. CASE m \notin DOMAIN p
    BY <1>1, <1>3, <2>2 DEF Whole, Stale, CurrentInv, Past
  <2> QED
    BY <2>1, <2>2
<1>4. MaxBlockOf(p)' = MaxBlockOf(p)
  OBVIOUS
<1> QED
  BY <1>1, <1>2, <1>3, <1>4 DEF Past

\* A run that ends, the only one.
LEMMA EndCurrent ==
  ASSUME CurrentInv, CursorInv', NEW r \in Runs, \A q \in Runs : q = r, End(r),
         Past(savedCursor)', Past(lastProcessedBlock)'
  PROVE  CurrentInv'
<1>1. pc'[r] = "idle"
  BY DEF End, CurrentInv, CursorInv
<1> QED
  BY <1>1 DEF CurrentInv

LEMMA FetchCurrent ==
  ASSUME CurrentInv, CursorInv', NEW r \in Runs, \A q \in Runs : q = r, Fetch(r)
  PROVE  CurrentInv'
<1>1. /\ pc[r] = "fetch" /\ Past(afterBlock[r]) /\ Versions
      /\ UNCHANGED <<head, version, hasBlockNumber, rows, savedCursor, lastProcessedBlock>>
  BY DEF Fetch, CurrentInv, CursorInv, sourceVars
<1>2. Past(savedCursor)' /\ Past(lastProcessedBlock)'
  BY <1>1 DEF CurrentInv, Past, Stale
<1>3. CASE End(r)
  BY <1>2, <1>3, EndCurrent
<1>4. ASSUME NEW ms \in Pages(afterBlock[r]), page' = [page EXCEPT ![r] = [m \in ms |-> version[m]]],
             pc' = [pc EXCEPT ![r] = "commit"]
      PROVE  CurrentInv'
  <2> DEFINE p == [m \in ms |-> version[m]]
             c == afterBlock[r]
  <2>1. /\ ms \subseteq After(c)
        /\ \A m \in ms, n \in After(c) \ ms : version[m] <= version[n]
    BY <1>4 DEF Pages
  <2>2. ASSUME NEW m \in Markets \ ms, Stale(m), NEW n \in ms
        PROVE  version[m] > p[n]
    <3>1. version[m] > c /\ version[m] # 0
      BY <1>1, <2>2 DEF Past, Stale
    <3>2. m \in After(c) \ ms /\ n \in Markets
      BY <2>1, <2>2, <3>1 DEF After
    <3>3. version[n] <= version[m] /\ version[n] # version[m]
      BY <1>1, <2>1, <2>2, <3>1, <3>2 DEF Versions
    <3> QED BY <1>1, <3>2, <3>3 DEF Versions
  <2>3. /\ \A m \in DOMAIN p : p[m] = version[m]
        /\ \A m \in Markets \ DOMAIN p : Stale(m) => \A n \in DOMAIN p : version[m] > p[n]
    BY <2>2
  <2>4. pc'[r] = "commit" /\ page'[r] = p
    BY <1>4 DEF CurrentInv, CursorInv
  <2> HIDE DEF p, c
  <2>5. Whole(page[r])'
    <3>1. PICK q : q = page'[r]
      OBVIOUS
    <3>2. /\ \A m \in DOMAIN q : q[m] = version[m]
          /\ \A m \in Markets \ DOMAIN q : Stale(m) => \A n \in DOMAIN q : version[m] > q[n]
      BY <2>3, <2>4, <3>1
    <3> QED
      BY <1>1, <3>1, <3>2 DEF Whole, Stale
  <2> QED
    BY <1>2, <2>4, <2>5 DEF CurrentInv
<1> QED
  BY <1>3, <1>4 DEF Fetch

LEMMA CommitCurrent ==
  ASSUME CurrentInv, CursorInv', NEW r \in Runs, \A q \in Runs : q = r, Commit(r)
  PROVE  CurrentInv'
<1>1. PICK p, last : p = page[r] /\ last = MaxBlockOf(p)
  OBVIOUS
<1>2. /\ SafePage(p) /\ Whole(p) /\ UNCHANGED sourceVars /\ rows' = Upserted(p)
      /\ savedCursor' = savedCursor
  BY <1>1 DEF Commit, CurrentInv, CursorInv
<1>3. /\ Past(last)' /\ version' = version
      /\ \A m \in Markets : Stale(m)' => version[m] > savedCursor /\ version[m] > lastProcessedBlock
  BY <1>1, <1>2, WrittenIsCurrent DEF sourceVars, Past
<1>4. Past(savedCursor)'
  BY <1>2, <1>3 DEF Past
<1>5. CASE End(r) /\ UNCHANGED lastProcessedBlock
  <2>1. Past(lastProcessedBlock)'
    BY <1>3, <1>5 DEF Past
  <2> QED
    BY <1>4, <1>5, <2>1, EndCurrent
<1>6. CASE /\ lastProcessedBlock' = last /\ newBlock' = [newBlock EXCEPT ![r] = last]
           /\ pc' = [pc EXCEPT ![r] = "save"]
  <2>1. pc'[r] = "save" /\ newBlock'[r] = last
    BY <1>6 DEF CurrentInv, CursorInv
  <2>2. Past(lastProcessedBlock)' /\ Past(newBlock[r])'
    BY <1>3, <1>6, <2>1 DEF Past
  <2> QED
    BY <1>4, <2>1, <2>2 DEF CurrentInv
<1> QED
  BY <1>1, <1>5, <1>6 DEF Commit

LEMMA ThrowCurrent ==
  ASSUME CurrentInv, CursorInv', NEW r \in Runs, \A q \in Runs : q = r, Throw(r)
  PROVE  CurrentInv'
<1>1. /\ End(r) /\ UNCHANGED sourceVars /\ version' = version /\ lastProcessedBlock' = lastProcessedBlock
  BY DEF Throw, sourceVars
<1>2. CASE rows' = rows
  <2>1. Past(lastProcessedBlock)'
    BY <1>1, <1>2 DEF CurrentInv, Past, Stale
  <2>2. savedCursor' = savedCursor \/ (pc[r] = "save" /\ savedCursor' = newBlock[r])
    BY DEF Throw
  <2>3. Past(savedCursor)'
    BY <1>1, <1>2, <2>2 DEF CurrentInv, Past, Stale
  <2> QED
    BY <1>1, <2>1, <2>3, EndCurrent
<1>3. CASE pc[r] = "commit" /\ rows' = Upserted(page[r])
  <2>1. PICK p : p = page[r] /\ SafePage(p) /\ Whole(p)
    BY <1>3 DEF CurrentInv, CursorInv
  <2>2. \A m \in Markets : Stale(m)' => version[m] > savedCursor /\ version[m] > lastProcessedBlock
    BY <1>1, <1>3, <2>1, WrittenIsCurrent
  <2>3. savedCursor' = savedCursor
    BY <1>3 DEF Throw
  <2>4. Past(lastProcessedBlock)' /\ Past(savedCursor)'
    BY <1>1, <2>2, <2>3 DEF Past
  <2> QED
    BY <1>1, <2>4, EndCurrent
<1> QED
  BY <1>2, <1>3 DEF Throw

\* Steps that touch neither source nor rows, and no run but to let it start.
LEMMA StillCurrent ==
  ASSUME CurrentInv, CursorInv', UNCHANGED <<version, rows, savedCursor>>,
         lastProcessedBlock' \in {lastProcessedBlock, savedCursor, 0},
         \A r \in Runs : \/ pc'[r] = "idle"
                         \/ pc'[r] = "fetch" /\ afterBlock'[r] = lastProcessedBlock
                         \/ UNCHANGED runVars
  PROVE  CurrentInv'
<1>1. \A c : Past(c) => Past(c)'
  BY DEF Past, Stale
<1>2. Past(0)
  BY DEF Past, Stale, CurrentInv, CursorInv, Versions
<1>3. Past(lastProcessedBlock') /\ Past(savedCursor')
  BY <1>2 DEF CurrentInv
<1>4. Past(lastProcessedBlock)' /\ Past(savedCursor)'
  BY <1>3 DEF Past, Stale
<1>5. ASSUME NEW r \in Runs
      PROVE  /\ pc'[r] = "fetch"  => Past(afterBlock[r])'
             /\ pc'[r] = "commit" => Whole(page[r])'
             /\ pc'[r] = "save"   => Past(newBlock[r])'
  <2>1. CASE pc'[r] = "idle"
    BY <2>1
  <2>2. CASE pc'[r] = "fetch" /\ afterBlock'[r] = lastProcessedBlock
    BY <2>2 DEF CurrentInv, Past, Stale
  <2>3. CASE UNCHANGED runVars
    <3>1. ASSUME pc[r] = "commit" PROVE Whole(page[r])'
      <4>1. PICK p : p = page[r] /\ Whole(p) /\ SafePage(p)
        BY <3>1 DEF CurrentInv, CursorInv
      <4>2. \A m \in DOMAIN p : p[m] # version[m] =>
              version[m] > savedCursor /\ version[m] > lastProcessedBlock /\ version[m] > 0
        BY <4>1 DEF Whole, SafePage, CurrentInv, CursorInv, Versions, Safe
      <4>3. page'[r] = p
        BY <2>3, <4>1 DEF runVars
      <4> QED
        BY <4>1, <4>2, <4>3 DEF Whole, Stale
    <3>2. /\ pc[r] = "fetch" => Past(afterBlock[r])'
          /\ pc[r] = "save"  => Past(newBlock[r])'
      BY <2>3 DEF CurrentInv, Past, Stale, runVars
    <3> QED
      BY <2>3, <3>1, <3>2 DEF runVars
  <2> QED
    BY <2>1, <2>2, <2>3
<1> QED
  BY <1>4, <1>5 DEF CurrentInv

LEMMA SaveCurrent ==
  ASSUME CurrentInv, CursorInv', NEW r \in Runs, \A q \in Runs : q = r, SaveCursor(r)
  PROVE  CurrentInv'
<1>1. /\ End(r) /\ UNCHANGED <<version, rows, lastProcessedBlock>>
      /\ pc[r] = "save" /\ savedCursor' = newBlock[r]
  BY DEF SaveCursor, sourceVars
<1>2. Past(lastProcessedBlock)' /\ Past(savedCursor)'
  BY <1>1 DEF CurrentInv, Past, Stale
<1> QED
  BY <1>1, <1>2, EndCurrent

LEMMA CurrentStep ==
  ASSUME PerBlock <= 1, \A q, r \in Runs : q = r, CurrentInv, [IndexerNext]_indexerVars
  PROVE  CurrentInv'
<1>1. CursorInv'
  BY StepCursor DEF CurrentInv
<1>2. ASSUME NEW ms \in SUBSET Markets, Block(ms) PROVE CurrentInv'
  BY <1>1, <1>2, BlockCurrent
<1>3. ASSUME NEW r \in Runs, Fetch(r) \/ Commit(r) \/ SaveCursor(r) \/ Throw(r) PROVE CurrentInv'
  BY <1>1, <1>3, FetchCurrent, CommitCurrent, SaveCurrent, ThrowCurrent
<1>4. ASSUME NEW r \in Runs, Ask(r) PROVE CurrentInv'
  <2>1. /\ UNCHANGED <<version, rows, savedCursor, lastProcessedBlock>>
        /\ pc' = [pc EXCEPT ![r] = "fetch"]
        /\ afterBlock' = [afterBlock EXCEPT ![r] = lastProcessedBlock]
    BY <1>4 DEF Ask, sourceVars
  <2>2. \A q \in Runs : pc'[q] = "fetch" /\ afterBlock'[q] = lastProcessedBlock
    BY <2>1 DEF CurrentInv, CursorInv
  <2> QED
    BY <1>1, <2>1, <2>2, StillCurrent
<1>5. CASE Crash
  <2>1. UNCHANGED <<version, rows, savedCursor, lastProcessedBlock>> /\ \A r \in Runs : pc'[r] = "idle"
    BY <1>5 DEF Crash, sourceVars
  <2> QED
    BY <1>1, <2>1, StillCurrent
<1>6. CASE LoadCursor
  <2>1. /\ UNCHANGED <<version, rows, savedCursor>> /\ UNCHANGED runVars
        /\ lastProcessedBlock' \in {savedCursor, 0}
    BY <1>6 DEF LoadCursor, Loaded, sourceVars
  <2> QED
    BY <1>1, <2>1, StillCurrent
<1>7. CASE UNCHANGED indexerVars
  BY <1>1, <1>7, StillCurrent DEF indexerVars, sourceVars, runVars
<1> QED
  BY <1>2, <1>3, <1>4, <1>5, <1>6, <1>7 DEF IndexerNext

\* No cursor, in memory or saved, is past a market whose row is not its last state.
RowsAreCurrent ==
  \A m \in Markets :
    version[m] # 0 /\ (version[m] <= lastProcessedBlock \/ version[m] <= savedCursor)
      => rows[m] = version[m]

\* When blocks change one market at a time and no run overlaps the next, Postgres holds
\* the last state of every market behind the cursor, over failed steps and crashes.
THEOREM RowsStayCurrent ==
  ASSUME PerBlock <= 1, \A q, r \in Runs : q = r
  PROVE  IndexerSpec => []RowsAreCurrent
<1>1. IndexerInit => CurrentInv
  BY DEF IndexerInit, Idle, CursorInv, Versions, Safe, CurrentInv, Past, Stale
<1>2. CurrentInv /\ [IndexerNext]_indexerVars => CurrentInv'
  BY CurrentStep
<1>3. CurrentInv => RowsAreCurrent
  BY DEF CurrentInv, CursorInv, Versions, Safe, Past, Stale, RowsAreCurrent
<1> QED
  BY <1>1, <1>2, <1>3, PTL DEF IndexerSpec

\* Without overlap no row goes back to an older state, however many markets a block
\* changes and however steps fail.
RowsNeverGoBack == [][\A m \in Markets : rows'[m] >= rows[m]]_indexerVars

\* A fetched page is no older than the rows, and no newer than the subgraph.
GrowInv ==
  /\ head \in Nat /\ version \in [Markets -> 0 .. head] /\ rows \in [Markets -> Nat]
  /\ \A m \in Markets : rows[m] <= version[m]
  /\ pc \in [Runs -> {"idle", "fetch", "commit", "save"}] /\ DOMAIN page = Runs
  /\ \A r \in Runs : pc[r] = "commit" =>
       /\ DOMAIN page[r] \subseteq Markets
       /\ \A m \in DOMAIN page[r] : page[r][m] \in rows[m] .. version[m]

\* The rows once page r is written, when the only run is r.
LEMMA WrittenGrows ==
  ASSUME GrowInv, NEW r \in Runs, pc[r] = "commit", UNCHANGED sourceVars, rows' = Upserted(page[r])
  PROVE  /\ rows' \in [Markets -> Nat]
         /\ \A m \in Markets : rows'[m] >= rows[m] /\ rows'[m] <= version'[m]
  BY DEF GrowInv, Upserted, sourceVars

LEMMA GrowStep ==
  ASSUME \A q, r \in Runs : q = r, GrowInv, [IndexerNext]_indexerVars
  PROVE  GrowInv' /\ \A m \in Markets : rows'[m] >= rows[m]
PROOF
  <1>1. ASSUME NEW ms \in SUBSET Markets, Block(ms)
        PROVE  GrowInv' /\ \A m \in Markets : rows'[m] >= rows[m]
    <2>1. /\ head' = head + 1 /\ UNCHANGED <<rows, pc, page>>
          /\ version' = [m \in Markets |-> IF m \in ms THEN head + 1 ELSE version[m]]
      BY <1>1 DEF Block, runVars
    <2>2. version' \in [Markets -> 0 .. head'] /\ \A m \in Markets : version'[m] >= version[m]
      BY <2>1 DEF GrowInv
    <2>3. ASSUME NEW r \in Runs, pc'[r] = "commit"
          PROVE  /\ DOMAIN page'[r] \subseteq Markets
                 /\ \A m \in DOMAIN page'[r] : page'[r][m] \in rows'[m] .. version'[m]
      <3>1. /\ DOMAIN page[r] \subseteq Markets
            /\ \A m \in DOMAIN page[r] : page[r][m] \in rows[m] .. version[m]
        BY <2>1, <2>3 DEF GrowInv
      <3>2. page'[r] = page[r] /\ rows' = rows
        BY <2>1
      <3> QED BY <2>2, <3>1, <3>2 DEF GrowInv
    <2>4. \A m \in Markets : rows'[m] <= version'[m] /\ rows'[m] >= rows[m]
      BY <2>1, <2>2 DEF GrowInv
    <2> QED BY <2>1, <2>2, <2>3, <2>4 DEF GrowInv
  <1>2. ASSUME NEW r \in Runs, Commit(r) \/ (Throw(r) /\ rows' # rows)
        PROVE  GrowInv' /\ \A m \in Markets : rows'[m] >= rows[m]
    <2>1. pc[r] = "commit" /\ rows' = Upserted(page[r]) /\ UNCHANGED sourceVars
      BY <1>2 DEF Commit, Throw
    <2>2. pc' \in [Runs -> {"idle", "save"}] /\ DOMAIN page' = Runs
      BY <1>2 DEF Commit, Throw, End, GrowInv
    <2>3. \A q \in Runs : pc'[q] # "commit"
      BY <2>2
    <2>4. pc' \in [Runs -> {"idle", "fetch", "commit", "save"}]
      BY <2>2
    <2> QED BY <2>1, <2>2, <2>3, <2>4, WrittenGrows DEF GrowInv, sourceVars
  <1>3. ASSUME NEW r \in Runs, Ask(r) \/ SaveCursor(r) \/ (Throw(r) /\ rows' = rows)
        PROVE  GrowInv' /\ \A m \in Markets : rows'[m] >= rows[m]
    <2>1. pc' \in [Runs -> {"idle", "fetch"}] /\ DOMAIN page' = Runs /\ UNCHANGED <<sourceVars, rows>>
      BY <1>3 DEF Ask, SaveCursor, Throw, End, GrowInv
    <2> QED BY <2>1 DEF GrowInv, sourceVars
  <1>4. ASSUME NEW r \in Runs, Fetch(r)
        PROVE  GrowInv' /\ \A m \in Markets : rows'[m] >= rows[m]
    <2>1. UNCHANGED <<sourceVars, rows>>
      BY <1>4 DEF Fetch
    <2>2. CASE End(r)
      <3>1. pc' \in [Runs -> {"idle"}] /\ DOMAIN page' = Runs
        BY <2>2 DEF End, GrowInv
      <3> QED BY <2>1, <3>1 DEF GrowInv, sourceVars
    <2>3. ASSUME NEW ms \in Pages(afterBlock[r]),
                 page' = [page EXCEPT ![r] = [m \in ms |-> version[m]]],
                 pc' = [pc EXCEPT ![r] = "commit"]
          PROVE  GrowInv' /\ \A m \in Markets : rows'[m] >= rows[m]
      <3>1. ms \subseteq Markets
        BY DEF Pages, After
      <3>2. \A q \in Runs : page'[q] = [m \in ms |-> version[m]]
        BY <2>3 DEF GrowInv
      <3>3. \A q \in Runs : /\ DOMAIN page'[q] \subseteq Markets
                            /\ \A m \in DOMAIN page'[q] : page'[q][m] \in rows[m] .. version[m]
        <4>1. \A m \in ms : version[m] \in rows[m] .. version[m]
          BY <3>1 DEF GrowInv
        <4>2. ASSUME NEW q \in Runs
              PROVE  DOMAIN page'[q] = ms /\ \A m \in ms : page'[q][m] = version[m]
          BY <3>2
        <4> QED BY <3>1, <4>1, <4>2
      <3>4. pc' \in [Runs -> {"idle", "fetch", "commit", "save"}] /\ DOMAIN page' = Runs
        BY <2>3 DEF GrowInv
      <3>5. rows' = rows /\ version' = version /\ head' = head
        BY <2>1 DEF sourceVars
      <3>6. \A q \in Runs : pc'[q] = "commit" =>
              /\ DOMAIN page'[q] \subseteq Markets
              /\ \A m \in DOMAIN page'[q] : page'[q][m] \in rows'[m] .. version'[m]
        BY <3>3, <3>5
      <3>7. \A m \in Markets : rows'[m] >= rows[m] /\ rows'[m] <= version'[m]
        BY <3>5 DEF GrowInv
      <3>8. head' \in Nat /\ version' \in [Markets -> 0 .. head'] /\ rows' \in [Markets -> Nat]
        BY <3>5 DEF GrowInv
      <3> QED BY <3>4, <3>6, <3>7, <3>8 DEF GrowInv
    <2> QED BY <1>4, <2>2, <2>3 DEF Fetch
  <1>5. CASE Crash
    <2>1. pc' \in [Runs -> {"idle"}] /\ DOMAIN page' = Runs /\ UNCHANGED <<sourceVars, rows>>
      BY <1>5 DEF Crash
    <2> QED BY <2>1 DEF GrowInv, sourceVars
  <1>6. CASE LoadCursor \/ UNCHANGED indexerVars
    <2>1. UNCHANGED <<head, version, hasBlockNumber, rows, pc, page>>
      BY <1>6 DEF LoadCursor, indexerVars, sourceVars, runVars
    <2> QED BY <2>1 DEF GrowInv
  <1> QED BY <1>1, <1>2, <1>3, <1>4, <1>5, <1>6 DEF IndexerNext

THEOREM RowsOnlyGrow ==
  ASSUME \A q, r \in Runs : q = r
  PROVE  IndexerSpec => RowsNeverGoBack
PROOF
  <1>1. IndexerInit => GrowInv
    BY DEF IndexerInit, Idle, GrowInv
  <1>2. GrowInv /\ [IndexerNext]_indexerVars =>
          GrowInv' /\ [\A m \in Markets : rows'[m] >= rows[m]]_indexerVars
    BY GrowStep
  <1> QED BY <1>1, <1>2, PTL DEF IndexerSpec, RowsNeverGoBack
=============================================================================

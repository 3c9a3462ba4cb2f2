---------------------------- MODULE ArenaProtocol ----------------------------
(***************************************************************************)
(* The contracts together: the registry and the factory, and one market    *)
(* that the factory creates and that reads the registry at every call.     *)
(* ArenaMarket leaves its registry free; here it is ArenaRegistry's state, *)
(* so that fee proposals, timelocks and the market's life share one clock. *)
(***************************************************************************)
EXTENDS ArenaFactory

CONSTANTS
  Outcomes, NoOutcome, Vouchers, MarketChoices, MaxSignatureAge,
  MinBet, MaxBet,      \* set at construction, no function changes them
  TheMarket            \* the market followed

ASSUME ProtocolAssumption ==
  /\ TheMarket \in Markets /\ MinBet \in Nat /\ MaxBet \in Nat
  /\ IsFiniteSet(Outcomes) /\ NoOutcome \notin Outcomes
  /\ IsFiniteSet(Vouchers) /\ MaxSignatureAge \in Nat

VARIABLES
  params, feeBpsSnapshot, state, paused, winningOutcome, userStakes, outcomePools,
  totalPool, nonceUsed, challenger, challengeBond, feesCollected, distributablePool,
  hasClaimed, totalClaimed, totalWinningStakeClaimed, balance, wallet, unaccounted,
  payout,
  createdAt,           \* history: when TheMarket was created, 0 before
  changePending        \* history: a fee change was pending then

\* What the market can ask the registry.
View ==
  [ oracles |-> roles["ORACLE"], operators |-> roles["OPERATOR"], treasury |-> treasury,
    protocolFeeBps |-> fees.protocol, creatorFeeBps |-> fees.creator,
    referralFeeBps |-> fees.referral, disputeReserveBps |-> fees.disputeReserve,
    minBet |-> MinBet, maxBet |-> MaxBet, challengeBondAmount |-> challengeBondAmount,
    paused |-> registryPaused, sanctioned |-> sanctioned ]

\* What it can ever answer: any state within the cap of the fees.
Views ==
  {r \in [ oracles : SUBSET Accounts, operators : SUBSET Accounts, treasury : Accounts,
           protocolFeeBps : Nat, creatorFeeBps : Nat, referralFeeBps : Nat,
           disputeReserveBps : Nat, minBet : Nat, maxBet : Nat,
           challengeBondAmount : Nat, paused : BOOLEAN, sanctioned : SUBSET Accounts ] :
     r.protocolFeeBps + r.creatorFeeBps + r.referralFeeBps + r.disputeReserveBps
       <= MAX_FEE_BPS}

M == INSTANCE ArenaMarket WITH
  reg <- View,
  RegistryViews <- Views

\* What is signed and chosen is as in ArenaMarket; the factory creates no market
\* for itself.
ASSUME MarketAssumption ==
  /\ Vouchers \subseteq M!Bet /\ MarketChoices \subseteq M!MarketChoice
  /\ \A p \in MarketChoices : p.creator # Factory

marketVars ==
  <<params, state, paused, winningOutcome, userStakes, outcomePools, totalPool,
    nonceUsed, challenger, challengeBond, feesCollected, distributablePool, hasClaimed,
    totalClaimed, totalWinningStakeClaimed, payout, balance, wallet, unaccounted>>

creationVars == <<feeBpsSnapshot, createdAt, changePending>>

vars == <<registryVars, factoryVars, marketVars, creationVars>>

\* The market's storage before its proxy exists is what initialize writes, but
\* for the snapshot of the fees, which is taken at creation.
Init ==
  /\ FactoryInit
  /\ M!Initialized
  /\ feeBpsSnapshot = 0 /\ createdAt = 0 /\ changePending = FALSE

\* Mutant: the snapshot is never taken.
NoSnapshot == feeBpsSnapshot' = feeBpsSnapshot

Snapshot == feeBpsSnapshot' = totalFeeBps(fees)

CreateTheMarket ==
  /\ \E id \in MarketIds, t \in Tokens : CreateMarket(params.creator, TheMarket, id, t)
  /\ Snapshot
  /\ createdAt' = now /\ changePending' = (feeChangeScheduledAt > 0)
  /\ UNCHANGED marketVars

\* Time passes for both; every other step is of one of the contracts.
Time == Clock /\ UNCHANGED <<factoryVars, marketVars, creationVars>>

Governance ==
  /\ \E caller \in Accounts :
       RoleChange(caller) \/ Timelocked(caller) \/ Setting(caller) \/ Listing(caller)
         \/ Bonding(caller)
  /\ UNCHANGED <<factoryVars, marketVars, creationVars>>

MarketCall ==
  /\ TheMarket \in Deployed
  /\ UNCHANGED <<registryVars, factoryVars, createdAt, changePending>>
  /\ \/ \E n \in 1 .. MaxUnaccounted : M!Receive(n)
     \/ \E v \in Vouchers : M!PlaceBet(v)
     \/ \E a \in Accounts :
          \/ M!ApproveMarket(a) \/ M!CloseMarket(a)
          \/ \E o \in Outcomes : M!ProposeResolution(a, o)
          \/ M!ChallengeResolution(a) \/ M!FinalizeResolution(a) \/ M!VoidMarket(a)
          \/ M!Claim(a) \/ M!Refund(a)

Next == CreateTheMarket \/ Time \/ Governance \/ MarketCall

Spec == Init /\ [][Next]_vars

------------------------------------------------------------------------------
\* The odds a bettor is shown stand for a full timelock: if no fee change was
\* pending when the market was created and it is finalised within the timelock,
\* the winners share at least the pool that getOdds quoted, whatever the admins
\* propose and execute meanwhile.
OddsStandForATimelock ==
  [][ state # "FINALIZED" /\ state' = "FINALIZED"
        /\ ~changePending /\ now < createdAt + Timelock =>
        distributablePool' >= (totalPool * (M!BPS - feeBpsSnapshot)) \div M!BPS ]_vars

\* What the registry answers is always what a market is built for: the cap of the
\* fees included, so the guarantees of ArenaMarket hold under this registry.
MarketMoneyIsSafe ==
  createdAt > 0 =>
    M!EveryTokenAccountedFor /\ M!NobodyLosesBeforeFinal /\ M!WinnersKeepHalf
      /\ M!ClaimsNeverBlocked
=============================================================================

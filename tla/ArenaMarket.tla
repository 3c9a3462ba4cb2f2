----------------------------- MODULE ArenaMarket -----------------------------
(***************************************************************************)
(* One parimutuel market: packages/contracts/src/ArenaMarket.sol.          *)
(*                                                                         *)
(* A transaction is atomic: each external function is one action whose     *)
(* guard is the conjunction of its require statements (a revert is a       *)
(* disabled action), in an order in which any account may call it.  The    *)
(* registry is read at call time, so it is a variable that may change      *)
(* between any two calls (ArenaRegistry models how).  The collateral token *)
(* is external: transfers move exact amounts and revert when the market    *)
(* cannot pay.                                                             *)
(***************************************************************************)
EXTENDS Totals

CONSTANTS
  Accounts,         \* every address but the market itself
  NoAccount,        \* address(0)
  Outcomes,         \* the market's outcome identifiers
  NoOutcome,        \* bytes32(0), and any identifier that is not an outcome
  Vouchers,         \* the Bet messages ever signed for this market
  RegistryViews,    \* the states of the registry the market can read
  MarketChoices,    \* creator, referrer and times passed to initialize
  MaxSignatureAge,  \* 300 seconds in the code
  MaxTime,          \* bound on block.timestamp
  MaxUnaccounted    \* bound on tokens sent to the market outside its functions

BPS == 10000

TotalFeeBps(r) ==
  r.protocolFeeBps + r.creatorFeeBps + r.referralFeeBps + r.disputeReserveBps

RegistryView ==
  [ oracles : SUBSET Accounts, operators : SUBSET Accounts, treasury : Accounts,
    protocolFeeBps : Nat, creatorFeeBps : Nat, referralFeeBps : Nat,
    disputeReserveBps : Nat, minBet : Nat, maxBet : Nat,
    challengeBondAmount : Nat, paused : BOOLEAN, sanctioned : SUBSET Accounts ]

MarketChoice ==
  [ creator : Accounts, referrer : Accounts \cup {NoAccount}, openTime : Nat,
    closeTime : Nat, resolveTime : Nat, challengeWindowSeconds : Nat ]

\* The signed Bet struct and its signer.  Address(0), an unknown outcome and a
\* signer without the oracle role can all reach the contract, which checks.
Bet == [signer : Accounts, user : Accounts \cup {NoAccount},
        outcome : Outcomes \cup {NoOutcome}, amount : Nat, nonce : Nat, deadline : Nat]

ASSUME AccountsAssumption == IsFiniteSet(Accounts) /\ NoAccount \notin Accounts
ASSUME OutcomesAssumption == IsFiniteSet(Outcomes) /\ NoOutcome \notin Outcomes
ASSUME VouchersAssumption == IsFiniteSet(Vouchers) /\ Vouchers \subseteq Bet
\* ArenaRegistry.setFees refuses more than MAX_FEE_BPS = 5000.
ASSUME RegistryAssumption ==
  /\ RegistryViews \subseteq RegistryView
  /\ \A r \in RegistryViews : TotalFeeBps(r) <= 5000
ASSUME ChoicesAssumption == MarketChoices \subseteq MarketChoice
ASSUME BoundsAssumption ==
  MaxSignatureAge \in Nat /\ MaxTime \in Nat /\ MaxUnaccounted \in Nat

VARIABLES
  now,                      \* block.timestamp
  reg,                      \* what the registry answers
  params,                   \* creator, referrer and the market's times
  feeBpsSnapshot,
  state, paused, winningOutcome,
  userStakes, outcomePools, totalPool, nonceUsed,
  challenger, challengeBond,
  feesCollected, distributablePool,
  hasClaimed, totalClaimed, totalWinningStakeClaimed,
  balance,                  \* marketCollateral.balanceOf(market)
  wallet,                   \* what each account gained or lost to the market
  unaccounted,              \* tokens received outside placeBet and challenges
  payout                    \* amounts of the ClaimExecuted events, by account

envVars    == <<now, reg, params, feeBpsSnapshot>>
stakeVars  == <<userStakes, outcomePools, totalPool, nonceUsed>>
bondVars   == <<challenger, challengeBond>>
feeVars    == <<feesCollected, distributablePool>>
claimVars  == <<hasClaimed, totalClaimed, totalWinningStakeClaimed, payout>>
tokenVars  == <<balance, wallet>>
phaseVars  == <<state, paused, winningOutcome>>
vars == <<envVars, stakeVars, bondVars, feeVars, claimVars, tokenVars, phaseVars,
          unaccounted>>

States == {"PENDING_APPROVAL", "OPEN", "CLOSED", "PROPOSED", "CHALLENGED",
           "FINALIZED", "VOIDED"}

Nonces == {v.nonce : v \in Vouchers}

------------------------------------------------------------------------------
(* initialize: called once, by the proxy constructor in ArenaFactory.       *)

InitializeOk(p) == p.openTime < p.closeTime /\ p.closeTime <= p.resolveTime

\* The storage that initialize leaves.
Initialized ==
  /\ params \in {p \in MarketChoices : InitializeOk(p)}
  /\ state = "PENDING_APPROVAL" /\ paused = TRUE
  /\ winningOutcome = NoOutcome
  /\ userStakes = [a \in Accounts |-> [o \in Outcomes |-> 0]]
  /\ outcomePools = [o \in Outcomes |-> 0] /\ totalPool = 0
  /\ nonceUsed = [a \in Accounts |-> {}]
  /\ challenger = NoAccount /\ challengeBond = 0
  /\ feesCollected = FALSE /\ distributablePool = 0
  /\ hasClaimed = [a \in Accounts |-> FALSE]
  /\ totalClaimed = 0 /\ totalWinningStakeClaimed = 0
  /\ payout = [a \in Accounts |-> 0]
  /\ balance = 0 /\ wallet = [a \in Accounts |-> 0] /\ unaccounted = 0

Init ==
  /\ now = 1
  /\ reg \in RegistryViews /\ feeBpsSnapshot = TotalFeeBps(reg)
  /\ Initialized

------------------------------------------------------------------------------
(* The environment: time, the registry's owners, stray or accrued tokens.   *)

Tick == /\ now < MaxTime /\ now' = now + 1
        /\ UNCHANGED <<reg, params, feeBpsSnapshot, stakeVars, bondVars, feeVars,
                       claimVars, tokenVars, phaseVars, unaccounted>>

RegistryChange ==
  /\ reg' \in RegistryViews \ {reg}
  /\ UNCHANGED <<now, params, feeBpsSnapshot, stakeVars, bondVars, feeVars,
                 claimVars, tokenVars, phaseVars, unaccounted>>

\* ArenaFactory's initialLiquidity, the yield of a rebasing collateral, a plain
\* transfer: the market holds the tokens and none of its counters sees them.
Receive(n) ==
  /\ unaccounted + n <= MaxUnaccounted
  /\ unaccounted' = unaccounted + n /\ balance' = balance + n
  /\ UNCHANGED <<envVars, stakeVars, bondVars, feeVars, claimVars, phaseVars, wallet>>

------------------------------------------------------------------------------
(* Transfers of the collateral token.                                       *)

Credit(w, a, n) == [w EXCEPT ![a] = @ + n]

TransferIn(from, n) ==
  /\ balance' = balance + n
  /\ wallet' = Credit(wallet, from, 0 - n)

TransferOut(to, n) ==
  /\ n <= balance
  /\ balance' = balance - n
  /\ wallet' = Credit(wallet, to, n)

------------------------------------------------------------------------------
(* Opening, betting, closing.                                               *)

ApproveMarket(caller) ==
  /\ caller \in reg.oracles /\ state = "PENDING_APPROVAL" /\ paused
  /\ state' = "OPEN" /\ paused' = FALSE
  /\ UNCHANGED <<envVars, stakeVars, bondVars, feeVars, claimVars, tokenVars,
                 winningOutcome, unaccounted>>

\* Mutants: an unknown outcome is let through; the nonces of the signer are
\* looked up instead of the bettor's.
AnyOutcome(o) == TRUE
FreshForSigner(v) == v.nonce \notin nonceUsed[v.signer]

ValidOutcome(o) == o \in Outcomes

FreshNonce(v) == v.nonce \notin nonceUsed[v.user]

\* Mutant: no cap.
Uncapped(v) == TRUE

\* The creator may seed an empty market; afterwards a bet may not take their
\* stake on that outcome above a tenth of the pool before the bet.
CreatorCapOk(v) ==
  v.user = params.creator /\ totalPool > 0 =>
    userStakes[v.user][v.outcome] + v.amount <= totalPool \div 10

\* The signer must hold the oracle role when the voucher is used, not when it was
\* signed.  Anyone may submit a voucher, any number of times, in any order.
BetOk(v) ==
  /\ ~paused /\ state = "OPEN"
  /\ v.user # NoAccount /\ ~reg.paused
  /\ params.openTime <= now /\ now < params.closeTime
  /\ now <= v.deadline /\ v.deadline <= now + MaxSignatureAge
  /\ ValidOutcome(v.outcome)
  /\ reg.minBet <= v.amount /\ v.amount <= reg.maxBet
  /\ v.user \notin reg.sanctioned
  /\ FreshNonce(v)
  /\ CreatorCapOk(v)
  /\ v.signer \in reg.oracles

AddStake(v) ==
  /\ userStakes' = [userStakes EXCEPT ![v.user][v.outcome] = @ + v.amount]
  /\ outcomePools' = [outcomePools EXCEPT ![v.outcome] = @ + v.amount]
  /\ totalPool' = totalPool + v.amount

PlaceBet(v) ==
  /\ BetOk(v)
  /\ nonceUsed' = [nonceUsed EXCEPT ![v.user] = @ \cup {v.nonce}]
  /\ TransferIn(v.user, v.amount)
  /\ AddStake(v)
  /\ UNCHANGED <<envVars, bondVars, feeVars, claimVars, phaseVars, unaccounted>>

CloseMarket(caller) ==
  /\ state = "OPEN" /\ ~paused
  /\ caller \in {params.creator} \cup reg.oracles \cup reg.operators
  /\ now >= params.closeTime \/ caller \in reg.operators
  /\ state' = "CLOSED" /\ paused' = TRUE
  /\ UNCHANGED <<envVars, stakeVars, bondVars, feeVars, claimVars, tokenVars,
                 winningOutcome, unaccounted>>

------------------------------------------------------------------------------
(* Resolution, challenge, finalisation, voiding.                            *)

ProposeResolution(caller, o) ==
  /\ caller \in reg.oracles /\ state = "CLOSED"
  /\ ValidOutcome(o) /\ now >= params.resolveTime
  /\ winningOutcome' = o /\ state' = "PROPOSED"
  /\ UNCHANGED <<envVars, stakeVars, bondVars, feeVars, claimVars, tokenVars, paused,
                 unaccounted>>

ChallengeResolution(caller) ==
  /\ state = "PROPOSED"
  /\ now < params.resolveTime + params.challengeWindowSeconds
  /\ caller # params.creator /\ reg.challengeBondAmount > 0
  /\ challenger' = caller /\ challengeBond' = reg.challengeBondAmount
  /\ TransferIn(caller, reg.challengeBondAmount)
  /\ state' = "CHALLENGED"
  /\ UNCHANGED <<envVars, stakeVars, feeVars, claimVars, paused, winningOutcome,
                 unaccounted>>

\* Mutant: fees taken as parts of the cap of 5000 instead of BPS.
FeeOfCap(bps) == (totalPool * bps) \div 5000

Fee(bps) == (totalPool * bps) \div BPS

Fees(r) == Fee(r.protocolFeeBps) + Fee(r.creatorFeeBps) + Fee(r.referralFeeBps)
             + Fee(r.disputeReserveBps)

\* Who gets the referral fee of a market nobody referred.
ReferralPayee == IF params.referrer # NoAccount THEN params.referrer ELSE reg.treasury

\* The wallets once _collectFees has paid the treasury, creator and referrer.
PayFees(w) ==
  Credit(Credit(Credit(w,
      reg.treasury, Fee(reg.protocolFeeBps) + Fee(reg.disputeReserveBps)),
    params.creator, Fee(reg.creatorFeeBps)),
  ReferralPayee, Fee(reg.referralFeeBps))

\* A disputed market takes a caller with both roles, and slashes the bond.
\* No guard waits for the challenge window to end.
FinalizeResolution(caller) ==
  /\ caller \in reg.oracles /\ state \in {"PROPOSED", "CHALLENGED"}
  /\ state = "CHALLENGED" => caller \in reg.operators
  /\ LET slashed == IF state = "CHALLENGED" THEN challengeBond ELSE 0
         fees    == IF feesCollected THEN 0 ELSE Fees(reg)
         afterSlash == Credit(wallet, reg.treasury, slashed)
     IN  /\ slashed + fees <= balance
         /\ challengeBond' = challengeBond - slashed
         /\ balance' = balance - slashed - fees
         /\ wallet' = IF feesCollected THEN afterSlash ELSE PayFees(afterSlash)
  /\ distributablePool' = IF feesCollected THEN distributablePool
                                           ELSE totalPool - Fees(reg)
  /\ feesCollected' = TRUE /\ state' = "FINALIZED"
  /\ UNCHANGED <<envVars, stakeVars, challenger, claimVars, paused, winningOutcome,
                 unaccounted>>

\* Mutant: the bond is sent and stays recorded.
ReturnBondAgain ==
  /\ IF challengeBond > 0 THEN TransferOut(challenger, challengeBond)
                          ELSE UNCHANGED tokenVars
  /\ challengeBond' = challengeBond

ReturnBond ==
  /\ IF challengeBond > 0 THEN TransferOut(challenger, challengeBond)
                          ELSE UNCHANGED tokenVars
  /\ challengeBond' = 0

\* Mutant: a finalised market can be voided.
AlwaysVoidable == TRUE

\* Every state but FINALIZED, VOIDED included.
Voidable == state # "FINALIZED" /\ ~feesCollected

VoidMarket(caller) ==
  /\ caller \in reg.oracles /\ Voidable
  /\ ReturnBond
  /\ state' = "VOIDED"
  /\ UNCHANGED <<envVars, stakeVars, challenger, feeVars, claimVars, paused,
                 winningOutcome, unaccounted>>

------------------------------------------------------------------------------
(* Paying out.                                                              *)

WinningStake(a) == userStakes[a][winningOutcome]

WinningPool == outcomePools[winningOutcome]

\* Mutants: the share of the pool before fees; paying out is paused with the market.
GrossShare(stake) == (stake * totalPool) \div WinningPool
OpenUnlessPaused(s) == state = s /\ ~paused

\* claim and refund look at the state only: a market is paused when it closes.
PayoutOpen(s) == state = s

ProRata(stake) == (stake * distributablePool) \div WinningPool

\* Mutant: the last claimer is paid like the others.
AlwaysProRata(a) == ProRata(WinningStake(a))

\* The last claimer takes the rest, so that rounding leaves nothing behind.
ClaimAmount(a) ==
  IF totalWinningStakeClaimed + WinningStake(a) = WinningPool
    THEN distributablePool - totalClaimed
    ELSE ProRata(WinningStake(a))

Claim(a) ==
  /\ PayoutOpen("FINALIZED") /\ ~hasClaimed[a]
  /\ WinningStake(a) > 0 /\ WinningPool > 0
  /\ ClaimAmount(a) >= 0
  /\ hasClaimed' = [hasClaimed EXCEPT ![a] = TRUE]
  /\ totalWinningStakeClaimed' = totalWinningStakeClaimed + WinningStake(a)
  /\ totalClaimed' = totalClaimed + ClaimAmount(a)
  /\ payout' = [payout EXCEPT ![a] = ClaimAmount(a)]
  /\ TransferOut(a, ClaimAmount(a))
  /\ UNCHANGED <<envVars, stakeVars, bondVars, feeVars, phaseVars, unaccounted>>

\* The loop over outcomes: all of the caller's stakes at once; the pools stay.
Refund(a) ==
  /\ PayoutOpen("VOIDED") /\ Total(userStakes[a]) > 0
  /\ userStakes' = [userStakes EXCEPT ![a] = [o \in Outcomes |-> 0]]
  /\ TransferOut(a, Total(userStakes[a]))
  /\ UNCHANGED <<envVars, outcomePools, totalPool, nonceUsed, bondVars, feeVars,
                 claimVars, phaseVars, unaccounted>>

------------------------------------------------------------------------------
Next ==
  \/ Tick \/ RegistryChange
  \/ \E n \in 1 .. MaxUnaccounted : Receive(n)
  \/ \E v \in Vouchers : PlaceBet(v)
  \/ \E a \in Accounts :
       \/ ApproveMarket(a) \/ CloseMarket(a)
       \/ \E o \in Outcomes \cup {NoOutcome} : ProposeResolution(a, o)
       \/ ChallengeResolution(a) \/ FinalizeResolution(a) \/ VoidMarket(a)
       \/ Claim(a) \/ Refund(a)

Spec == Init /\ [][Next]_vars

------------------------------------------------------------------------------
(* Properties.                                                              *)

\* A proposal names an outcome; claims read the pools at it.
WinnerKnown ==
  state \in {"PROPOSED", "CHALLENGED", "FINALIZED"} => winningOutcome \in Outcomes

\* Types, and the outcome every resolution names.
TypeOK ==
  /\ WinnerKnown
  /\ now \in Nat /\ reg \in RegistryViews /\ params \in MarketChoices
  /\ feeBpsSnapshot \in Nat
  /\ state \in States /\ paused \in BOOLEAN
  /\ winningOutcome \in Outcomes \cup {NoOutcome}
  /\ userStakes \in [Accounts -> [Outcomes -> Nat]]
  /\ outcomePools \in [Outcomes -> Nat] /\ totalPool \in Nat
  /\ nonceUsed \in [Accounts -> SUBSET Nonces]
  /\ challenger \in Accounts \cup {NoAccount} /\ challengeBond \in Nat
  /\ feesCollected \in BOOLEAN /\ distributablePool \in Nat
  /\ hasClaimed \in [Accounts -> BOOLEAN]
  /\ totalClaimed \in Nat /\ totalWinningStakeClaimed \in Nat
  /\ payout \in [Accounts -> Nat]
  /\ balance \in Nat /\ wallet \in [Accounts -> Int] /\ unaccounted \in Nat

StakeOf(a) == Total(userStakes[a])

StakesOn(o) == Total([a \in Accounts |-> userStakes[a][o]])

AllStakes == Total([a \in Accounts |-> StakeOf(a)])

\* "Pools sum to total" (docs/ARCHITECTURE.md): the running counters of placeBet
\* agree with the stakes they count, by outcome and over the market, until a
\* refund takes stakes away.
PoolsMatchStakes ==
  /\ totalPool = Total(outcomePools)
  /\ state # "VOIDED" => \A o \in Outcomes : outcomePools[o] = StakesOn(o)

\* Every token the market holds is owed to somebody it knows, or came in outside
\* its functions: stakes until the market ends, then the unclaimed part of the
\* payout pool or the stakes still to refund, and the bond of an open dispute.
EveryTokenAccountedFor ==
  balance = unaccounted + challengeBond
              + (IF state = "FINALIZED" THEN distributablePool - totalClaimed
                                        ELSE AllStakes)

\* Until a market is finalised nobody has gained or lost anything but what the
\* market holds in their name: a bettor gets back every stake of a voided
\* market, a challenger the bond, once, however often it is voided.
NobodyLosesBeforeFinal ==
  state # "FINALIZED" =>
    \A a \in Accounts :
      wallet[a] + StakeOf(a) + (IF a = challenger THEN challengeBond ELSE 0) = 0

\* However the claims of the winners interleave, the next one never reverts: the
\* payout is not negative and the market holds it.  Taking the rest never pays
\* the last claimer less than the pro-rata share.
ClaimsNeverBlocked ==
  state = "FINALIZED" =>
    \A a \in Accounts :
      ~hasClaimed[a] /\ WinningStake(a) > 0 =>
        /\ WinningPool > 0
        /\ ProRata(WinningStake(a)) <= ClaimAmount(a)
        /\ ClaimAmount(a) <= balance

Winners == {a \in Accounts : WinningStake(a) > 0}

\* The rounding rule of claim: a winner is paid the floor of the pro-rata share,
\* the last one at most one unit more per other winner; when all have claimed,
\* the whole payout pool is paid.
RoundingStaysWithWinners ==
  state = "FINALIZED" =>
    /\ \A a \in Accounts : hasClaimed[a] =>
         payout[a] - ProRata(WinningStake(a)) \in 0 .. Cardinality(Winners) - 1
    /\ (\A a \in Winners : hasClaimed[a]) /\ Winners # {} =>
         totalClaimed = distributablePool

\* A bond is escrowed exactly while its dispute is open: no later call can slash
\* or refund it a second time, none forgets it.
BondLivesWithDispute == (challengeBond > 0) <=> (state = "CHALLENGED")

\* The creator holds more than a tenth of the pool on at most one outcome: the
\* one they seeded when the market was empty.
CreatorSeedsOneOutcome ==
  state # "VOIDED" =>
    Cardinality({o \in Outcomes :
      userStakes[params.creator][o] > totalPool \div 10}) <= 1

SignedAmounts(a, n) == {v.amount : v \in {w \in Vouchers : w.user = a /\ w.nonce = n}}

LargestSigned(a, n) ==
  CHOOSE m \in SignedAmounts(a, n) : \A k \in SignedAmounts(a, n) : k <= m

\* A signed bet is taken at most once: however often vouchers are submitted, an
\* account stakes at most one signed amount per nonce.
OneBetPerNonce ==
  \A a \in Accounts :
    StakeOf(a) <= Total([n \in nonceUsed[a] |-> LargestSigned(a, n)])

\* The fee cap of the registry reaches the market: no fee change between bet and
\* finalisation leaves the winners less than half of the pool.
WinnersKeepHalf == state = "FINALIZED" => 2 * distributablePool >= totalPool

\* Finalising fixes the terms: whatever the registry's owners or the oracles do
\* next, outcome, stakes, pools and payout pool stay, and the market cannot be
\* voided.
FinalTermsAreFrozen ==
  [][state = "FINALIZED" => UNCHANGED <<phaseVars, stakeVars, feeVars, bondVars>>]_vars

\* A winner who keeps calling claim is paid; no other claim, no registry pause
\* and no sanction can starve them.
EveryWinnerIsPaid ==
  \A a \in Accounts :
    (state = "FINALIZED" /\ WinningStake(a) > 0) ~> hasClaimed[a]

\* A bettor of a voided market who keeps calling refund gets every stake back.
EveryBettorIsRefunded ==
  \A a \in Accounts : (state = "VOIDED") ~> (state = "VOIDED" /\ StakeOf(a) = 0)

------------------------------------------------------------------------------
(* The inductive invariant behind the safety properties: what each counter  *)
(* of the contract counts.  ArenaMarketProofs proves it.                    *)

ClaimedStakes ==
  Total([a \in Accounts |-> IF hasClaimed[a] THEN WinningStake(a) ELSE 0])

NothingPaidEarly ==
  state # "FINALIZED" =>
    /\ ~feesCollected /\ totalClaimed = 0 /\ totalWinningStakeClaimed = 0
    /\ \A a \in Accounts : ~hasClaimed[a]

\* The winners paid so far got no more than their part of the payout pool.
ClaimsKeepPace ==
  state = "FINALIZED" =>
    /\ feesCollected /\ distributablePool <= totalPool
    /\ totalWinningStakeClaimed = ClaimedStakes
    /\ totalClaimed <= distributablePool
    /\ totalClaimed * WinningPool <= totalWinningStakeClaimed * distributablePool

\* The counters and the token balances of a market are in step, whatever was
\* called and in whatever order: pools, bond, fees, claims and refunds.
LedgerInv ==
  /\ PoolsMatchStakes
  /\ state # "VOIDED" => totalPool = AllStakes
  /\ EveryTokenAccountedFor
  /\ NobodyLosesBeforeFinal
  /\ BondLivesWithDispute
  /\ NothingPaidEarly
  /\ WinnersKeepHalf
  /\ ClaimsKeepPace

------------------------------------------------------------------------------
(* The market implements the escrow bettors rely on.                        *)

EscrowPhase == CASE state = "FINALIZED" -> "settled"
                 [] state = "VOIDED"    -> "cancelled"
                 [] OTHER               -> "betting"

OwedTo(a) ==
  IF state # "FINALIZED" THEN StakeOf(a)
  ELSE IF hasClaimed[a] \/ WinningStake(a) = 0 THEN 0
  ELSE ProRata(WinningStake(a))

Escrow == INSTANCE ParimutuelEscrow WITH
  phase <- EscrowPhase,
  owed  <- [a \in Accounts |-> OwedTo(a)],
  pot   <- IF state = "FINALIZED" THEN distributablePool - totalClaimed ELSE AllStakes

\* Over every interleaving of bets, governance changes, disputes, claims and
\* refunds: settled at most once, never settled after cancelled, and nobody's
\* claim shrinks by what others do.
ImplementsEscrow == Escrow!Spec
=============================================================================

-------------------------- MODULE ArenaMarketProofs --------------------------
(***************************************************************************)
(* Theorems about ArenaMarket, for any accounts, outcomes, vouchers and    *)
(* registry states that satisfy its assumptions: its money and its phases, *)
(* the abstract escrow it implements, and what it guarantees the           *)
(* individual bettor.                                                      *)
(***************************************************************************)
EXTENDS ArenaMarket, TotalsProofs, FiniteSetTheorems, TLAPS

------------------------------------------------------------------------------
(* Arithmetic of basis points and shares.                                   *)

\* Four floors never take more than the exact fee.
LEMMA FeesWithinRate ==
  ASSUME totalPool \in Nat, NEW r \in RegistryView
  PROVE  /\ Fees(r) \in Nat /\ TotalFeeBps(r) \in Nat
         /\ Fees(r) * 10000 <= totalPool * TotalFeeBps(r)
PROOF
  <1> DEFINE b1 == r.protocolFeeBps
             b2 == r.creatorFeeBps
             b3 == r.referralFeeBps
             b4 == r.disputeReserveBps
  <1>1. b1 \in Nat /\ b2 \in Nat /\ b3 \in Nat /\ b4 \in Nat
    BY DEF RegistryView
  <1>2. TotalFeeBps(r) = b1 + b2 + b3 + b4
    BY DEF TotalFeeBps
  <1>3. Fees(r) = Fee(b1) + Fee(b2) + Fee(b3) + Fee(b4)
    BY DEF Fees
  <1> HIDE DEF b1, b2, b3, b4
  <1>4. ASSUME NEW b \in Nat
        PROVE  Fee(b) \in Nat /\ Fee(b) * 10000 <= totalPool * b
    BY FloorBounds, ProductNat DEF Fee, BPS
  <1>5. totalPool * b1 + totalPool * b2 + totalPool * b3 + totalPool * b4
          = totalPool * (b1 + b2 + b3 + b4)
    BY <1>1, Z3
  <1>6. /\ Fee(b1) \in Nat /\ Fee(b1) * 10000 <= totalPool * b1
        /\ Fee(b2) \in Nat /\ Fee(b2) * 10000 <= totalPool * b2
        /\ Fee(b3) \in Nat /\ Fee(b3) * 10000 <= totalPool * b3
        /\ Fee(b4) \in Nat /\ Fee(b4) * 10000 <= totalPool * b4
    BY <1>1, <1>4
  <1>7. /\ totalPool * b1 \in Nat /\ totalPool * b2 \in Nat
        /\ totalPool * b3 \in Nat /\ totalPool * b4 \in Nat
    BY <1>1, ProductNat
  <1> QED BY <1>1, <1>2, <1>3, <1>5, <1>6, <1>7

\* The fees of a schedule within the registry's cap take at most half of the pool.
LEMMA FeesTakeAtMostHalf ==
  ASSUME totalPool \in Nat, NEW r \in RegistryView, TotalFeeBps(r) <= 5000
  PROVE  Fees(r) \in Nat /\ 2 * Fees(r) <= totalPool
PROOF
  <1>1. totalPool * TotalFeeBps(r) <= totalPool * 5000
    BY FeesWithinRate, Z3
  <1> QED BY <1>1, FeesWithinRate

------------------------------------------------------------------------------
(* Type correctness.                                                        *)

\* What the assumptions on the constants say of the current registry and market.
LEMMA EnvironmentTypes ==
  ASSUME TypeOK
  PROVE  /\ reg \in RegistryView /\ TotalFeeBps(reg) <= 5000
         /\ params \in MarketChoice
  BY RegistryAssumption, ChoicesAssumption DEF TypeOK

LEMMA StakeTypes ==
  ASSUME TypeOK, NEW a \in Accounts
  PROVE  StakeOf(a) \in Nat
  BY OutcomesAssumption, TotalType DEF TypeOK, StakeOf

\* ProRata is a natural number: the product cannot be negative, the divisor is
\* the pool of an outcome somebody holds a stake on.
LEMMA ClaimAmountType ==
  ASSUME TypeOK, state = "FINALIZED", NEW a \in Accounts, WinningPool > 0
  PROVE  /\ WinningPool \in Nat /\ WinningStake(a) \in Nat
         /\ ProRata(WinningStake(a)) \in Nat
         /\ ClaimAmount(a) \in Int
PROOF
  <1>1. WinningPool \in Nat /\ WinningStake(a) \in Nat
    BY DEF TypeOK, WinnerKnown, WinningPool, WinningStake
  <1>2. distributablePool \in Nat /\ totalClaimed \in Nat
    BY DEF TypeOK
  <1>3. ProRata(WinningStake(a)) \in Nat
    BY <1>1, <1>2, ProductNat, FloorBounds DEF ProRata
  <1> QED BY <1>1, <1>2, <1>3 DEF ClaimAmount

LEMMA CreditType ==
  ASSUME NEW w \in [Accounts -> Int], NEW a \in Accounts, NEW n \in Int
  PROVE  Credit(w, a, n) \in [Accounts -> Int]
  BY DEF Credit

LEMMA FeePaymentTypes ==
  ASSUME TypeOK, NEW w \in [Accounts -> Int]
  PROVE  /\ reg.treasury \in Accounts /\ params.creator \in Accounts
         /\ ReferralPayee \in Accounts
         /\ PayFees(w) \in [Accounts -> Int]
PROOF
  <1>1. totalPool \in Nat /\ reg \in RegistryView /\ params \in MarketChoice
    BY EnvironmentTypes DEF TypeOK
  <1>2. ASSUME NEW b \in Nat PROVE Fee(b) \in Nat
    BY <1>1, FloorBounds, ProductNat DEF Fee, BPS
  <1>3. /\ reg.treasury \in Accounts /\ params.creator \in Accounts
        /\ ReferralPayee \in Accounts
    BY <1>1 DEF ReferralPayee, RegistryView, MarketChoice
  <1>4. /\ Fee(reg.protocolFeeBps) + Fee(reg.disputeReserveBps) \in Int
        /\ Fee(reg.creatorFeeBps) \in Int /\ Fee(reg.referralFeeBps) \in Int
    BY <1>1, <1>2 DEF RegistryView
  <1> QED BY <1>3, <1>4, CreditType DEF PayFees

LEMMA InitializedType ==
  ASSUME Initialized, now \in Nat, reg \in RegistryViews, feeBpsSnapshot \in Nat
  PROVE  TypeOK
PROOF
  <1>1. WinnerKnown
    BY DEF Initialized, WinnerKnown
  <1>2. /\ userStakes \in [Accounts -> [Outcomes -> Nat]]
        /\ nonceUsed \in [Accounts -> SUBSET Nonces]
        /\ hasClaimed \in [Accounts -> BOOLEAN]
    BY DEF Initialized
  <1>3. /\ outcomePools \in [Outcomes -> Nat]
        /\ payout \in [Accounts -> Nat] /\ wallet \in [Accounts -> Int]
    BY DEF Initialized
  <1>4. /\ params \in MarketChoices /\ state \in States /\ paused \in BOOLEAN
        /\ winningOutcome \in Outcomes \cup {NoOutcome} /\ totalPool \in Nat
        /\ challenger \in Accounts \cup {NoAccount} /\ challengeBond \in Nat
        /\ feesCollected \in BOOLEAN /\ distributablePool \in Nat
        /\ totalClaimed \in Nat /\ totalWinningStakeClaimed \in Nat
        /\ balance \in Nat /\ unaccounted \in Nat
    BY DEF Initialized, States
  <1> QED BY <1>1, <1>2, <1>3, <1>4 DEF TypeOK

LEMMA InitType == Init => TypeOK
PROOF
  <1> SUFFICES ASSUME Init PROVE TypeOK
    OBVIOUS
  <1>1. reg \in RegistryViews /\ reg \in RegistryView
    BY RegistryAssumption DEF Init
  <1>2. feeBpsSnapshot \in Nat
    BY <1>1 DEF Init, TotalFeeBps, RegistryView
  <1> QED BY <1>1, <1>2, InitializedType DEF Init

LEMMA StepType == TypeOK /\ [Next]_vars => TypeOK'
PROOF
  <1> SUFFICES ASSUME TypeOK, [Next]_vars PROVE TypeOK'
    OBVIOUS
  <1> USE DEF TypeOK, WinnerKnown, States, envVars, stakeVars, bondVars,
              feeVars, claimVars, tokenVars, phaseVars
  <1>0. reg \in RegistryView /\ params \in MarketChoice
    BY EnvironmentTypes
  <1>1. CASE Tick
    BY <1>1 DEF Tick
  <1>2. CASE RegistryChange
    BY <1>2 DEF RegistryChange
  <1>3. CASE \E n \in 1 .. MaxUnaccounted : Receive(n)
    BY <1>3, BoundsAssumption DEF Receive
  <1>4. ASSUME NEW v \in Vouchers, PlaceBet(v) PROVE TypeOK'
    <2>1. v.user \in Accounts /\ v.outcome \in Outcomes /\ v.amount \in Nat
      BY <1>4, VouchersAssumption DEF PlaceBet, BetOk, Bet, ValidOutcome
    <2>2. v.nonce \in Nonces
      BY DEF Nonces
    <2> QED BY <1>4, <2>1, <2>2 DEF PlaceBet, AddStake, TransferIn, Credit
  <1>5. ASSUME NEW a \in Accounts, ApproveMarket(a) PROVE TypeOK'
    BY <1>5 DEF ApproveMarket
  <1>6. ASSUME NEW a \in Accounts, CloseMarket(a) PROVE TypeOK'
    BY <1>6 DEF CloseMarket
  <1>7. ASSUME NEW a \in Accounts, NEW o \in Outcomes \cup {NoOutcome}, ProposeResolution(a, o)
        PROVE  TypeOK'
    BY <1>7 DEF ProposeResolution, ValidOutcome
  <1>8. ASSUME NEW a \in Accounts, ChallengeResolution(a) PROVE TypeOK'
    BY <1>0, <1>8 DEF ChallengeResolution, TransferIn, Credit, RegistryView
  <1>9. ASSUME NEW a \in Accounts, FinalizeResolution(a) PROVE TypeOK'
    <2>1. Fees(reg) \in Nat /\ 2 * Fees(reg) <= totalPool
      BY EnvironmentTypes, FeesTakeAtMostHalf
    <2>2. ASSUME NEW n \in Int
          PROVE  PayFees(Credit(wallet, reg.treasury, n)) \in [Accounts -> Int]
      BY FeePaymentTypes, CreditType
    <2>3. ASSUME NEW n \in Int PROVE Credit(wallet, reg.treasury, n) \in [Accounts -> Int]
      BY FeePaymentTypes, CreditType
    <2>4. wallet' \in [Accounts -> Int]
      BY <1>9, <2>2, <2>3 DEF FinalizeResolution
    <2>5. /\ challengeBond' \in Nat /\ balance' \in Nat /\ distributablePool' \in Nat
      BY <1>9, <2>1 DEF FinalizeResolution
    <2> QED BY <1>0, <1>9, <2>4, <2>5 DEF FinalizeResolution
  <1>10. ASSUME NEW a \in Accounts, VoidMarket(a) PROVE TypeOK'
    BY <1>10 DEF VoidMarket, ReturnBond, Voidable, TransferOut, Credit
  <1>11. ASSUME NEW a \in Accounts, Claim(a) PROVE TypeOK'
    <2>1. WinningStake(a) \in Nat /\ ClaimAmount(a) \in Nat
      BY <1>11, ClaimAmountType DEF Claim, PayoutOpen
    <2> QED BY <1>11, <2>1 DEF Claim, PayoutOpen, TransferOut, Credit
  <1>12. ASSUME NEW a \in Accounts, Refund(a) PROVE TypeOK'
    <2>1. Total(userStakes[a]) \in Nat
      BY StakeTypes DEF StakeOf
    <2> QED BY <1>12, <2>1 DEF Refund, PayoutOpen, TransferOut, Credit
  <1>13. CASE UNCHANGED vars
    BY <1>13 DEF vars
  <1> QED BY <1>1, <1>2, <1>3, <1>4, <1>5, <1>6, <1>7, <1>8, <1>9, <1>10, <1>11,
             <1>12, <1>13 DEF Next

\* Every reachable state of every market has the declared types.
THEOREM TypeCorrect == Spec => []TypeOK
  BY InitType, StepType, PTL DEF Spec

------------------------------------------------------------------------------
(* How bets, refunds and claims move the sums.                              *)

Rows(s) == [a \in Accounts |-> Total(s[a])]

Column(s, o) == [a \in Accounts |-> s[a][o]]

LEMMA Finite == IsFiniteSet(Accounts) /\ IsFiniteSet(Outcomes)
  BY AccountsAssumption, OutcomesAssumption

\* One account's entry moves by n: so does the sum over the accounts.
LEMMA AccountMoves ==
  ASSUME NEW f \in [Accounts -> Nat], NEW g \in [Accounts -> Nat],
         NEW a \in Accounts, NEW n \in Int, g[a] = f[a] + n,
         \A b \in Accounts \ {a} : g[b] = f[b]
  PROVE  Total(g) = Total(f) + n
PROOF
  <1>1. Total(g) = Total(f) - f[a] + g[a]
    BY TotalDiffer, Finite
  <1>2. Total(f) \in Nat /\ f[a] \in Nat
    BY TotalType, Finite
  <1> QED BY <1>1, <1>2

LEMMA RowsType ==
  ASSUME NEW s \in [Accounts -> [Outcomes -> Nat]]
  PROVE  /\ \A a \in Accounts : Total(s[a]) \in Nat
         /\ Rows(s) \in [Accounts -> Nat]
         /\ \A o \in Outcomes : Column(s, o) \in [Accounts -> Nat]
PROOF
  <1>1. ASSUME NEW a \in Accounts PROVE Total(s[a]) \in Nat
    <2>1. s[a] \in [Outcomes -> Nat]
      OBVIOUS
    <2> QED BY <2>1, TotalType, OutcomesAssumption
  <1> QED BY <1>1 DEF Rows, Column

\* t is s after a bet of n by a on o.
LEMMA BetSums ==
  ASSUME NEW s \in [Accounts -> [Outcomes -> Nat]],
         NEW t \in [Accounts -> [Outcomes -> Nat]],
         NEW a \in Accounts, NEW o \in Outcomes, NEW n \in Nat,
         t[a][o] = s[a][o] + n,
         \A p \in Outcomes \ {o} : t[a][p] = s[a][p],
         \A b \in Accounts \ {a} : t[b] = s[b]
  PROVE  /\ Total(t[a]) = Total(s[a]) + n
         /\ Total(Rows(t)) = Total(Rows(s)) + n
         /\ Total(Column(t, o)) = Total(Column(s, o)) + n
PROOF
  <1>1. /\ s[a] \in [Outcomes -> Nat] /\ t[a] \in [Outcomes -> Nat]
        /\ s[a][o] \in Nat
    OBVIOUS
  <1>2. Total(t[a]) = Total(s[a]) + n
    <2>1. Total(t[a]) = Total(s[a]) - s[a][o] + t[a][o]
      BY <1>1, TotalDiffer, Finite
    <2>2. Total(s[a]) \in Nat
      BY RowsType
    <2> QED BY <1>1, <2>1, <2>2
  <1>3. Total(Rows(t)) = Total(Rows(s)) + n
    <2>1. \A b \in Accounts \ {a} : Rows(t)[b] = Rows(s)[b]
      BY DEF Rows
    <2>2. Rows(t)[a] = Rows(s)[a] + n
      BY <1>2 DEF Rows
    <2>3. Rows(s) \in [Accounts -> Nat] /\ Rows(t) \in [Accounts -> Nat] /\ n \in Int
      BY RowsType
    <2> QED BY <2>1, <2>2, <2>3, AccountMoves, Zenon
  <1>4. Total(Column(t, o)) = Total(Column(s, o)) + n
    <2>1. \A b \in Accounts \ {a} : Column(t, o)[b] = Column(s, o)[b]
      BY DEF Column
    <2>2. Column(t, o)[a] = Column(s, o)[a] + n
      BY DEF Column
    <2>3. Column(s, o) \in [Accounts -> Nat] /\ Column(t, o) \in [Accounts -> Nat]
      BY RowsType, Zenon
    <2>4. n \in Int
      OBVIOUS
    <2> QED BY <2>1, <2>2, <2>3, <2>4, AccountMoves, Zenon
  <1> QED BY <1>2, <1>3, <1>4

\* t is s after the refund of a.
LEMMA RefundSums ==
  ASSUME NEW s \in [Accounts -> [Outcomes -> Nat]],
         NEW t \in [Accounts -> [Outcomes -> Nat]], NEW a \in Accounts,
         \A o \in Outcomes : t[a][o] = 0,
         \A b \in Accounts \ {a} : t[b] = s[b]
  PROVE  /\ Total(t[a]) = 0
         /\ Total(Rows(t)) = Total(Rows(s)) - Total(s[a])
PROOF
  <1>1. Total(t[a]) = 0
    <2>1. t[a] \in [Outcomes -> Nat]
      OBVIOUS
    <2> QED BY <2>1, TotalZero
  <1>2. /\ Rows(t)[a] = Total(t[a]) /\ Rows(s)[a] = Total(s[a])
        /\ \A b \in Accounts \ {a} : Rows(t)[b] = Rows(s)[b]
    BY DEF Rows
  <1>3. /\ Rows(s) \in [Accounts -> Nat] /\ Rows(t) \in [Accounts -> Nat]
        /\ Total(s[a]) \in Nat
    BY RowsType
  <1>4. Total(Rows(t)) = Total(Rows(s)) - Rows(s)[a] + Rows(t)[a]
    BY <1>2, <1>3, TotalDiffer, Finite
  <1>5. Total(Rows(s)) \in Nat
    BY <1>3, TotalType, Finite
  <1> QED BY <1>1, <1>2, <1>3, <1>4, <1>5

\* The stakes that have claimed, as a function of who has.
ClaimedBy(s, w, h) == [a \in Accounts |-> IF h[a] THEN s[a][w] ELSE 0]

\* g is h after the claim of a.
LEMMA ClaimSums ==
  ASSUME NEW s \in [Accounts -> [Outcomes -> Nat]], NEW w \in Outcomes,
         NEW h \in [Accounts -> BOOLEAN], NEW g \in [Accounts -> BOOLEAN],
         NEW a \in Accounts, ~h[a], g[a],
         \A b \in Accounts \ {a} : g[b] = h[b]
  PROVE  /\ Total(ClaimedBy(s, w, g)) = Total(ClaimedBy(s, w, h)) + s[a][w]
         /\ Total(ClaimedBy(s, w, h)) \in Nat
         /\ Total(ClaimedBy(s, w, g)) <= Total(Column(s, w))
PROOF
  <1>1. \A b \in Accounts : s[b][w] \in Nat
    OBVIOUS
  <1>2. /\ ClaimedBy(s, w, h) \in [Accounts -> Nat]
        /\ ClaimedBy(s, w, g) \in [Accounts -> Nat]
        /\ Column(s, w) \in [Accounts -> Nat]
    BY <1>1 DEF ClaimedBy, Column
  <1>3. \A b \in Accounts \ {a} : ClaimedBy(s, w, g)[b] = ClaimedBy(s, w, h)[b]
    BY DEF ClaimedBy
  <1>4. ClaimedBy(s, w, h)[a] = 0 /\ ClaimedBy(s, w, g)[a] = s[a][w]
    BY DEF ClaimedBy
  <1>5. Total(ClaimedBy(s, w, g)) = Total(ClaimedBy(s, w, h)) + s[a][w]
    <2>1. ClaimedBy(s, w, g)[a] = ClaimedBy(s, w, h)[a] + s[a][w] /\ s[a][w] \in Int
      BY <1>1, <1>4
    <2> QED BY <1>2, <1>3, <2>1, AccountMoves, Zenon
  <1>6. Total(ClaimedBy(s, w, h)) \in Nat
    BY <1>2, TotalType, Finite
  <1>7. \A b \in Accounts : ClaimedBy(s, w, g)[b] <= Column(s, w)[b]
    BY <1>1 DEF ClaimedBy, Column
  <1>8. Total(ClaimedBy(s, w, g)) <= Total(Column(s, w))
    BY <1>2, <1>7, TotalMonotone, Finite
  <1> QED BY <1>1, <1>4, <1>5, <1>6, <1>8

\* The stakes that have claimed and one that has not fit in the pool.
LEMMA UnclaimedFits ==
  ASSUME NEW s \in [Accounts -> [Outcomes -> Nat]], NEW w \in Outcomes,
         NEW h \in [Accounts -> BOOLEAN], NEW a \in Accounts, ~h[a]
  PROVE  Total(ClaimedBy(s, w, h)) + s[a][w] <= Total(Column(s, w))
PROOF
  <1> DEFINE g == [h EXCEPT ![a] = TRUE]
  <1>1. /\ g \in [Accounts -> BOOLEAN] /\ g[a]
        /\ \A b \in Accounts \ {a} : g[b] = h[b]
    OBVIOUS
  <1> HIDE DEF g
  <1>2. /\ Total(ClaimedBy(s, w, g)) = Total(ClaimedBy(s, w, h)) + s[a][w]
        /\ Total(ClaimedBy(s, w, g)) <= Total(Column(s, w))
    BY <1>1, ClaimSums
  <1> QED BY <1>2

------------------------------------------------------------------------------
(* The ledger: LedgerInv is inductive.  The sums are handled by the lemmas  *)
(* above, so that every other step is arithmetic on the counters.           *)

LEMMA SumsOfStakes ==
  /\ AllStakes = Total(Rows(userStakes))
  /\ \A o : StakesOn(o) = Total(Column(userStakes, o))
  /\ ClaimedStakes = Total(ClaimedBy(userStakes, winningOutcome, hasClaimed))
  /\ AllStakes' = Total(Rows(userStakes'))
  /\ \A o : StakesOn(o)' = Total(Column(userStakes', o))
  /\ ClaimedStakes' = Total(ClaimedBy(userStakes', winningOutcome', hasClaimed'))
  BY Zenon DEF AllStakes, StakesOn, ClaimedStakes, StakeOf, WinningStake, Rows, Column,
               ClaimedBy

LEMMA SameStakes ==
  ASSUME userStakes' = userStakes
  PROVE  /\ \A a : StakeOf(a)' = StakeOf(a)
         /\ \A o : StakesOn(o)' = StakesOn(o)
         /\ AllStakes' = AllStakes
  BY Zenon DEF StakeOf, StakesOn, AllStakes

LEMMA SameClaims ==
  ASSUME userStakes' = userStakes, winningOutcome' = winningOutcome,
         outcomePools' = outcomePools, hasClaimed' = hasClaimed
  PROVE  ClaimedStakes' = ClaimedStakes /\ WinningPool' = WinningPool
  BY Zenon DEF ClaimedStakes, WinningStake, WinningPool

\* Steps that move no money and keep the market on the same side of every case
\* of the invariant.
LEMMA QuietLedger ==
  ASSUME LedgerInv,
         UNCHANGED <<stakeVars, bondVars, feeVars, claimVars, tokenVars, unaccounted>>,
         \/ state' = state /\ winningOutcome' = winningOutcome
         \/ {state, state'} \subseteq {"PENDING_APPROVAL", "OPEN", "CLOSED", "PROPOSED"}
  PROVE  LedgerInv'
PROOF
  <1> USE DEF stakeVars, bondVars, feeVars, claimVars, tokenVars
  <1>1. /\ \A a : StakeOf(a)' = StakeOf(a)
        /\ \A o : StakesOn(o)' = StakesOn(o)
        /\ AllStakes' = AllStakes
    BY SameStakes
  <1>2. PoolsMatchStakes' /\ (state # "VOIDED" => totalPool = AllStakes)'
    BY <1>1 DEF LedgerInv, PoolsMatchStakes
  <1>3. EveryTokenAccountedFor'
    BY <1>1 DEF LedgerInv, EveryTokenAccountedFor
  <1>4. NobodyLosesBeforeFinal'
    BY <1>1 DEF LedgerInv, NobodyLosesBeforeFinal
  <1>5. BondLivesWithDispute' /\ NothingPaidEarly' /\ WinnersKeepHalf'
    BY DEF LedgerInv, BondLivesWithDispute, NothingPaidEarly, WinnersKeepHalf
  <1>6. ClaimsKeepPace'
    <2>1. CASE state' = state /\ winningOutcome' = winningOutcome
      <3>1. ClaimedStakes' = ClaimedStakes /\ WinningPool' = WinningPool
        BY <2>1, SameClaims
      <3> QED BY <2>1, <3>1 DEF LedgerInv, ClaimsKeepPace
    <2>2. CASE state' # "FINALIZED"
      BY <2>2 DEF ClaimsKeepPace
    <2> QED BY <2>1, <2>2
  <1> QED BY <1>2, <1>3, <1>4, <1>5, <1>6 DEF LedgerInv

LEMMA ReceiveLedger ==
  ASSUME TypeOK, LedgerInv, NEW n \in Nat, Receive(n)
  PROVE  LedgerInv'
PROOF
  <1> USE DEF Receive, envVars, stakeVars, bondVars, feeVars, claimVars, phaseVars
  <1>1. /\ \A a : StakeOf(a)' = StakeOf(a)
        /\ \A o : StakesOn(o)' = StakesOn(o)
        /\ AllStakes' = AllStakes
    BY SameStakes
  <1>2. ClaimedStakes' = ClaimedStakes /\ WinningPool' = WinningPool
    BY SameClaims
  <1>3. PoolsMatchStakes' /\ (state # "VOIDED" => totalPool = AllStakes)'
    BY <1>1 DEF LedgerInv, PoolsMatchStakes
  <1>4. AllStakes \in Nat
    BY SumsOfStakes, RowsType, TotalType, Finite DEF TypeOK
  <1>5. EveryTokenAccountedFor'
    BY <1>1, <1>4 DEF LedgerInv, EveryTokenAccountedFor, TypeOK
  <1>6. NobodyLosesBeforeFinal'
    BY <1>1 DEF LedgerInv, NobodyLosesBeforeFinal
  <1>7. BondLivesWithDispute' /\ NothingPaidEarly' /\ WinnersKeepHalf'
    BY DEF LedgerInv, BondLivesWithDispute, NothingPaidEarly, WinnersKeepHalf
  <1>8. ClaimsKeepPace'
    BY <1>2 DEF LedgerInv, ClaimsKeepPace
  <1> QED BY <1>3, <1>5, <1>6, <1>7, <1>8 DEF LedgerInv

LEMMA BetLedger ==
  ASSUME TypeOK, LedgerInv, NEW v \in Vouchers, PlaceBet(v)
  PROVE  LedgerInv'
PROOF
  <1> DEFINE a == v.user
             o == v.outcome
             n == v.amount
  <1> USE DEF envVars, bondVars, feeVars, claimVars, phaseVars
  <1>1. /\ a \in Accounts /\ o \in Outcomes /\ n \in Nat
        /\ state = "OPEN" /\ state' = "OPEN"
    BY VouchersAssumption DEF PlaceBet, BetOk, Bet, ValidOutcome
  <1>2. /\ userStakes \in [Accounts -> [Outcomes -> Nat]]
        /\ userStakes' \in [Accounts -> [Outcomes -> Nat]]
        /\ userStakes'[a][o] = userStakes[a][o] + n
        /\ \A p \in Outcomes \ {o} : userStakes'[a][p] = userStakes[a][p]
        /\ \A b \in Accounts \ {a} : userStakes'[b] = userStakes[b]
    BY <1>1 DEF PlaceBet, AddStake, TypeOK
  <1>3. /\ outcomePools \in [Outcomes -> Nat] /\ outcomePools' \in [Outcomes -> Nat]
        /\ outcomePools'[o] = outcomePools[o] + n
        /\ \A p \in Outcomes \ {o} : outcomePools'[p] = outcomePools[p]
        /\ totalPool' = totalPool + n /\ totalPool \in Nat
    BY <1>1 DEF PlaceBet, AddStake, TypeOK
  <1>4. /\ balance' = balance + n /\ balance \in Nat
        /\ wallet'[a] = wallet[a] - n
        /\ \A b \in Accounts \ {a} : wallet'[b] = wallet[b]
        /\ \A b \in Accounts : wallet[b] \in Int
    BY <1>1 DEF PlaceBet, AddStake, TransferIn, Credit, TypeOK
  <1>5. UNCHANGED <<challenger, challengeBond, feesCollected, distributablePool, hasClaimed,
                    totalClaimed, totalWinningStakeClaimed, unaccounted>>
    BY DEF PlaceBet
  <1> HIDE DEF a, o, n
  <1>6. /\ Total(userStakes'[a]) = Total(userStakes[a]) + n
        /\ Total(Rows(userStakes')) = Total(Rows(userStakes)) + n
        /\ Total(Column(userStakes', o)) = Total(Column(userStakes, o)) + n
    BY <1>1, <1>2, BetSums
  <1>7. Total(outcomePools') = Total(outcomePools) - outcomePools[o] + outcomePools'[o]
    BY <1>1, <1>3, TotalDiffer, Finite
  <1>8. Total(outcomePools) \in Nat /\ AllStakes \in Nat
    <2>1. Total(outcomePools) \in Nat
      BY <1>3, TotalType, Finite
    <2>2. AllStakes \in Nat
      BY <1>2, SumsOfStakes, RowsType, TotalType, Finite
    <2> QED BY <2>1, <2>2
  <1>9. AllStakes' = AllStakes + n
    BY <1>6, SumsOfStakes
  <1>10. PoolsMatchStakes'
    <2>1. totalPool' = Total(outcomePools')
      BY <1>1, <1>3, <1>7, <1>8 DEF LedgerInv, PoolsMatchStakes
    <2>2. ASSUME NEW p \in Outcomes PROVE outcomePools'[p] = StakesOn(p)'
      <3>1. outcomePools[p] = StakesOn(p)
        BY <1>1 DEF LedgerInv, PoolsMatchStakes
      <3>2. CASE p = o
        BY <1>3, <1>6, <3>1, <3>2, SumsOfStakes
      <3>3. CASE p # o
        <4>1. Column(userStakes', p) = Column(userStakes, p)
          BY <1>2, <3>3 DEF Column
        <4> QED BY <1>3, <3>1, <3>3, <4>1, SumsOfStakes
      <3> QED BY <3>2, <3>3
    <2> QED BY <2>1, <2>2 DEF PoolsMatchStakes
  <1>11. totalPool' = AllStakes'
    BY <1>1, <1>3, <1>9 DEF LedgerInv
  <1>12. EveryTokenAccountedFor'
    BY <1>1, <1>4, <1>5, <1>8, <1>9 DEF LedgerInv, EveryTokenAccountedFor, TypeOK
  <1>13. NobodyLosesBeforeFinal'
    <2>1. ASSUME NEW b \in Accounts
          PROVE  wallet'[b] + Total(userStakes'[b])
                   + (IF b = challenger' THEN challengeBond' ELSE 0) = 0
      <3>1. /\ wallet[b] + Total(userStakes[b])
                 + (IF b = challenger THEN challengeBond ELSE 0) = 0
            /\ Total(userStakes[b]) \in Nat /\ challengeBond \in Nat
        BY <1>1, <1>2, RowsType
           DEF LedgerInv, NobodyLosesBeforeFinal, StakeOf, TypeOK
      <3>2. CASE b = a
        BY <1>1, <1>4, <1>5, <1>6, <3>1, <3>2
      <3>3. CASE b # a
        BY <1>2, <1>4, <1>5, <3>1, <3>3
      <3> QED BY <3>2, <3>3
    <2> QED BY <2>1 DEF NobodyLosesBeforeFinal, StakeOf
  <1>14. BondLivesWithDispute' /\ NothingPaidEarly' /\ WinnersKeepHalf' /\ ClaimsKeepPace'
    BY <1>1, <1>5 DEF LedgerInv, BondLivesWithDispute, NothingPaidEarly, WinnersKeepHalf,
                      ClaimsKeepPace
  <1> QED BY <1>10, <1>11, <1>12, <1>13, <1>14 DEF LedgerInv

LEMMA ChallengeLedger ==
  ASSUME TypeOK, LedgerInv, NEW c \in Accounts, ChallengeResolution(c)
  PROVE  LedgerInv'
PROOF
  <1> DEFINE bond == reg.challengeBondAmount
  <1> USE DEF envVars, stakeVars, feeVars, claimVars
  <1>1. /\ state = "PROPOSED" /\ state' = "CHALLENGED" /\ challenger' = c
        /\ challengeBond' = bond /\ bond > 0 /\ bond \in Nat
    BY EnvironmentTypes DEF ChallengeResolution, TypeOK, RegistryView
  <1>2. challengeBond = 0
    BY <1>1 DEF LedgerInv, BondLivesWithDispute, TypeOK
  <1>3. /\ balance' = balance + bond /\ balance \in Nat
        /\ wallet'[c] = wallet[c] - bond
        /\ \A b \in Accounts \ {c} : wallet'[b] = wallet[b]
        /\ \A b \in Accounts : wallet[b] \in Int
    BY <1>1 DEF ChallengeResolution, TransferIn, Credit, TypeOK
  <1>4. UNCHANGED <<userStakes, outcomePools, totalPool, feesCollected, distributablePool,
                    hasClaimed, totalClaimed, totalWinningStakeClaimed, unaccounted>>
    BY DEF ChallengeResolution
  <1> HIDE DEF bond
  <1>5. /\ \A a : StakeOf(a)' = StakeOf(a)
        /\ \A o : StakesOn(o)' = StakesOn(o)
        /\ AllStakes' = AllStakes
    BY <1>4, SameStakes
  <1>6. AllStakes \in Nat /\ unaccounted \in Nat
    BY SumsOfStakes, RowsType, TotalType, Finite DEF TypeOK
  <1>7. PoolsMatchStakes' /\ (state # "VOIDED" => totalPool = AllStakes)'
    BY <1>1, <1>4, <1>5 DEF LedgerInv, PoolsMatchStakes
  <1>8. EveryTokenAccountedFor'
    BY <1>1, <1>2, <1>3, <1>4, <1>5, <1>6 DEF LedgerInv, EveryTokenAccountedFor
  <1>9. NobodyLosesBeforeFinal'
    <2>1. ASSUME NEW b \in Accounts
          PROVE  wallet'[b] + StakeOf(b)'
                   + (IF b = challenger' THEN challengeBond' ELSE 0) = 0
      <3>1. wallet[b] + StakeOf(b) + 0 = 0 /\ StakeOf(b) \in Nat
        BY <1>1, <1>2, StakeTypes DEF LedgerInv, NobodyLosesBeforeFinal, TypeOK
      <3>2. StakeOf(b)' = StakeOf(b)
        BY <1>5
      <3>3. CASE b = c
        BY <1>1, <1>3, <3>1, <3>2, <3>3
      <3>4. CASE b # c
        BY <1>1, <1>3, <3>1, <3>2, <3>4
      <3> QED BY <3>3, <3>4
    <2> QED BY <2>1 DEF NobodyLosesBeforeFinal
  <1>10. BondLivesWithDispute' /\ NothingPaidEarly' /\ WinnersKeepHalf' /\ ClaimsKeepPace'
    BY <1>1, <1>4 DEF LedgerInv, BondLivesWithDispute, NothingPaidEarly, WinnersKeepHalf,
                      ClaimsKeepPace
  <1> QED BY <1>7, <1>8, <1>9, <1>10 DEF LedgerInv

LEMMA FinalizeLedger ==
  ASSUME TypeOK, LedgerInv, NEW c \in Accounts, FinalizeResolution(c)
  PROVE  LedgerInv'
PROOF
  <1> USE DEF envVars, stakeVars, claimVars
  <1>1. Fees(reg) \in Nat /\ 2 * Fees(reg) <= totalPool /\ totalPool \in Nat
    BY EnvironmentTypes, FeesTakeAtMostHalf DEF TypeOK
  <1>2. /\ state \in {"PROPOSED", "CHALLENGED"} /\ state' = "FINALIZED"
        /\ winningOutcome \in Outcomes
    BY DEF FinalizeResolution, TypeOK, WinnerKnown
  <1>3. ~feesCollected /\ totalClaimed = 0 /\ totalWinningStakeClaimed = 0
        /\ \A a \in Accounts : ~hasClaimed[a]
    BY <1>2 DEF LedgerInv, NothingPaidEarly
  <1>4. challengeBond \in Nat /\ (state = "PROPOSED" => challengeBond = 0)
    BY <1>2 DEF LedgerInv, BondLivesWithDispute, TypeOK
  <1>5. /\ challengeBond' = 0
        /\ balance' = balance - challengeBond - Fees(reg)
        /\ distributablePool' = totalPool - Fees(reg) /\ feesCollected'
    BY <1>1, <1>2, <1>3, <1>4 DEF FinalizeResolution, TypeOK
  <1>6. UNCHANGED <<userStakes, outcomePools, totalPool, winningOutcome, hasClaimed,
                    totalClaimed, totalWinningStakeClaimed, unaccounted>>
    BY DEF FinalizeResolution
  <1>7. /\ \A o : StakesOn(o)' = StakesOn(o)
        /\ AllStakes' = AllStakes
        /\ ClaimedStakes' = ClaimedStakes /\ WinningPool' = WinningPool
    BY <1>6, SameStakes, SameClaims
  <1>8. PoolsMatchStakes'
    BY <1>2, <1>6, <1>7 DEF LedgerInv, PoolsMatchStakes
  <1>9. totalPool' = AllStakes'
    BY <1>2, <1>6, <1>7 DEF LedgerInv
  <1>10. EveryTokenAccountedFor'
    <2>1. balance = unaccounted + challengeBond + totalPool /\ unaccounted \in Nat
      BY <1>2 DEF LedgerInv, EveryTokenAccountedFor, TypeOK
    <2>2. balance' = unaccounted' + challengeBond' + (distributablePool' - totalClaimed')
      BY <1>1, <1>3, <1>4, <1>5, <1>6, <2>1
    <2> QED BY <1>2, <2>2 DEF EveryTokenAccountedFor
  <1>11. NobodyLosesBeforeFinal' /\ BondLivesWithDispute' /\ NothingPaidEarly'
    BY <1>2, <1>5 DEF NobodyLosesBeforeFinal, BondLivesWithDispute, NothingPaidEarly
  <1>12. WinnersKeepHalf'
    BY <1>1, <1>5, <1>6 DEF WinnersKeepHalf
  <1>13. ClaimsKeepPace'
    <2>1. ClaimedStakes = 0
      <3> DEFINE f == [a \in Accounts |-> IF hasClaimed[a] THEN WinningStake(a) ELSE 0]
      <3>1. f \in [Accounts -> Nat] /\ \A a \in Accounts : f[a] = 0
        BY <1>3
      <3> HIDE DEF f
      <3>2. Total(f) = 0
        BY <3>1, TotalZero
      <3> QED BY <3>2 DEF ClaimedStakes, f
    <2>2. WinningPool \in Nat
      BY <1>2 DEF TypeOK, WinningPool
    <2>3. totalClaimed' * WinningPool' <= totalWinningStakeClaimed' * distributablePool'
      BY <1>1, <1>3, <1>5, <1>6, <1>7, <2>2
    <2>4. distributablePool' <= totalPool' /\ totalClaimed' <= distributablePool'
      BY <1>1, <1>3, <1>5, <1>6
    <2> QED BY <1>3, <1>5, <1>6, <1>7, <2>1, <2>3, <2>4 DEF ClaimsKeepPace
  <1> QED BY <1>8, <1>9, <1>10, <1>11, <1>12, <1>13 DEF LedgerInv

LEMMA VoidLedger ==
  ASSUME TypeOK, LedgerInv, NEW c \in Accounts, VoidMarket(c)
  PROVE  LedgerInv'
PROOF
  <1> USE DEF envVars, stakeVars, feeVars, claimVars, tokenVars
  <1>1. state # "FINALIZED" /\ state' = "VOIDED" /\ challengeBond' = 0
    BY DEF VoidMarket, ReturnBond, Voidable
  <1>2. UNCHANGED <<userStakes, outcomePools, totalPool, challenger, feesCollected,
                    distributablePool, hasClaimed, totalClaimed,
                    totalWinningStakeClaimed, unaccounted>>
    BY DEF VoidMarket, ReturnBond, Voidable
  <1>3. /\ challengeBond \in Nat /\ balance \in Nat /\ unaccounted \in Nat
        /\ \A b \in Accounts : wallet[b] \in Int
    BY DEF TypeOK
  <1>4. balance' = balance - challengeBond
    BY <1>3 DEF VoidMarket, ReturnBond, Voidable, TransferOut
  <1>5. \A b \in Accounts :
          wallet'[b] = wallet[b] + (IF b = challenger THEN challengeBond ELSE 0)
    <2>1. CASE challengeBond > 0
      BY <1>3, <2>1 DEF VoidMarket, ReturnBond, Voidable, TransferOut, Credit, TypeOK
    <2>2. CASE challengeBond = 0
      BY <1>3, <2>2 DEF VoidMarket, ReturnBond, Voidable
    <2> QED BY <1>3, <2>1, <2>2
  <1>6. /\ \A a : StakeOf(a)' = StakeOf(a)
        /\ AllStakes' = AllStakes
    BY <1>2, SameStakes
  <1>7. AllStakes \in Nat
    BY SumsOfStakes, RowsType, TotalType, Finite DEF TypeOK
  <1>8. PoolsMatchStakes'
    BY <1>1, <1>2 DEF LedgerInv, PoolsMatchStakes
  <1>9. EveryTokenAccountedFor'
    BY <1>1, <1>2, <1>3, <1>4, <1>6, <1>7 DEF LedgerInv, EveryTokenAccountedFor
  <1>10. NobodyLosesBeforeFinal'
    <2>1. ASSUME NEW b \in Accounts PROVE wallet'[b] + StakeOf(b)' + 0 = 0
      <3>1. /\ wallet[b] + StakeOf(b) + (IF b = challenger THEN challengeBond ELSE 0) = 0
            /\ StakeOf(b) \in Nat
        BY <1>1, StakeTypes DEF LedgerInv, NobodyLosesBeforeFinal, TypeOK
      <3>2. StakeOf(b)' = StakeOf(b)
        BY <1>6
      <3> QED BY <1>3, <1>5, <3>1, <3>2
    <2> QED BY <1>1, <2>1 DEF NobodyLosesBeforeFinal
  <1>11. BondLivesWithDispute' /\ NothingPaidEarly' /\ WinnersKeepHalf' /\ ClaimsKeepPace'
    BY <1>1, <1>2 DEF LedgerInv, BondLivesWithDispute, NothingPaidEarly, WinnersKeepHalf,
                      ClaimsKeepPace
  <1> QED BY <1>1, <1>8, <1>9, <1>10, <1>11 DEF LedgerInv

LEMMA RefundLedger ==
  ASSUME TypeOK, LedgerInv, NEW a \in Accounts, Refund(a)
  PROVE  LedgerInv'
PROOF
  <1> USE DEF envVars, bondVars, feeVars, claimVars, phaseVars
  <1>1. state = "VOIDED" /\ state' = "VOIDED"
    BY DEF Refund, PayoutOpen
  <1>2. /\ userStakes \in [Accounts -> [Outcomes -> Nat]]
        /\ userStakes' \in [Accounts -> [Outcomes -> Nat]]
        /\ \A o \in Outcomes : userStakes'[a][o] = 0
        /\ \A b \in Accounts \ {a} : userStakes'[b] = userStakes[b]
    BY DEF Refund, PayoutOpen, TypeOK
  <1>3. UNCHANGED <<outcomePools, totalPool, challenger, challengeBond, feesCollected,
                    distributablePool, hasClaimed, totalClaimed,
                    totalWinningStakeClaimed, unaccounted>>
    BY DEF Refund, PayoutOpen
  <1>4. /\ balance' = balance - StakeOf(a) /\ balance \in Nat
        /\ wallet'[a] = wallet[a] + StakeOf(a)
        /\ \A b \in Accounts \ {a} : wallet'[b] = wallet[b]
        /\ \A b \in Accounts : wallet[b] \in Int
    BY DEF Refund, PayoutOpen, TransferOut, Credit, StakeOf, TypeOK
  <1>5. StakeOf(a)' = 0 /\ AllStakes' = AllStakes - StakeOf(a)
    BY <1>2, RefundSums, SumsOfStakes DEF StakeOf
  <1>6. AllStakes \in Nat /\ unaccounted \in Nat /\ challengeBond \in Nat
        /\ StakeOf(a) \in Nat
    BY SumsOfStakes, RowsType, TotalType, Finite, StakeTypes DEF TypeOK
  <1>7. PoolsMatchStakes'
    BY <1>1, <1>3 DEF LedgerInv, PoolsMatchStakes
  <1>8. EveryTokenAccountedFor'
    BY <1>1, <1>3, <1>4, <1>5, <1>6 DEF LedgerInv, EveryTokenAccountedFor
  <1>9. NobodyLosesBeforeFinal'
    <2>1. ASSUME NEW b \in Accounts
          PROVE  wallet'[b] + StakeOf(b)'
                   + (IF b = challenger' THEN challengeBond' ELSE 0) = 0
      <3>1. /\ wallet[b] + StakeOf(b) + (IF b = challenger THEN challengeBond ELSE 0) = 0
            /\ StakeOf(b) \in Nat
        BY <1>1, StakeTypes DEF LedgerInv, NobodyLosesBeforeFinal, TypeOK
      <3>2. CASE b = a
        BY <1>3, <1>4, <1>5, <1>6, <3>1, <3>2
      <3>3. CASE b # a
        <4>1. StakeOf(b)' = StakeOf(b)
          BY <1>2, <3>3 DEF StakeOf
        <4> QED BY <1>3, <1>4, <3>1, <3>3, <4>1
      <3> QED BY <3>2, <3>3
    <2> QED BY <2>1 DEF NobodyLosesBeforeFinal
  <1>10. BondLivesWithDispute' /\ NothingPaidEarly' /\ WinnersKeepHalf' /\ ClaimsKeepPace'
    BY <1>1, <1>3 DEF LedgerInv, BondLivesWithDispute, NothingPaidEarly, WinnersKeepHalf,
                      ClaimsKeepPace
  <1> QED BY <1>1, <1>7, <1>8, <1>9, <1>10 DEF LedgerInv

------------------------------------------------------------------------------
(* Claims: the winners paid so far never get ahead of their part of the     *)
(* payout pool, so that the next share always fits.                         *)

LEMMA CancelFactor ==
  ASSUME NEW x \in Nat, NEW y \in Nat, NEW w \in Nat, w > 0, x * w <= y * w
  PROVE  x <= y
PROOF
  <1>1. ASSUME y + 1 <= x PROVE FALSE
    <2>1. (y + 1) * w <= x * w
      BY <1>1, Z3
    <2>2. (y + 1) * w = y * w + w
      BY Z3
    <2>3. x * w \in Nat /\ y * w \in Nat
      BY ProductNat
    <2> QED BY <2>1, <2>2, <2>3
  <1> QED BY <1>1

LEMMA ShareFits ==
  ASSUME NEW w \in Nat, NEW d \in Nat, NEW t \in Nat, NEW c \in Nat, NEW s \in Nat,
         NEW q \in Nat, w > 0, t + s <= w, c * w <= t * d, q * w <= s * d
  PROVE  c + q <= d /\ (c + q) * w <= (t + s) * d
PROOF
  <1>1. (c + q) * w = c * w + q * w /\ (t + s) * d = t * d + s * d
    BY Z3
  <1>2. c * w \in Nat /\ q * w \in Nat /\ t * d \in Nat /\ s * d \in Nat
    BY ProductNat
  <1>3. (c + q) * w <= (t + s) * d
    BY <1>1, <1>2
  <1>4. (t + s) * d <= w * d /\ w * d = d * w
    BY Z3
  <1>5. (c + q) * w <= d * w
    <2>1. (c + q) * w \in Nat /\ (t + s) * d \in Nat /\ w * d \in Nat
      BY ProductNat
    <2> QED BY <1>3, <1>4, <2>1
  <1> QED BY <1>3, <1>5, CancelFactor

\* What a winner who has not claimed can rely on.
LEMMA ShareOfUnclaimed ==
  ASSUME TypeOK, LedgerInv, state = "FINALIZED", NEW a \in Accounts,
         ~hasClaimed[a], WinningStake(a) > 0
  PROVE  /\ WinningPool > 0
         /\ totalWinningStakeClaimed + WinningStake(a) <= WinningPool
         /\ ProRata(WinningStake(a)) * WinningPool <= WinningStake(a) * distributablePool
         /\ totalClaimed + ProRata(WinningStake(a)) <= distributablePool
PROOF
  <1>1. /\ winningOutcome \in Outcomes /\ WinningPool \in Nat
        /\ WinningStake(a) \in Nat /\ distributablePool \in Nat
        /\ totalClaimed \in Nat /\ totalWinningStakeClaimed \in Nat
    BY DEF TypeOK, WinnerKnown, WinningPool, WinningStake
  <1>2. totalWinningStakeClaimed + WinningStake(a) <= WinningPool
    <2>0. /\ hasClaimed \in [Accounts -> BOOLEAN]
          /\ userStakes \in [Accounts -> [Outcomes -> Nat]]
      BY DEF TypeOK
    <2>2. Total(ClaimedBy(userStakes, winningOutcome, hasClaimed))
            + userStakes[a][winningOutcome] <= Total(Column(userStakes, winningOutcome))
      BY <1>1, <2>0, UnclaimedFits
    <2>3. /\ totalWinningStakeClaimed
               = Total(ClaimedBy(userStakes, winningOutcome, hasClaimed))
          /\ WinningPool = Total(Column(userStakes, winningOutcome))
      BY <1>1, SumsOfStakes
         DEF LedgerInv, ClaimsKeepPace, PoolsMatchStakes, WinningPool
    <2> QED BY <2>2, <2>3 DEF WinningStake
  <1>3. WinningPool > 0
    BY <1>1, <1>2
  <1>4. ProRata(WinningStake(a)) * WinningPool <= WinningStake(a) * distributablePool
    BY <1>1, <1>3, ProductNat, FloorBounds DEF ProRata
  <1>5. ProRata(WinningStake(a)) \in Nat
    BY <1>3, ClaimAmountType
  <1>6. totalClaimed * WinningPool <= totalWinningStakeClaimed * distributablePool
    BY DEF LedgerInv, ClaimsKeepPace
  <1> QED BY <1>1, <1>2, <1>3, <1>4, <1>5, <1>6, ShareFits

LEMMA ClaimLedger ==
  ASSUME TypeOK, LedgerInv, NEW a \in Accounts, Claim(a)
  PROVE  LedgerInv'
PROOF
  <1> DEFINE s == WinningStake(a)
             q == ClaimAmount(a)
  <1> USE DEF envVars, stakeVars, bondVars, feeVars, phaseVars
  <1>1. state = "FINALIZED" /\ state' = "FINALIZED" /\ ~hasClaimed[a] /\ s > 0
    BY DEF Claim, PayoutOpen
  <1>2. /\ winningOutcome \in Outcomes /\ WinningPool \in Nat /\ s \in Nat
        /\ distributablePool \in Nat /\ totalClaimed \in Nat
        /\ totalWinningStakeClaimed \in Nat /\ balance \in Nat
        /\ unaccounted \in Nat /\ challengeBond \in Nat
    BY <1>1 DEF TypeOK, WinnerKnown, WinningPool, WinningStake
  <1>3. /\ totalWinningStakeClaimed' = totalWinningStakeClaimed + s
        /\ totalClaimed' = totalClaimed + q /\ balance' = balance - q
        /\ q \in Nat
    <2>1. q \in Int
      BY <1>1, ClaimAmountType DEF Claim, PayoutOpen
    <2> QED BY <2>1 DEF Claim, PayoutOpen, TransferOut
  <1>4. UNCHANGED <<userStakes, outcomePools, totalPool, winningOutcome, challenger,
                    challengeBond, feesCollected, distributablePool, unaccounted>>
    BY DEF Claim, PayoutOpen
  <1>5. /\ WinningPool > 0 /\ totalWinningStakeClaimed + s <= WinningPool
        /\ ProRata(s) * WinningPool <= s * distributablePool
        /\ totalClaimed + ProRata(s) <= distributablePool
        /\ ProRata(s) \in Nat
    BY <1>1, ShareOfUnclaimed, ClaimAmountType
  <1>6. totalClaimed * WinningPool <= totalWinningStakeClaimed * distributablePool
        /\ totalClaimed <= distributablePool /\ distributablePool <= totalPool /\ feesCollected
    BY <1>1 DEF LedgerInv, ClaimsKeepPace
  <1>7. q = IF totalWinningStakeClaimed + s = WinningPool
              THEN distributablePool - totalClaimed ELSE ProRata(s)
    BY DEF ClaimAmount
  <1>8. ClaimedStakes' = ClaimedStakes + s
    <2>1. /\ hasClaimed \in [Accounts -> BOOLEAN] /\ hasClaimed' \in [Accounts -> BOOLEAN]
          /\ userStakes \in [Accounts -> [Outcomes -> Nat]]
          /\ hasClaimed'[a] /\ \A b \in Accounts \ {a} : hasClaimed'[b] = hasClaimed[b]
      BY DEF Claim, PayoutOpen, TypeOK
    <2>2. Total(ClaimedBy(userStakes, winningOutcome, hasClaimed'))
            = Total(ClaimedBy(userStakes, winningOutcome, hasClaimed))
                + userStakes[a][winningOutcome]
      BY <1>1, <1>2, <2>1, ClaimSums
    <2> QED BY <1>4, <2>2, SumsOfStakes DEF WinningStake
  <1>9. WinningPool' = WinningPool
    BY <1>4 DEF WinningPool
  <1> HIDE DEF s, q
  <1>10. /\ totalClaimed' <= distributablePool
         /\ totalClaimed' * WinningPool <= totalWinningStakeClaimed' * distributablePool
    <2>1. CASE totalWinningStakeClaimed + s = WinningPool
      <3>1. totalClaimed' = distributablePool /\ totalWinningStakeClaimed' = WinningPool
        BY <1>2, <1>3, <1>6, <1>7, <2>1
      <3>2. distributablePool * WinningPool = WinningPool * distributablePool
            /\ distributablePool * WinningPool \in Nat
        BY <1>2, ProductNat
      <3> QED BY <1>2, <3>1, <3>2
    <2>2. CASE totalWinningStakeClaimed + s # WinningPool
      <3>1. q = ProRata(s)
        BY <1>7, <2>2
      <3> QED BY <1>2, <1>3, <1>5, <1>6, <3>1, ShareFits
    <2> QED BY <2>1, <2>2
  <1>11. ClaimsKeepPace'
    <2>1. totalWinningStakeClaimed' = ClaimedStakes'
      BY <1>1, <1>3, <1>8 DEF LedgerInv, ClaimsKeepPace
    <2>2. feesCollected' /\ distributablePool' <= totalPool'
      BY <1>4, <1>6
    <2>3. /\ totalClaimed' <= distributablePool'
          /\ totalClaimed' * WinningPool' <= totalWinningStakeClaimed' * distributablePool'
      BY <1>4, <1>9, <1>10
    <2> QED BY <2>1, <2>2, <2>3 DEF ClaimsKeepPace
  <1>12. EveryTokenAccountedFor'
    <2>1. balance = unaccounted + challengeBond + (distributablePool - totalClaimed)
      BY <1>1 DEF LedgerInv, EveryTokenAccountedFor
    <2>2. balance' = unaccounted' + challengeBond' + (distributablePool' - totalClaimed')
      BY <1>2, <1>3, <1>4, <2>1
    <2> QED BY <1>1, <2>2 DEF EveryTokenAccountedFor
  <1>13. /\ \A o : StakesOn(o)' = StakesOn(o)
         /\ AllStakes' = AllStakes
    BY <1>4, SameStakes
  <1>14. PoolsMatchStakes' /\ (state # "VOIDED" => totalPool = AllStakes)'
    BY <1>1, <1>4, <1>13 DEF LedgerInv, PoolsMatchStakes
  <1>15. NobodyLosesBeforeFinal' /\ BondLivesWithDispute' /\ NothingPaidEarly' /\ WinnersKeepHalf'
    BY <1>1, <1>4 DEF LedgerInv, NobodyLosesBeforeFinal, BondLivesWithDispute,
                      NothingPaidEarly, WinnersKeepHalf
  <1> QED BY <1>11, <1>12, <1>14, <1>15 DEF LedgerInv

------------------------------------------------------------------------------
(* The theorems.                                                            *)

LEMMA InitializedLedger ==
  ASSUME Initialized, TypeOK
  PROVE  LedgerInv
PROOF
  <1>1. \A a \in Accounts : StakeOf(a) = 0
    <2> TAKE a \in Accounts
    <2>1. userStakes[a] \in [Outcomes -> Nat] /\ \A o \in Outcomes : userStakes[a][o] = 0
      BY DEF Initialized
    <2> QED BY <2>1, TotalZero DEF StakeOf
  <1>2. AllStakes = 0
    <2>1. Rows(userStakes) \in [Accounts -> Nat]
      BY RowsType DEF TypeOK
    <2>2. \A a \in Accounts : Rows(userStakes)[a] = 0
      BY <1>1 DEF Rows, StakeOf
    <2> QED BY <2>1, <2>2, TotalZero, SumsOfStakes
  <1>3. PoolsMatchStakes
    <2>1. Total(outcomePools) = 0
      <3>1. outcomePools \in [Outcomes -> Nat] /\ \A o \in Outcomes : outcomePools[o] = 0
        BY DEF Initialized
      <3> QED BY <3>1, TotalZero
    <2>2. ASSUME NEW o \in Outcomes PROVE StakesOn(o) = 0
      <3>1. Column(userStakes, o) \in [Accounts -> Nat]
        BY RowsType DEF TypeOK
      <3>2. \A a \in Accounts : Column(userStakes, o)[a] = 0
        BY DEF Column, Initialized
      <3> QED BY <3>1, <3>2, TotalZero, SumsOfStakes
    <2> QED BY <2>1, <2>2 DEF Initialized, PoolsMatchStakes
  <1>4. EveryTokenAccountedFor /\ NobodyLosesBeforeFinal
    BY <1>1, <1>2 DEF Initialized, EveryTokenAccountedFor, NobodyLosesBeforeFinal
  <1>5. BondLivesWithDispute /\ NothingPaidEarly /\ WinnersKeepHalf /\ ClaimsKeepPace
    BY DEF Initialized, BondLivesWithDispute, NothingPaidEarly, WinnersKeepHalf, ClaimsKeepPace
  <1> QED BY <1>2, <1>3, <1>4, <1>5 DEF Initialized, LedgerInv

LEMMA StepLedger == TypeOK /\ LedgerInv /\ [Next]_vars => LedgerInv'
PROOF
  <1> SUFFICES ASSUME TypeOK, LedgerInv, [Next]_vars PROVE LedgerInv'
    OBVIOUS
  <1> USE DEF envVars, stakeVars, bondVars, feeVars, claimVars, tokenVars, phaseVars
  <1>1. CASE Tick
    BY <1>1, QuietLedger DEF Tick
  <1>2. CASE RegistryChange
    BY <1>2, QuietLedger DEF RegistryChange
  <1>3. CASE \E n \in 1 .. MaxUnaccounted : Receive(n)
    BY <1>3, ReceiveLedger, BoundsAssumption
  <1>4. ASSUME NEW v \in Vouchers, PlaceBet(v) PROVE LedgerInv'
    BY <1>4, BetLedger
  <1>5. ASSUME NEW a \in Accounts, ApproveMarket(a) PROVE LedgerInv'
    BY <1>5, QuietLedger DEF ApproveMarket
  <1>6. ASSUME NEW a \in Accounts, CloseMarket(a) PROVE LedgerInv'
    BY <1>6, QuietLedger DEF CloseMarket
  <1>7. ASSUME NEW a \in Accounts, NEW o \in Outcomes \cup {NoOutcome}, ProposeResolution(a, o)
        PROVE  LedgerInv'
    BY <1>7, QuietLedger DEF ProposeResolution
  <1>8. ASSUME NEW a \in Accounts, ChallengeResolution(a) PROVE LedgerInv'
    BY <1>8, ChallengeLedger
  <1>9. ASSUME NEW a \in Accounts, FinalizeResolution(a) PROVE LedgerInv'
    BY <1>9, FinalizeLedger
  <1>10. ASSUME NEW a \in Accounts, VoidMarket(a) PROVE LedgerInv'
    BY <1>10, VoidLedger
  <1>11. ASSUME NEW a \in Accounts, Claim(a) PROVE LedgerInv'
    BY <1>11, ClaimLedger
  <1>12. ASSUME NEW a \in Accounts, Refund(a) PROVE LedgerInv'
    BY <1>12, RefundLedger
  <1>13. CASE UNCHANGED vars
    BY <1>13, QuietLedger DEF vars
  <1> QED BY <1>1, <1>2, <1>3, <1>4, <1>5, <1>6, <1>7, <1>8, <1>9, <1>10, <1>11,
             <1>12, <1>13 DEF Next

\* The counters, balances and wallets of every market stay in step.
THEOREM LedgerCorrect == Spec => [](TypeOK /\ LedgerInv)
PROOF
  <1>1. Init => TypeOK /\ LedgerInv
    BY InitType, InitializedLedger DEF Init
  <1>2. (TypeOK /\ LedgerInv) /\ [Next]_vars => (TypeOK /\ LedgerInv)'
    BY StepType, StepLedger
  <1> QED BY <1>1, <1>2, PTL DEF Spec

\* Every bettor of a market that is not finalised can be made whole, whoever the
\* bettors are and however the calls were interleaved.
THEOREM MadeWhole == Spec => []NobodyLosesBeforeFinal
PROOF
  <1>1. TypeOK /\ LedgerInv => NobodyLosesBeforeFinal
    BY DEF LedgerInv
  <1> QED BY <1>1, LedgerCorrect, PTL

\* The market always holds what it owes.
THEOREM Solvent == Spec => []EveryTokenAccountedFor
PROOF
  <1>1. TypeOK /\ LedgerInv => EveryTokenAccountedFor
    BY DEF LedgerInv
  <1> QED BY <1>1, LedgerCorrect, PTL

\* Whatever the registry charges when the market is finalised, winners keep half.
THEOREM HalfIsKept == Spec => []WinnersKeepHalf
PROOF
  <1>1. TypeOK /\ LedgerInv => WinnersKeepHalf
    BY DEF LedgerInv
  <1> QED BY <1>1, LedgerCorrect, PTL

LEMMA ClaimsFit == TypeOK /\ LedgerInv => ClaimsNeverBlocked
PROOF
  <1>1. ASSUME TypeOK, LedgerInv, state = "FINALIZED", NEW a \in Accounts,
               ~hasClaimed[a], WinningStake(a) > 0
        PROVE  /\ WinningPool > 0
               /\ ProRata(WinningStake(a)) <= ClaimAmount(a)
               /\ ClaimAmount(a) <= balance
    <2> DEFINE q == ProRata(WinningStake(a))
    <2>1. WinningPool > 0 /\ totalClaimed + q <= distributablePool /\ q \in Nat
      BY <1>1, ShareOfUnclaimed, ClaimAmountType
    <2>2. /\ balance = unaccounted + challengeBond + (distributablePool - totalClaimed)
          /\ totalClaimed <= distributablePool
          /\ unaccounted \in Nat /\ challengeBond \in Nat
          /\ totalClaimed \in Nat /\ distributablePool \in Nat
      BY <1>1 DEF LedgerInv, EveryTokenAccountedFor, ClaimsKeepPace, TypeOK
    <2>3. ClaimAmount(a) \in {q, distributablePool - totalClaimed}
      BY DEF ClaimAmount
    <2> HIDE DEF q
    <2>4. q <= ClaimAmount(a) /\ ClaimAmount(a) <= balance
      BY <2>1, <2>2, <2>3
    <2> QED BY <2>1, <2>4 DEF q
  <1> QED BY <1>1 DEF ClaimsNeverBlocked

\* No interleaving of claims leaves a winner with a claim that reverts or that
\* pays less than the pro-rata share.
THEOREM ClaimsGoThrough == Spec => []ClaimsNeverBlocked
  BY ClaimsFit, LedgerCorrect, PTL

\* What finalising has fixed, no later call changes.
THEOREM TermsAreFrozen == Spec => FinalTermsAreFrozen
PROOF
  <1>1. ASSUME [Next]_vars, state = "FINALIZED"
        PROVE  UNCHANGED <<phaseVars, stakeVars, feeVars, bondVars>>
    <2> USE DEF envVars, stakeVars, bondVars, feeVars, claimVars, phaseVars
    <2>1. CASE UNCHANGED vars \/ Tick \/ RegistryChange \/ \E n \in 1 .. MaxUnaccounted : Receive(n)
      BY <2>1 DEF vars, Tick, RegistryChange, Receive
    <2>2. ASSUME NEW v \in Vouchers, PlaceBet(v) PROVE FALSE
      BY <1>1, <2>2 DEF PlaceBet, BetOk
    <2>3. ASSUME NEW a \in Accounts, Claim(a)
          PROVE  UNCHANGED <<phaseVars, stakeVars, feeVars, bondVars>>
      BY <2>3 DEF Claim
    <2>4. ASSUME NEW a \in Accounts,
                 ApproveMarket(a) \/ CloseMarket(a) \/ ChallengeResolution(a)
                   \/ FinalizeResolution(a) \/ VoidMarket(a) \/ Refund(a)
          PROVE  FALSE
      BY <1>1, <2>4 DEF ApproveMarket, CloseMarket, ChallengeResolution,
         FinalizeResolution, VoidMarket, Voidable, Refund, PayoutOpen
    <2>5. ASSUME NEW a \in Accounts, NEW o \in Outcomes \cup {NoOutcome},
                 ProposeResolution(a, o)
          PROVE  FALSE
      BY <1>1, <2>5 DEF ProposeResolution
    <2> QED
      BY <1>1, <2>1, <2>2, <2>3, <2>4, <2>5 DEF Next
  <1> QED
    BY <1>1, PTL DEF Spec, FinalTermsAreFrozen

------------------------------------------------------------------------------
(* What the escrow owes and holds.                                          *)

Owed == [a \in Accounts |-> OwedTo(a)]

Pot == IF state = "FINALIZED" THEN distributablePool - totalClaimed ELSE AllStakes

\* A market that is not finalised owes every stake and holds every stake.
LEMMA OwedBeforeFinal ==
  ASSUME TypeOK, state # "FINALIZED"
  PROVE  /\ Owed = Rows(userStakes) /\ Pot = Total(Rows(userStakes))
         /\ Owed \in [Accounts -> Nat] /\ Pot \in Nat
PROOF
  <1>1. userStakes \in [Accounts -> [Outcomes -> Nat]]
    BY DEF TypeOK
  <1>2. Owed = Rows(userStakes)
    BY DEF Owed, OwedTo, Rows, StakeOf
  <1>3. Rows(userStakes) \in [Accounts -> Nat]
    BY <1>1, RowsType
  <1>4. Total(Rows(userStakes)) \in Nat
    BY <1>3, TotalType, Finite
  <1> QED BY <1>2, <1>3, <1>4, SumsOfStakes DEF Pot

\* A finalised market owes each winner who has not claimed the rounded share, and
\* the rest of the payout pool covers them all: claims were never ahead of their
\* part, and rounding down leaves the others at most theirs.
LEMMA OwedWhenFinal ==
  ASSUME TypeOK, LedgerInv, state = "FINALIZED"
  PROVE  Owed \in [Accounts -> Nat] /\ Pot \in Nat /\ Total(Owed) <= Pot
PROOF
  <1> DEFINE stakes == Column(userStakes, winningOutcome)
             paid == ClaimedBy(userStakes, winningOutcome, hasClaimed)
             open == [a \in Accounts |-> IF hasClaimed[a] THEN 0 ELSE stakes[a]]
  <1>1. /\ winningOutcome \in Outcomes /\ hasClaimed \in [Accounts -> BOOLEAN]
        /\ userStakes \in [Accounts -> [Outcomes -> Nat]]
        /\ distributablePool \in Nat /\ totalClaimed \in Nat
        /\ WinningPool \in Nat
    BY DEF TypeOK, WinnerKnown, WinningPool
  <1>2. /\ totalClaimed <= distributablePool
        /\ totalClaimed * WinningPool <= totalWinningStakeClaimed * distributablePool
        /\ totalWinningStakeClaimed = Total(paid) /\ WinningPool = Total(stakes)
    BY <1>1, SumsOfStakes DEF LedgerInv, ClaimsKeepPace, PoolsMatchStakes, WinningPool
  <1>3. Pot \in Nat /\ Pot = distributablePool - totalClaimed
    BY <1>1, <1>2 DEF Pot
  <1>4. /\ stakes \in [Accounts -> Nat] /\ open \in [Accounts -> Nat]
        /\ paid \in [Accounts -> Nat]
        /\ \A a \in Accounts : stakes[a] = WinningStake(a)
    BY <1>1 DEF Column, ClaimedBy, WinningStake
  <1>5. Total(stakes) = Total(paid) + Total(open)
    <2> DEFINE T == {a \in Accounts : hasClaimed[a]}
    <2>1. /\ paid = [a \in Accounts |-> IF a \in T THEN stakes[a] ELSE 0]
          /\ open = [a \in Accounts |-> IF a \in T THEN 0 ELSE stakes[a]]
      BY DEF ClaimedBy, Column
    <2> HIDE DEF stakes, paid, open, T
    <2> QED BY <1>4, <2>1, TotalSplit, Finite
  <1>6. CASE WinningPool = 0
    <2>1. ASSUME NEW a \in Accounts PROVE WinningStake(a) = 0
      <3>1. stakes[a] <= 0 /\ stakes[a] \in Nat
        <4> HIDE DEF stakes
        <4> QED BY <1>2, <1>4, <1>6, EntryBelowTotal, Finite
      <3> QED BY <1>4, <3>1
    <2>2. Owed \in [Accounts -> Nat] /\ \A a \in Accounts : Owed[a] = 0
      BY <2>1 DEF Owed, OwedTo
    <2>3. Total(Owed) = 0
      BY <2>2, TotalZero
    <2> QED BY <1>3, <2>2, <2>3
  <1>7. CASE WinningPool > 0
    <2>1. ASSUME NEW a \in Accounts
          PROVE  Owed[a] \in Nat /\ Owed[a] * WinningPool <= open[a] * distributablePool
      <3>1. Owed[a] = OwedTo(a) /\ open[a] = IF hasClaimed[a] THEN 0 ELSE WinningStake(a)
        BY <1>4 DEF Owed
      <3>2. CASE hasClaimed[a] \/ WinningStake(a) = 0
        <4>1. Owed[a] = 0 /\ open[a] = 0
          BY <3>1, <3>2 DEF OwedTo
        <4> QED BY <1>1, <4>1
      <3>3. CASE ~(hasClaimed[a] \/ WinningStake(a) = 0)
        <4>1. Owed[a] = ProRata(WinningStake(a)) /\ open[a] = WinningStake(a)
          BY <3>1, <3>3 DEF OwedTo
        <4>2. WinningStake(a) > 0
          BY <1>4, <3>3
        <4>3. /\ ProRata(WinningStake(a)) \in Nat
              /\ ProRata(WinningStake(a)) * WinningPool <= WinningStake(a) * distributablePool
          BY <1>7, <3>3, <4>2, ShareOfUnclaimed, ClaimAmountType
        <4> QED BY <4>1, <4>3
      <3> QED BY <3>2, <3>3
    <2>2. Owed \in [Accounts -> Nat]
      BY <2>1 DEF Owed
    <2> HIDE DEF stakes, paid, open
    <2>3. Total(Owed) * WinningPool <= Total(open) * distributablePool
      BY <1>1, <1>4, <1>7, <2>1, <2>2, SharesFit, Finite
    <2>4. Total(Owed) \in Nat /\ Total(open) \in Nat /\ Total(paid) \in Nat
      BY <1>4, <2>2, TotalType, Finite
    <2>5. totalClaimed + Total(Owed) <= distributablePool
      <3>1. Total(paid) + Total(open) <= WinningPool
        BY <1>1, <1>2, <1>5
      <3> QED BY <1>1, <1>2, <1>7, <2>3, <2>4, <3>1, ShareFits
    <2> QED BY <1>1, <1>3, <2>2, <2>4, <2>5
  <1> QED BY <1>1, <1>6, <1>7

\* The same of the state after a step.
LEMMA OwedAfterFinal ==
  (TypeOK /\ LedgerInv /\ state = "FINALIZED")'
    => (Owed \in [Accounts -> Nat] /\ Pot \in Nat /\ Total(Owed) <= Pot)'
PROOF
  <1>1. TypeOK /\ LedgerInv /\ state = "FINALIZED"
          => Owed \in [Accounts -> Nat] /\ Pot \in Nat /\ Total(Owed) <= Pot
    BY OwedWhenFinal
  <1> QED BY <1>1, PTL

------------------------------------------------------------------------------
(* The steps of the escrow, in terms of what the market owes and holds.     *)

LEMMA EscrowStutter ==
  ASSUME EscrowPhase' = EscrowPhase, Owed' = Owed, Pot' = Pot
  PROVE  UNCHANGED Escrow!vars
  BY DEF Escrow!vars, Owed, Pot

LEMMA EscrowDeposit ==
  ASSUME NEW a \in Accounts, EscrowPhase = "betting", EscrowPhase' = "betting",
         Pot' > Pot, Owed' = [Owed EXCEPT ![a] = @ + (Pot' - Pot)]
  PROVE  Escrow!Next
PROOF
  <1>1. Escrow!Deposit(a)
    BY DEF Escrow!Deposit, Owed, Pot
  <1> QED BY <1>1 DEF Escrow!Next

LEMMA EscrowCancel ==
  ASSUME EscrowPhase = "betting", EscrowPhase' = "cancelled", Owed' = Owed, Pot' = Pot
  PROVE  Escrow!Next
PROOF
  <1>1. Escrow!Cancel
    BY DEF Escrow!Cancel, Owed, Pot
  <1> QED BY <1>1 DEF Escrow!Next

LEMMA EscrowCovered ==
  (Total(Owed) <= Pot)' => Escrow!Covered'
  BY DEF Escrow!Covered, Escrow!Total, Escrow!Units, Escrow!Cardinality, Cardinality,
         Total, Units, Owed, Pot

LEMMA EscrowSettle ==
  ASSUME EscrowPhase = "betting", EscrowPhase' = "settled", Pot \in Nat, Pot' \in 0 .. Pot,
         Owed' \in [Accounts -> Nat], (Total(Owed) <= Pot)'
  PROVE  Escrow!Next
PROOF
  <1>1. Owed' \in [Accounts -> 0 .. Pot']
    <2>1. ASSUME NEW a \in Accounts PROVE Owed'[a] \in 0 .. Pot'
      <3>1. Owed'[a] <= Total(Owed') /\ Total(Owed') \in Nat /\ Owed'[a] \in Nat
        BY EntryBelowTotal, TotalType, Finite
      <3>2. Total(Owed') <= Pot'
        BY DEF Total, Units
      <3> QED BY <3>1, <3>2
    <2> QED BY <2>1
  <1>2. Escrow!Settle
    BY <1>1, EscrowCovered DEF Escrow!Settle, Owed, Pot
  <1> QED BY <1>2 DEF Escrow!Next

LEMMA EscrowWithdraw ==
  ASSUME NEW a \in Accounts, EscrowPhase \in {"settled", "cancelled"},
         EscrowPhase' = EscrowPhase, Pot - Pot' >= Owed[a],
         EscrowPhase = "cancelled" => Pot - Pot' = Owed[a],
         Owed' = [Owed EXCEPT ![a] = 0], (Total(Owed) <= Pot)'
  PROVE  Escrow!Next
PROOF
  <1>1. Escrow!Withdraw(a)
    BY EscrowCovered DEF Escrow!Withdraw, Owed, Pot
  <1> QED BY <1>1 DEF Escrow!Next

------------------------------------------------------------------------------
(* The steps of the market.                                                 *)

LEMMA InitEscrow == Init => Escrow!Init
PROOF
  <1> SUFFICES ASSUME Init PROVE Escrow!Init
    OBVIOUS
  <1>1. TypeOK
    BY InitType
  <1>2. Rows(userStakes) \in [Accounts -> Nat] /\ state = "PENDING_APPROVAL"
    BY <1>1, RowsType DEF TypeOK, Init, Initialized
  <1>3. ASSUME NEW a \in Accounts PROVE Rows(userStakes)[a] = 0
    <2>1. userStakes[a] \in [Outcomes -> Nat] /\ \A o \in Outcomes : userStakes[a][o] = 0
      BY DEF Init, Initialized
    <2> QED BY <2>1, TotalZero DEF Rows
  <1>4. Total(Rows(userStakes)) = 0
    BY <1>2, <1>3, TotalZero
  <1>5. Rows(userStakes) = [a \in Accounts |-> 0]
    BY <1>3 DEF Rows
  <1>6. Owed = [a \in Accounts |-> 0] /\ Pot = 0
    BY <1>1, <1>2, <1>4, <1>5, OwedBeforeFinal
  <1> QED BY <1>2, <1>6 DEF Escrow!Init, EscrowPhase, Owed, Pot

\* Steps that leave the money and its owners alone.
LEMMA QuietEscrow ==
  ASSUME UNCHANGED <<stakeVars, feeVars, claimVars>>, EscrowPhase' = EscrowPhase,
         (state = "FINALIZED") <=> (state' = "FINALIZED"),
         state = "FINALIZED" => winningOutcome' = winningOutcome
  PROVE  UNCHANGED Escrow!vars
PROOF
  <1> USE DEF stakeVars, feeVars, claimVars
  <1>1. \A a : StakeOf(a)' = StakeOf(a) /\ AllStakes' = AllStakes
    BY SameStakes
  <1>2. Pot' = Pot
    BY <1>1 DEF Pot
  <1>3. Owed' = Owed
    <2>1. CASE state = "FINALIZED"
      BY <2>1, Zenon DEF Owed, OwedTo, StakeOf, WinningStake, ProRata, WinningPool
    <2>2. CASE state # "FINALIZED"
      BY <2>2, <1>1 DEF Owed, OwedTo
    <2> QED BY <2>1, <2>2
  <1> QED BY <1>2, <1>3, EscrowStutter

LEMMA BetEscrow ==
  ASSUME TypeOK, TypeOK', NEW v \in Vouchers, PlaceBet(v)
  PROVE  [Escrow!Next]_Escrow!vars
PROOF
  <1> DEFINE a == v.user
             o == v.outcome
             n == v.amount
  <1>1. /\ a \in Accounts /\ o \in Outcomes /\ n \in Nat
        /\ state = "OPEN" /\ state' = "OPEN"
    BY VouchersAssumption DEF PlaceBet, BetOk, Bet, ValidOutcome, phaseVars
  <1>2. /\ userStakes \in [Accounts -> [Outcomes -> Nat]]
        /\ userStakes' \in [Accounts -> [Outcomes -> Nat]]
        /\ userStakes'[a][o] = userStakes[a][o] + n
        /\ \A p \in Outcomes \ {o} : userStakes'[a][p] = userStakes[a][p]
        /\ \A b \in Accounts \ {a} : userStakes'[b] = userStakes[b]
    BY <1>1 DEF PlaceBet, AddStake, TypeOK
  <1>3. EscrowPhase = "betting" /\ EscrowPhase' = "betting"
    BY <1>1 DEF EscrowPhase
  <1> HIDE DEF a, o, n
  <1>4. /\ Total(userStakes'[a]) = Total(userStakes[a]) + n
        /\ Total(Rows(userStakes')) = Total(Rows(userStakes)) + n
    BY <1>1, <1>2, BetSums
  <1>5. /\ Owed = Rows(userStakes) /\ Pot = Total(Rows(userStakes)) /\ Pot \in Nat
        /\ Rows(userStakes) \in [Accounts -> Nat]
    BY <1>1, OwedBeforeFinal
  <1>6. Owed' = Rows(userStakes') /\ Pot' = Total(Rows(userStakes'))
    <2>1. Owed' = Rows(userStakes')
      BY <1>1 DEF Owed, OwedTo, Rows, StakeOf
    <2> QED BY <1>1, <2>1, SumsOfStakes DEF Pot
  <1>7. Pot' = Pot + n
    BY <1>4, <1>5, <1>6
  <1>8. Owed' = [Owed EXCEPT ![a] = @ + n]
    <2>1. Rows(userStakes') = [Rows(userStakes) EXCEPT ![a] = @ + n]
      BY <1>1, <1>2, <1>4 DEF Rows
    <2> QED BY <1>5, <1>6, <2>1
  <1>9. CASE n = 0
    <2>1. Owed' = Owed /\ Pot' = Pot
      BY <1>1, <1>5, <1>7, <1>8, <1>9
    <2> QED BY <1>3, <2>1, EscrowStutter
  <1>10. CASE n > 0
    <2>1. Pot' > Pot /\ n = Pot' - Pot
      BY <1>1, <1>5, <1>7, <1>10
    <2> QED BY <1>1, <1>3, <1>8, <2>1, EscrowDeposit
  <1> QED BY <1>1, <1>9, <1>10

LEMMA VoidEscrow ==
  ASSUME NEW c \in Accounts, VoidMarket(c)
  PROVE  [Escrow!Next]_Escrow!vars
PROOF
  <1>1. /\ state # "FINALIZED" /\ state' = "VOIDED" /\ userStakes' = userStakes
    BY DEF VoidMarket, ReturnBond, Voidable, stakeVars
  <1>2. Owed' = Owed /\ Pot' = Pot
    <2>1. \A a : StakeOf(a)' = StakeOf(a) /\ AllStakes' = AllStakes
      BY <1>1, SameStakes
    <2> QED BY <1>1, <2>1 DEF Owed, OwedTo, Pot
  <1>3. EscrowPhase \in {"betting", "cancelled"} /\ EscrowPhase' = "cancelled"
    BY <1>1 DEF EscrowPhase
  <1> QED BY <1>2, <1>3, EscrowCancel, EscrowStutter

LEMMA FinalizeEscrow ==
  ASSUME TypeOK, LedgerInv, TypeOK', LedgerInv', NEW c \in Accounts, FinalizeResolution(c)
  PROVE  Escrow!Next
PROOF
  <1>1. state \in {"PROPOSED", "CHALLENGED"} /\ state' = "FINALIZED"
    BY DEF FinalizeResolution
  <1>2. EscrowPhase = "betting" /\ EscrowPhase' = "settled"
    BY <1>1 DEF EscrowPhase
  <1>3. Pot = totalPool /\ Pot \in Nat
    BY <1>1 DEF LedgerInv, Pot, TypeOK
  <1>4. Fees(reg) \in Nat /\ ~feesCollected /\ totalClaimed = 0
    BY <1>1, EnvironmentTypes, FeesTakeAtMostHalf DEF TypeOK, LedgerInv, NothingPaidEarly
  <1>5. Pot' = totalPool - Fees(reg)
    BY <1>1, <1>3, <1>4 DEF Pot, FinalizeResolution, claimVars, TypeOK
  <1>6. Owed' \in [Accounts -> Nat] /\ Pot' \in Nat /\ (Total(Owed) <= Pot)'
    BY <1>1, OwedAfterFinal
  <1>7. Pot' \in 0 .. Pot
    BY <1>3, <1>4, <1>5, <1>6
  <1> QED BY <1>2, <1>3, <1>6, <1>7, EscrowSettle

LEMMA ClaimEscrow ==
  ASSUME TypeOK, LedgerInv, TypeOK', LedgerInv', NEW a \in Accounts, Claim(a)
  PROVE  Escrow!Next
PROOF
  <1>1. state = "FINALIZED" /\ state' = "FINALIZED" /\ ~hasClaimed[a] /\ WinningStake(a) > 0
    BY DEF Claim, PayoutOpen, phaseVars
  <1>2. EscrowPhase = "settled" /\ EscrowPhase' = "settled"
    BY <1>1 DEF EscrowPhase
  <1>3. /\ UNCHANGED <<userStakes, outcomePools, winningOutcome, distributablePool>>
        /\ hasClaimed' = [hasClaimed EXCEPT ![a] = TRUE]
        /\ totalClaimed' = totalClaimed + ClaimAmount(a)
        /\ hasClaimed \in [Accounts -> BOOLEAN]
    BY DEF Claim, stakeVars, feeVars, phaseVars, TypeOK
  <1>4. Owed' = [Owed EXCEPT ![a] = 0]
    <2>1. \A b : WinningStake(b)' = WinningStake(b)
      BY <1>3 DEF WinningStake
    <2>2. \A b : ProRata(WinningStake(b))' = ProRata(WinningStake(b))
      BY <1>3, <2>1 DEF ProRata, WinningPool
    <2>3. OwedTo(a)' = 0
      BY <1>1, <1>3 DEF OwedTo
    <2>4. \A b \in Accounts \ {a} : OwedTo(b)' = OwedTo(b)
      BY <1>1, <1>3, <2>1, <2>2 DEF OwedTo
    <2> QED BY <2>3, <2>4 DEF Owed
  <1>5. Pot - Pot' >= Owed[a]
    <2>1. /\ WinningPool > 0 /\ ProRata(WinningStake(a)) \in Nat
          /\ totalClaimed + ProRata(WinningStake(a)) <= distributablePool
          /\ distributablePool \in Nat /\ totalClaimed \in Nat
      BY <1>1, ShareOfUnclaimed, ClaimAmountType DEF TypeOK
    <2>2. ClaimAmount(a) >= ProRata(WinningStake(a)) /\ ClaimAmount(a) \in Int
      BY <2>1 DEF ClaimAmount
    <2>3. Pot - Pot' = ClaimAmount(a)
      BY <1>1, <1>3, <2>1, <2>2 DEF Pot
    <2>4. Owed[a] = ProRata(WinningStake(a))
      BY <1>1 DEF Owed, OwedTo
    <2> QED BY <2>2, <2>3, <2>4
  <1>6. (Total(Owed) <= Pot)'
    BY <1>1, OwedAfterFinal
  <1> QED BY <1>2, <1>4, <1>5, <1>6, EscrowWithdraw

LEMMA RefundEscrow ==
  ASSUME TypeOK, TypeOK', NEW a \in Accounts, Refund(a)
  PROVE  Escrow!Next
PROOF
  <1>1. state = "VOIDED" /\ state' = "VOIDED"
    BY DEF Refund, PayoutOpen, phaseVars
  <1>2. EscrowPhase = "cancelled" /\ EscrowPhase' = "cancelled"
    BY <1>1 DEF EscrowPhase
  <1>3. /\ userStakes \in [Accounts -> [Outcomes -> Nat]]
        /\ userStakes' \in [Accounts -> [Outcomes -> Nat]]
        /\ \A o \in Outcomes : userStakes'[a][o] = 0
        /\ \A b \in Accounts \ {a} : userStakes'[b] = userStakes[b]
    BY DEF Refund, PayoutOpen, TypeOK
  <1>4. /\ Total(userStakes'[a]) = 0
        /\ Total(Rows(userStakes')) = Total(Rows(userStakes)) - Total(userStakes[a])
    BY <1>3, RefundSums
  <1>5. /\ Owed = Rows(userStakes) /\ Pot = Total(Rows(userStakes)) /\ Pot \in Nat
        /\ Rows(userStakes) \in [Accounts -> Nat]
    BY <1>1, OwedBeforeFinal
  <1>6. Owed' = Rows(userStakes') /\ Pot' = Total(Rows(userStakes'))
    <2>1. Owed' = Rows(userStakes')
      BY <1>1 DEF Owed, OwedTo, Rows, StakeOf
    <2> QED BY <1>1, <2>1, SumsOfStakes DEF Pot
  <1>7. Owed[a] = Total(userStakes[a]) /\ Owed[a] \in Nat
    BY <1>5 DEF Rows
  <1>8. Pot - Pot' = Owed[a] /\ Pot - Pot' >= Owed[a]
    BY <1>4, <1>5, <1>6, <1>7
  <1>9. Owed' = [Owed EXCEPT ![a] = 0]
    <2>1. Rows(userStakes') = [Rows(userStakes) EXCEPT ![a] = 0]
      BY <1>3, <1>4 DEF Rows
    <2> QED BY <1>5, <1>6, <2>1
  <1>10. (Total(Owed) <= Pot)'
    <2>1. Total(Rows(userStakes')) \in Nat
      BY <1>3, RowsType, TotalType, Finite
    <2> QED BY <1>6, <2>1 DEF Total, Units
  <1> QED BY <1>2, <1>8, <1>9, <1>10, EscrowWithdraw

LEMMA StepEscrow ==
  TypeOK /\ LedgerInv /\ TypeOK' /\ LedgerInv' /\ [Next]_vars => [Escrow!Next]_Escrow!vars
PROOF
  <1> SUFFICES ASSUME TypeOK, LedgerInv, TypeOK', LedgerInv', [Next]_vars
               PROVE  [Escrow!Next]_Escrow!vars
    OBVIOUS
  <1>1. CASE UNCHANGED vars \/ Tick \/ RegistryChange \/ \E n \in 1 .. MaxUnaccounted : Receive(n)
    <2>1. UNCHANGED <<stakeVars, feeVars, claimVars, state, winningOutcome>>
      BY <1>1 DEF vars, Tick, RegistryChange, Receive, phaseVars, stakeVars, feeVars, claimVars
    <2>2. EscrowPhase' = EscrowPhase
      BY <2>1 DEF EscrowPhase
    <2> QED BY <2>1, <2>2, QuietEscrow
  <1>2. ASSUME NEW v \in Vouchers, PlaceBet(v) PROVE [Escrow!Next]_Escrow!vars
    BY <1>2, BetEscrow
  <1>3. ASSUME NEW a \in Accounts,
               \/ ApproveMarket(a) \/ CloseMarket(a) \/ ChallengeResolution(a)
               \/ \E o \in Outcomes \cup {NoOutcome} : ProposeResolution(a, o)
        PROVE  [Escrow!Next]_Escrow!vars
    <2>1. /\ UNCHANGED <<stakeVars, feeVars, claimVars>>
          /\ state \notin {"FINALIZED", "VOIDED"} /\ state' \notin {"FINALIZED", "VOIDED"}
      BY <1>3 DEF ApproveMarket, CloseMarket, ChallengeResolution, ProposeResolution
    <2>2. EscrowPhase' = EscrowPhase
      BY <2>1 DEF EscrowPhase
    <2> QED BY <2>1, <2>2, QuietEscrow
  <1>4. ASSUME NEW a \in Accounts, FinalizeResolution(a) PROVE [Escrow!Next]_Escrow!vars
    BY <1>4, FinalizeEscrow
  <1>5. ASSUME NEW a \in Accounts, VoidMarket(a) PROVE [Escrow!Next]_Escrow!vars
    BY <1>5, VoidEscrow
  <1>6. ASSUME NEW a \in Accounts, Claim(a) PROVE [Escrow!Next]_Escrow!vars
    BY <1>6, ClaimEscrow
  <1>7. ASSUME NEW a \in Accounts, Refund(a) PROVE [Escrow!Next]_Escrow!vars
    BY <1>7, RefundEscrow
  <1> QED BY <1>1, <1>2, <1>3, <1>4, <1>5, <1>6, <1>7 DEF Next

\* Over every interleaving of bets, governance changes, disputes, claims and
\* refunds, and for any number of bettors and outcomes, the market keeps the
\* promise of the escrow: settled at most once, never settled after it was
\* cancelled, and nobody's claim shrinks by what others do.
THEOREM MarketIsEscrow == Spec => ImplementsEscrow
PROOF
  <1>1. Init => Escrow!Init
    BY InitEscrow
  <1>2. /\ TypeOK /\ LedgerInv
        /\ (TypeOK /\ LedgerInv)'
        /\ [Next]_vars
        => [Escrow!Next]_Escrow!vars
    BY StepEscrow
  <1> QED BY <1>1, <1>2, LedgerCorrect, PTL DEF Spec, ImplementsEscrow, Escrow!Spec

------------------------------------------------------------------------------
(* The creator's cap.                                                       *)

\* The outcomes on which account c, with the stakes s, holds more than a tenth of
\* a pool of n.
AboveTenth(s, c, n) == {o \in Outcomes : s[c][o] > n \div 10}

LEMMA AtMostOne ==
  ASSUME NEW x, NEW S, S \subseteq {x}
  PROVE  Cardinality(S) <= 1
PROOF
  <1>1. IsFiniteSet({x}) /\ Cardinality({x}) = 1
    BY FS_Singleton
  <1>2. S \in SUBSET {x}
    OBVIOUS
  <1> QED BY <1>1, <1>2, FS_Subset

\* A larger pool raises the threshold.
LEMMA ThresholdGrows ==
  ASSUME NEW m \in Nat, NEW n \in Nat
  PROVE  m \div 10 \in Nat /\ (m + n) \div 10 \in Nat /\ m \div 10 <= (m + n) \div 10
  BY Z3

LEMMA BetKeepsCap ==
  ASSUME TypeOK, LedgerInv, CreatorSeedsOneOutcome, NEW v \in Vouchers, PlaceBet(v)
  PROVE  CreatorSeedsOneOutcome'
PROOF
  <1> DEFINE c == params.creator
             o == v.outcome
             n == v.amount
             above == AboveTenth(userStakes, c, totalPool)
             next == AboveTenth(userStakes', c, totalPool')
  <1>1. /\ v.user \in Accounts /\ o \in Outcomes /\ n \in Nat /\ c \in Accounts
        /\ state = "OPEN" /\ state' = "OPEN" /\ params' = params
    BY VouchersAssumption, EnvironmentTypes
       DEF PlaceBet, BetOk, Bet, ValidOutcome, phaseVars, envVars, MarketChoice
  <1>2. /\ userStakes \in [Accounts -> [Outcomes -> Nat]]
        /\ userStakes'[v.user][o] = userStakes[v.user][o] + n
        /\ \A p \in Outcomes \ {o} : userStakes'[v.user][p] = userStakes[v.user][p]
        /\ \A b \in Accounts \ {v.user} : userStakes'[b] = userStakes[b]
        /\ totalPool' = totalPool + n /\ totalPool \in Nat
    BY <1>1 DEF PlaceBet, AddStake, TypeOK
  <1>3. /\ totalPool \div 10 \in Nat /\ totalPool' \div 10 \in Nat
        /\ totalPool \div 10 <= totalPool' \div 10
    BY <1>1, <1>2, ThresholdGrows
  <1>4. Cardinality(above) <= 1
    BY <1>1 DEF CreatorSeedsOneOutcome, AboveTenth
  <1>5. IsFiniteSet(above)
    BY Finite, FS_Subset DEF AboveTenth
  <1> HIDE DEF c, o, n
  <1>6. ASSUME next \subseteq above PROVE Cardinality(next) <= 1
    <2> HIDE DEF above, next
    <2>1. Cardinality(next) <= Cardinality(above) /\ IsFiniteSet(next)
      BY <1>5, <1>6, FS_Subset
    <2> QED BY <1>4, <1>5, <2>1, FS_CardinalityType
  <1>7. Cardinality(next) <= 1
    <2>1. CASE v.user # c
      <3>1. ASSUME NEW p \in Outcomes PROVE userStakes'[c][p] = userStakes[c][p]
        BY <1>1, <1>2, <2>1
      <3>2. next \subseteq above
        BY <1>1, <1>2, <1>3, <3>1 DEF AboveTenth
      <3> QED BY <1>6, <3>2
    <2>2. CASE v.user = c /\ totalPool > 0
      <3>1. userStakes[c][o] + n <= totalPool \div 10
        BY <2>2 DEF PlaceBet, BetOk, CreatorCapOk, c, o, n
      <3>2. next \subseteq above
        BY <1>1, <1>2, <1>3, <2>2, <3>1 DEF AboveTenth
      <3> QED BY <1>6, <3>2
    <2>3. CASE v.user = c /\ totalPool = 0
      <3>1. ASSUME NEW p \in Outcomes PROVE userStakes[c][p] = 0
        <4>1. userStakes[c] \in [Outcomes -> Nat] /\ Rows(userStakes) \in [Accounts -> Nat]
              /\ Rows(userStakes)[c] = Total(userStakes[c])
          BY <1>1, <1>2, RowsType DEF Rows
        <4>2. userStakes[c][p] <= Total(userStakes[c])
          BY <4>1, EntryBelowTotal, Finite
        <4>3. Rows(userStakes)[c] <= Total(Rows(userStakes))
          BY <1>1, <4>1, EntryBelowTotal, Finite
        <4>4. Total(Rows(userStakes)) = 0
          BY <1>1, <2>3, SumsOfStakes DEF LedgerInv
        <4> QED BY <1>1, <1>2, <4>1, <4>2, <4>3, <4>4
      <3>2. next \subseteq {o}
        BY <1>1, <1>2, <1>3, <2>3, <3>1 DEF AboveTenth
      <3> QED BY <3>2, AtMostOne
    <2> QED BY <1>2, <2>1, <2>2, <2>3
  <1> QED BY <1>1, <1>7 DEF CreatorSeedsOneOutcome, AboveTenth, c

\* Whatever the creator signs and submits, and however other bets come in between,
\* the creator dominates no outcome but the one they seeded.
THEOREM CreatorIsCapped == Spec => []CreatorSeedsOneOutcome
PROOF
  <1>1. Init => CreatorSeedsOneOutcome
    <2> SUFFICES ASSUME Init PROVE CreatorSeedsOneOutcome
      OBVIOUS
    <2>1. params.creator \in Accounts /\ totalPool \div 10 = 0
      BY ChoicesAssumption DEF Init, Initialized, MarketChoice
    <2>2. AboveTenth(userStakes, params.creator, totalPool) = {}
      BY <2>1 DEF Init, Initialized, AboveTenth
    <2> QED BY <2>2, FS_EmptySet DEF CreatorSeedsOneOutcome, AboveTenth
  <1>2. TypeOK /\ LedgerInv /\ CreatorSeedsOneOutcome /\ [Next]_vars
          => CreatorSeedsOneOutcome'
    <2> SUFFICES ASSUME TypeOK, LedgerInv, CreatorSeedsOneOutcome, [Next]_vars
                 PROVE  CreatorSeedsOneOutcome'
      OBVIOUS
    <2> USE DEF envVars, stakeVars, bondVars, feeVars, claimVars, phaseVars
    <2>1. ASSUME NEW v \in Vouchers, PlaceBet(v) PROVE CreatorSeedsOneOutcome'
      BY <2>1, BetKeepsCap
    <2>2. ASSUME NEW a \in Accounts, VoidMarket(a) \/ Refund(a)
          PROVE  CreatorSeedsOneOutcome'
      <3>1. state' = "VOIDED"
        BY <2>2 DEF VoidMarket, Refund, PayoutOpen
      <3> QED BY <3>1 DEF CreatorSeedsOneOutcome
    <2>3. ASSUME UNCHANGED <<userStakes, totalPool, params>>,
                 state' # "VOIDED" => state # "VOIDED"
          PROVE  CreatorSeedsOneOutcome'
      BY <2>3 DEF CreatorSeedsOneOutcome
    <2>4. CASE UNCHANGED vars \/ Tick \/ RegistryChange \/ \E n \in 1 .. MaxUnaccounted : Receive(n)
      BY <2>3, <2>4 DEF vars, Tick, RegistryChange, Receive
    <2>5. ASSUME NEW a \in Accounts,
                 \/ ApproveMarket(a) \/ CloseMarket(a) \/ ChallengeResolution(a)
                 \/ \E o \in Outcomes \cup {NoOutcome} : ProposeResolution(a, o)
          PROVE  CreatorSeedsOneOutcome'
      BY <2>3, <2>5 DEF ApproveMarket, CloseMarket, ChallengeResolution, ProposeResolution
    <2>6. ASSUME NEW a \in Accounts, FinalizeResolution(a) \/ Claim(a)
          PROVE  CreatorSeedsOneOutcome'
      BY <2>3, <2>6 DEF FinalizeResolution, Claim, PayoutOpen
    <2> QED BY <2>1, <2>2, <2>4, <2>5, <2>6 DEF Next
  <1> QED BY <1>1, <1>2, LedgerCorrect, PTL DEF Spec

------------------------------------------------------------------------------
(* One bet per nonce.                                                       *)

\* The amount the definition of OneBetPerNonce speaks of exists and bounds the
\* amount of every voucher of that account and nonce.
LEMMA LargestIsLargest ==
  ASSUME NEW v \in Vouchers
  PROVE  /\ LargestSigned(v.user, v.nonce) \in Nat
         /\ v.amount <= LargestSigned(v.user, v.nonce)
PROOF
  <1> DEFINE amounts == SignedAmounts(v.user, v.nonce)
             amountOf == [w \in Vouchers |-> w.amount]
  <1>1. amountOf \in [Vouchers -> Nat] /\ IsFiniteSet(Vouchers)
    BY VouchersAssumption DEF Bet
  <1>2. ASSUME NEW w \in Vouchers PROVE w.amount \in Nat /\ w.amount <= Total(amountOf)
    <2>1. amountOf[w] = w.amount
      OBVIOUS
    <2> HIDE DEF amountOf
    <2> QED BY <1>1, <2>1, EntryBelowTotal
  <1>3. Total(amountOf) \in Nat
    <2> HIDE DEF amountOf
    <2> QED BY <1>1, TotalType
  <1> HIDE DEF amountOf
  <1>4. /\ amounts \in SUBSET Nat /\ v.amount \in amounts
        /\ \A m \in amounts : m <= Total(amountOf)
    BY <1>2 DEF SignedAmounts
  <1>5. \E m \in amounts : \A k \in amounts : k <= m
    <2> HIDE DEF amounts
    <2> QED BY <1>3, <1>4, LargestExists
  <1>6. /\ LargestSigned(v.user, v.nonce) \in amounts
        /\ \A k \in amounts : k <= LargestSigned(v.user, v.nonce)
    <2> HIDE DEF amounts
    <2> QED BY <1>5 DEF LargestSigned, amounts
  <1> QED BY <1>4, <1>6

Signed(a, N) == [n \in N |-> LargestSigned(a, n)]

\* The nonces an account has used are those of finitely many of its vouchers: what
\* makes the sums in OneBetPerNonce well defined.
NoncesAreSigned ==
  \A a \in Accounts :
    /\ IsFiniteSet(nonceUsed[a])
    /\ \A n \in nonceUsed[a] : \E v \in Vouchers : v.user = a /\ v.nonce = n

LEMMA SignedType ==
  ASSUME NEW a, NEW N, IsFiniteSet(N),
         \A n \in N : \E v \in Vouchers : v.user = a /\ v.nonce = n
  PROVE  Signed(a, N) \in [N -> Nat] /\ Total(Signed(a, N)) \in Nat
PROOF
  <1>1. ASSUME NEW n \in N PROVE LargestSigned(a, n) \in Nat
    BY LargestIsLargest
  <1>2. Signed(a, N) \in [N -> Nat]
    BY <1>1 DEF Signed
  <1> QED BY <1>2, TotalType

OneBet == NoncesAreSigned /\ OneBetPerNonce

LEMMA BetKeepsOneBet ==
  ASSUME TypeOK, OneBet, NEW v \in Vouchers, PlaceBet(v)
  PROVE  OneBet'
PROOF
  <1> DEFINE a == v.user
             n == v.nonce
             o == v.outcome
             m == v.amount
  <1>1. /\ a \in Accounts /\ o \in Outcomes /\ m \in Nat
        /\ n \notin nonceUsed[a]
    BY VouchersAssumption DEF PlaceBet, BetOk, Bet, ValidOutcome, FreshNonce
  <1>2. /\ userStakes \in [Accounts -> [Outcomes -> Nat]]
        /\ userStakes' \in [Accounts -> [Outcomes -> Nat]]
        /\ userStakes'[a][o] = userStakes[a][o] + m
        /\ \A p \in Outcomes \ {o} : userStakes'[a][p] = userStakes[a][p]
        /\ \A b \in Accounts \ {a} : userStakes'[b] = userStakes[b]
    BY <1>1 DEF PlaceBet, AddStake, TypeOK
  <1>3. /\ nonceUsed'[a] = nonceUsed[a] \cup {n}
        /\ \A b \in Accounts \ {a} : nonceUsed'[b] = nonceUsed[b]
    BY <1>1 DEF PlaceBet, TypeOK
  <1>4. ASSUME NEW b \in Accounts
        PROVE  /\ IsFiniteSet(nonceUsed[b])
               /\ \A k \in nonceUsed[b] : \E w \in Vouchers : w.user = b /\ w.nonce = k
               /\ StakeOf(b) <= Total(Signed(b, nonceUsed[b]))
    BY DEF OneBet, NoncesAreSigned, OneBetPerNonce, Signed
  <1>5. /\ IsFiniteSet(nonceUsed'[a])
        /\ \A k \in nonceUsed'[a] : \E w \in Vouchers : w.user = a /\ w.nonce = k
    <2>1. IsFiniteSet(nonceUsed[a] \cup {n})
      BY <1>1, <1>4, FS_AddElement
    <2> QED BY <1>1, <1>3, <1>4, <2>1
  <1>6. LargestSigned(a, n) \in Nat /\ m <= LargestSigned(a, n)
    BY LargestIsLargest
  <1> HIDE DEF a, n, o, m
  <1>7. Total(userStakes'[a]) = Total(userStakes[a]) + m
    <2>1. a \in Accounts /\ o \in Outcomes /\ m \in Nat
      BY <1>1
    <2>2. /\ Total(userStakes'[a]) = Total(userStakes[a]) + m
          /\ Total(Rows(userStakes')) = Total(Rows(userStakes)) + m
      BY <1>2, <2>1, BetSums
    <2> QED BY <2>2
  <1>8. Total(Signed(a, nonceUsed'[a]))
          = Total(Signed(a, nonceUsed[a])) + LargestSigned(a, n)
    <2>1. /\ Signed(a, nonceUsed[a]) \in [nonceUsed[a] -> Nat]
          /\ Signed(a, nonceUsed'[a]) \in [nonceUsed[a] \cup {n} -> Nat]
      BY <1>1, <1>3, <1>4, <1>5, SignedType
    <2>2. /\ Signed(a, nonceUsed'[a])[n] = LargestSigned(a, n)
          /\ \A k \in nonceUsed[a] : Signed(a, nonceUsed[a])[k] = Signed(a, nonceUsed'[a])[k]
      BY <1>3 DEF Signed
    <2> QED BY <1>1, <1>4, <2>1, <2>2, TotalExtend
  <1>9. ASSUME NEW b \in Accounts
        PROVE  Total(userStakes'[b]) <= Total(Signed(b, nonceUsed'[b]))
    <2>1. CASE b = a
      <3>1. Total(userStakes[a]) <= Total(Signed(a, nonceUsed[a]))
        BY <1>1, <1>4 DEF StakeOf
      <3>2. Total(userStakes[a]) \in Nat /\ Total(Signed(a, nonceUsed[a])) \in Nat
        BY <1>1, <1>2, <1>4, RowsType, SignedType
      <3> QED BY <1>1, <1>6, <1>7, <1>8, <2>1, <3>1, <3>2
    <2>2. CASE b # a
      BY <1>2, <1>3, <1>4, <2>2 DEF StakeOf
    <2> QED BY <2>1, <2>2
  <1>10. NoncesAreSigned'
    <2>1. ASSUME NEW b \in Accounts
          PROVE  /\ IsFiniteSet(nonceUsed'[b])
                 /\ \A k \in nonceUsed'[b] : \E w \in Vouchers : w.user = b /\ w.nonce = k
      <3>1. CASE b = a
        BY <1>5, <3>1
      <3>2. CASE b # a
        BY <1>3, <1>4, <3>2
      <3> QED BY <3>1, <3>2
    <2> QED BY <2>1, Zenon DEF NoncesAreSigned
  <1>11. OneBetPerNonce'
    BY <1>9, Zenon DEF OneBetPerNonce, StakeOf, Signed
  <1> QED BY <1>10, <1>11 DEF OneBet

LEMMA RefundKeepsOneBet ==
  ASSUME TypeOK, OneBet, NEW a \in Accounts, Refund(a)
  PROVE  OneBet'
PROOF
  <1>1. /\ nonceUsed' = nonceUsed
        /\ userStakes \in [Accounts -> [Outcomes -> Nat]]
        /\ userStakes'[a] \in [Outcomes -> Nat]
        /\ \A o \in Outcomes : userStakes'[a][o] = 0
        /\ \A b \in Accounts \ {a} : userStakes'[b] = userStakes[b]
    BY DEF Refund, PayoutOpen, TypeOK
  <1>2. ASSUME NEW b \in Accounts
        PROVE  Total(userStakes'[b]) <= Total(Signed(b, nonceUsed[b]))
    <2>1. CASE b = a
      <3>1. Total(userStakes'[b]) = 0
        BY <1>1, <2>1, TotalZero
      <3>2. Total(Signed(b, nonceUsed[b])) \in Nat
        BY SignedType DEF OneBet, NoncesAreSigned
      <3> QED BY <3>1, <3>2
    <2>2. CASE b # a
      BY <1>1, <2>2 DEF OneBet, OneBetPerNonce, StakeOf, Signed
    <2> QED BY <2>1, <2>2
  <1>3. OneBetPerNonce'
    BY <1>1, <1>2, Zenon DEF OneBetPerNonce, StakeOf, Signed
  <1> QED BY <1>1, <1>3 DEF OneBet, NoncesAreSigned

\* Whoever submits vouchers, however often and in whatever order, an account stakes
\* at most one signed amount per nonce.
THEOREM BetsAreTakenOnce == Spec => []OneBetPerNonce
PROOF
  <1>1. Init => OneBet
    <2> SUFFICES ASSUME Init PROVE OneBet
      OBVIOUS
    <2>1. TypeOK
      BY InitType
    <2>2. NoncesAreSigned
      BY FS_EmptySet DEF Init, Initialized, NoncesAreSigned
    <2>3. ASSUME NEW a \in Accounts PROVE StakeOf(a) <= Total(Signed(a, nonceUsed[a]))
      <3>1. userStakes[a] \in [Outcomes -> Nat] /\ \A o \in Outcomes : userStakes[a][o] = 0
        BY DEF Init, Initialized
      <3>2. StakeOf(a) = 0
        BY <3>1, TotalZero DEF StakeOf
      <3>3. Total(Signed(a, nonceUsed[a])) \in Nat
        BY <2>2, SignedType DEF NoncesAreSigned
      <3> QED BY <3>2, <3>3
    <2> QED BY <2>2, <2>3 DEF OneBet, OneBetPerNonce, Signed
  <1>2. TypeOK /\ OneBet /\ [Next]_vars => OneBet'
    <2> SUFFICES ASSUME TypeOK, OneBet, [Next]_vars PROVE OneBet'
      OBVIOUS
    <2> USE DEF envVars, stakeVars, bondVars, feeVars, claimVars, phaseVars
    <2>1. ASSUME NEW v \in Vouchers, PlaceBet(v) PROVE OneBet'
      BY <2>1, BetKeepsOneBet
    <2>2. ASSUME NEW a \in Accounts, Refund(a) PROVE OneBet'
      BY <2>2, RefundKeepsOneBet
    <2>3. ASSUME UNCHANGED stakeVars PROVE OneBet'
      BY <2>3 DEF OneBet, NoncesAreSigned, OneBetPerNonce, StakeOf
    <2>4. CASE UNCHANGED vars \/ Tick \/ RegistryChange \/ \E n \in 1 .. MaxUnaccounted : Receive(n)
      BY <2>3, <2>4 DEF vars, Tick, RegistryChange, Receive
    <2>5. ASSUME NEW a \in Accounts,
                 \/ ApproveMarket(a) \/ CloseMarket(a) \/ ChallengeResolution(a)
                 \/ \E o \in Outcomes \cup {NoOutcome} : ProposeResolution(a, o)
                 \/ FinalizeResolution(a) \/ VoidMarket(a) \/ Claim(a)
          PROVE  OneBet'
      BY <2>3, <2>5 DEF ApproveMarket, CloseMarket, ChallengeResolution, ProposeResolution,
         FinalizeResolution, VoidMarket, Claim, PayoutOpen
    <2> QED BY <2>1, <2>2, <2>4, <2>5 DEF Next
  <1>3. OneBet => OneBetPerNonce
    BY DEF OneBet
  <1> QED BY <1>1, <1>2, <1>3, TypeCorrect, PTL DEF Spec

------------------------------------------------------------------------------
(* Rounding.                                                                *)

\* Sharing d out by stakes that sum to w, rounding down, leaves less than one unit
\* for each of the accounts T that hold a stake.
LEMMA RoundingLoss ==
  ASSUME NEW S, IsFiniteSet(S), NEW stakes \in [S -> Nat], NEW shares \in [S -> Nat],
         NEW w \in Nat, w > 0, Total(stakes) = w, NEW d \in Nat,
         NEW T \in SUBSET S, NEW a \in T,
         \A x \in T : stakes[x] * d < shares[x] * w + w,
         \A x \in S \ T : stakes[x] = 0
  PROVE  d <= Total(shares) + Cardinality(T) - 1
PROOF
  <1> DEFINE up == [x \in S |-> shares[x] + (IF x \in T THEN 1 ELSE 0)]
             wide == [x \in S |-> up[x] * w]
             less == [wide EXCEPT ![a] = wide[a] - 1]
             exact == [x \in S |-> stakes[x] * d]
  <1>1. up \in [S -> Nat] /\ \A x \in S : up[x] = shares[x] + (IF x \in T THEN 1 ELSE 0)
    OBVIOUS
  <1>2. Total(up) = Total(shares) + Cardinality(T)
    BY TotalBump
  <1> HIDE DEF up
  <1>3. wide \in [S -> Nat] /\ \A x \in S : wide[x] = up[x] * w
    BY <1>1, ProductNat
  <1>4. exact \in [S -> Nat] /\ \A x \in S : exact[x] = stakes[x] * d
    BY ProductNat
  <1>5. Total(wide) = Total(up) * w
    BY <1>1, TotalScale
  <1>6. Total(exact) = w * d
    <2>1. CASE d > 0
      BY <2>1, TotalScale
    <2>2. CASE d = 0
      <3>1. \A x \in S : exact[x] = 0
        BY <2>2
      <3> HIDE DEF exact
      <3>2. Total(exact) = 0
        BY <1>4, <3>1, TotalZero
      <3> QED BY <2>2, <3>2
    <2> QED BY <2>1, <2>2
  <1> HIDE DEF wide, exact
  <1>7. ASSUME NEW x \in T PROVE exact[x] <= wide[x] - 1
    <2>1. stakes[x] \in Nat /\ shares[x] \in Nat /\ x \in S
      OBVIOUS
    <2>2. up[x] = shares[x] + 1 /\ (shares[x] + 1) * w = shares[x] * w + w
      BY <1>1, <2>1
    <2>3. stakes[x] * d \in Nat /\ shares[x] * w \in Nat
      BY <2>1, ProductNat
    <2> QED BY <1>3, <1>4, <2>1, <2>2, <2>3
  <1>8. wide[a] - 1 \in Nat
    <2>1. exact[a] \in Nat /\ wide[a] \in Nat
      BY <1>3, <1>4
    <2> QED BY <1>7, <2>1
  <1>9. less \in [S -> Nat]
    BY <1>3, <1>8
  <1>10. ASSUME NEW x \in S PROVE exact[x] <= less[x]
    <2>1. exact[x] \in Nat /\ wide[x] \in Nat /\ stakes[x] \in Nat
      BY <1>3, <1>4
    <2>2. CASE x \in T
      <3>1. exact[x] <= wide[x] - 1
        BY <1>7, <2>2
      <3>2. less[x] \in {wide[x], wide[x] - 1}
        BY <1>3
      <3> QED BY <2>1, <3>1, <3>2
    <2>3. CASE x \notin T
      <3>1. stakes[x] = 0 /\ less[x] = wide[x]
        BY <1>3, <2>3
      <3>2. exact[x] = 0
        BY <1>4, <3>1
      <3> QED BY <2>1, <3>1, <3>2
    <2> QED BY <2>2, <2>3
  <1>11. Total(less) = Total(wide) - wide[a] + (wide[a] - 1)
    <2> DEFINE top == wide[a] - 1
    <2>1. a \in S /\ top \in Nat
      BY <1>8
    <2> HIDE DEF top
    <2>2. Total([wide EXCEPT ![a] = top]) = Total(wide) - wide[a] + top
      BY <1>3, <2>1, TotalUpdate
    <2> QED BY <2>2 DEF top
  <1> HIDE DEF less
  <1>12. Total(exact) <= Total(less)
    BY <1>4, <1>9, <1>10, TotalMonotone
  <1>13. Total(up) \in Nat /\ Total(wide) \in Nat /\ wide[a] \in Nat
    BY <1>1, <1>3, TotalType
  <1>14. w * d < Total(up) * w
    <2>1. w * d \in Nat /\ Total(up) * w \in Nat
      BY <1>13, ProductNat
    <2> QED BY <1>5, <1>6, <1>11, <1>12, <1>13, <2>1
  <1>15. d < Total(up)
    <2> SUFFICES ASSUME Total(up) <= d PROVE FALSE
      BY <1>13
    <2>1. Total(up) * w <= d * w /\ d * w = w * d
      BY <1>13, Z3
    <2>2. w * d \in Nat /\ Total(up) * w \in Nat
      BY <1>13, ProductNat
    <2> QED BY <1>14, <2>1, <2>2
  <1>16. Total(shares) \in Nat /\ Cardinality(T) \in Nat
    BY TotalType, FS_Subset, FS_CardinalityType
  <1> QED BY <1>2, <1>15, <1>16

\* The rounded shares of the winners who have claimed.
PaidShares == [a \in Accounts |-> IF hasClaimed[a] THEN ProRata(WinningStake(a)) ELSE 0]

\* Until the last winner claims, the market has paid rounded shares and nothing
\* else; the last claim pays what is left.
RoundingInv ==
  state = "FINALIZED" =>
    /\ \A a \in Accounts : hasClaimed[a] =>
         /\ WinningStake(a) > 0
         /\ payout[a] - ProRata(WinningStake(a)) \in 0 .. Cardinality(Winners) - 1
    /\ totalWinningStakeClaimed # WinningPool => totalClaimed = Total(PaidShares)
    /\ totalWinningStakeClaimed = WinningPool /\ WinningPool > 0 =>
         totalClaimed = distributablePool

\* All that RoundingInv reads.
LEMMA SameRounding ==
  ASSUME RoundingInv, state' = state,
         UNCHANGED <<userStakes, outcomePools, winningOutcome, distributablePool,
                     hasClaimed, payout, totalClaimed, totalWinningStakeClaimed>>
  PROVE  RoundingInv'
PROOF
  <1>1. /\ \A a : WinningStake(a)' = WinningStake(a)
        /\ WinningPool' = WinningPool
    BY DEF WinningStake, WinningPool
  <1>2. \A a : ProRata(WinningStake(a))' = ProRata(WinningStake(a))
    BY <1>1 DEF ProRata
  <1>3. Winners' = Winners
    BY <1>1 DEF Winners
  <1>4. PaidShares' = PaidShares
    BY <1>2 DEF PaidShares
  <1>5. Total(PaidShares)' = Total(PaidShares)
    BY <1>4 DEF Total, Units
  <1> QED BY <1>1, <1>2, <1>3, <1>5 DEF RoundingInv

LEMMA FinalizeRounding ==
  ASSUME TypeOK, LedgerInv, NEW c \in Accounts, FinalizeResolution(c)
  PROVE  RoundingInv'
PROOF
  <1>1. /\ state # "FINALIZED" /\ UNCHANGED <<hasClaimed, totalClaimed, totalWinningStakeClaimed,
                                             outcomePools, winningOutcome>>
    BY DEF FinalizeResolution, claimVars, stakeVars
  <1>2. /\ \A a \in Accounts : ~hasClaimed'[a]
        /\ totalClaimed' = 0 /\ totalWinningStakeClaimed' = 0
    BY <1>1 DEF LedgerInv, NothingPaidEarly
  <1>3. Total(PaidShares)' = 0
    <2>1. PaidShares' \in [Accounts -> Nat] /\ \A a \in Accounts : PaidShares'[a] = 0
      BY <1>2 DEF PaidShares
    <2>2. Total(PaidShares') = 0
      BY <2>1, TotalZero
    <2> QED BY <2>2 DEF Total, Units
  <1> QED BY <1>2, <1>3 DEF RoundingInv

LEMMA ClaimRounding ==
  ASSUME TypeOK, LedgerInv, RoundingInv, TypeOK', LedgerInv', NEW a \in Accounts, Claim(a)
  PROVE  RoundingInv'
PROOF
  <1> DEFINE s == WinningStake(a)
             n == Cardinality(Winners)
  <1>1. /\ state = "FINALIZED" /\ state' = "FINALIZED" /\ ~hasClaimed[a] /\ s > 0
        /\ UNCHANGED <<userStakes, outcomePools, winningOutcome, distributablePool>>
    BY DEF Claim, PayoutOpen, phaseVars, stakeVars, feeVars
  <1>2. /\ hasClaimed \in [Accounts -> BOOLEAN] /\ hasClaimed' \in [Accounts -> BOOLEAN]
        /\ hasClaimed'[a] /\ \A b \in Accounts \ {a} : hasClaimed'[b] = hasClaimed[b]
        /\ payout'[a] = ClaimAmount(a)
        /\ \A b \in Accounts \ {a} : payout'[b] = payout[b]
        /\ totalWinningStakeClaimed' = totalWinningStakeClaimed + s
        /\ totalClaimed' = totalClaimed + ClaimAmount(a)
    BY DEF Claim, PayoutOpen, TypeOK
  <1>3. /\ winningOutcome \in Outcomes /\ WinningPool \in Nat /\ s \in Nat
        /\ userStakes \in [Accounts -> [Outcomes -> Nat]]
        /\ distributablePool \in Nat /\ totalClaimed \in Nat
        /\ totalWinningStakeClaimed \in Nat
        /\ \A b \in Accounts : WinningStake(b) \in Nat
    BY <1>1 DEF TypeOK, WinnerKnown, WinningPool, WinningStake
  <1>4. /\ WinningPool > 0 /\ totalWinningStakeClaimed + s <= WinningPool
        /\ totalClaimed + ProRata(s) <= distributablePool
        /\ \A b \in Accounts : ProRata(WinningStake(b)) \in Nat
    BY <1>1, ShareOfUnclaimed, ClaimAmountType
  <1>5. /\ \A b : WinningStake(b)' = WinningStake(b)
        /\ WinningPool' = WinningPool
    BY <1>1 DEF WinningStake, WinningPool
  <1>6. \A b : ProRata(WinningStake(b))' = ProRata(WinningStake(b))
    BY <1>1, <1>5 DEF ProRata
  <1>7. /\ Winners' = Winners /\ IsFiniteSet(Winners) /\ a \in Winners /\ n \in Nat
        /\ n >= 1
    <2>1. Winners' = Winners /\ Winners \in SUBSET Accounts /\ a \in Winners
      BY <1>1, <1>5 DEF Winners
    <2>2. IsFiniteSet(Winners)
      BY <2>1, Finite, FS_Subset
    <2>3. n \in Nat /\ n # 0
      BY <2>1, <2>2, FS_CardinalityType, FS_EmptySet
    <2> QED BY <2>1, <2>2, <2>3
  <1>8. /\ PaidShares \in [Accounts -> Nat] /\ PaidShares' \in [Accounts -> Nat]
        /\ \A b \in Accounts \ {a} : PaidShares'[b] = PaidShares[b]
        /\ PaidShares[a] = 0 /\ PaidShares'[a] = ProRata(s)
        /\ \A b \in Accounts : hasClaimed'[b] => PaidShares'[b] = ProRata(WinningStake(b))
    BY <1>1, <1>2, <1>4, <1>6 DEF PaidShares
  <1>9. /\ Total(PaidShares') = Total(PaidShares) + ProRata(s)
        /\ Total(PaidShares) \in Nat
    <2>1. PaidShares'[a] = PaidShares[a] + ProRata(s) /\ ProRata(s) \in Int
      BY <1>4, <1>8
    <2> QED BY <1>8, <2>1, AccountMoves, TotalType, Finite
  <1>10. totalClaimed = Total(PaidShares)
    BY <1>1, <1>3, <1>4 DEF RoundingInv
  <1>11. ASSUME NEW b \in Accounts, b # a, hasClaimed'[b]
         PROVE  /\ WinningStake(b) > 0
                /\ payout'[b] - ProRata(WinningStake(b)) \in 0 .. n - 1
    BY <1>1, <1>2, <1>11 DEF RoundingInv
  <1>12. Total(PaidShares)' = Total(PaidShares')
    BY DEF Total, Units
  <1>13. CASE totalWinningStakeClaimed + s # WinningPool
    <2>1. ClaimAmount(a) = ProRata(s)
      BY <1>13 DEF ClaimAmount
    <2>2. totalClaimed' = Total(PaidShares') /\ totalWinningStakeClaimed' # WinningPool
      BY <1>2, <1>9, <1>10, <1>13, <2>1
    <2>3. payout'[a] - ProRata(s) \in 0 .. n - 1
      BY <1>2, <1>4, <1>7, <2>1
    <2> QED BY <1>1, <1>5, <1>6, <1>7, <1>11, <1>12, <2>2, <2>3 DEF RoundingInv
  <1>14. CASE totalWinningStakeClaimed + s = WinningPool
    <2>1. ClaimAmount(a) = distributablePool - totalClaimed
      BY <1>14 DEF ClaimAmount
    <2>2. totalClaimed' = distributablePool /\ totalWinningStakeClaimed' = WinningPool
      BY <1>2, <1>3, <1>14, <2>1
    <2>3. distributablePool <= Total(PaidShares') + n - 1
      <3> DEFINE stakes == ClaimedBy(userStakes, winningOutcome, hasClaimed')
                 T == {b \in Accounts : hasClaimed'[b]}
      <3>1. Total(stakes) = WinningPool
        BY <1>1, <2>2, SumsOfStakes DEF LedgerInv, ClaimsKeepPace
      <3>2. /\ stakes \in [Accounts -> Nat] /\ T \in SUBSET Accounts /\ a \in T
            /\ \A b \in T : stakes[b] = WinningStake(b)
            /\ \A b \in Accounts \ T : stakes[b] = 0
        BY <1>2, <1>3 DEF ClaimedBy, WinningStake
      <3>3. T \subseteq Winners
        BY <1>1, <1>11 DEF Winners
      <3>4. \A b \in T : PaidShares'[b] = ProRata(WinningStake(b))
        BY <1>8
      <3> HIDE DEF stakes, T
      <3>5. ASSUME NEW b \in T
            PROVE  stakes[b] * distributablePool < PaidShares'[b] * WinningPool + WinningPool
        <4>1. /\ stakes[b] * distributablePool \in Nat /\ stakes[b] = WinningStake(b)
              /\ PaidShares'[b] = (stakes[b] * distributablePool) \div WinningPool
          BY <1>3, <3>2, <3>4, ProductNat DEF ProRata
        <4> QED BY <1>3, <1>4, <4>1, FloorBounds
      <3>6. distributablePool <= Total(PaidShares') + Cardinality(T) - 1
        BY <1>3, <1>4, <1>8, <3>1, <3>2, <3>5, RoundingLoss, Finite
      <3>7. Cardinality(T) <= n /\ Cardinality(T) \in Nat
        BY <1>7, <3>3, FS_Subset, FS_CardinalityType
      <3> QED BY <1>3, <1>4, <1>7, <1>9, <3>6, <3>7
    <2>4. payout'[a] - ProRata(s) \in 0 .. n - 1
      <3>1. ProRata(s) \in Nat
        BY <1>4
      <3> QED BY <1>2, <1>3, <1>4, <1>7, <1>9, <1>10, <2>1, <2>3, <3>1
    <2> QED BY <1>1, <1>5, <1>6, <1>7, <1>11, <2>2, <2>4 DEF RoundingInv
  <1> QED BY <1>13, <1>14

\* Whatever the order of the claims, each winner is paid the rounded share, the
\* last one less than one unit more for each winner, and all is paid out.
THEOREM RoundingIsPaid == Spec => []RoundingStaysWithWinners
PROOF
  <1>1. Init => RoundingInv
    BY DEF Init, Initialized, RoundingInv
  <1>2. /\ TypeOK /\ LedgerInv /\ RoundingInv /\ (TypeOK /\ LedgerInv)' /\ [Next]_vars
        => RoundingInv'
    <2> SUFFICES ASSUME TypeOK, LedgerInv, RoundingInv, TypeOK', LedgerInv', [Next]_vars
                 PROVE  RoundingInv'
      OBVIOUS
    <2> USE DEF envVars, stakeVars, bondVars, feeVars, claimVars, phaseVars
    <2>1. ASSUME NEW a \in Accounts, FinalizeResolution(a) PROVE RoundingInv'
      BY <2>1, FinalizeRounding
    <2>2. ASSUME NEW a \in Accounts, Claim(a) PROVE RoundingInv'
      BY <2>2, ClaimRounding
    <2>3. ASSUME state' # "FINALIZED" PROVE RoundingInv'
      BY <2>3 DEF RoundingInv
    <2>4. CASE UNCHANGED vars \/ Tick \/ RegistryChange \/ \E n \in 1 .. MaxUnaccounted : Receive(n)
      BY <2>4, SameRounding DEF vars, Tick, RegistryChange, Receive
    <2>5. ASSUME NEW v \in Vouchers, PlaceBet(v) PROVE RoundingInv'
      BY <2>3, <2>5 DEF PlaceBet, BetOk
    <2>6. ASSUME NEW a \in Accounts,
                 \/ ApproveMarket(a) \/ CloseMarket(a) \/ ChallengeResolution(a)
                 \/ \E o \in Outcomes \cup {NoOutcome} : ProposeResolution(a, o)
                 \/ VoidMarket(a) \/ Refund(a)
          PROVE  RoundingInv'
      BY <2>3, <2>6 DEF ApproveMarket, CloseMarket, ChallengeResolution, ProposeResolution,
         VoidMarket, Refund, PayoutOpen
    <2> QED BY <2>1, <2>2, <2>4, <2>5, <2>6 DEF Next
  <1>3. TypeOK /\ LedgerInv /\ RoundingInv => RoundingStaysWithWinners
    <2> SUFFICES ASSUME TypeOK, LedgerInv, RoundingInv, state = "FINALIZED",
                        \A a \in Winners : hasClaimed[a], Winners # {}
                 PROVE  totalClaimed = distributablePool
      BY DEF RoundingStaysWithWinners, RoundingInv
    <2> DEFINE stakes == Column(userStakes, winningOutcome)
    <2>1. /\ winningOutcome \in Outcomes /\ WinningPool = Total(stakes)
          /\ userStakes \in [Accounts -> [Outcomes -> Nat]]
          /\ totalWinningStakeClaimed
               = Total(ClaimedBy(userStakes, winningOutcome, hasClaimed))
      BY SumsOfStakes
         DEF TypeOK, WinnerKnown, LedgerInv, ClaimsKeepPace, PoolsMatchStakes, WinningPool
    <2>2. /\ stakes \in [Accounts -> Nat]
          /\ \A a \in Accounts : stakes[a] = WinningStake(a)
      BY <2>1 DEF Column, WinningStake
    <2>3. ASSUME NEW a \in Accounts, ~hasClaimed[a] PROVE stakes[a] = 0
      <3>1. ~(stakes[a] > 0) /\ stakes[a] \in Nat
        BY <2>2, <2>3 DEF Winners
      <3> QED BY <3>1
    <2>4. ClaimedBy(userStakes, winningOutcome, hasClaimed) = stakes
      BY <2>3 DEF ClaimedBy, Column
    <2>5. PICK a \in Accounts : stakes[a] > 0
      BY <2>2 DEF Winners
    <2> HIDE DEF stakes
    <2>6. stakes[a] <= Total(stakes) /\ Total(stakes) \in Nat /\ stakes[a] \in Nat
      BY <2>2, EntryBelowTotal, TotalType, Finite
    <2>7. totalWinningStakeClaimed = WinningPool /\ WinningPool > 0
      BY <2>1, <2>4, <2>5, <2>6
    <2> QED BY <2>7 DEF RoundingInv
  <1> QED BY <1>1, <1>2, <1>3, LedgerCorrect, PTL DEF Spec

------------------------------------------------------------------------------
(* What the market is asked to pay, it holds.                               *)

\* No call that ends a market, and no refund, reverts for want of tokens: whatever
\* the registry answers to finalizeResolution, its fees and the slashed bond are
\* covered, as are the bond voidMarket returns and the stakes refund does.
PaymentsAreCovered ==
  /\ state \in {"PROPOSED", "CHALLENGED"} =>
       \A r \in RegistryViews : challengeBond + Fees(r) <= balance
  /\ state # "FINALIZED" => challengeBond <= balance
  /\ state = "VOIDED" => \A a \in Accounts : StakeOf(a) <= balance

LEMMA StakesFit ==
  ASSUME TypeOK
  PROVE  AllStakes \in Nat /\ \A a \in Accounts : StakeOf(a) \in Nat /\ StakeOf(a) <= AllStakes
PROOF
  <1>1. Rows(userStakes) \in [Accounts -> Nat] /\ AllStakes = Total(Rows(userStakes))
    BY RowsType, SumsOfStakes DEF TypeOK
  <1>2. ASSUME NEW a \in Accounts
        PROVE  Rows(userStakes)[a] \in Nat /\ Rows(userStakes)[a] <= Total(Rows(userStakes))
    BY <1>1, EntryBelowTotal, Finite
  <1>3. Total(Rows(userStakes)) \in Nat
    BY <1>1, TotalType, Finite
  <1> QED BY <1>1, <1>2, <1>3 DEF Rows, StakeOf

LEMMA PaymentsFit == TypeOK /\ LedgerInv => PaymentsAreCovered
PROOF
  <1> SUFFICES ASSUME TypeOK, LedgerInv, state # "FINALIZED" PROVE PaymentsAreCovered
    BY DEF PaymentsAreCovered
  <1>1. /\ balance = unaccounted + challengeBond + AllStakes
        /\ state # "VOIDED" => totalPool = AllStakes
        /\ unaccounted \in Nat /\ challengeBond \in Nat /\ totalPool \in Nat
    BY DEF LedgerInv, EveryTokenAccountedFor, TypeOK
  <1>2. AllStakes \in Nat /\ \A a \in Accounts : StakeOf(a) \in Nat /\ StakeOf(a) <= AllStakes
    BY StakesFit
  <1>3. ASSUME NEW r \in RegistryViews PROVE Fees(r) \in Nat /\ Fees(r) <= totalPool
    BY <1>1, <1>3, RegistryAssumption, FeesTakeAtMostHalf
  <1> QED BY <1>1, <1>2, <1>3 DEF PaymentsAreCovered

\* A market can always be finalised, voided and refunded: stray tokens, a raised fee
\* and an open dispute never leave it short.
THEOREM MarketsCanEnd == Spec => []PaymentsAreCovered
  BY PaymentsFit, LedgerCorrect, PTL

\* The pool of a market whose winning outcome nobody backed is paid to nobody: it
\* stays in the contract, which has no function that returns it.
PoolNobodyWonStays ==
  state = "FINALIZED" /\ WinningPool = 0 =>
    totalClaimed = 0 /\ balance = unaccounted + distributablePool

THEOREM UnwonPoolsStay == Spec => []PoolNobodyWonStays
PROOF
  <1> DEFINE NoneClaimed == state = "FINALIZED" /\ WinningPool = 0 => totalClaimed = 0
  <1>1. Init => NoneClaimed
    BY DEF Init, Initialized
  <1>2. TypeOK /\ LedgerInv /\ NoneClaimed /\ [Next]_vars => NoneClaimed'
    <2> SUFFICES ASSUME LedgerInv, NoneClaimed, [Next]_vars PROVE NoneClaimed'
      OBVIOUS
    <2> USE DEF envVars, stakeVars, bondVars, feeVars, claimVars, phaseVars
    <2>1. ASSUME NEW a \in Accounts, FinalizeResolution(a) PROVE NoneClaimed'
      BY <2>1 DEF FinalizeResolution, LedgerInv, NothingPaidEarly
    <2>2. ASSUME NEW a \in Accounts, Claim(a) PROVE NoneClaimed'
      BY <2>2 DEF Claim, WinningPool
    <2>3. CASE UNCHANGED vars \/ Tick \/ RegistryChange \/ \E n \in 1 .. MaxUnaccounted : Receive(n)
      BY <2>3 DEF vars, Tick, RegistryChange, Receive, WinningPool
    <2>4. ASSUME NEW v \in Vouchers, PlaceBet(v) PROVE state' # "FINALIZED"
      BY <2>4 DEF PlaceBet, BetOk
    <2>5. ASSUME NEW a \in Accounts,
                 \/ ApproveMarket(a) \/ CloseMarket(a) \/ ChallengeResolution(a)
                 \/ \E o \in Outcomes \cup {NoOutcome} : ProposeResolution(a, o)
                 \/ VoidMarket(a) \/ Refund(a)
          PROVE  state' # "FINALIZED"
      BY <2>5 DEF ApproveMarket, CloseMarket, ChallengeResolution, ProposeResolution,
         VoidMarket, Refund, PayoutOpen
    <2> QED BY <2>1, <2>2, <2>3, <2>4, <2>5 DEF Next
  <1>3. TypeOK /\ LedgerInv /\ NoneClaimed => PoolNobodyWonStays
    BY DEF LedgerInv, EveryTokenAccountedFor, BondLivesWithDispute, TypeOK, PoolNobodyWonStays
  <1> QED BY <1>1, <1>2, <1>3, LedgerCorrect, PTL DEF Spec
=============================================================================

---------------------------- MODULE ProtocolProofs ----------------------------
(***************************************************************************)
(* The contracts, for any accounts, amounts, schedules and timelocks.      *)
(* First the promises of the registry and of the factory that uses it:     *)
(* what comes into force was announced a timelock before, and bonds are    *)
(* held, slashed and released exactly.                                     *)
(*                                                                         *)
(* Then all of them together: they implement ArenaMarket and ArenaFactory, *)
(* so that what each of the two promises holds of both on one clock, and   *)
(* the odds of a new market stand for a timelock.  Seen from the registry  *)
(* each step is one of its own; seen from the market it is a call, a tick, *)
(* a change of the registry, or, when the market is created, nothing.      *)
(***************************************************************************)
EXTENDS ArenaProtocol, TotalsProofs, FiniteSetTheorems, TLAPS

\* The market with what was proved of it.  No call of a market reads its snapshot of
\* the fees, only getOdds does: the market that the factory creates takes the steps of
\* one whose snapshot is of the first fees.
P == INSTANCE ArenaMarketProofs WITH
  reg <- View,
  RegistryViews <- Views,
  feeBpsSnapshot <- totalFeeBps(InitialFees)

------------------------------------------------------------------------------
(* Fees and treasury.                                                       *)

\* What SetFees and SetTreasury record of a proposal is what is pending.
PendingAnnounced ==
  /\ feeChangeScheduledAt > 0 =>
       [change |-> pendingFees, at |-> feeChangeScheduledAt] \in proposals
  /\ pendingTreasury # NoAccount =>
       [change |-> pendingTreasury, at |-> treasuryChangeScheduledAt] \in proposals

\* The part of the types the arguments below read.
FeeTypes ==
  /\ now \in Nat /\ feeChangeScheduledAt \in Nat /\ treasuryChangeScheduledAt \in Nat
  /\ fees \in FeeSchedule /\ pendingFees \in FeeSchedule

AnnouncedInv == FeeTypes /\ FeesAreCapped /\ PendingAnnounced

feeAndTreasury == <<now, fees, pendingFees, feeChangeScheduledAt, treasury,
                    pendingTreasury, treasuryChangeScheduledAt, proposals>>

\* Every action but five leaves time, fees, treasury and the proposals alone.
LEMMA QuietSteps ==
  ASSUME FactoryNext
  PROVE  \/ UNCHANGED feeAndTreasury
         \/ now' = now + 1 /\ UNCHANGED <<feeVars, treasuryVars, proposals>>
         \/ \E caller \in Accounts, f \in Schedules : SetFees(caller, f)
         \/ \E caller \in Accounts : ExecuteFees(caller)
         \/ \E caller \in Accounts, a \in Treasuries \cup {NoAccount} :
              SetTreasury(caller, a)
         \/ \E caller \in Accounts : ExecuteTreasury(caller)
<1>1. CASE Creation
  BY <1>1 DEF Creation, CreateMarket, feeAndTreasury, feeVars, treasuryVars
<1>2. CASE Clock
  BY <1>2 DEF Clock
<1>3. CASE \E n \in 1 .. MaxUnaccounted : StrayTransfer(n)
  BY <1>3 DEF StrayTransfer, feeAndTreasury, feeVars, treasuryVars
<1>4. ASSUME NEW caller \in Accounts, RoleChange(caller) PROVE UNCHANGED feeAndTreasury
  BY <1>4 DEF RoleChange, GrantRole, RevokeRole, feeAndTreasury, feeVars, treasuryVars
<1>5. ASSUME NEW caller \in Accounts, Setting(caller) PROVE UNCHANGED feeAndTreasury
  BY <1>5 DEF Setting, SetCreatorBondAmount, SetChallengeBondAmount, SetBeacon,
     SetOracleModule, SetPaused, feeAndTreasury, feeVars, treasuryVars
<1>6. ASSUME NEW caller \in Accounts, Listing(caller) PROVE UNCHANGED feeAndTreasury
  BY <1>6 DEF Listing, SetCreatorStatus, SetSanctionStatus, AddCollateral,
     RemoveCollateral, RegisterMarket, feeAndTreasury, feeVars, treasuryVars
<1>7. ASSUME NEW caller \in Accounts, Bonding(caller) PROVE UNCHANGED feeAndTreasury
  BY <1>7 DEF Bonding, LockCreatorBond, SlashCreatorBond, ReleaseCreatorBond,
     feeAndTreasury, feeVars, treasuryVars
<1> QED
  BY <1>1, <1>2, <1>3, <1>4, <1>5, <1>6, <1>7
  DEF FactoryNext, RegistryNext, Timelocked

LEMMA AnnouncedInit == FactoryInit => AnnouncedInv
BY RegistrySchedules, InitialFeesCapped
DEF FactoryInit, RegistryInit, AnnouncedInv, FeeTypes, FeesAreCapped, PendingAnnounced,
    FeeSchedule, NoFees, totalFeeBps, MAX_FEE_BPS

LEMMA AnnouncedStep ==
  ASSUME AnnouncedInv, [FactoryNext]_<<registryVars, factoryVars>>
  PROVE  AnnouncedInv'
<1> USE DEF AnnouncedInv, FeeTypes, FeesAreCapped, PendingAnnounced
<1>1. CASE UNCHANGED feeAndTreasury
  BY <1>1 DEF feeAndTreasury
<1>2. CASE now' = now + 1 /\ UNCHANGED <<feeVars, treasuryVars, proposals>>
  BY <1>2 DEF feeVars, treasuryVars
<1>3. ASSUME NEW caller \in Accounts, NEW f \in Schedules, SetFees(caller, f)
      PROVE  AnnouncedInv'
  BY <1>3, RegistrySchedules DEF SetFees, FeesAllowed, DateProposal, treasuryVars
<1>4. ASSUME NEW caller \in Accounts, ExecuteFees(caller) PROVE AnnouncedInv'
  BY <1>4 DEF ExecuteFees, treasuryVars
<1>5. ASSUME NEW caller \in Accounts, NEW a \in Treasuries \cup {NoAccount},
             SetTreasury(caller, a)
      PROVE  AnnouncedInv'
  BY <1>5 DEF SetTreasury, feeVars
<1>6. ASSUME NEW caller \in Accounts, ExecuteTreasury(caller) PROVE AnnouncedInv'
  BY <1>6 DEF ExecuteTreasury, feeVars
<1>7. CASE UNCHANGED <<registryVars, factoryVars>>
  BY <1>7, <1>1 DEF registryVars, feeAndTreasury, feeVars, treasuryVars
<1> QED
  BY <1>1, <1>2, <1>3, <1>4, <1>5, <1>6, <1>7, QuietSteps

\* Whatever is pending was announced, and no schedule passes the cap.
THEOREM PendingIsAnnounced == FactorySpec => []AnnouncedInv
<1>1. FactoryInit => AnnouncedInv
  BY AnnouncedInit
<1>2. AnnouncedInv /\ [FactoryNext]_<<registryVars, factoryVars>> => AnnouncedInv'
  BY AnnouncedStep
<1> QED
  BY <1>1, <1>2, PTL DEF FactorySpec

\* No market ever reads a schedule above the cap.
THEOREM FeesStayCapped == FactorySpec => []FeesAreCapped
<1>1. AnnouncedInv => FeesAreCapped
  BY DEF AnnouncedInv
<1> QED
  BY <1>1, PendingIsAnnounced, PTL

\* A schedule that comes into force was announced a full timelock before.
LEMMA FeesAreAnnounced ==
  ASSUME AnnouncedInv, [FactoryNext]_<<registryVars, factoryVars>>, fees' # fees
  PROVE  Announced(fees')
<1>1. FactoryNext
  BY DEF registryVars, feeVars
<1>2. PICK caller \in Accounts : ExecuteFees(caller)
  BY <1>1, QuietSteps DEF feeAndTreasury, feeVars, SetFees, SetTreasury, ExecuteTreasury
<1>3. [change |-> pendingFees, at |-> feeChangeScheduledAt] \in proposals
  BY <1>2 DEF AnnouncedInv, PendingAnnounced, ExecuteFees
<1>4. feeChangeScheduledAt + Timelock <= now
  BY <1>2, RegistryBounds DEF AnnouncedInv, FeeTypes, ExecuteFees, Unlocked
<1> QED
  BY <1>2, <1>3, <1>4 DEF Announced, ExecuteFees

\* The treasury too.
LEMMA TreasuryIsAnnounced ==
  ASSUME AnnouncedInv, [FactoryNext]_<<registryVars, factoryVars>>, treasury' # treasury
  PROVE  Announced(treasury')
<1>1. FactoryNext
  BY DEF registryVars, treasuryVars
<1>2. PICK caller \in Accounts : ExecuteTreasury(caller)
  BY <1>1, QuietSteps DEF feeAndTreasury, treasuryVars, SetFees, SetTreasury, ExecuteFees
<1>3. [change |-> pendingTreasury, at |-> treasuryChangeScheduledAt] \in proposals
  BY <1>2 DEF AnnouncedInv, PendingAnnounced, ExecuteTreasury, TreasuryPending
<1>4. treasuryChangeScheduledAt + Timelock <= now
  BY <1>2, RegistryBounds DEF AnnouncedInv, FeeTypes, ExecuteTreasury, Unlocked
<1> QED
  BY <1>2, <1>3, <1>4 DEF Announced, ExecuteTreasury

\* What comes into force, fees or treasury, was announced a full timelock before.
THEOREM ChangesAreAnnounced == FactorySpec => ChangesWereAnnounced
<1>1. ASSUME AnnouncedInv, [FactoryNext]_<<registryVars, factoryVars>>
      PROVE  [/\ fees' # fees => Announced(fees')
              /\ treasury' # treasury => Announced(treasury')]_registryVars
  BY <1>1, FeesAreAnnounced, TreasuryIsAnnounced
<1> QED
  BY <1>1, PendingIsAnnounced, PTL DEF FactorySpec, ChangesWereAnnounced

------------------------------------------------------------------------------
(* Bonds.                                                                   *)

BondTypes ==
  /\ creatorBondLocked \in [Accounts -> Nat] /\ slashed \in [Accounts -> Nat]
  /\ bondWallet \in [Accounts -> Int]
  /\ registryBalance \in Nat /\ stray \in Nat /\ creatorBondAmount \in Nat

\* Whoever is or may become the treasury is one of EverTreasury.
TreasuryKnown ==
  /\ treasury \in Accounts /\ treasury \in EverTreasury
  /\ pendingTreasury \in Accounts \cup {NoAccount}
  /\ pendingTreasury # NoAccount => pendingTreasury \in EverTreasury

BondInv == BondTypes /\ TreasuryKnown /\ BondsSettleExactly

bondState == <<creatorBondLocked, slashed, bondWallet, registryBalance, stray>>

LEMMA KnownTreasuryStep ==
  ASSUME TreasuryKnown, FactoryNext
  PROVE  TreasuryKnown' /\ EverTreasury \subseteq EverTreasury'
<1> USE DEF EverTreasury, TreasuryKnown
<1>1. CASE UNCHANGED <<treasuryVars, proposals>>
  BY <1>1 DEF treasuryVars
<1>2. ASSUME NEW caller \in Accounts, NEW f \in Schedules, SetFees(caller, f)
      PROVE  TreasuryKnown' /\ EverTreasury \subseteq EverTreasury'
  BY <1>2 DEF SetFees, treasuryVars
<1>3. ASSUME NEW caller \in Accounts, NEW a \in Treasuries \cup {NoAccount},
             SetTreasury(caller, a)
      PROVE  TreasuryKnown' /\ EverTreasury \subseteq EverTreasury'
  <2>1. a \in Accounts
    BY <1>3, RegistryGrants DEF SetTreasury
  <2>2. [change |-> a, at |-> now] \in proposals'
    BY <1>3 DEF SetTreasury
  <2>3. a \in EverTreasury'
    BY <2>2
  <2>4. pendingTreasury' = a /\ treasury' = treasury /\ proposals \subseteq proposals'
    BY <1>3 DEF SetTreasury
  <2> QED
    BY <2>1, <2>3, <2>4
<1>4. ASSUME NEW caller \in Accounts, ExecuteTreasury(caller)
      PROVE  TreasuryKnown' /\ EverTreasury \subseteq EverTreasury'
  BY <1>4, RegistryAccounts DEF ExecuteTreasury, TreasuryPending
<1>5. ASSUME NEW caller \in Accounts, ExecuteFees(caller)
      PROVE  UNCHANGED <<treasuryVars, proposals>>
  BY <1>5 DEF ExecuteFees
<1>6. CASE Creation
  BY <1>1, <1>6 DEF Creation, CreateMarket
<1>7. CASE Clock \/ \E n \in 1 .. MaxUnaccounted : StrayTransfer(n)
  BY <1>1, <1>7 DEF Clock, StrayTransfer
<1>8. ASSUME NEW caller \in Accounts, RoleChange(caller) \/ Setting(caller)
      PROVE  UNCHANGED <<treasuryVars, proposals>>
  BY <1>8 DEF RoleChange, GrantRole, RevokeRole, Setting, SetCreatorBondAmount,
     SetChallengeBondAmount, SetBeacon, SetOracleModule, SetPaused
<1>9. ASSUME NEW caller \in Accounts, Listing(caller) \/ Bonding(caller)
      PROVE  UNCHANGED <<treasuryVars, proposals>>
  BY <1>9 DEF Listing, SetCreatorStatus, SetSanctionStatus, AddCollateral,
     RemoveCollateral, RegisterMarket, Bonding, LockCreatorBond, SlashCreatorBond,
     ReleaseCreatorBond
<1> QED
  BY <1>1, <1>2, <1>3, <1>4, <1>5, <1>6, <1>7, <1>8, <1>9
  DEF FactoryNext, RegistryNext, Timelocked

\* A bond that is locked: the creator's tokens, the registry's and the record.
LEMMA LockSettles ==
  ASSUME BondTypes, BondsSettleExactly, EverTreasury \subseteq EverTreasury',
         NEW caller, NEW creator \in Accounts, NEW n \in Nat,
         Lock(caller, creator, n), UNCHANGED <<slashed, stray>>
  PROVE  BondsSettleExactly' /\ (BondTypes' \/ creatorBondAmount' \notin Nat)
<1>1. creatorBondLocked' \in [Accounts -> Nat] /\ bondWallet' \in [Accounts -> Int]
        /\ registryBalance' \in Nat
  BY DEF Lock, BondTypes
<1>2. Total(creatorBondLocked') = Total(creatorBondLocked) - creatorBondLocked[creator]
                                    + creatorBondLocked'[creator]
  <2>1. \A b \in Accounts \ {creator} : creatorBondLocked'[b] = creatorBondLocked[b]
    BY DEF Lock, BondTypes
  <2> QED
    BY <1>1, <2>1, TotalDiffer, RegistryAccounts DEF BondTypes
<1>3. creatorBondLocked'[creator] = creatorBondLocked[creator] + n
  BY DEF Lock, BondTypes
<1>4. Total(creatorBondLocked) \in Nat
  BY TotalType, RegistryAccounts DEF BondTypes
<1>5. registryBalance' = Total(creatorBondLocked') + stray'
  BY <1>2, <1>3, <1>4 DEF Lock, BondTypes, BondsSettleExactly
<1>6. ASSUME NEW a \in Accounts \ EverTreasury'
      PROVE  bondWallet'[a] + creatorBondLocked'[a] + slashed'[a] = 0
  <2>1. bondWallet[a] + creatorBondLocked[a] + slashed[a] = 0
    BY <1>6 DEF BondsSettleExactly
  <2>2. bondWallet'[a] + creatorBondLocked'[a] = bondWallet[a] + creatorBondLocked[a]
    BY DEF Lock, BondTypes
  <2> QED
    BY <1>1, <1>6, <2>1, <2>2 DEF BondTypes
<1> QED
  BY <1>1, <1>5, <1>6 DEF BondsSettleExactly, BondTypes

\* A slash or a release: what leaves the bond goes to the treasury, and counts as
\* slashed, or goes home.
LEMMA TakeSettles ==
  ASSUME BondTypes, BondsSettleExactly, EverTreasury \subseteq EverTreasury',
         NEW creator \in Accounts, NEW to \in Accounts, NEW n \in Nat,
         TakeFromBond(creator, n, to), UNCHANGED <<stray, creatorBondAmount>>,
         \/ to = creator /\ UNCHANGED slashed
         \/ to \in EverTreasury /\ slashed' = [slashed EXCEPT ![creator] = @ + n]
  PROVE  BondTypes' /\ BondsSettleExactly'
<1>1. BondTypes'
  BY DEF TakeFromBond, BondTypes
<1>2. \A b \in Accounts \ {creator} : creatorBondLocked'[b] = creatorBondLocked[b]
  BY DEF TakeFromBond, BondTypes
<1>3. Total(creatorBondLocked') = Total(creatorBondLocked) - creatorBondLocked[creator]
                                    + creatorBondLocked'[creator]
  BY <1>1, <1>2, TotalDiffer, RegistryAccounts DEF BondTypes
<1>4. creatorBondLocked'[creator] = creatorBondLocked[creator] - n
  BY DEF TakeFromBond, BondTypes
<1>5. Total(creatorBondLocked) \in Nat
  BY TotalType, RegistryAccounts DEF BondTypes
<1>6. registryBalance' = Total(creatorBondLocked') + stray'
  BY <1>3, <1>4, <1>5 DEF TakeFromBond, BondTypes, BondsSettleExactly
<1>7. ASSUME NEW a \in Accounts \ EverTreasury'
      PROVE  bondWallet'[a] + creatorBondLocked'[a] + slashed'[a] = 0
  <2>1. bondWallet[a] + creatorBondLocked[a] + slashed[a] = 0 /\ a \notin EverTreasury
    BY <1>7 DEF BondsSettleExactly
  <2>2. CASE to = creator /\ UNCHANGED slashed
    <3>1. bondWallet'[a] + creatorBondLocked'[a] = bondWallet[a] + creatorBondLocked[a]
      BY <2>2 DEF TakeFromBond, BondTypes
    <3> QED
      BY <1>1, <1>7, <2>1, <2>2, <3>1 DEF BondTypes
  <2>3. CASE to \in EverTreasury /\ slashed' = [slashed EXCEPT ![creator] = @ + n]
    <3>1. bondWallet'[a] = bondWallet[a]
      BY <2>1, <2>3 DEF TakeFromBond, BondTypes
    <3>2. creatorBondLocked'[a] + slashed'[a] = creatorBondLocked[a] + slashed[a]
      BY <2>3 DEF TakeFromBond, BondTypes
    <3> QED
      BY <1>1, <1>7, <2>1, <3>1, <3>2 DEF BondTypes
  <2> QED
    BY <2>2, <2>3
<1> QED
  BY <1>1, <1>6, <1>7 DEF BondsSettleExactly

LEMMA BondStep ==
  ASSUME BondInv, [FactoryNext]_<<registryVars, factoryVars>>
  PROVE  BondInv'
<1> USE DEF BondInv
<1>0. CASE UNCHANGED <<registryVars, factoryVars>>
  BY <1>0 DEF registryVars, heldVars, treasuryVars, bondAmounts, BondTypes,
     TreasuryKnown, BondsSettleExactly, EverTreasury
<1> SUFFICES ASSUME FactoryNext PROVE BondTypes' /\ BondsSettleExactly'
  BY <1>0, KnownTreasuryStep
<1>1. EverTreasury \subseteq EverTreasury' /\ TreasuryKnown
  BY KnownTreasuryStep
<1>2. CASE UNCHANGED bondState /\ creatorBondAmount' \in Nat
  BY <1>1, <1>2 DEF bondState, BondTypes, BondsSettleExactly
<1>3. CASE Creation
  <2>1. PICK sender \in Accounts \ {Factory}, m \in Markets, id \in MarketIds, t \in Tokens :
          CreateMarket(sender, m, id, t)
    BY <1>3 DEF Creation
  <2>2. UNCHANGED <<slashed, stray, creatorBondAmount>> /\ PostBond(sender)
    BY <2>1 DEF CreateMarket, bondAmounts
  <2>3. CASE creatorBondLocked[sender] = 0
    BY <1>1, <2>2, <2>3, LockSettles DEF PostBond, BondTypes
  <2>4. CASE creatorBondLocked[sender] # 0
    BY <1>2, <2>2, <2>4 DEF PostBond, bondState, BondTypes
  <2> QED
    BY <2>3, <2>4
<1>4. ASSUME NEW n \in 1 .. MaxUnaccounted, StrayTransfer(n)
      PROVE  BondTypes' /\ BondsSettleExactly'
  <2>1. n \in Nat /\ Total(creatorBondLocked) \in Nat
    BY TotalType, RegistryAccounts DEF BondTypes
  <2> QED
    BY <1>1, <1>4, <2>1 DEF StrayTransfer, bondAmounts, BondTypes, BondsSettleExactly
<1>5. ASSUME NEW caller \in Accounts, NEW creator \in Listed, NEW n \in BondAmounts,
             \/ LockCreatorBond(caller, creator, n)
             \/ SlashCreatorBond(caller, creator, n)
             \/ ReleaseCreatorBond(caller, creator, n)
      PROVE  BondTypes' /\ BondsSettleExactly'
  <2>1. creator \in Accounts /\ n \in Nat
    BY RegistryGrants, RegistryAmounts
  <2>2. CASE LockCreatorBond(caller, creator, n)
    BY <1>1, <2>1, <2>2, LockSettles DEF LockCreatorBond, bondAmounts, BondTypes
  <2>3. CASE SlashCreatorBond(caller, creator, n)
    BY <1>1, <2>1, <2>3, TakeSettles DEF SlashCreatorBond, bondAmounts, TreasuryKnown
  <2>4. CASE ReleaseCreatorBond(caller, creator, n)
    BY <1>1, <2>1, <2>4, TakeSettles DEF ReleaseCreatorBond, bondAmounts
  <2> QED
    BY <1>5, <2>2, <2>3, <2>4
<1>6. ASSUME NEW caller \in Accounts, Setting(caller)
      PROVE  UNCHANGED bondState /\ creatorBondAmount' \in Nat
  BY <1>6, RegistryAmounts DEF Setting, SetCreatorBondAmount, SetChallengeBondAmount,
     SetBeacon, SetOracleModule, SetPaused, heldVars, bondAmounts, bondState, BondTypes
<1>7. ASSUME NEW caller \in Accounts, RoleChange(caller) \/ Timelocked(caller)
      PROVE  UNCHANGED bondState /\ creatorBondAmount' \in Nat
  BY <1>7 DEF RoleChange, GrantRole, RevokeRole, Timelocked, SetFees, ExecuteFees,
     SetTreasury, ExecuteTreasury, heldVars, bondAmounts, bondState, BondTypes
<1>8. ASSUME NEW caller \in Accounts, Listing(caller)
      PROVE  UNCHANGED bondState /\ creatorBondAmount' \in Nat
  BY <1>8 DEF Listing, SetCreatorStatus, SetSanctionStatus, AddCollateral,
     RemoveCollateral, RegisterMarket, heldVars, bondAmounts, bondState, BondTypes
<1>9. ASSUME Clock PROVE UNCHANGED bondState /\ creatorBondAmount' \in Nat
  BY <1>9 DEF Clock, heldVars, bondAmounts, bondState, BondTypes
<1> QED
  BY <1>2, <1>3, <1>4, <1>5, <1>6, <1>7, <1>8, <1>9
  DEF FactoryNext, RegistryNext, Bonding

\* The inductive invariant of the bonds.
THEOREM BondsHold == FactorySpec => []BondInv
<1>1. FactoryInit => BondInv
  <2> SUFFICES ASSUME FactoryInit PROVE BondInv
    OBVIOUS
  <2>1. creatorBondLocked \in [Accounts -> Nat]
          /\ \A a \in Accounts : creatorBondLocked[a] = 0
    BY DEF FactoryInit, RegistryInit
  <2>2. Total(creatorBondLocked) = 0
    BY <2>1, TotalZero
  <2> QED
    BY <2>1, <2>2, RegistryAccounts, RegistryAmounts
    DEF FactoryInit, RegistryInit, BondInv, BondTypes, TreasuryKnown, EverTreasury,
        BondsSettleExactly
<1>2. BondInv /\ [FactoryNext]_<<registryVars, factoryVars>> => BondInv'
  BY BondStep
<1> QED
  BY <1>1, <1>2, PTL DEF FactorySpec

\* Bonds are neither lost nor paid twice.
THEOREM BondsSettle == FactorySpec => []BondsSettleExactly
<1>1. BondInv => BondsSettleExactly
  BY DEF BondInv
<1> QED
  BY <1>1, BondsHold, PTL

------------------------------------------------------------------------------
CreatorTypes == creatorOf \in [Markets -> Accounts \cup {NoAccount}]

LEMMA CreatorsAreAccounts == FactorySpec => []CreatorTypes
<1>1. FactoryInit => CreatorTypes
  BY DEF FactoryInit, CreatorTypes
<1>2. ASSUME CreatorTypes, [FactoryNext]_<<registryVars, factoryVars>> PROVE CreatorTypes'
  <2>1. CASE UNCHANGED factoryVars
    BY <1>2, <2>1 DEF factoryVars, CreatorTypes
  <2>2. CASE Creation
    BY <1>2, <2>2 DEF Creation, CreateMarket, CreatorTypes
  <2> QED
    BY <1>2, <2>1, <2>2 DEF FactoryNext
<1> QED
  BY <1>1, <1>2, PTL DEF FactorySpec

\* No market starts without a bond of its creator, unless none is asked for.
THEOREM StartsBonded == FactorySpec => MarketsStartBonded
<1>1. ASSUME BondInv, CreatorTypes, [FactoryNext]_<<registryVars, factoryVars>>
      PROVE  \A m \in Markets : creatorOf'[m] # creatorOf[m] =>
               creatorBondLocked'[creatorOf'[m]] > 0 \/ creatorBondAmount = 0
  <2> SUFFICES ASSUME NEW m \in Markets, creatorOf'[m] # creatorOf[m]
               PROVE  creatorBondLocked'[creatorOf'[m]] > 0 \/ creatorBondAmount = 0
    OBVIOUS
  <2>1. PICK sender \in Accounts \ {Factory}, n \in Markets, id \in MarketIds, t \in Tokens :
          CreateMarket(sender, n, id, t)
    BY <1>1 DEF FactoryNext, factoryVars, Creation
  <2>2. creatorOf'[m] = sender /\ PostBond(sender)
    BY <1>1, <2>1 DEF CreateMarket, CreatorTypes
  <2>3. creatorBondLocked \in [Accounts -> Nat] /\ creatorBondAmount \in Nat
    BY <1>1 DEF BondInv, BondTypes
  <2>4. CASE creatorBondLocked[sender] = 0
    <3>1. creatorBondLocked'[sender] = creatorBondAmount
      BY <2>2, <2>3, <2>4 DEF PostBond, Lock
    <3> QED BY <2>2, <2>3, <3>1
  <2>5. CASE creatorBondLocked[sender] # 0
    <3>1. creatorBondLocked' = creatorBondLocked
      BY <2>2, <2>5 DEF PostBond
    <3> QED BY <2>2, <2>3, <2>5, <3>1
  <2> QED
    BY <2>4, <2>5
<1> QED
  BY <1>1, BondsHold, CreatorsAreAccounts, PTL DEF FactorySpec, MarketsStartBonded


------------------------------------------------------------------------------
(* The registry's side.                                                     *)

\* The part of the registry's types that a market reads.
ViewTypes ==
  /\ roles \in [Roles -> SUBSET Accounts]
  /\ treasury \in Accounts /\ pendingTreasury \in Accounts \cup {NoAccount}
  /\ challengeBondAmount \in Nat
  /\ registryPaused \in BOOLEAN /\ sanctioned \subseteq Accounts

\* Every answer is one that markets are built for.
LEMMA ViewFits ==
  ASSUME ViewTypes, AnnouncedInv
  PROVE  View \in Views
PROOF
  <1>1. "ORACLE" \in Roles /\ "OPERATOR" \in Roles
    BY DEF Roles
  <1>2. roles["ORACLE"] \in SUBSET Accounts /\ roles["OPERATOR"] \in SUBSET Accounts
    BY <1>1 DEF ViewTypes
  <1>3. fees \in FeeSchedule /\ totalFeeBps(fees) <= MAX_FEE_BPS
    BY DEF AnnouncedInv, FeeTypes, FeesAreCapped
  <1> QED
    BY <1>2, <1>3, ProtocolAssumption
    DEF View, Views, ViewTypes, FeeSchedule, totalFeeBps

\* The variables that ViewTypes speaks of.
viewed == <<roles, treasury, pendingTreasury, challengeBondAmount, registryPaused,
            sanctioned>>

LEMMA ViewTypesStep ==
  ASSUME ViewTypes, [FactoryNext]_<<registryVars, factoryVars>>
  PROVE  ViewTypes'
PROOF
  <1> USE DEF treasuryVars, bondAmounts, listVars
  <1>1. CASE UNCHANGED viewed
    BY <1>1 DEF viewed, ViewTypes
  <1>2. ASSUME NEW caller \in Accounts, RoleChange(caller) PROVE ViewTypes'
    <2>1. PICK g \in Grants : GrantRole(caller, g[1], g[2]) \/ RevokeRole(caller, g[1], g[2])
      BY <1>2 DEF RoleChange
    <2>2. g[1] \in Roles /\ g[2] \in Accounts
      BY RegistryGrants
    <2> QED BY <2>1, <2>2 DEF GrantRole, RevokeRole, ViewTypes
  <1>3. ASSUME NEW caller \in Accounts, Timelocked(caller) PROVE ViewTypes'
    <2>1. ASSUME NEW f \in Schedules, SetFees(caller, f) PROVE ViewTypes'
      BY <1>1, <2>1 DEF SetFees, viewed
    <2>2. ASSUME NEW a \in Treasuries \cup {NoAccount}, SetTreasury(caller, a)
          PROVE  ViewTypes'
      BY <2>2, RegistryGrants DEF SetTreasury, ViewTypes
    <2>3. CASE ExecuteFees(caller)
      BY <1>1, <2>3 DEF ExecuteFees, viewed
    <2>4. CASE ExecuteTreasury(caller)
      BY <2>4 DEF ExecuteTreasury, TreasuryPending, ViewTypes
    <2> QED BY <1>3, <2>1, <2>2, <2>3, <2>4 DEF Timelocked
  <1>4. ASSUME NEW caller \in Accounts, Setting(caller) PROVE ViewTypes'
    BY <1>4, RegistryAmounts DEF Setting, SetCreatorBondAmount, SetChallengeBondAmount,
       SetBeacon, SetOracleModule, SetPaused, ViewTypes
  <1>5. ASSUME NEW caller \in Accounts, Listing(caller) PROVE ViewTypes'
    BY <1>5, RegistryGrants DEF Listing, SetCreatorStatus, SetSanctionStatus,
       AddCollateral, RemoveCollateral, RegisterMarket, ViewTypes
  <1>6. ASSUME NEW caller \in Accounts, Bonding(caller) PROVE ViewTypes'
    BY <1>1, <1>6 DEF Bonding, LockCreatorBond, SlashCreatorBond, ReleaseCreatorBond, viewed
  <1>7. CASE Clock
    BY <1>1, <1>7 DEF Clock, viewed
  <1>8. CASE \E n \in 1 .. MaxUnaccounted : StrayTransfer(n)
    BY <1>1, <1>8 DEF StrayTransfer, viewed
  <1>9. CASE Creation
    BY <1>1, <1>9 DEF Creation, CreateMarket, viewed
  <1>10. CASE UNCHANGED <<registryVars, factoryVars>>
    BY <1>1, <1>10 DEF registryVars, viewed
  <1> QED
    BY <1>2, <1>3, <1>4, <1>5, <1>6, <1>7, <1>8, <1>9, <1>10 DEF FactoryNext, RegistryNext

\* A step of the contracts together is a step of the registry and its factory.
LEMMA RegistrySide ==
  ASSUME params \in MarketChoices, [Next]_vars
  PROVE  [FactoryNext]_<<registryVars, factoryVars>>
PROOF
  <1>1. CASE CreateTheMarket
    <2>1. params.creator \in Accounts \ {Factory} /\ TheMarket \in Markets
      BY ProtocolAssumption, MarketAssumption DEF M!MarketChoice
    <2> QED BY <1>1, <2>1 DEF CreateTheMarket, FactoryNext, Creation
  <1>2. CASE Time \/ Governance
    BY <1>2 DEF Time, Governance, FactoryNext, RegistryNext
  <1>3. CASE MarketCall \/ UNCHANGED vars
    BY <1>3 DEF MarketCall, vars
  <1> QED BY <1>1, <1>2, <1>3 DEF Next

------------------------------------------------------------------------------
(* The market's side.                                                       *)

\* M and P count with the same operators.
LEMMA SameTotal == \A f : M!Total(f) = P!Total(f)
  BY DEF M!Total, P!Total, M!Units, P!Units, M!Cardinality, P!Cardinality

\* What ArenaMarket assumes of its constants holds of those it is given here.
LEMMA MarketAssumptions ==
  /\ P!IsFiniteSet(Accounts) /\ NoAccount \notin Accounts
  /\ P!IsFiniteSet(Outcomes) /\ NoOutcome \notin Outcomes
  /\ P!IsFiniteSet(Vouchers) /\ Vouchers \subseteq P!Bet
  /\ Views \subseteq P!RegistryView /\ \A r \in Views : P!TotalFeeBps(r) <= 5000
  /\ MarketChoices \subseteq P!MarketChoice
  /\ MaxSignatureAge \in Nat /\ MaxTime \in Nat /\ MaxUnaccounted \in Nat
PROOF
  <1>1. P!IsFiniteSet(Accounts) /\ P!IsFiniteSet(Outcomes) /\ P!IsFiniteSet(Vouchers)
    BY RegistryAccounts, ProtocolAssumption DEF IsFiniteSet, P!IsFiniteSet
  <1>2. Vouchers \subseteq P!Bet /\ MarketChoices \subseteq P!MarketChoice
    BY MarketAssumption DEF M!Bet, P!Bet, M!MarketChoice, P!MarketChoice
  <1>3. Views \subseteq P!RegistryView
    BY DEF Views, P!RegistryView
  <1>4. \A r \in Views : P!TotalFeeBps(r) <= 5000
    BY DEF Views, P!TotalFeeBps, MAX_FEE_BPS
  <1> QED
    BY <1>1, <1>2, <1>3, <1>4, RegistryAccounts, RegistryBounds, ProtocolAssumption

\* The initial state is an initialized market that reads an initial registry.
LEMMA MarketBegins ==
  ASSUME Init
  PROVE  ViewTypes /\ AnnouncedInv /\ P!Init
PROOF
  <1>1. AnnouncedInv
    BY AnnouncedInit DEF Init
  <1>2. ViewTypes
    BY RegistryAccounts, RegistryAmounts DEF Init, FactoryInit, RegistryInit, ViewTypes
  <1>3. now = 1 /\ fees = InitialFees /\ M!Initialized
    BY DEF Init, FactoryInit, RegistryInit
  <1>4. P!Initialized
    BY <1>3 DEF M!Initialized, P!Initialized, M!InitializeOk, P!InitializeOk
  <1>5. totalFeeBps(InitialFees) = P!TotalFeeBps(View)
    BY <1>3 DEF totalFeeBps, P!TotalFeeBps, View
  <1> QED BY <1>1, <1>2, <1>3, <1>4, <1>5, ViewFits DEF P!Init

LEMMA CallIsStep ==
  ASSUME MarketCall
  PROVE  P!Next
PROOF
  <1> USE DEF M!envVars, P!envVars, M!stakeVars, P!stakeVars, M!bondVars, P!bondVars,
              M!feeVars, P!feeVars, M!claimVars, P!claimVars, M!tokenVars, P!tokenVars,
              M!phaseVars, P!phaseVars, M!Credit, P!Credit, M!TransferIn, P!TransferIn,
              M!TransferOut, P!TransferOut, M!ValidOutcome, P!ValidOutcome
  <1>1. ASSUME NEW n \in 1 .. MaxUnaccounted, M!Receive(n) PROVE P!Receive(n)
    BY <1>1 DEF M!Receive, P!Receive
  <1>2. ASSUME NEW v \in Vouchers, M!PlaceBet(v) PROVE P!PlaceBet(v)
    BY <1>2 DEF M!PlaceBet, P!PlaceBet, M!BetOk, P!BetOk, M!FreshNonce, P!FreshNonce,
       M!CreatorCapOk, P!CreatorCapOk, M!AddStake, P!AddStake
  <1>3. ASSUME NEW a \in Accounts, M!ApproveMarket(a) \/ M!CloseMarket(a)
        PROVE  P!ApproveMarket(a) \/ P!CloseMarket(a)
    BY <1>3 DEF M!ApproveMarket, P!ApproveMarket, M!CloseMarket, P!CloseMarket
  <1>4. ASSUME NEW a \in Accounts, NEW o \in Outcomes, M!ProposeResolution(a, o)
        PROVE  P!ProposeResolution(a, o)
    BY <1>4 DEF M!ProposeResolution, P!ProposeResolution
  <1>5. ASSUME NEW a \in Accounts, M!ChallengeResolution(a) PROVE P!ChallengeResolution(a)
    BY <1>5 DEF M!ChallengeResolution, P!ChallengeResolution
  <1>6. ASSUME NEW a \in Accounts, M!FinalizeResolution(a) PROVE P!FinalizeResolution(a)
    BY <1>6 DEF M!FinalizeResolution, P!FinalizeResolution, M!Fees, P!Fees, M!Fee, P!Fee,
       M!PayFees, P!PayFees, M!ReferralPayee, P!ReferralPayee, M!BPS, P!BPS
  <1>7. ASSUME NEW a \in Accounts, M!VoidMarket(a) PROVE P!VoidMarket(a)
    BY <1>7 DEF M!VoidMarket, P!VoidMarket, M!Voidable, P!Voidable, M!ReturnBond,
       P!ReturnBond
  <1>8. ASSUME NEW a \in Accounts, M!Claim(a) PROVE P!Claim(a)
    BY <1>8 DEF M!Claim, P!Claim, M!PayoutOpen, P!PayoutOpen, M!ClaimAmount,
       P!ClaimAmount, M!ProRata, P!ProRata, M!WinningStake, P!WinningStake,
       M!WinningPool, P!WinningPool
  <1>9. ASSUME NEW a \in Accounts, M!Refund(a) PROVE P!Refund(a)
    BY <1>9, SameTotal DEF M!Refund, P!Refund, M!PayoutOpen, P!PayoutOpen
  <1> QED
    BY <1>1, <1>2, <1>3, <1>4, <1>5, <1>6, <1>7, <1>8, <1>9 DEF MarketCall, P!Next

\* Governance is what ArenaMarket calls a change of the registry.
LEMMA GovernanceIsChange ==
  ASSUME Governance, View' \in Views
  PROVE  [P!Next]_(P!vars)
PROOF
  <1>1. now' = now
    BY DEF Governance, RoleChange, GrantRole, RevokeRole, Timelocked, SetFees, SetTreasury,
       ExecuteFees, ExecuteTreasury, Setting, SetCreatorBondAmount, SetChallengeBondAmount,
       SetBeacon, SetOracleModule, SetPaused, Listing, SetCreatorStatus,
       SetSanctionStatus, AddCollateral, RemoveCollateral, RegisterMarket, Bonding,
       LockCreatorBond, SlashCreatorBond, ReleaseCreatorBond
  <1>2. UNCHANGED marketVars
    BY DEF Governance
  <1> USE DEF marketVars, P!envVars, P!stakeVars, P!bondVars, P!feeVars, P!claimVars,
              P!tokenVars, P!phaseVars
  <1>3. CASE View' = View
    BY <1>1, <1>2, <1>3 DEF P!vars
  <1>4. CASE View' # View
    BY <1>1, <1>2, <1>4 DEF P!RegistryChange, P!Next
  <1> QED BY <1>3, <1>4

LEMMA ClockIsTick ==
  ASSUME Time
  PROVE  P!Next
  BY DEF Time, Clock, View, feeVars, treasuryVars, bondAmounts, listVars, marketVars,
     creationVars, P!stakeVars, P!bondVars, P!feeVars, P!claimVars, P!tokenVars,
     P!phaseVars, P!Tick, P!Next

------------------------------------------------------------------------------
(* The market's guarantees under the real registry.                         *)

MarketInv == ViewTypes /\ AnnouncedInv /\ P!TypeOK /\ P!LedgerInv

LEMMA ViewStillFits == (ViewTypes /\ AnnouncedInv)' => (View \in Views)'
PROOF
  <1>1. ViewTypes /\ AnnouncedInv => View \in Views
    BY ViewFits
  <1> QED BY <1>1, PTL

LEMMA CreationIsStutter ==
  ASSUME CreateTheMarket
  PROVE  UNCHANGED P!vars
  BY DEF CreateTheMarket, CreateMarket, feeVars, treasuryVars, bondAmounts, listVars, View,
     marketVars, P!vars, P!envVars, P!stakeVars, P!bondVars, P!feeVars, P!claimVars,
     P!tokenVars, P!phaseVars

\* Seen from the market, each step of the contracts is one of its own.
LEMMA MarketSide ==
  ASSUME (View \in Views)', [Next]_vars
  PROVE  [P!Next]_(P!vars)
PROOF
  <1>1. UNCHANGED vars => UNCHANGED P!vars
    BY DEF vars, marketVars, registryVars, feeVars, treasuryVars, bondAmounts, listVars,
       View, P!vars, P!envVars, P!stakeVars, P!bondVars, P!feeVars, P!claimVars,
       P!tokenVars, P!phaseVars
  <1> QED
    BY <1>1, CreationIsStutter, CallIsStep, GovernanceIsChange, ClockIsTick DEF Next

LEMMA MarketInvStep ==
  ASSUME MarketInv, [Next]_vars
  PROVE  MarketInv' /\ [P!Next]_(P!vars)
PROOF
  <1>1. [FactoryNext]_<<registryVars, factoryVars>>
    BY RegistrySide DEF MarketInv, P!TypeOK
  <1>2. ViewTypes' /\ AnnouncedInv' /\ (View \in Views)'
    BY <1>1, ViewTypesStep, AnnouncedStep, ViewStillFits DEF MarketInv
  <1>3. [P!Next]_(P!vars)
    BY <1>2, MarketSide
  <1>4. P!TypeOK' /\ P!LedgerInv'
    BY <1>3, MarketAssumptions, P!StepType, P!StepLedger DEF MarketInv
  <1> QED BY <1>2, <1>3, <1>4 DEF MarketInv

THEOREM MarketHolds == Spec => []MarketInv
PROOF
  <1>1. Init => MarketInv
    <2>1. P!Init => P!TypeOK
      BY MarketAssumptions, P!InitType
    <2>2. P!Init => P!LedgerInv
      BY <2>1, MarketAssumptions, P!InitializedLedger DEF P!Init
    <2> QED BY <2>1, <2>2, MarketBegins DEF MarketInv
  <1>2. MarketInv /\ [Next]_vars => MarketInv'
    BY MarketInvStep
  <1> QED BY <1>1, <1>2, PTL DEF Spec

\* The market that the factory creates and that reads the registry is ArenaMarket.
THEOREM RegistryFitsMarket == Spec => P!Spec
PROOF
  <1>1. Init => P!Init
    BY MarketBegins
  <1>2. MarketInv /\ [Next]_vars => [P!Next]_(P!vars)
    BY MarketInvStep
  <1> QED BY <1>1, <1>2, MarketHolds, PTL DEF Spec, P!Spec

\* Under the registry with its proposals, timelocks, roles and lists, a market holds
\* every token it owes, makes everybody whole before it is finalised, leaves
\* winners half, and pays every claim.
THEOREM MoneyIsSafe == Spec => []MarketMoneyIsSafe
PROOF
  <1>1. ASSUME MarketInv PROVE MarketMoneyIsSafe
    <2>1. P!EveryTokenAccountedFor /\ P!NobodyLosesBeforeFinal /\ P!WinnersKeepHalf
      BY <1>1 DEF MarketInv, P!LedgerInv
    <2>2. P!ClaimsNeverBlocked
      BY <1>1, MarketAssumptions, P!ClaimsFit DEF MarketInv
    <2>3. M!EveryTokenAccountedFor /\ M!NobodyLosesBeforeFinal
      BY <2>1, SameTotal
      DEF M!EveryTokenAccountedFor, P!EveryTokenAccountedFor, M!NobodyLosesBeforeFinal,
          P!NobodyLosesBeforeFinal, M!AllStakes, P!AllStakes, M!StakeOf, P!StakeOf
    <2>4. M!WinnersKeepHalf
      BY <2>1 DEF M!WinnersKeepHalf, P!WinnersKeepHalf
    <2>5. M!ClaimsNeverBlocked
      BY <2>2 DEF M!ClaimsNeverBlocked, P!ClaimsNeverBlocked, M!WinningStake,
         P!WinningStake, M!WinningPool, P!WinningPool, M!ProRata, P!ProRata,
         M!ClaimAmount, P!ClaimAmount
    <2> QED BY <2>3, <2>4, <2>5 DEF MarketMoneyIsSafe
  <1> QED BY <1>1, MarketHolds, PTL

------------------------------------------------------------------------------
(* The odds.                                                                *)

\* For a timelock after a creation with no change pending, the fees are those of
\* the snapshot, and a change that is pending was proposed since.
SnapshotStands ==
  /\ now >= 1 /\ createdAt \in Nat /\ createdAt <= now /\ feeBpsSnapshot \in Nat
  /\ TheMarket \in Deployed => createdAt > 0
  /\ createdAt > 0 /\ ~changePending /\ now < createdAt + Timelock =>
       /\ feeBpsSnapshot = totalFeeBps(fees)
       /\ feeChangeScheduledAt > 0 => feeChangeScheduledAt >= createdAt

\* Of the registry's steps only a proposal and its execution touch the fees.
LEMMA FeesMove ==
  ASSUME FeeTypes, Governance
  PROVE  \/ UNCHANGED <<now, fees, feeChangeScheduledAt>>
         \/ UNCHANGED <<now, fees>> /\ feeChangeScheduledAt' = now
         \/ /\ UNCHANGED now /\ feeChangeScheduledAt > 0 /\ feeChangeScheduledAt' = 0
            /\ now >= feeChangeScheduledAt + Timelock
PROOF
  <1> USE DEF feeVars
  <1>1. PICK caller \in Accounts :
          RoleChange(caller) \/ Timelocked(caller) \/ Setting(caller) \/ Listing(caller)
            \/ Bonding(caller)
    BY DEF Governance
  <1>2. CASE Timelocked(caller)
    BY <1>2 DEF Timelocked, SetFees, DateProposal, ExecuteFees, Unlocked, SetTreasury,
       ExecuteTreasury
  <1>3. CASE ~Timelocked(caller)
    BY <1>1, <1>3 DEF RoleChange, GrantRole, RevokeRole, Setting, SetCreatorBondAmount,
       SetChallengeBondAmount, SetBeacon, SetOracleModule, SetPaused, Listing,
       SetCreatorStatus, SetSanctionStatus, AddCollateral, RemoveCollateral,
       RegisterMarket, Bonding, LockCreatorBond, SlashCreatorBond, ReleaseCreatorBond
  <1> QED BY <1>2, <1>3

LEMMA SnapshotStep ==
  ASSUME MarketInv, SnapshotStands, [Next]_vars
  PROVE  SnapshotStands'
PROOF
  <1>1. /\ now \in Nat /\ feeChangeScheduledAt \in Nat /\ Timelock \in Nat
        /\ feeBpsSnapshot \in Nat /\ FeeTypes
    BY RegistryBounds DEF MarketInv, AnnouncedInv, FeeTypes, SnapshotStands
  <1>2. CASE CreateTheMarket
    <2>1. /\ createdAt' = now /\ now' = now
          /\ changePending' = (feeChangeScheduledAt > 0)
          /\ feeBpsSnapshot' = totalFeeBps(fees) /\ UNCHANGED feeVars
      BY <1>2 DEF CreateTheMarket, CreateMarket, Snapshot
    <2>2. totalFeeBps(fees)' = totalFeeBps(fees)
      BY <2>1 DEF feeVars, totalFeeBps
    <2>3. ~changePending' => ~(feeChangeScheduledAt > 0)
      BY <2>1, Zenon
    <2>4. feeChangeScheduledAt' = feeChangeScheduledAt
      BY <2>1 DEF feeVars
    <2>5. totalFeeBps(fees) \in Nat
      BY <1>1 DEF FeeTypes, FeeSchedule, totalFeeBps
    <2>6. now' >= 1 /\ createdAt' \in Nat /\ createdAt' > 0
          /\ createdAt' <= now' /\ feeBpsSnapshot' = totalFeeBps(fees)'
      BY <1>1, <2>1, <2>2 DEF SnapshotStands
    <2> QED BY <2>1, <2>3, <2>4, <2>5, <2>6 DEF SnapshotStands
  <1>3. CASE Time
    <2>1. now' = now + 1 /\ UNCHANGED <<feeVars, creationVars, factoryVars>>
      BY <1>3 DEF Time, Clock
    <2> QED
      BY <1>1, <2>1 DEF SnapshotStands, feeVars, creationVars, factoryVars, Deployed,
         totalFeeBps
  <1>4. CASE Governance
    <2>1. UNCHANGED <<creationVars, factoryVars>>
      BY <1>4 DEF Governance
    <2>2. (TheMarket \in Deployed)' = (TheMarket \in Deployed)
      BY <2>1 DEF factoryVars, Deployed
    <2>3. CASE UNCHANGED <<now, fees, feeChangeScheduledAt>>
      BY <2>1, <2>2, <2>3 DEF SnapshotStands, creationVars, totalFeeBps
    <2>4. CASE UNCHANGED <<now, fees>> /\ feeChangeScheduledAt' = now
      BY <1>1, <2>1, <2>2, <2>4 DEF SnapshotStands, creationVars, totalFeeBps
    <2>5. CASE /\ UNCHANGED now /\ feeChangeScheduledAt > 0 /\ feeChangeScheduledAt' = 0
               /\ now >= feeChangeScheduledAt + Timelock
      BY <1>1, <2>1, <2>2, <2>5 DEF SnapshotStands, creationVars, totalFeeBps
    <2> QED BY <1>1, <1>4, <2>3, <2>4, <2>5, FeesMove
  <1>5. CASE MarketCall
    <2>1. UNCHANGED <<registryVars, factoryVars, createdAt, changePending>>
      BY <1>5 DEF MarketCall
    <2>2. feeBpsSnapshot' = feeBpsSnapshot
      BY <1>5 DEF MarketCall, M!envVars, M!Receive, M!PlaceBet, M!ApproveMarket,
         M!CloseMarket, M!ProposeResolution, M!ChallengeResolution,
         M!FinalizeResolution, M!VoidMarket, M!Claim, M!Refund
    <2> QED
      BY <2>1, <2>2 DEF SnapshotStands, registryVars, feeVars, factoryVars, Deployed,
         totalFeeBps
  <1>6. CASE UNCHANGED vars
    BY <1>6 DEF vars, SnapshotStands, registryVars, feeVars, factoryVars, creationVars,
       Deployed, totalFeeBps
  <1> QED BY <1>2, <1>3, <1>4, <1>5, <1>6 DEF Next

\* What remains of a pool of t after fees of n, taken at the rate s, is at least
\* the pool at the rate that is left.
LEMMA RestAtRate ==
  ASSUME NEW t \in Nat, NEW n \in Nat, NEW s \in Nat, s <= 10000, n * 10000 <= t * s
  PROVE  t - n >= (t * (10000 - s)) \div 10000
PROOF
  <1>1. t * (10000 - s) = t * 10000 - t * s
    BY Z3
  <1>2. t * s <= t * 10000
    BY Z3
  <1>3. t * s \in Nat
    OBVIOUS
  <1> DEFINE x == t * (10000 - s)
  <1>4. x \in Nat /\ x <= (t - n) * 10000
    BY <1>1, <1>2, <1>3
  <1> HIDE DEF x
  <1>5. x \div 10000 \in Nat /\ (x \div 10000) * 10000 <= x
    BY <1>4, Z3
  <1> QED BY <1>4, <1>5 DEF x

LEMMA FinalAtSnapshot ==
  ASSUME MarketInv, SnapshotStands, Next, state # "FINALIZED", state' = "FINALIZED",
         ~changePending, now < createdAt + Timelock
  PROVE  distributablePool' >= (totalPool * (M!BPS - feeBpsSnapshot)) \div M!BPS
PROOF
  <1>1. MarketCall
    BY DEF Next, CreateTheMarket, Time, Governance, marketVars
  <1>2. PICK a \in Accounts : M!FinalizeResolution(a)
    BY <1>1 DEF MarketCall, M!phaseVars, M!Receive, M!PlaceBet, M!ApproveMarket,
       M!CloseMarket, M!ProposeResolution, M!ChallengeResolution, M!VoidMarket, M!Claim,
       M!Refund
  <1>3. feeBpsSnapshot = totalFeeBps(fees)
    BY <1>1 DEF MarketCall, SnapshotStands
  <1>4. ~feesCollected /\ totalPool \in Nat /\ View \in P!RegistryView
    BY MarketAssumptions DEF MarketInv, P!LedgerInv, P!NothingPaidEarly, P!TypeOK
  <1>5. P!TotalFeeBps(View) = totalFeeBps(fees)
    BY DEF P!TotalFeeBps, View, totalFeeBps
  <1>6. totalFeeBps(fees) <= 10000
    BY <1>4, <1>5, MarketAssumptions, P!FeesWithinRate
    DEF MarketInv, AnnouncedInv, FeesAreCapped, MAX_FEE_BPS
  <1>7. /\ P!Fees(View) \in Nat /\ totalFeeBps(fees) \in Nat
        /\ P!Fees(View) * 10000 <= totalPool * totalFeeBps(fees)
    BY <1>4, <1>5, MarketAssumptions, P!FeesWithinRate
  <1>8. distributablePool' = totalPool - P!Fees(View)
    BY <1>2, <1>4 DEF M!FinalizeResolution, M!Fees, P!Fees, M!Fee, P!Fee, M!BPS, P!BPS
  <1> QED BY <1>3, <1>4, <1>6, <1>7, <1>8, RestAtRate DEF M!BPS

\* The payout pool quoted to the first bettor stands for a timelock, whatever the
\* admins propose and execute.
THEOREM OddsStand == Spec => OddsStandForATimelock
PROOF
  <1>1. Init => SnapshotStands
    BY ProtocolAssumption
    DEF Init, FactoryInit, RegistryInit, SnapshotStands, Deployed
  <1>2. MarketInv /\ SnapshotStands /\ [Next]_vars => SnapshotStands'
    BY SnapshotStep
  <1>3. MarketInv /\ SnapshotStands /\ [Next]_vars =>
          [ state # "FINALIZED" /\ state' = "FINALIZED"
              /\ ~changePending /\ now < createdAt + Timelock =>
              distributablePool' >= (totalPool * (M!BPS - feeBpsSnapshot)) \div M!BPS ]_vars
    BY FinalAtSnapshot DEF vars, marketVars
  <1> QED BY <1>1, <1>2, <1>3, MarketHolds, PTL DEF Spec, OddsStandForATimelock

------------------------------------------------------------------------------
(* The other guarantees of registry and market, when they run together.     *)

\* The registry and the factory among markets are those they are alone: no call of a
\* market, no claim and no challenge moves a fee, a role, a bond or a proposal, so
\* changes stay announced, bonds exact and markets bonded.
THEOREM MarketsLeaveRegistryAlone ==
  Spec => /\ FactorySpec
          /\ ChangesWereAnnounced /\ []BondsSettleExactly /\ MarketsStartBonded
PROOF
  <1>1. Init => FactoryInit
    BY DEF Init
  <1>2. MarketInv /\ [Next]_vars => [FactoryNext]_<<registryVars, factoryVars>>
    BY RegistrySide DEF MarketInv, P!TypeOK
  <1>3. Spec => FactorySpec
    BY <1>1, <1>2, MarketHolds, PTL DEF Spec, FactorySpec
  <1> QED BY <1>3, ChangesAreAnnounced, BondsSettle, StartsBonded, PTL

\* Whatever the admins propose, execute, grant, list and pause, bettors face an
\* escrow that settles or cancels once and owes each of them what only their own
\* withdrawal takes away.
THEOREM EscrowUnderRegistry == Spec => P!ImplementsEscrow
PROOF
  <1>1. P!Spec => P!ImplementsEscrow
    BY MarketAssumptions, P!MarketIsEscrow
  <1> QED BY <1>1, RegistryFitsMarket, PTL

\* No proposal, execution or listing touches what finalisation fixed.
THEOREM TermsOutlastGovernance == Spec => P!FinalTermsAreFrozen
PROOF
  <1>1. P!Spec => P!FinalTermsAreFrozen
    BY MarketAssumptions, P!TermsAreFrozen
  <1> QED BY <1>1, RegistryFitsMarket, PTL

\* Rounding stays with the winners, the creator is above a tenth of the pool on one
\* outcome at most, an account stakes one signed amount per nonce, and the calls that end
\* a market are paid for, whoever holds the registry's roles when they are made and
\* whatever fees have come into force.
THEOREM BettorsAreSafe ==
  Spec => [](/\ P!RoundingStaysWithWinners /\ P!CreatorSeedsOneOutcome
             /\ P!OneBetPerNonce /\ P!PaymentsAreCovered)
PROOF
  <1>1. P!Spec => []P!RoundingStaysWithWinners
    BY MarketAssumptions, P!RoundingIsPaid
  <1>2. P!Spec => []P!CreatorSeedsOneOutcome
    BY MarketAssumptions, P!CreatorIsCapped
  <1>3. P!Spec => []P!OneBetPerNonce
    BY MarketAssumptions, P!BetsAreTakenOnce
  <1>4. P!Spec => []P!PaymentsAreCovered
    BY MarketAssumptions, P!MarketsCanEnd
  <1> QED BY <1>1, <1>2, <1>3, <1>4, RegistryFitsMarket, PTL
===============================================================================

---------------------------- MODULE ArenaRegistry ----------------------------
(***************************************************************************)
(* The registry every market reads: packages/contracts/src/               *)
(* ArenaRegistry.sol.  It keeps roles, the fee schedule and the treasury   *)
(* (both changed in two steps with a timelock), creator bonds held in the  *)
(* primary collateral, the market directory, sanctions, the collateral     *)
(* whitelist and the pause switch.  One action per external function; the  *)
(* role management is OpenZeppelin's AccessControl, hence external.        *)
(***************************************************************************)
EXTENDS Totals

CONSTANTS
  Accounts, NoAccount,
  Admin,               \* the _admin of the constructor
  Grants,              \* the <<role, account>> pairs ever granted or revoked
  Listed,              \* the accounts operators act on: status, sanction, bond
  Treasuries,          \* the accounts an admin ever proposes as treasury
  Schedules,           \* the fee schedules an admin ever proposes
  InitialFees,         \* 275, 100, 50 and 75 in the code
  BondAmounts,         \* amounts of bonds and of bond changes
  Markets, NoMarket, MarketIds,
  Tokens, PrimaryCollateral,
  Modules,             \* addresses given to setBeacon and setOracleModule
  Timelock,            \* 2 days in the code
  Funds,               \* the tokens an account has before it deals with the registry
  MaxSlashed,          \* bound on what one creator is slashed in all
  MaxTime, MaxUnaccounted

MAX_FEE_BPS == 5000

FeeSchedule == [protocol : Nat, creator : Nat, referral : Nat, disputeReserve : Nat]

Roles == {"ADMIN", "OPERATOR", "ORACLE"}

totalFeeBps(f) == f.protocol + f.creator + f.referral + f.disputeReserve

ASSUME RegistryAccounts ==
  IsFiniteSet(Accounts) /\ NoAccount \notin Accounts /\ Admin \in Accounts
ASSUME RegistryGrants == Grants \subseteq Roles \X Accounts /\ (Listed \cup Treasuries) \subseteq Accounts
ASSUME RegistrySchedules ==
  Schedules \subseteq FeeSchedule /\ InitialFees \in FeeSchedule
ASSUME InitialFeesCapped == totalFeeBps(InitialFees) <= MAX_FEE_BPS
ASSUME RegistryAmounts == BondAmounts \subseteq Nat
ASSUME RegistryMarkets == NoMarket \notin Markets
ASSUME RegistryTokens == PrimaryCollateral \in Tokens
ASSUME RegistryBounds ==
  /\ Timelock \in Nat /\ MaxTime \in Nat /\ MaxUnaccounted \in Nat
  /\ Funds \in Nat /\ MaxSlashed \in Nat

VARIABLES
  now,
  roles,                                     \* who holds each role
  fees, pendingFees, feeChangeScheduledAt,
  treasury, pendingTreasury, treasuryChangeScheduledAt,
  creatorBondAmount, challengeBondAmount,
  creatorBondLocked,
  isMarket, marketById,
  isCreator, sanctioned, whitelistedCollaterals, registryPaused,
  beacon, oracleModule,
  registryBalance,                           \* collateral.balanceOf(registry)
  bondWallet,                                \* what each account gained or lost to it
  slashed,                                   \* history: what each creator was slashed
  stray,                                     \* tokens sent to it by other paths
  proposals                                  \* history: the changes ever announced

feeVars       == <<fees, pendingFees, feeChangeScheduledAt>>
treasuryVars  == <<treasury, pendingTreasury, treasuryChangeScheduledAt>>
bondAmounts   == <<creatorBondAmount, challengeBondAmount>>
heldVars      == <<creatorBondLocked, registryBalance, bondWallet, slashed, stray>>
directoryVars == <<isMarket, marketById>>
listVars      == <<isCreator, sanctioned, whitelistedCollaterals, registryPaused>>
moduleVars    == <<beacon, oracleModule>>
registryVars ==
  <<now, roles, feeVars, treasuryVars, bondAmounts, heldVars, directoryVars, listVars,
    moduleVars, proposals>>

\* pendingFees and pendingTreasury start as zero words.
NoFees == [protocol |-> 0, creator |-> 0, referral |-> 0, disputeReserve |-> 0]

RegistryInit ==
  /\ now = 1
  /\ roles = [r \in Roles |-> IF r = "ORACLE" THEN {} ELSE {Admin}]
  /\ fees = InitialFees /\ pendingFees = NoFees /\ feeChangeScheduledAt = 0
  /\ treasury = Admin /\ pendingTreasury = NoAccount /\ treasuryChangeScheduledAt = 0
  /\ creatorBondAmount \in BondAmounts /\ challengeBondAmount \in BondAmounts
  /\ creatorBondLocked = [a \in Accounts |-> 0]
  /\ isMarket = {} /\ marketById = [i \in MarketIds |-> NoMarket]
  /\ isCreator = {} /\ sanctioned = {} /\ registryPaused = FALSE
  /\ whitelistedCollaterals = {PrimaryCollateral}
  /\ beacon = NoAccount /\ oracleModule = NoAccount
  /\ registryBalance = 0 /\ stray = 0
  /\ bondWallet = [a \in Accounts |-> 0] /\ slashed = [a \in Accounts |-> 0]
  /\ proposals = {}

Clock ==
  /\ now < MaxTime /\ now' = now + 1
  /\ UNCHANGED <<roles, feeVars, treasuryVars, bondAmounts, heldVars, directoryVars,
                 listVars, moduleVars, proposals>>

------------------------------------------------------------------------------
(* AccessControl: an admin grants and revokes every role, its own included. *)

GrantRole(caller, r, a) ==
  /\ caller \in roles["ADMIN"] /\ roles' = [roles EXCEPT ![r] = @ \cup {a}]
  /\ UNCHANGED <<now, feeVars, treasuryVars, bondAmounts, heldVars, directoryVars,
                 listVars, moduleVars, proposals>>

RevokeRole(caller, r, a) ==
  /\ caller \in roles["ADMIN"] /\ roles' = [roles EXCEPT ![r] = @ \ {a}]
  /\ UNCHANGED <<now, feeVars, treasuryVars, bondAmounts, heldVars, directoryVars,
                 listVars, moduleVars, proposals>>

------------------------------------------------------------------------------
(* Fees and treasury: propose, wait, execute.                               *)

\* Mutants: any schedule; a second proposal keeps the first one's date; the lock
\* counts from a proposal that may be no longer pending.
UncappedFees(f) == TRUE
KeepDate == feeChangeScheduledAt' = IF feeChangeScheduledAt = 0 THEN now
                                                                ELSE feeChangeScheduledAt
AnyTime(scheduledAt) == TRUE

FeesAllowed(f) == totalFeeBps(f) <= MAX_FEE_BPS

DateProposal == feeChangeScheduledAt' = now

\* A new proposal replaces the pending one and restarts its clock.
SetFees(caller, f) ==
  /\ caller \in roles["ADMIN"] /\ FeesAllowed(f)
  /\ pendingFees' = f /\ DateProposal
  /\ proposals' = proposals \cup {[change |-> f, at |-> now]}
  /\ UNCHANGED <<now, roles, fees, treasuryVars, bondAmounts, heldVars, directoryVars,
                 listVars, moduleVars>>

Unlocked(scheduledAt) == now >= scheduledAt + Timelock

\* A proposal never expires.
ExecuteFees(caller) ==
  /\ caller \in roles["ADMIN"]
  /\ feeChangeScheduledAt > 0 /\ Unlocked(feeChangeScheduledAt)
  /\ fees' = pendingFees /\ feeChangeScheduledAt' = 0
  /\ UNCHANGED <<now, roles, pendingFees, treasuryVars, bondAmounts, heldVars,
                 directoryVars, listVars, moduleVars, proposals>>

SetTreasury(caller, a) ==
  /\ caller \in roles["ADMIN"] /\ a # NoAccount
  /\ pendingTreasury' = a /\ treasuryChangeScheduledAt' = now
  /\ proposals' = proposals \cup {[change |-> a, at |-> now]}
  /\ UNCHANGED <<now, roles, feeVars, treasury, bondAmounts, heldVars, directoryVars,
                 listVars, moduleVars>>

\* Mutant: the date is looked at, as executeFees does.
TreasuryDated == treasuryChangeScheduledAt > 0

TreasuryPending == pendingTreasury # NoAccount

\* The date of the proposal stays; the pending address is what is cleared.
ExecuteTreasury(caller) ==
  /\ caller \in roles["ADMIN"]
  /\ TreasuryPending /\ Unlocked(treasuryChangeScheduledAt)
  /\ treasury' = pendingTreasury /\ pendingTreasury' = NoAccount
  /\ UNCHANGED <<now, roles, feeVars, treasuryChangeScheduledAt, bondAmounts, heldVars,
                 directoryVars, listVars, moduleVars, proposals>>

------------------------------------------------------------------------------
(* Settings with no timelock.                                               *)

SetCreatorBondAmount(caller, n) ==
  /\ caller \in roles["ADMIN"]
  /\ creatorBondAmount' = n
  /\ UNCHANGED <<now, roles, feeVars, treasuryVars, challengeBondAmount, heldVars,
                 directoryVars, listVars, moduleVars, proposals>>

SetChallengeBondAmount(caller, n) ==
  /\ caller \in roles["ADMIN"]
  /\ challengeBondAmount' = n
  /\ UNCHANGED <<now, roles, feeVars, treasuryVars, creatorBondAmount, heldVars,
                 directoryVars, listVars, moduleVars, proposals>>

SetBeacon(caller, a) ==
  /\ caller \in roles["ADMIN"] /\ a # NoAccount
  /\ beacon' = a
  /\ UNCHANGED <<now, roles, feeVars, treasuryVars, bondAmounts, heldVars,
                 directoryVars, listVars, oracleModule, proposals>>

\* Nothing in the contracts reads the module back.
SetOracleModule(caller, a) ==
  /\ caller \in roles["ADMIN"]
  /\ oracleModule' = a
  /\ UNCHANGED <<now, roles, feeVars, treasuryVars, bondAmounts, heldVars,
                 directoryVars, listVars, beacon, proposals>>

SetPaused(caller, b) ==
  /\ caller \in roles["ADMIN"] /\ registryPaused # b
  /\ registryPaused' = b
  /\ UNCHANGED <<now, roles, feeVars, treasuryVars, bondAmounts, heldVars,
                 directoryVars, isCreator, sanctioned, whitelistedCollaterals,
                 moduleVars, proposals>>

SetCreatorStatus(caller, a, b) ==
  /\ caller \in roles["OPERATOR"]
  /\ isCreator' = IF b THEN isCreator \cup {a} ELSE isCreator \ {a}
  /\ UNCHANGED <<now, roles, feeVars, treasuryVars, bondAmounts, heldVars,
                 directoryVars, sanctioned, whitelistedCollaterals, registryPaused,
                 moduleVars, proposals>>

SetSanctionStatus(caller, a, b) ==
  /\ caller \in roles["OPERATOR"]
  /\ sanctioned' = IF b THEN sanctioned \cup {a} ELSE sanctioned \ {a}
  /\ UNCHANGED <<now, roles, feeVars, treasuryVars, bondAmounts, heldVars,
                 directoryVars, isCreator, whitelistedCollaterals, registryPaused,
                 moduleVars, proposals>>

AddCollateral(caller, t) ==
  /\ caller \in roles["OPERATOR"] /\ t \notin whitelistedCollaterals
  /\ whitelistedCollaterals' = whitelistedCollaterals \cup {t}
  /\ UNCHANGED <<now, roles, feeVars, treasuryVars, bondAmounts, heldVars,
                 directoryVars, isCreator, sanctioned, registryPaused, moduleVars,
                 proposals>>

\* The primary collateral can be removed like any other.
RemoveCollateral(caller, t) ==
  /\ caller \in roles["OPERATOR"] /\ t \in whitelistedCollaterals
  /\ whitelistedCollaterals' = whitelistedCollaterals \ {t}
  /\ UNCHANGED <<now, roles, feeVars, treasuryVars, bondAmounts, heldVars,
                 directoryVars, isCreator, sanctioned, registryPaused, moduleVars,
                 proposals>>

------------------------------------------------------------------------------
(* The directory.                                                           *)

\* A second market under an id replaces the first one in the lookup.
Register(caller, m, id) ==
  /\ caller \in roles["OPERATOR"] /\ m \notin isMarket
  /\ isMarket' = isMarket \cup {m}
  /\ marketById' = [marketById EXCEPT ![id] = m]

RegisterMarket(caller, m, id) ==
  /\ Register(caller, m, id)
  /\ UNCHANGED <<now, roles, feeVars, treasuryVars, bondAmounts, heldVars, listVars,
                 moduleVars, proposals>>

------------------------------------------------------------------------------
(* Creator bonds, in the primary collateral.                                *)

\* The token refuses a transfer that the creator cannot pay.
Lock(caller, creator, n) ==
  /\ caller \in roles["OPERATOR"]
  /\ n <= Funds + bondWallet[creator]
  /\ creatorBondLocked' = [creatorBondLocked EXCEPT ![creator] = @ + n]
  /\ registryBalance' = registryBalance + n
  /\ bondWallet' = [bondWallet EXCEPT ![creator] = @ - n]

LockCreatorBond(caller, creator, n) ==
  /\ Lock(caller, creator, n)
  /\ UNCHANGED <<now, roles, feeVars, treasuryVars, bondAmounts, slashed, stray,
                 directoryVars, listVars, moduleVars, proposals>>

\* Mutant: the bond is paid out and stays recorded.
TakeUnrecorded(creator, n, to) ==
  /\ n <= creatorBondLocked[creator] /\ n <= registryBalance
  /\ creatorBondLocked' = creatorBondLocked
  /\ registryBalance' = registryBalance - n
  /\ bondWallet' = [bondWallet EXCEPT ![to] = @ + n]

\* A transfer the registry's balance does not cover reverts.
TakeFromBond(creator, n, to) ==
  /\ n <= creatorBondLocked[creator] /\ n <= registryBalance
  /\ creatorBondLocked' = [creatorBondLocked EXCEPT ![creator] = @ - n]
  /\ registryBalance' = registryBalance - n
  /\ bondWallet' = [bondWallet EXCEPT ![to] = @ + n]

SlashCreatorBond(caller, creator, n) ==
  /\ caller \in roles["OPERATOR"] /\ TakeFromBond(creator, n, treasury)
  /\ slashed[creator] + n <= MaxSlashed
  /\ slashed' = [slashed EXCEPT ![creator] = @ + n]
  /\ UNCHANGED <<now, roles, feeVars, treasuryVars, bondAmounts, stray,
                 directoryVars, listVars, moduleVars, proposals>>

ReleaseCreatorBond(caller, creator, n) ==
  /\ caller \in roles["OPERATOR"] /\ TakeFromBond(creator, n, creator)
  /\ UNCHANGED <<now, roles, feeVars, treasuryVars, bondAmounts, slashed, stray,
                 directoryVars, listVars, moduleVars, proposals>>

StrayTransfer(n) ==
  /\ stray + n <= MaxUnaccounted
  /\ stray' = stray + n /\ registryBalance' = registryBalance + n
  /\ UNCHANGED <<now, roles, feeVars, treasuryVars, bondAmounts, creatorBondLocked,
                 bondWallet, slashed, directoryVars, listVars, moduleVars, proposals>>

------------------------------------------------------------------------------
RoleChange(caller) ==
  \E g \in Grants : GrantRole(caller, g[1], g[2]) \/ RevokeRole(caller, g[1], g[2])

Timelocked(caller) ==
  \/ \E f \in Schedules : SetFees(caller, f)
  \/ \E a \in Treasuries \cup {NoAccount} : SetTreasury(caller, a)
  \/ ExecuteFees(caller) \/ ExecuteTreasury(caller)

Setting(caller) ==
  \/ \E n \in BondAmounts :
       SetCreatorBondAmount(caller, n) \/ SetChallengeBondAmount(caller, n)
  \/ \E a \in Modules \cup {NoAccount} : SetBeacon(caller, a) \/ SetOracleModule(caller, a)
  \/ \E b \in BOOLEAN : SetPaused(caller, b)

Listing(caller) ==
  \/ \E a \in Listed, b \in BOOLEAN :
       SetCreatorStatus(caller, a, b) \/ SetSanctionStatus(caller, a, b)
  \/ \E t \in Tokens : AddCollateral(caller, t) \/ RemoveCollateral(caller, t)
  \/ \E m \in Markets, id \in MarketIds : RegisterMarket(caller, m, id)

Bonding(caller) ==
  \E creator \in Listed, n \in BondAmounts :
    \/ LockCreatorBond(caller, creator, n) \/ SlashCreatorBond(caller, creator, n)
    \/ ReleaseCreatorBond(caller, creator, n)

RegistryNext ==
  \/ Clock
  \/ \E n \in 1 .. MaxUnaccounted : StrayTransfer(n)
  \/ \E caller \in Accounts :
       RoleChange(caller) \/ Timelocked(caller) \/ Setting(caller)
         \/ Listing(caller) \/ Bonding(caller)

RegistrySpec == RegistryInit /\ [][RegistryNext]_registryVars

------------------------------------------------------------------------------
(* Properties.                                                              *)

Announced(change) == \E p \in proposals : p.change = change /\ p.at + Timelock <= now

\* "All fee parameters are subject to 2-day governance timelock"
\* (docs/ARCHITECTURE.md), and the treasury too: whatever is proposed, proposed again
\* and executed late, what comes into force was announced a full timelock before,
\* though executeTreasury leaves the date of its proposal behind.
ChangesWereAnnounced ==
  [][ /\ fees' # fees => Announced(fees')
      /\ treasury' # treasury => Announced(treasury') ]_registryVars

\* No market ever reads a schedule above the cap, whichever proposal was executed.
FeesAreCapped ==
  totalFeeBps(fees) <= MAX_FEE_BPS /\ totalFeeBps(pendingFees) <= MAX_FEE_BPS

EverTreasury == {Admin} \cup {p.change : p \in proposals}

\* Bonds are neither lost nor paid twice, over any sequence of locks, slashes and
\* releases by several operators: the registry holds every locked bond, and a
\* creator who was never the treasury is down exactly what is locked or slashed.
BondsSettleExactly ==
  /\ registryBalance = Total(creatorBondLocked) + stray
  /\ \A a \in Accounts \ EverTreasury :
       bondWallet[a] + creatorBondLocked[a] + slashed[a] = 0
=============================================================================

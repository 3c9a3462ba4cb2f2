---------------------------- MODULE ArenaFactory ----------------------------
(***************************************************************************)
(* Creation of markets: packages/contracts/src/ArenaFactory.sol, on top of *)
(* the registry it calls.  createMarket is one transaction: the bond, the  *)
(* proxy, its initialize call and the registration happen together or not  *)
(* at all.  The factory acts in the registry under its own address, which  *)
(* needs the operator role (script/Deploy.s.sol grants it).                *)
(***************************************************************************)
EXTENDS ArenaRegistry

CONSTANT Factory  \* the factory's address, an account of the registry

ASSUME FactoryAssumption == Factory \in Accounts

VARIABLES
  creatorOf,      \* market -> the msg.sender that created it
  collateralOf    \* market -> its resolved collateral

factoryVars == <<creatorOf, collateralOf>>

FactoryInit ==
  /\ RegistryInit
  /\ creatorOf = [m \in Markets |-> NoAccount]
  /\ collateralOf = [m \in Markets |-> PrimaryCollateral]

Deployed == {m \in Markets : creatorOf[m] # NoAccount}

\* An approved creator, or one whose bond covers the amount in force.
MayCreate(sender) ==
  sender \in isCreator \/ creatorBondLocked[sender] >= creatorBondAmount

\* Mutant: approved creators are asked for no bond.
NoBond(sender) == UNCHANGED <<creatorBondLocked, registryBalance, bondWallet>>

\* Only an empty bond is filled: one that a slash has reduced is left as it is.
PostBond(sender) ==
  IF creatorBondLocked[sender] = 0 THEN Lock(Factory, sender, creatorBondAmount)
  ELSE UNCHANGED <<creatorBondLocked, registryBalance, bondWallet>>

\* token is the resolved collateral: the caller's choice, or the primary one for
\* address(0).  The registration reverts for an address already registered.
CreateMarket(sender, m, id, token) ==
  /\ MayCreate(sender) /\ token \in whitelistedCollaterals
  /\ m \notin Deployed
  /\ PostBond(sender)
  /\ Register(Factory, m, id)
  /\ creatorOf' = [creatorOf EXCEPT ![m] = sender]
  /\ collateralOf' = [collateralOf EXCEPT ![m] = token]
  /\ UNCHANGED <<now, roles, feeVars, treasuryVars, bondAmounts, slashed, stray,
                 listVars, moduleVars, proposals>>

Creation ==
  \E sender \in Accounts \ {Factory}, m \in Markets, id \in MarketIds, t \in Tokens :
    CreateMarket(sender, m, id, t)

FactoryNext == Creation \/ (RegistryNext /\ UNCHANGED factoryVars)

FactorySpec == FactoryInit /\ [][FactoryNext]_<<registryVars, factoryVars>>

------------------------------------------------------------------------------
\* Whatever operators have slashed or released and however the amount was changed,
\* a market starts with a bond of its creator in the registry, unless none is
\* asked for: approval never replaces the bond.
MarketsStartBonded ==
  [][ \A m \in Markets :
        creatorOf'[m] # creatorOf[m] =>
          creatorBondLocked'[creatorOf'[m]] > 0 \/ creatorBondAmount = 0
    ]_<<registryVars, factoryVars>>
=============================================================================

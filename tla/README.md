# HuggyArena in TLA+

This directory holds TLA+ models of HuggyArena: the three contracts of
`packages/contracts/src`, and the off-chain services that act on what the
contracts do, namely the gasless relayer and its sanctions screening, the
subgraph, the Postgres indexer, the alerts and reports of the analytics agent,
and the chat command of the AI agent with its tools. TLC
checks small instances of each. TLAPS proves the main safety properties of all of
them for every value of the constants.

Modules are translated from the source and keep its names. Each definition that
stands for code is listed with the lines it translates in `PROJECT.json`
(`map`), each property with a change of the code that breaks it (`mutants`).

Contents: 1 system and inventory, 2 modules, 3 runs, 4 fairness and
assumptions, 5 proofs, 6 disagreements found, 7 what is left out, 8 plan.


## 1. The system

```
 bettor ──signed Bet──▶ relayer ──sponsored call──▶ Gelato ──placeBet──▶ ArenaMarket
                          │  sanctions screening                          │  ▲
                          ▼                                reads at every │  │ createMarket
                       Postgres ◀── indexer ◀── subgraph ◀── events ──────┤  │
                          │                                               ▼  │
       collector, alerts, reports                             ArenaRegistry ◀── ArenaFactory
 user ──▶ chat command ──▶ agent runner ──tools──▶ MCP servers ──▶ mock / subgraph / AppSync
```

### Inventory

| Component | State | Operations | Hard behaviour | What makes it correct |
|---|---|---|---|---|
| `ArenaMarket.sol` | phase, stakes, pools, nonces, bond of a dispute, fees, claims; a token balance | approve, bet, close, propose, challenge, finalise, void, claim, refund | anyone calls anything in any order; the registry it reads changes between two calls; floors; tokens it never counted | every token is owed to somebody known; claims never block; finality; winners and bettors who keep asking are paid |
| `ArenaRegistry.sol` | roles, fees, treasury, each with a pending change and a date; bonds; directory, lists, pause | set and execute fees and treasury, settings, lists, lock, slash and release bonds | proposals replace each other and are executed late; operators race on one bond; the treasury changes while bonds are slashed | changes were announced a timelock before; the fee cap; bonds settle exactly |
| `ArenaFactory.sol` | which market was created by whom, in which collateral | `createMarket` | the amount of the bond changes and an earlier bond may have been slashed | no market starts without a bond |
| Contracts together | one clock | all of the above | fee timelock against the life of a market | the market's guarantees hold under the real registry; odds stand for a timelock |
| Relayer (`relay.service.ts`) | rows of `RelayedTransaction`, polling timers in memory | `submit` with its awaits, polling ticks, safety timeout, shutdown | duplicate submits race; slow ticks overlap; two timeouts; crash between paying Gelato, recording it and telling the caller | a key is recorded once; a row says what became of its task; retries of a recorded key are free; timers stop |
| Sanctions guard | rows of `SanctionCheck` used as a cache | `canActivate` | requests interleave at each await; a row is dated when saved; `findFirst` has no order | a listing takes effect in bounded time |
| Subgraph | entities per market, outcome, user, bet | one handler per event | three contracts write one entity; handlers lag; repeated registrations | counters and status match the chain; an ended market stays ended |
| Indexer (`sync.service.ts`) | rows of `Market`, a cursor in memory and one saved | a sync run every 15 s | runs overlap; cursors saved out of order; steps fail; crash and restart | no market is skipped |
| Alerts (`alerts.service.ts`) | rules and fired alerts in memory, a snapshot | `checkAlerts` every minute, rule changes, acknowledgements | checks overlap and wait inside a loop over rules that change | no duplicates, no false alarms, no missed whale, off means off |
| Reports (`customers`, `signals`, `revenue`) and collector | none but the collector's snapshot in memory; the column `Market.totalPool` is the indexer's | profiles, segments, whales, feed, market signals, trend, dashboard, revenue; a collection every 5 minutes | a report asks several times while bets come in; pages are cut from a feed that moves; collections overlap, fail and are lost | figures that are read from one table add up; pages lose no bet; a whale's rows hold together; the dashboard is recent |
| Agent runner (`agent.ts`) | the conversation | `chat`, tools in parallel | tools end in any order, fail, or do not exist; the history outlives a chat | requests are well formed |
| Chat command (`cli/index.ts`), MCP client, server, tools and data sources | two child processes; the source chosen by the environment | attach, list tools, call a tool, close | a server does not start, does not list its tools, or dies; a query fails; markets are added while tools run | the command ends; what was listed is found |
| KYC webhooks, web front end, deployment script, backtest | see section 7 | | | not modelled |

Interactions the models keep: the market reads the registry at call time (never
a cached copy); the factory calls the registry and the new market in one
transaction; the relayer's tasks spend the market's nonces; the subgraph's
handlers consume the market's events in chain order; the indexer reads the
subgraph's state and not its history; alerts, reports and the collector share one
database and one snapshot; the runner's tools are those of the servers that the
command attached, and a dead server is an error result of its tools.

The hazards, each at the line where it bites and with the properties that would
catch it, are in `PROJECT.json` (`hazards`).


## 2. The modules

### Contracts

A transaction is atomic, so each external function is one action whose guard is
the conjunction of its `require`s; a revert is a disabled action. Interleaving is
the order of transactions of any accounts.

| Module | Code | Notes |
|---|---|---|
| `Totals` | the sums the contracts keep as counters or loops | `Total(f)` counts unit tokens, so a sum is a cardinality and needs no recursion |
| `ParimutuelEscrow` | the promise to bettors | abstract: deposits, then settled once or cancelled for good; a debt goes away only by its owner's withdrawal |
| `ArenaMarket` | `ArenaMarket.sol` | all nine external functions that change state, plus time, registry changes and tokens that arrive by other ways; `ImplementsEscrow` maps it to the escrow |
| `ArenaRegistry` | `ArenaRegistry.sol`, `IRegistry.sol` | every external function; roles as OpenZeppelin keeps them (external) |
| `ArenaFactory` | `ArenaFactory.sol` | extends the registry with `createMarket`; the factory acts under its own address |
| `ArenaProtocol` | the three together | the market instantiated with the registry's state for `reg`, on one clock |
| `Subgraph` | `subgraph/src/*.ts`, `subgraph.yaml` | extends `ArenaMarket`; each chain step appends its event, `Handle` takes the oldest |

`ArenaMarket` leaves the registry free: `reg` is any member of `RegistryViews` and
`RegistryChange` may replace it between two calls. The assumption on it is the
fee cap. `ArenaProtocol` discharges this by the registry's own state.

State correspondence: `userStakes`, `outcomePools`, `totalPool`, `hasClaimed`,
`totalClaimed`, `totalWinningStakeClaimed`, `distributablePool`, `feesCollected`,
`challenger`, `challengeBond`, `state`, `paused` and `winningOutcome` are the
storage variables of those names. `nonceUsed` is `usedNonces`. `balance` is the
token balance of the market. `wallet`, `payout`, `unaccounted` (market) and
`bondWallet`, `slashed`, `stray`, `proposals` (registry) are history that the
properties compare with; no action of the contract reads them, except that
the registry's `bondWallet` stands for what a creator can still pay and the
`unaccounted`, `stray` and `slashed` bounds cap what the environment does.

Left out of `ArenaMarket`: ECDSA (a voucher has the signer that the recovered
address would be), reentrancy guards (the token does not call back), the
getters, and the upgrade of the beacon. Amounts are small naturals: stakes are
6-decimal USDC in `uint256`, so products with basis points cannot overflow.

### Off-chain services

Node runs one callback at a time, so an action is the code between two awaits.

| Module | Code | Notes |
|---|---|---|
| `GaslessBets` | the promise to those who submit bets | abstract: a submit is paid once at most, a key recorded once, a caller answered once; paying, recording and telling are steps apart, so an error says nothing of the record; a record is confirmed once, and only if its own caller was told of it |
| `RelayService` | `relay.service.ts` | `ImplementsGaslessBets` maps it to the promise; `pc` is the await a call of `submit` is at; Postgres decides an insert (`Insert`) apart from the request that waits for it (`Create`), which may hear of an error all the same or be gone; tick n of a timer is a callback of its own, its `Write` and `Clear` on two sides of an await; `Exit` is a crash at any moment |
| `SanctionsGuard` | `sanctions.guard.ts`, `sanctions.provider.ts` | one address; the service answers, fails, or answers an error body |
| `IndexerSync` | `apps/indexer/src/sync.service.ts` | a market is its version, the block of its last change; `hasBlockNumber` is the schema the subgraph was deployed with |
| `AlertsService` | `alerts.service.ts`, daily volume of `collector.service.ts` | the four rule types with their queries; windows in units of the model's clock, `NoWindow` for a string that `getWindowDate` does not know, which reaches back to 1970 |
| `AnalyticsReports` | `customers`, `signals`, `revenue` services, `collector.service.ts` | a report is an operator on a view, the bets that were there when a query was taken; ORDER BY with equals is any order; requests and collections take their views one by one; `totalPool` is a column that follows no bet (`WritePool`); a fee is any of the figures `toFixed(6)` may give, each one rounded on its own |
| `AgentRunner` | `runner/agent.ts`, `bedrock/client.ts` | Bedrock (external) accepts a conversation only if roles alternate and each tool use is answered |
| `AgentSession` | `cli/index.ts`, `runner/mcp-client.ts`, `mcp-server/`, `data/` | extends the runner: `stage` is where the command is, `servers` the two children; `Handler` is the tools, `Read` a query of the source. From the state "library" the runner is used without the command, as `agent-runner.test.ts` does |

Modules named `MC...` give the constants small values. A definition after a
comment that begins with "Mutant:" is a plausible wrong version of the one below
it; no action uses it, and `PROJECT.json` names the property that notices it.


## 3. The runs

| Run | Module, cfg | Question | Bounds |
|---|---|---|---|
| `market_money` | `MCArenaMarket` | Does every order of bets, replays, disputes, finalisation, voiding, claims and refunds keep the balance and the stakes in step and implement the escrow, while the registry changes between any two calls? | two outcomes; three bettors, one the creator; good vouchers of 1 to 9 tokens, one nonce of each bettor signed twice, and bad ones; two registry states; time 1..4; one stray token |
| `registry` | `MCArenaRegistry` | Timelocks and bonds while operators and a creator act in every order | timelock 1, time 1..3 (two timelocks); three schedules, one above the cap; one creator who can pay one bond at a time; constraint `Focus` |
| `protocol` | `MCArenaProtocol` | Are the market's guarantees true under the real registry, and do odds stand? | one market, two bets, two schedules, timelock 2, time 1..3 |
| `relay_submit` | `MCRelayService` | Do racing submits, ticks, timeouts, shutdown and crash keep the promise of `GaslessBets`? | two submits of one key, a third of the same nonce under another key; inserts decided apart from their requests; two ticks; one restart |
| `relay_timeout` | `MCRelayTimeout` | Is a task without a status timed out? (it is not) | one submit, two ticks |
| `sanctions_listing` | `MCSanctionsGuard` | How late can a cleared address still be let in? | three requests, cache life 2, delay 1, time 1..4 |
| `subgraph_entities` | `MCSubgraph` | Do entities match the chain, while handlers lag? Are winners and bettors who keep asking paid? | up to four bets by two users, who may both win; handlers up to three events behind (`Behind`), two registry states, time 1..2 |
| `indexer_skips` | `MCIndexerSync` | Can a market be skipped for ever? | both schemas of the subgraph; three markets, page of two, two overlapping runs, three blocks, one crash |
| `indexer_page` | `MCIndexerPage` | Does the table catch up with the chain? (it does not) | page of two, blocks that change two markets |
| `alerts` | `MCAlertsService` | Duplicates, false alarms, missed whales, switched-off rules | two bets, two overlapping checks, one fault, a rule with an unknown window, time 1..6; constraint `Focus`, symmetry of checks |
| `reports` | `MCAnalyticsReports` | Do reports agree, pages lose nothing, whale rows hold, the dashboard keep up? | three bets of two users on two markets, a pool column of 0 or 30; amounts whose fees do not come out even; pages of one, a summary of one user, two recent bets for two whales; time 1..6; constraint `Focus` |
| `agent_chat` | `MCAgentSession` | Is every request well formed, is a listed market found, does the command end? | two chats of two turns, two tool uses a message (`Together`: of one tool only); three sources; two markets; one server dies (`MaxDeaths`) |

Why the bounds are enough.

* **market_money.** Pools of a few units make rounding visible: with up to
  three winners and a pool after fees that their stakes do not divide, the last
  claimer takes more than the floor. The creator (carol) can seed an empty
  market, can bet within the cap later and beyond it never. The last two market
  choices are refused by `initialize`. Time runs past close, resolve and the
  challenge window, and the vouchers' deadlines fall on both sides of the close.
  The second registry state has fees near the cap, another treasury (a bettor), the
  oracle's role with the owner, no bond for challenges, and a bettor sanctioned; it
  may be reached, and left, between any two calls. The ways a voucher is bad (user
  zero, unknown outcome, deadline passed or too far away, amount out of range,
  signer without the role) are all submitted.
* **registry.** Two proposals of one kind have to overlap, and one has to be
  executed after the other was; a timelock of one and three moments suffice for
  that. `Focus` stops at states where a setting that only markets read has been
  changed: those settings do not meet what the run's properties speak of, and
  `protocol` changes them under a market. The step to such a state is still
  taken and checked.
* **relay_submit.** 60 attempts become two: a tick may overlap the next one and
  the safety timeout, which is all a longer timer adds. The equality of
  `Ceiling` and `Periods`, 60 attempts and 15 minutes of 15 seconds, is kept,
  because it decides whether the ceiling is ever passed. Two submits of one key are
  enough for a race whose loser puts the bet on chain (section 6). The market accepts
  the third request's nonce only once; its submit is refused at validation.
* **alerts.** A default whale rule is watched for its whole window and the delay
  after it; an added rule for as long as its alerts can repeat. `Top = 2` holds
  both whale bets: bets crowded out of a query are outside `WhaleBetsAreReported`
  (section 6), for which the theorem of section 5 speaks of any number. The window is
  just long enough for one more check after the one fault. Rapid betting is looked
  for over one unit and, by the rule with an unknown window, over all time.
* **subgraph_entities.** The same contract with fewer vouchers, behind which
  handlers lag. Both users can back `yes`, with stakes that do not divide the pool, so
  claims of two winners interleave and one of them is the last; its second registry state is paused, sanctions a bettor and moves
  the treasury. Liveness of claims and refunds is checked here, where the state
  space is small enough for it.
* **reports.** Reports and the collector share only the bets, so `Focus` looks at
  them in turn: reports are made, and the third bet is placed, while collections
  end at once (`AtOnce`); collections overlap and fail while no report is made.
  A pool is written only while nothing is asked for: no step reads the column, and
  `ReportsAgree` speaks of such moments. Every limit of these is so small that it cuts:
  the summary leaves out a user, the recent bets leave out a whale, the feed has up to
  three pages. Amounts of 10, 20 and 50 millionths have fees below one: most figures
  are rounded.
* **agent_chat.** Two turns are the least at which a market that was listed in one
  is asked for in the next, and the cap of turns is met. Markets are added only
  while tools run: what is stored is read only then.
* **indexer.** Two runs and three blocks give every order of two pages and two
  cursors, with a restart between any two steps. `NoMarketIsSkipped` speaks of the
  existence of rows, not of their state, because a slow run may bring older ones back (section 6).

`CHECK_DEADLOCK FALSE` is set throughout: clocks, vouchers, blocks and chats are
bounded and the modelled systems really come to rest (a settled market has
nothing left to do).


## 4. Fairness and assumptions

| Module | Fairness | Why the code justifies it |
|---|---|---|
| `Subgraph` | weak fairness of each account's `Claim` and `Refund` | nobody's permission is needed, no pause stops them, they stay enabled; an account that keeps sending is mined |
| `RelayService` | weak fairness of ticks, the safety timeout, answers and writes | `setInterval` and `setTimeout` fire while the process runs; a call it made is answered or fails. Nothing is assumed of Gelato or of callers |
| `IndexerSync` | weak fairness of asking, saving and loading; strong fairness of fetching and committing | the interval goes on; a step that fails now and then is repeated by the next run, one that always fails is excluded |
| `AgentSession` | weak fairness of `Progress`, the disjunction of all steps but a server's death and a new market | the model answers or the request fails; a tool answers or its call times out; a child starts or the connection is refused |

Other assumptions, each named where it is declared:

* `SanctionsGuard.MaxDelay`: an answer of the screening service is saved within
  a known time. The property gives the bound in terms of it.
* `AlertsService.Tick`: the cron misses no minute and a query is answered within
  `MaxDelay`.
* `AnalyticsReports.Tick`: the cron misses no period, a collection ends within
  `CollectDelay` and a report within `QueryDelay`. `MaxAge` gives the bound of
  `DashboardIsRecent` in terms of the first.
* `ReportsAssumption`: finitely many bets, markets and creators; each bet is on a
  market, which may have no creator; amounts, rates, limits and windows are natural
  numbers, the period of the collector is not 0, and the rate the breakdown calls total
  is the sum of the other four (500 = 275 + 100 + 50 + 75 basis points).
* `LifeAssumption` of `SanctionsGuard`: the cache life is at least 1 and the delay a
  natural number, in units of the clock.
* `AlertsAssumption`: finitely many bets of natural amounts; default and added rules
  are rules (`AlertRule`), the limits are natural numbers, and a query takes no more
  rows than memory keeps alerts (10 and 1000 in the code).
* `SessionAssumption`: what AppSync reads at once (100) is no more than the limit its
  `getMarket` asks with (500); finitely many markets, none named like the missing id.
* `RelayAssumption`: requests with one idempotency key have one user and nonce
  (the key contains both), and a timer's life is not longer than its ceiling of
  attempts (15 minutes at 15 seconds against 60 attempts).
* `RegistryAssumption` of `ArenaMarket`: the fee cap, which `FeesStayCapped` proves
  of the registry.
* `MarketAssumption` of `ArenaProtocol`: the factory is not the creator of a market
  (it never calls itself).
* `IndexerAssumption` allows any `PerBlock`; `NoneIsSkipped` and `RowsStayCurrent` ask
  for at most one. `RowsStayCurrent` and `RowsOnlyGrow` are about a single run at a time
  (`\A q, r \in Runs : q = r`).
* `IndexerSync.hasBlockNumber`: whether the subgraph was deployed with the field the
  indexer filters by. With this repository's `subgraph/schema.graphql` it was not, and
  every sync throws (section 6). `indexer_skips` has both schemas (`Schemas`);
  `EveryMarketGetsARow` names the condition, and `indexer_page` assumes it.


## 5. What is proved

All proofs are checked by TLAPS with the SMT (Z3), Zenon and PTL backends. They
hold for any finite sets of accounts, outcomes and vouchers, any amounts, times and
registry states that satisfy the named `ASSUME`s.

| Theorem | Module | Statement |
|---|---|---|
| `TypeCorrect` | `ArenaMarketProofs` | types of a market |
| `LedgerCorrect` | `ArenaMarketProofs` | the ledger invariant |
| `Solvent`, `MadeWhole`, `HalfIsKept` | `ArenaMarketProofs` | every token accounted for; nobody loses before finalisation; winners keep half |
| `ClaimsGoThrough` | `ArenaMarketProofs` | the next claim never reverts and pays at least the floor of its share |
| `TermsAreFrozen` | `ArenaMarketProofs` | nothing finalisation fixed changes afterwards |
| `MarketsCanEnd`, `UnwonPoolsStay` | `ArenaMarketProofs` | finalising, voiding and refunding never revert for want of tokens, whatever the registry's fees; a pool nobody won stays in the contract |
| `MarketIsEscrow` | `ArenaMarketProofs` | the market implements `ParimutuelEscrow` |
| `RoundingIsPaid`, `CreatorIsCapped`, `BetsAreTakenOnce` | `ArenaMarketProofs` | winners get the rounding too; the creator's tenth; one bet for each nonce |
| `FeesStayCapped`, `ChangesAreAnnounced` | `ProtocolProofs` | the cap and both timelocks |
| `BondsSettle`, `StartsBonded` | `ProtocolProofs` | bonds settle exactly; no market starts without one |
| `RegistryFitsMarket` | `ProtocolProofs` | the contracts together implement `ArenaMarket`: seen from the market every step of registry, factory and clock is one that module allows |
| `MarketsLeaveRegistryAlone` | `ProtocolProofs` | and `ArenaFactory`: announcements, bonds and bonded starts hold with a market running |
| `EscrowUnderRegistry`, `TermsOutlastGovernance`, `BettorsAreSafe` | `ProtocolProofs` | so they implement the escrow too; final terms, rounding, the creator's tenth, nonces and payments hold whatever the admins do |
| `MoneyIsSafe`, `OddsStand` | `ProtocolProofs` | the market's money is safe under the real registry; odds stand for a timelock |
| `RelayTypesHold`, `RowsAreTrue`, `PendingStaysRecorded`, `ShutdownIsSilent` | `RelayProofs` | the relayer, for any number of requests, ticks and restarts |
| `RelayIsGasless`, `OnlyTheToldAreFollowed`, `RetriesAreFree` | `RelayProofs` | the relayer implements `GaslessBets`; only a task whose own caller was told PENDING is polled or confirmed; a retry of a recorded key never pays again |
| `NoneIsSkipped` | `SubgraphProofs` | if a block changes at most one market (`PerBlock <= 1`), no market is left behind a cursor; without that, `indexer_page` is a counterexample |
| `RowsStayCurrent` | `SubgraphProofs` | under the same condition, while no two runs overlap, every market at or below a cursor has its last state in Postgres; with overlap, it need not (section 6) |
| `RowsOnlyGrow` | `SubgraphProofs` | while no two runs overlap no row goes back to an older state, whatever blocks change |
| `ListingsBite` | `RelayProofs` | a listing takes effect within the cache life and one delay, over any number of concurrent requests |
| `CountersAreTrue`, `StatusIsTrue`, `EndsStay` | `SubgraphProofs` | the entities of a market are the chain's once the handlers caught up; the total is the pools' sum and an end stays an end while they lag |
| `RequestsAreAccepted`, `ListedAreFound` | `AgentProofs` | Bedrock accepts each request; a listed market is found |
| `NoAlertTwice`, `RapidIsRapid`, `RulesStayOff` | `AlertsProofs` | alerts for any rules, bets, limits and any number of overlapping checks |
| `WhalesAreReported` | `AlertsProofs` | every whale bet is reported by a deadline, over any failures and restarts that leave time for one more check in its window, unless larger ones crowd it out of a query |
| `NoBetIsMissed` | `ReportsProofs` | pages turned one by one lose no bet, for any feed, page size and window |
| `DashboardLagIsBounded` | `ReportsProofs` | the dashboard is recent, however collections overlap, fail or are lost |
| `WhaleRowsAreTrue` | `ReportsProofs` | the rows of whales hold together, for any bets and limits, while bets come in between the queries |
| `FiguresAddUp` | `ReportsProofs` | sums by segment and by day come to the volume of their bets; pools by market to volumes by creator, one column; the rounded fees to the total within two millionths |

The argument of each.

**Market.** `ClaimsNeverBlocked` is not inductive: that the last claimer's rest is
not negative says nothing of the claims before. The invariant is `TypeOK /\
LedgerInv`, and the part that carries the claims is `ClaimsKeepPace`:
`totalClaimed * WinningPool <= totalWinningStakeClaimed * distributablePool`. A
claim of a floor keeps it, a claim of the rest makes it an equality, and cancelling
the pool gives that what is left covers the share of whoever is left. The other
parts tie counters to stakes (`PoolsMatchStakes`), the balance to both
(`EveryTokenAccountedFor`), the bond to the state (`BondLivesWithDispute`) and each
account's gains to what the market holds for it (`NobodyLosesBeforeFinal`).
`FeesTakeAtMostHalf` is the arithmetic of the cap with four floors.
`PaymentsAreCovered` follows from the same invariant: what an unfinished market holds
is its stakes and its bond, and no registry takes more than half of the stakes. If
nobody backed the winning outcome, no claim is ever possible, so the whole pool stays
(`PoolNobodyWonStays`; TLC reaches such markets).

**Sums.** Proofs about sums usually need induction over a set. `Total(f)` is
instead the cardinality of the set of pairs of a key and a unit, so
`TotalUpdate`, `TotalRemove` and `TotalMonotone` follow from the library's
cardinality theorems, and `TotalScale` (a multiplied sum) from a bijection of
units. `TotalsProofs` holds these lemmas for the modules that add up. That a set of numbers has a largest or smallest member
(`LargestExists`, `SmallestExists`) is the well-foundedness of the naturals.

**Escrow.** Each action of the market is a deposit, a settlement, a cancellation, a
withdrawal or a stutter of `ParimutuelEscrow`. The hard step is the settlement: the
floors owed to all winners must fit into the payout pool together
(`SharesFit`: multiplied by the winning pool, each is at most stake times payout
pool, and `TotalScale` adds them up). After it, `ClaimsKeepPace` gives the same for
the floors of those who have not claimed, so what the last winner takes never
comes out of another's debt.

**Bettor.** *Creator:* a bet raises the threshold, so only the outcome it is placed on
can join the set of outcomes above it, and `placeBet` lets that happen only on an
empty market. *Nonces:* each stake is bounded by the sum of the largest amounts
signed for spent nonces; a bet spends a nonce that was not in the sum (`TotalExtend`)
and adds at most that nonce's amount. *Rounding:* until the last claim everybody was
paid exactly the floor (`RoundingInv`), and floors of shares of one pool lose less
than one unit for each holder (`RoundingLoss`), so the last winner's rest is within
the bound.

**Registry.** `AnnouncedInv`: types, the cap on the pending schedule too, and that
a pending change is one of the announced ones, with the date that the contract
keeps. The execute functions then read off the announcement.

**Bonds.** `BondInv`: the registry's balance is the sum of locked bonds and stray
tokens, each account's loss is locked plus slashed, and whoever is or may become
the treasury is known, because a slash to a creator who is the treasury is a gain.

**Together.** `RegistrySide` shows that each step of `ArenaProtocol` is one of the
registry and factory or leaves them alone, so `AnnouncedInv` holds of it. The
market's proofs are instantiated with the registry's state for `reg`: calls are
calls (`CallIsStep`), governance is a `RegistryChange` to another state within the
cap (`GovernanceIsChange`, `ViewFits`), time is a `Tick`, and creation is a
stutter. The last needs a mapping: creation takes the snapshot of the fees, which
`ArenaMarket` sets in its first state, and which no call reads (`getOdds` does); it
is mapped to that of the first fees. So `Spec => P!Spec` (`RegistryFitsMarket`): what
`ArenaMarket` leaves free, the registry fills within its bounds, and each theorem of
`ArenaMarketProofs` becomes one of the contracts together. The snapshot itself is
what `OddsStand` is about. There, `SnapshotStands`: until a timelock after a
creation with nothing pending, the fees are the snapshot's, and whatever is pending
was proposed since and cannot be executed yet; `RestAtRate` turns that into the
bound on the payout pool.

**Relayer.** `RelayInv`: no two rows of one key, a task is created before its
request ends, only tasks with a row are polled, a tick about to write EXECUTED or
FAILED is right about a final state, and a slot is spent by the task that
succeeded. It rests on the equality of the two timeouts: attempts never pass the
ceiling (`NeverPastCeiling`), so a FAILED row is always a task that reverted.

**Gasless bets.** The steps of a request are a payment, an answer or an error of
`GaslessBets`, and Postgres's own step is the record; ticks and timers are stutters,
except the write that confirms a record. What is needed beyond `RelayInv` is `InStages`
(a request that is not done was not answered, an insert on its way is of a task that
was paid)
and `FollowedRows`: a timer is armed only where a request goes on after its insert,
so whatever is polled, asked about, about to be written or already final had its caller
told PENDING. That is the promise's condition on `Confirm`, and its other side is what
the relayer does not promise: a row whose caller heard of an error, or whose process
died between the commit and the answer, stays PENDING. The crash is the only step that
answers many at once (`GiveUp`). That the relayer looks a key up before it pays and
inserts after it is why the promise allows two payments of one key and no second
record. *Retries:* once a key is on record, a
later request of it can only be new, at the lookup or done, and its task unborn
(`SendsNothing`), which every step keeps.

**Indexer.** `CursorInv`: every number that can become the cursor is below every
market that has no row. Such numbers are many, which is where the overlap of runs
bites: the cursor in memory, the saved one, the one a run took before its fetch,
the one it is about to save, and the last block of a page it has fetched and not
committed. New blocks keep it because a market that changes moves past the head;
fetching keeps it because a page is the oldest part of what comes after the
cursor, and with one market per block no market shares the page's last block.
`CurrentInv` says the same of rows that are not the last state (`Past`): it holds
while no two runs overlap. What a fetched page may be is its hard part (`Whole`):
a market that changed since it was fetched, or that the page leaves out, must be
after everything the page moves the cursor to. A page another run has overtaken is
not `Whole`, which is how the divergence of section 6 was found. `RowsOnlyGrow`
needs only that there is no overlap: a page is then between the rows and the subgraph
(`GrowInv`). Neither condition of `RowsStayCurrent` can be left out: `indexer_page` is
a counterexample without the first, section 6 has one without the second.

**Sanctions.** `ClearancesAreOld`: of an address that is listed and of which the
service did not err since, every row that clears it is dated at most `MaxDelay`
after the listing, and every request about to save such a row got its answer
before the listing. The first part alone is not inductive: saving a row dates it
anew, which is why the clock part (`ClockRuns`) bounds how long an answer may wait.
(The proof is at the end of `RelayProofs`, as the guard is part of the relayer; that of
the indexer is in `SubgraphProofs`, as the indexer reads the subgraph. `SanctionsGuard`
and `IndexerSync` name their `Init`, `Next` and `Spec` apart for that.)

**Subgraph.** `CountersMatchChain` speaks of the moment when nothing is queued, so it
says nothing an induction could use. `HandlersCatchUp` speaks of the whole queue: there is a
path of entities that starts at those the subgraph shows, takes the step of one
handler for each queued event (`MarketAfter`, `PoolsAfter`, `UsersAfter`), and ends
in step with the chain (`InStep`). A call of the market adds one step at the end,
a handler removes the first one. Along the path the total is the sum of the pools
and an ended market stays ended, so both hold while handlers lag. The market's own
invariant is used for what events carry: types, and that a bet raises `totalPool` and
one pool by the same amount.

**Agent.** `RunnerInv`: a conversation is `Settled` between chats, well formed while a
request is out, and `Waiting` while tools run, with one result slot for each use of
the last message; results come in any order because each has its slot. The exception
(a chat that was cut off, stopped at the cap or failed) is in the invariant as it is
in the property. For `ListedMarketsAreFound`, what the model was told of is stored,
and a source that reads all markets at once finds whatever is stored: with at most
`Batch` markets the first `Batch` are all of them, and fewer than `GetLimit` matches
come before any.

**Alerts.** `AlertsInv` gives each alert in memory and each check in flight its cause: a
check asked, at most a delay ago, for a rule that was on; what a rule
of a known window found of rapid betting was so when it asked; an alert of a rule that is off is no younger than the
switch and a delay. Checks hold a rule's number while operators append and switch
rules, so the parts are stated of the rules there are now. `Distinct` holds of the log
after each turn of the loop of one answer, however many subjects it has:
`FiredSteps` unrolls the recursive function of the loop and `AllUpTo` is induction
over its turns.

**Missed whales.** `WhaleBetsAreReported` is a deadline and by itself far from
inductive. `WhalesTended` says what happens until then: a bet that is watched (over the
threshold of a default rule that stays on, with few rivals, its window not about to
end) is reported, or a check in time for it is still to start (`Awaited`), or a check
has it in hand (`InTime`): a check that stands at rule *r* or before rule *i* asked no
later than `LastStart` and *r* - 1 delays, and once it has the answer of rule *i* the
bet is in it. The clock cannot pass `LastStart` without a check (`Tick`), a check
goes from rule to rule in one delay each (`FromInTime`), and the query of rule *i*
comes while the bet is in the window with at most `Top` bets as large, so it is among
the rows in whatever order equal ones come (`LargestFinds`). What was found is in the
log after the loop: the loop drops old alerts only, as memory holds more of them than
a query has rows (`FiredEnters`). A failure or restart may end every check at once;
it puts `LastStart` off by one check's duration and a moment, which is more than the bet
can be late by then (`HandBound`), so a new check is awaited.

**Pages.** The feed moves while a client reads it: new bets push the others back, old
ones leave by the window. The invariant compares the client's offset with a bet's
place: of each bet the client must see, either it was seen or at least `offset`
bets come before it (`NotPassed`). It holds of the bets that are there and of the
view a page in the making is cut from, and a bet placed meanwhile only moves others
back. `PageOfFeed` is the step: in any order the database may give the rows, a bet
alone in its instant has exactly the later bets before it, so it is on the page or
the page is full and lies before it.

**Dashboard.** `CollectorInv` dates every view: a query of the cycle of time *t* saw
all bets placed before *t* (`CyclesSee`), and so did the snapshot for the cycle it comes
from (`SnapshotSees`). Cycles are stored in the order in which they end, so the snapshot
may go back; what bounds its age is a count. Of a snapshot of the cycle of time *t*,
the cycles that were to begin more than `CollectDelay` after *t* and no longer run are
*lost*, and there are never more of them than failures: a cycle still runs when it is
stored, so nothing is lost yet; a failure loses one; a restart loses the snapshot too.
`SnapshotAge` turns the count into time, as one of any `faults + 1` periods was not
lost.

**Whales.** The three queries see growing sets of bets (`WhaleViews`). The recent bets
are a prefix of the newest bets of all whales, so those of one whale in it are the
newest of that whale (`FirstOfNewest`), and the first five of them five or all
(`FirstPositions`). Fewer than five of a whale that has more means the query was cut.
The favourite has at least an equal share of the whale's bets: if every market
had fewer, they would not add up (`FavouritesFill`).

**Figures.** Each service groups the same bets by another key. `TotalOfParts` says that
the sum of the sums of the groups is the sum, by a bijection of units again;
`PartsAddUp` applies it to the parts and `RowsAddUp` to a page whose rows are one for
each group and whose cut leaves groups out. The pools of the signals and the volumes
of the creators are sums of one column (`PoolsStep`: it stays a column of naturals), which no
lemma relates to the bets. `PoolsAgree` asks for as many rows as there are markets and
creators, so nothing is cut; a summary is cut, and `BestIsFirst` says who is left out. A fee is
within half a millionth of its share (`FeeIsNear`), so four rounded fees are within
two millionths of the rounded total once both are compared with the exact one
(`FeesAddUp`: five halves, and figures are whole), and total and net within one of the
volume (`NetAddsUp`).

**Induction.** The library's induction theorems take an operator as a parameter, which
these provers do not instantiate. Where a proof needs induction over a number
(largest and smallest members, the loop of the alerts) it takes the smallest
counterexample instead: `NatLessThanWellFounded` and `WFMin` are first-order facts.

**Only model-checked.** Liveness (`EveryWinnerIsPaid`, `EveryBettorIsRefunded`,
`EveryTimerStops`, `EveryMarketGetsARow`, `CommandExits`): fairness and `ENABLED` are
beyond what the provers do here. Every safety property that a run checks is also
a theorem.
`LedgerInv`, `RelayTypeOK`, `FeesAreCapped` and `PendingIsRecorded` are proved and no
longer run: the properties that follow from them, or that they follow from, are.


## 6. Where the code and its documents disagree

Shown by a run:

* **`relay_timeout`.** `relay.service.ts:284` says that a task Gelato has no
  status for is timed out at the 60-attempt ceiling. The branch tests
  `attempts > 60`, and the safety timeout of 15 minutes removes the interval of
  15 seconds at its 60th tick. The row stays PENDING.
* **`indexer_page`.** The cursor is a block number and the next page asks for
  later blocks only. When a page of 100 ends inside a block, the other markets of
  that block are not fetched until they change again, against "syncing on-chain
  market state to Postgres" (`README.md:30`). `indexer_skips` shows that with one
  market per block nothing is skipped.

Met while translating, and kept in the models as the code has it:

* `docs/ARCHITECTURE.md:48` caps the creator at 10% of the pool. The code looks at
  one outcome, at the pool before the bet, and not at all at an empty pool:
  `CreatorSeedsOneOutcome` is what holds.
* A comment at `ArenaMarket.sol:310` says fees captured at creation keep the odds
  consistent; `_collectFees` reads the registry's current fees.
  `OddsStandForATimelock` and `WinnersKeepHalf` are what holds.
* `docs/ARCHITECTURE.md:106` lets winners capture yield through the final balance;
  `_collectFees` uses `totalPool`, so yield stays in the contract
  (`unaccounted` in `EveryTokenAccountedFor`).
* `docs/ARCHITECTURE.md:154` calls the screening fail-closed on any API error. An
  error status with a JSON body counts as no risk (`ScreenErrs`), the exception
  `ListingTakesEffect` names.
* `docs/ARCHITECTURE.md:75` and `IOracleModule.sol` describe a module that markets
  consult; no contract reads it.
* The subgraph has no handlers for `MarketApproved` and `ResolutionChallenged`, so
  an open market is shown as pending (`Shown` in `Subgraph`).
* The indexer filters by `blockNumber` (`sync.service.ts:62`), which
  `subgraph/schema.graphql` does not declare on `Market`. Against a subgraph deployed
  from this repository the query is answered with errors, `sync.service.ts:85` throws in
  every run and no row ever appears: the states of `indexer_skips` in which
  `hasBlockNumber` is false.
* A row's status is that of its task, not of its bet. Of two racing submits of one key
  both are paid and only one inserted; the other's task may execute, and then the
  recorded one reverts on the used nonce and the only row says FAILED while the bet is
  on chain. `RowsTellTheTruth` speaks of tasks for that reason.
* A row may be left behind an error: Postgres commits the insert and the connection
  fails, or the process dies before the continuation. No timer is armed, nothing reads
  PENDING rows at start, and a retry of the key is answered PENDING for ever, whatever
  became of the bet. `GaslessBets` promises such callers nothing.
* An alert rule may have any string as a window (`alerts.controller.ts:19`), and
  `getWindowDate` answers 1970 to one it does not know: a rapid-betting rule of `5m`
  counts all bets there ever were and its alert says "in 5m". `RapidMeansRapid` is about
  the windows it knows.
* The pool of a market in `signals.service.ts:98` and the volume of a creator in
  `revenue.service.ts:122` are the column `Market.totalPool` that the indexer writes, other
  volumes are sums of `Bet` rows. One may lag behind the other by any amount;
  `PoolsAgree` compares the column with itself only. Each fee is rounded by its own
  `toFixed(6)`, so shown parts may miss the shown total by two millionths.
* Memory keeps a thousand alerts. One that was dropped no longer stops its like:
  the same subject may be alerted again in the window. `AlertsAreDistinct` speaks of
  the alerts in memory.
* `setInterval` (`sync.service.ts:18`) does not wait for the last run. One whose
  transaction is slow commits its older page after the newer page of the next run;
  the cursor is past both, so the older rows stay until their markets change again.
  (`MCIndexerPage.cfg` with `PerBlock = 1`, `MaxBlock = 2`, two markets and two runs shows
  it: `RowsCatchUp` is violated.) `RowsStayCurrent` and `RowsOnlyGrow` prove that it takes an
  overlap.
* More than ten whale bets in one window: a query takes the ten largest, reported ones
  included, so an eleventh is not reported. `Rivals` says exactly which bets count.
* A chat stopped by the turn cap, cut off or failed leaves a history that ends with
  the user's side or with unanswered tool uses, which the next call appends to:
  `RequestsAreWellFormed` excepts what follows these.
* `mcp-server/tools.ts:66` says `get_market` "Returns null if the market does not
  exist". A query that fails (network, status, GraphQL errors) is answered with null
  or an empty list too, and no error: `ListedMarketsAreFound` excepts failed
  queries. With `subgraph/schema.graphql` as it is, every query of
  `subgraph-source.ts` fails, for it asks for fields that `Market` does not have; the
  comment at line 22 expects the planner to tell the user that the subgraph is
  offline, which it cannot know.
* AppSync lists at most 100 rows and looks one market up among them; one beyond is
  not found.
* A `playwright` server that starts and does not list its tools is never closed
  (`attachStdioMcp` throws after `connect`), and the command, done otherwise, does not
  end: the exception in `CommandExits`.
* `resolveTools` cuts names to 63 characters, so two long names could collide; the
  model gives each tool its own name.
* "5 recent bets per whale max" (`customers.service.ts:215`): the query takes the
  newest `limit * 5` bets of all whales together, so a busy whale leaves a quiet one
  with fewer or none. `WhaleRowsHold` says when.
* A whale's totals, recent bets and favourite come from three moments, and a page
  and its total from two.
* An older collection that ends after a newer one replaces its snapshot; the
  dashboard then goes back, within the bound of `DashboardIsRecent`.
* The feed is ordered by `createdAt` alone: bets of one instant may fall between two
  pages. `sortBy` is accepted by `SignalsQueryDto` and read nowhere.
* The segment summary counts the 10000 largest bettors at most.


## 7. What is not modelled

* KYC (`sumsub.*`): a webhook updates one row that only statistics read.
* Of the reports: `getRelayStats` (a count by status), the filters by status, by KYC
  and by the creation of a market, averages, win rates, joined titles, the totals
  beside a page, the JSON.
* Of the floats in reports: errors of summation (sums are exact, products are rounded).
* Of Bedrock: its refusal of empty content; the models know of roles and tool results.
* Of the agent: the fields of a market, the prices and portfolio the mock makes up,
  the answers of `price_history` and `portfolio` (nothing is kept of them), prompts,
  skills, traces, and the commands that only print.
* Controllers, the guard by API key, DTOs of the relayer, wiring.
* The `oracleModule` interface (no implementation), the deployment script (one
  sequence of constructors, whose result is the initial state of
  `ArenaRegistry`/`ArenaFactory`), the web front end (static), the Python backtest
  (an offline simulation).
* `upgradeBeacon`: it replaces the code that the models are about.
* Of the collector, its counts of markets and users; of the subgraph, `pnl` and
  decimal odds; of the relayer, `generateOracleSignature` (no state) and
  `getTaskStatus` (a forwarded question).


## 8. Plan

Done in this order: market, registry, factory, their composition, relayer,
subgraph, indexer, sanctions, alerts, agent; the first proofs of section 5; the
reports, and the chat command with the tools behind the runner; the refinements,
the bettor's guarantees, the contracts together and the services off chain as theorems.

Next, in order of what they add:

1. **Proofs.** What the conversions between services keep; the safety half of the
   liveness properties (what each waits for stays possible), as `ClaimsNeverBlocked`
   and `PaymentsAreCovered` are for claims and refunds.
2. **More of the code.** The KYC status under webhooks that arrive out of order;
   the pages of profiles, which are ranked anew for each one.
3. **Abstract specifications.** A replicated table implemented by `IndexerSync` when
   runs do not overlap and pages end at block boundaries: `RowsStayCurrent` and
   `RowsOnlyGrow` are its two safety parts.

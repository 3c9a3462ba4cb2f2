----------------------------- MODULE IndexerSync -----------------------------
(***************************************************************************)
(* The indexer: apps/indexer/src/sync.service.ts, which copies the markets *)
(* of the subgraph into Postgres.  setInterval starts a run every 15 s     *)
(* whether the last one has ended or not, so runs overlap; a run asks for  *)
(* the markets after the cursor, commits them in one transaction, moves    *)
(* the cursor in memory and then saves it.  The process may crash between  *)
(* any two of these.                                                       *)
(*                                                                         *)
(* A market is shown by its version: the block of its last change.         *)
(***************************************************************************)
EXTENDS Integers, FiniteSets, FiniteSetsExt

CONSTANTS
  Markets,
  Runs,            \* runs of syncFromSubgraph at the same time
  PageSize,        \* first: 100
  PerBlock,        \* bound on the markets one block changes
  Schemas,         \* whether the subgraph's Market has the field the query filters by
  MaxBlock,        \* bound on the subgraph's head
  MaxCrashes       \* bound on restarts

ASSUME IndexerAssumption ==
  /\ IsFiniteSet(Markets) /\ PageSize \in Nat \ {0} /\ PerBlock \in Nat
  /\ Schemas \subseteq BOOLEAN
  /\ MaxBlock \in Nat /\ MaxCrashes \in Nat

VARIABLES
  head, version,       \* the subgraph's block and its markets; version 0: not created
  hasBlockNumber,      \* the schema the subgraph was deployed with
  rows,                \* the version of each market in Postgres; 0: no row
  savedCursor,         \* SyncState.lastBlock
  lastProcessedBlock,  \* the cursor in memory
  pc, afterBlock, page, newBlock,  \* of each run
  up, crashes

sourceVars == <<head, version, hasBlockNumber>>
runVars      == <<pc, afterBlock, page, newBlock>>
processVars  == <<up, crashes>>
indexerVars == <<sourceVars, rows, savedCursor, lastProcessedBlock, runVars, processVars>>

NoPage == [m \in {} |-> 0]

Idle == /\ pc = [r \in Runs |-> "idle"] /\ page = [r \in Runs |-> NoPage]
        /\ afterBlock = [r \in Runs |-> 0] /\ newBlock = [r \in Runs |-> 0]

IndexerInit ==
  /\ head = 0 /\ version = [m \in Markets |-> 0] /\ hasBlockNumber \in Schemas
  /\ rows = [m \in Markets |-> 0] /\ savedCursor = 0 /\ lastProcessedBlock = 0
  /\ Idle /\ up = TRUE /\ crashes = 0

------------------------------------------------------------------------------
(* The subgraph: a block creates or changes markets.                         *)

Block(ms) ==
  /\ head < MaxBlock /\ ms # {} /\ Cardinality(ms) <= PerBlock
  /\ head' = head + 1
  /\ version' = [m \in Markets |-> IF m \in ms THEN head + 1 ELSE version[m]]
  /\ UNCHANGED <<hasBlockNumber, rows, savedCursor, lastProcessedBlock, runVars, processVars>>

------------------------------------------------------------------------------
(* A run.                                                                   *)

After(cursor) == {m \in Markets : version[m] > cursor}

\* orderBy blockNumber, first PageSize: the oldest changes; markets of one block
\* come in no order.
Pages(cursor) ==
  {ms \in SUBSET After(cursor) :
     /\ Cardinality(ms) <= PageSize
     /\ Cardinality(ms) < PageSize => ms = After(cursor)
     /\ \A m \in ms, n \in After(cursor) \ ms : version[m] <= version[n]}

End(r) ==
  /\ pc' = [pc EXCEPT ![r] = "idle"] /\ page' = [page EXCEPT ![r] = NoPage]
  /\ afterBlock' = [afterBlock EXCEPT ![r] = 0]
  /\ newBlock' = [newBlock EXCEPT ![r] = 0]

\* The query is sent with the cursor of this moment.
Ask(r) ==
  /\ up /\ pc[r] = "idle" /\ pc' = [pc EXCEPT ![r] = "fetch"]
  /\ afterBlock' = [afterBlock EXCEPT ![r] = lastProcessedBlock]
  /\ UNCHANGED <<sourceVars, rows, savedCursor, lastProcessedBlock, page, newBlock, processVars>>

\* It is answered for a later one.  A schema without blockNumber, as that of src/subgraph,
\* answers with errors, and the run throws.
Fetch(r) ==
  /\ up /\ pc[r] = "fetch" /\ hasBlockNumber
  /\ \E ms \in Pages(afterBlock[r]) :
       IF ms = {} THEN End(r)
       ELSE /\ page' = [page EXCEPT ![r] = [m \in ms |-> version[m]]]
            /\ pc' = [pc EXCEPT ![r] = "commit"] /\ UNCHANGED <<afterBlock, newBlock>>
  /\ UNCHANGED <<sourceVars, rows, savedCursor, lastProcessedBlock, processVars>>

\* Mutant: update instead of upsert; new markets are left to somebody else.
UpdateOnly(p) == [m \in Markets |-> IF m \in DOMAIN p /\ rows[m] # 0 THEN p[m] ELSE rows[m]]

Upserted(p) == [m \in Markets |-> IF m \in DOMAIN p THEN p[m] ELSE rows[m]]

MaxBlockOf(p) == Max({p[m] : m \in DOMAIN p})

\* The transaction, then, without an await between, the cursor in memory.
Commit(r) ==
  /\ up /\ pc[r] = "commit"
  /\ rows' = Upserted(page[r])
  /\ IF MaxBlockOf(page[r]) > lastProcessedBlock
       THEN /\ lastProcessedBlock' = MaxBlockOf(page[r])
            /\ newBlock' = [newBlock EXCEPT ![r] = MaxBlockOf(page[r])]
            /\ page' = [page EXCEPT ![r] = NoPage]
            /\ pc' = [pc EXCEPT ![r] = "save"] /\ UNCHANGED afterBlock
       ELSE End(r) /\ UNCHANGED lastProcessedBlock
  /\ UNCHANGED <<sourceVars, savedCursor, processVars>>

SaveCursor(r) ==
  /\ up /\ pc[r] = "save" /\ savedCursor' = newBlock[r] /\ End(r)
  /\ UNCHANGED <<sourceVars, rows, lastProcessedBlock, processVars>>

\* fetch, the transaction or the upsert throws; the error is logged.  A call of
\* the database may throw after it took effect.
Throw(r) ==
  /\ up /\ pc[r] # "idle" /\ End(r)
  /\ rows' \in {rows} \cup (IF pc[r] = "commit" THEN {Upserted(page[r])} ELSE {})
  /\ savedCursor' \in {savedCursor} \cup (IF pc[r] = "save" THEN {newBlock[r]} ELSE {})
  /\ UNCHANGED <<sourceVars, lastProcessedBlock, processVars>>

------------------------------------------------------------------------------
(* The process.                                                             *)

Crash ==
  /\ up /\ crashes < MaxCrashes
  /\ up' = FALSE /\ crashes' = crashes + 1
  /\ pc' = [r \in Runs |-> "idle"] /\ page' = [r \in Runs |-> NoPage]
  /\ afterBlock' = [r \in Runs |-> 0] /\ newBlock' = [r \in Runs |-> 0]
  /\ UNCHANGED <<sourceVars, rows, savedCursor, lastProcessedBlock>>

\* Mutant: a restart begins at the subgraph's head.
FromHead == {head}

\* The saved cursor, or 0 when it cannot be read.
Loaded == {savedCursor, 0}

LoadCursor ==
  /\ ~up /\ up' = TRUE /\ lastProcessedBlock' \in Loaded
  /\ UNCHANGED <<sourceVars, rows, savedCursor, runVars, crashes>>

IndexerNext ==
  \/ \E ms \in SUBSET Markets : Block(ms)
  \/ \E r \in Runs : Ask(r) \/ Fetch(r) \/ Commit(r) \/ SaveCursor(r) \/ Throw(r)
  \/ Crash \/ LoadCursor

IndexerSpec == IndexerInit /\ [][IndexerNext]_indexerVars

\* The interval goes on; what a run asks for is answered in the end (a step that
\* keeps failing never is).
Fairness ==
  /\ \A r \in Runs :
       WF_indexerVars(Ask(r)) /\ SF_indexerVars(Fetch(r)) /\ SF_indexerVars(Commit(r)) /\ WF_indexerVars(SaveCursor(r))
  /\ WF_indexerVars(LoadCursor)

FairIndexerSpec == IndexerSpec /\ Fairness

------------------------------------------------------------------------------
(* Properties.                                                              *)

\* When blocks change one market at a time, no cursor, in memory or saved, is past
\* a market that has no row, over overlapping runs, cursors saved out of order,
\* failed steps and crashes: the next run, or the next process, still asks for it.
NoMarketIsSkipped ==
  \A m \in Markets :
    version[m] # 0 /\ rows[m] = 0 => version[m] > savedCursor /\ version[m] > lastProcessedBlock

\* "NestJS event indexer syncing on-chain market state to Postgres" (README.md):
\* once the markets stop changing, Postgres holds their last state.
RowsCatchUp == <>[](rows = version)

\* Under the conditions of NoMarketIsSkipped, and against a subgraph whose Market has
\* the field blockNumber, every market comes to have a row.  The schema of this
\* repository has no such field: against it every run throws at Fetch and no market
\* ever has a row.
EveryMarketGetsARow ==
  \A m \in Markets : (hasBlockNumber /\ version[m] # 0) ~> rows[m] # 0
=============================================================================

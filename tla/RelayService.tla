---------------------------- MODULE RelayService ----------------------------
(***************************************************************************)
(* The gasless relayer: apps/relayer/src/relay.service.ts with the task    *)
(* service it pays (Gelato) and the nonces of the market it calls.         *)
(*                                                                         *)
(* Node runs one callback at a time; between two awaits of a request or of *)
(* a polling tick, anything else may run.  A request is identified with    *)
(* the task it creates, for it creates at most one.  Postgres decides an   *)
(* insert apart from the request that waits for it, which may hear of an   *)
(* error all the same or be gone.  A task is polled by a timer; tick n of  *)
(* a timer is a callback of its own, so a slow answer to tick n may arrive *)
(* after tick n+1.  The process may be shut down, may crash and restart;   *)
(* rows are in Postgres and survive.                                       *)
(***************************************************************************)
EXTENDS Naturals, FiniteSets

CONSTANTS
  Requests,     \* calls of submit, and the tasks they create
  KeyOf,        \* the idempotency key of a request: user, target, amount,
                \* market id, nonce and chain
  SlotOf,       \* the user and nonce the market marks used
  Signed,       \* requests whose calldata decodes and carries our signature
  Ceiling,      \* the attempts a timer makes at most: 60
  Periods,      \* MAX_POLLING_DURATION in polling intervals: 60
  MaxCrashes    \* bound on restarts

ASSUME RelayAssumption ==
  /\ Signed \subseteq Requests
  /\ Ceiling \in Nat /\ Periods \in 1 .. Ceiling /\ MaxCrashes \in Nat
  \* the key contains user, target and nonce
  /\ \A q, r \in Requests : KeyOf[q] = KeyOf[r] => SlotOf[q] = SlotOf[r]

VARIABLES
  pc,             \* where each call of submit is
  answer,         \* what it answered, and about which task
  task,           \* state of each task at Gelato, "none" before it exists
  spent,          \* the slots used on chain
  row,            \* status in RelayedTransaction of each task
  inserting,      \* tasks whose insert was sent and is not decided
  timer,          \* tasks in activeTimers, each with its safety timeout
  attempts,
  ticks,          \* what each tick of each timer is about to do
  up, shuttingDown, crashes

requestVars == <<pc, answer>>
chainVars   == <<task, spent>>
tableVars   == <<row, inserting>>
pollVars    == <<timer, attempts, ticks>>
processVars == <<up, shuttingDown, crashes>>
vars == <<requestVars, chainVars, tableVars, pollVars, processVars>>

Final == {"ExecSuccess", "ExecReverted", "Cancelled"}

NoAnswer == [status |-> "none"]

Init ==
  /\ pc = [r \in Requests |-> "new"] /\ answer = [r \in Requests |-> NoAnswer]
  /\ task = [r \in Requests |-> "none"] /\ spent = {}
  /\ row = [r \in Requests |-> "none"] /\ inserting = {}
  /\ timer = {} /\ attempts = [r \in Requests |-> 0]
  /\ ticks = [r \in Requests |-> [n \in 1 .. Periods |-> "idle"]]
  /\ up = TRUE /\ shuttingDown = FALSE /\ crashes = 0

------------------------------------------------------------------------------
(* submit.                                                                  *)

At(r, p)   == up /\ pc[r] = p
Goto(r, p) == pc' = [pc EXCEPT ![r] = p] /\ UNCHANGED answer

Answer(r, a) ==
  /\ pc' = [pc EXCEPT ![r] = "done"]
  /\ answer' = [answer EXCEPT ![r] = a]

Fail(r) == Answer(r, [status |-> "error"])

\* Mutant: the key is unstable, no two requests have the same one.
OwnKey(q, r) == q = r

SameKey(q, r) == KeyOf[q] = KeyOf[r]

\* The tasks recorded under the key of a request.
Recorded(r) == {q \in Requests : row[q] # "none" /\ SameKey(q, r)}

\* decodeAndVerifyCalldata, then balance and allowance over RPC.
Validate(r) ==
  /\ At(r, "new") /\ r \in Signed /\ Goto(r, "lookup")
  /\ UNCHANGED <<chainVars, tableVars, pollVars, processVars>>

Refuse(r) ==
  /\ At(r, "new") /\ Fail(r)
  /\ UNCHANGED <<chainVars, tableVars, pollVars, processVars>>

\* Mutant: what is on record is answered as if it had just been taken.
ExistingPending(q) == [status |-> "PENDING", task |-> q]

Existing(q) == [status |-> row[q], task |-> q]

\* A recorded key answers with the task recorded first.
Lookup(r) ==
  /\ At(r, "lookup")
  /\ \/ Recorded(r) = {} /\ Goto(r, "sponsor")
     \/ \E q \in Recorded(r) : Answer(r, Existing(q))
     \/ Fail(r)
  /\ UNCHANGED <<chainVars, tableVars, pollVars, processVars>>

\* The call may fail after Gelato took it.  If it did not, the insert is sent.
Sponsor(r) ==
  /\ At(r, "sponsor")
  /\ \/ /\ task' = [task EXCEPT ![r] = "unseen"]
        /\ \/ Goto(r, "create") /\ inserting' = inserting \cup {r}
           \/ Fail(r) /\ UNCHANGED inserting
     \/ UNCHANGED <<task, inserting>> /\ Fail(r)
  /\ UNCHANGED <<spent, row, pollVars, processVars>>

\* Postgres, whether or not the relayer is still there: idempotencyKey is unique.
Insert(r) ==
  /\ r \in inserting /\ inserting' = inserting \ {r}
  /\ \/ Recorded(r) = {} /\ row' = [row EXCEPT ![r] = "PENDING"]
     \/ UNCHANGED row
  /\ UNCHANGED <<requestVars, chainVars, pollVars, processVars>>

\* Mutant: a timer is armed during shutdown.
PollAlways(t) == timer' = timer \cup {t}

\* pollForCompletion: no await, one step with the rest of submit.
PollForCompletion(t) == timer' = IF shuttingDown THEN timer ELSE timer \cup {t}

\* Mutant: a rejected row is answered like a recorded one.
AnswerAnyway(r) == [status |-> "PENDING", task |-> r]

\* submit does not catch the exception of create.
AnswerRejected(r) == [status |-> "error"]

\* The continuation of create, after Gelato was paid.  It throws on a conflict and on
\* an error of the connection, which says nothing of the row.
Create(r) ==
  /\ At(r, "create")
  /\ \/ /\ row[r] # "none"
        /\ PollForCompletion(r)
        /\ Answer(r, [status |-> "PENDING", task |-> r])
     \/ Answer(r, AnswerRejected(r)) /\ UNCHANGED timer
  /\ UNCHANGED <<chainVars, tableVars, attempts, ticks, processVars>>

------------------------------------------------------------------------------
(* Polling.                                                                 *)

SetTick(t, n, to) == ticks' = [ticks EXCEPT ![t][n] = to]

\* Mutant: the ceiling is inclusive.
AtCeiling(t) == attempts[t] >= Ceiling

PastCeiling(t) == attempts[t] > Ceiling

\* The safety timeout was set just before the interval: the tick that is due with
\* it may run first, none after it does.
Tick(t) ==
  /\ t \in timer /\ attempts[t] < Periods
  /\ attempts' = [attempts EXCEPT ![t] = @ + 1]
  /\ SetTick(t, attempts[t] + 1, "asking")
  /\ UNCHANGED <<requestVars, chainVars, tableVars, timer, processVars>>

\* Mutant: the safety timeout forgets the interval.
StopNothing(t) == timer' = timer

Stop(t) == timer' = timer \ {t}

\* The timer is late by at most one tick after MAX_POLLING_DURATION.  A tick that
\* is waiting for an answer is not cancelled.
Safety(t) ==
  /\ t \in timer /\ attempts[t] + 1 >= Periods
  /\ Stop(t)
  /\ UNCHANGED <<requestVars, chainVars, tableVars, attempts, ticks, processVars>>

\* The status a tick writes once Gelato answered, "idle" for none.
Verdict(t) ==
  IF task[t] = "ExecSuccess" THEN "EXECUTED"
  ELSE IF task[t] = "ExecReverted" \/ PastCeiling(t) THEN "FAILED" ELSE "idle"

Hear(t, n) ==
  /\ up /\ ticks[t][n] = "asking"
  /\ SetTick(t, n, Verdict(t))
  /\ UNCHANGED <<requestVars, chainVars, tableVars, timer, attempts, processVars>>

Write(t, n) ==
  /\ up /\ ticks[t][n] \in {"EXECUTED", "FAILED"}
  /\ row' = [row EXCEPT ![t] = ticks[t][n]]
  /\ SetTick(t, n, "written")
  /\ UNCHANGED <<requestVars, chainVars, inserting, timer, attempts, processVars>>

\* The continuation of the update.
Clear(t, n) ==
  /\ up /\ ticks[t][n] = "written"
  /\ timer' = timer \ {t}
  /\ SetTick(t, n, "idle")
  /\ UNCHANGED <<requestVars, chainVars, tableVars, attempts, processVars>>

\* Gelato or the database throws, before the row is written or after: logged, and the
\* next tick tries again.
TickError(t, n) ==
  /\ up /\ ticks[t][n] # "idle"
  /\ timer' = IF PastCeiling(t) THEN timer \ {t} ELSE timer
  /\ SetTick(t, n, "idle")
  /\ UNCHANGED <<requestVars, chainVars, tableVars, attempts, processVars>>

------------------------------------------------------------------------------
(* The process.                                                             *)

\* Requests and ticks in flight go on until the process ends.
Shutdown ==
  /\ up /\ ~shuttingDown /\ crashes < MaxCrashes
  /\ shuttingDown' = TRUE /\ timer' = {}
  /\ UNCHANGED <<requestVars, chainVars, tableVars, attempts, ticks, up, crashes>>

\* The end of a shutdown, or a crash at any moment: timers, ticks and requests
\* in flight are gone.
Exit ==
  /\ up /\ crashes < MaxCrashes
  /\ up' = FALSE /\ crashes' = crashes + 1 /\ shuttingDown' = FALSE
  /\ timer' = {}
  /\ ticks' = [r \in Requests |-> [n \in 1 .. Periods |-> "idle"]]
  /\ pc' = [r \in Requests |-> IF pc[r] = "new" THEN "new" ELSE "done"]
  /\ answer' = [r \in Requests |->
                  IF pc[r] \in {"new", "done"} THEN answer[r] ELSE [status |-> "error"]]
  /\ UNCHANGED <<chainVars, tableVars, attempts>>

\* Nothing reads the rows that are still PENDING.
Restart ==
  /\ ~up /\ up' = TRUE
  /\ UNCHANGED <<requestVars, chainVars, tableVars, pollVars, shuttingDown, crashes>>

------------------------------------------------------------------------------
(* Gelato and the market contract.                                          *)

Gelato(t, from, to) == task[t] \in from /\ task' = [task EXCEPT ![t] = to]

\* Until Gelato indexed a task it has no status to return.
Notice(t) ==
  /\ Gelato(t, {"unseen"}, "pending")
  /\ UNCHANGED <<requestVars, spent, tableVars, pollVars, processVars>>

NonceUnused(t) == SlotOf[t] \notin spent

Succeed(t) ==
  /\ NonceUnused(t)
  /\ Gelato(t, {"unseen", "pending"}, "ExecSuccess")
  /\ spent' = spent \cup {SlotOf[t]}
  /\ UNCHANGED <<requestVars, tableVars, pollVars, processVars>>

\* A used nonce, an expired signature, a closed market; or Gelato gives up.
Drop(t) ==
  /\ Gelato(t, {"unseen", "pending"}, "ExecReverted") \/ Gelato(t, {"pending"}, "Cancelled")
  /\ UNCHANGED <<requestVars, spent, tableVars, pollVars, processVars>>

Next ==
  \/ \E r \in Requests :
       \/ Validate(r) \/ Refuse(r) \/ Lookup(r) \/ Sponsor(r) \/ Insert(r) \/ Create(r)
       \/ Tick(r) \/ Safety(r)
       \/ \E n \in 1 .. Periods : Hear(r, n) \/ Write(r, n) \/ Clear(r, n) \/ TickError(r, n)
       \/ Notice(r) \/ Succeed(r) \/ Drop(r)
  \/ Shutdown \/ Exit \/ Restart

Spec == Init /\ [][Next]_vars

\* Timers fire while the process runs; calls it made are answered or fail.
Fairness ==
  \A t \in Requests :
    /\ WF_vars(Tick(t)) /\ WF_vars(Safety(t))
    /\ \A n \in 1 .. Periods :
         WF_vars(Hear(t, n)) /\ WF_vars(Write(t, n)) /\ WF_vars(Clear(t, n))

FairSpec == Spec /\ Fairness

------------------------------------------------------------------------------
(* Properties.                                                              *)

Statuses == {"PENDING", "EXECUTED", "FAILED"}

TickStates == {"idle", "asking", "EXECUTED", "FAILED", "written"}

\* Types, and the unique column: two tasks of one key never both have a row.
RelayTypeOK ==
  /\ pc \in [Requests -> {"new", "lookup", "sponsor", "create", "done"}]
  /\ \A r \in Requests : answer[r].status \in Statuses \cup {"none", "error"}
  /\ task \in [Requests -> {"none", "unseen", "pending"} \cup Final]
  /\ row \in [Requests -> {"none"} \cup Statuses] /\ inserting \subseteq Requests
  /\ timer \subseteq Requests /\ attempts \in [Requests -> 0 .. Periods]
  /\ ticks \in [Requests -> [1 .. Periods -> TickStates]]
  /\ \A q, r \in Requests :
       row[q] # "none" /\ row[r] # "none" /\ KeyOf[q] = KeyOf[r] => q = r

\* What a row says at last of its task is what became of that task, also when slow
\* ticks, timeouts, shutdowns and failed writes interleave: FAILED is never written
\* of a task that was executed or may still be, EXECUTED of none that failed.  It
\* speaks of the task and not of the bet: a second submit of the key, which lost the
\* race for the row, may have put the bet on chain while this task reverted on its
\* used nonce, and then the only row of the bet says FAILED.
RowsTellTheTruth ==
  \A t \in Requests :
    /\ row[t] = "EXECUTED" => task[t] = "ExecSuccess"
    /\ row[t] = "FAILED"   => task[t] = "ExecReverted"

\* A caller told PENDING can come back: the row of that task survives crashes.
PendingIsRecorded ==
  \A r \in Requests :
    answer[r].status = "PENDING" => row[answer[r].task] # "none"

\* After onApplicationShutdown no timer is armed, though requests finish.
SilentAfterShutdown == shuttingDown => timer = {}

\* A retry that arrives when its key is recorded never pays Gelato again, over
\* any crash between.
RetryIsFree ==
  \A q, r \in Requests :
    [](KeyOf[q] = KeyOf[r] /\ pc[r] = "new" /\ row[q] # "none" => [](task[r] = "none"))

\* What callers, the table and the chain see of it: a call is open until it ended.
Fate == [r \in Requests |-> IF task[r] \in {"unseen", "pending"} THEN "open" ELSE task[r]]

Promise == INSTANCE GaslessBets WITH fate <- Fate, record <- row, told <- answer

\* However requests, ticks, timeouts, crashes and Gelato interleave, the relayer does
\* nothing but what GaslessBets allows: a call is paid once for each request, a key
\* gets one row, a caller is answered once, from the row, and a row is confirmed once,
\* after its own caller was told of it.
ImplementsGaslessBets == Promise!Spec

\* No timer polls for ever.
EveryTimerStops == \A t \in Requests : t \in timer ~> t \notin timer

\* The comment in pollForCompletion: a task Gelato has no status for is timed out
\* by the ceiling of attempts.
NoStatusTimesOut ==
  \A t \in Requests :
    (row[t] = "PENDING" /\ task[t] = "unseen")
      ~> (row[t] # "PENDING" \/ task[t] # "unseen")
=============================================================================

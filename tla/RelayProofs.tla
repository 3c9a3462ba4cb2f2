----------------------------- MODULE RelayProofs -----------------------------
(***************************************************************************)
(* The relayer, for any number of requests, keys, ticks and restarts: a    *)
(* key has one row, and what a row says at last is what became of its      *)
(* task; callers, the table and the chain see the steps of GaslessBets.    *)
(*                                                                         *)
(* Then the guard that each request passes before submit: how long an      *)
(* address that was cleared before it was listed can still place bets, for *)
(* any cache life and any delay.                                           *)
(***************************************************************************)
EXTENDS RelayService, SanctionsGuard, TLAPS

RequestTypes ==
  /\ pc \in [Requests -> {"new", "lookup", "sponsor", "create", "done"}]
  /\ DOMAIN answer = Requests /\ answer = [r \in Requests |-> answer[r]]
  /\ \A r \in Requests : answer[r].status \in Statuses \cup {"none", "error"}

PollTypes ==
  /\ task \in [Requests -> {"none", "unseen", "pending"} \cup Final]
  /\ row \in [Requests -> {"none"} \cup Statuses] /\ inserting \subseteq Requests
  /\ timer \subseteq Requests /\ attempts \in [Requests -> 0 .. Periods]
  /\ ticks \in [Requests -> [1 .. Periods -> TickStates]]

OneRowPerKey ==
  \A q, r \in Requests :
    row[q] # "none" /\ row[r] # "none" /\ KeyOf[q] = KeyOf[r] => q = r

\* A request creates its task once.
TasksStartOnce ==
  \A r \in Requests : pc[r] \in {"new", "lookup", "sponsor"} => task[r] = "none"

\* Only tasks with a row are polled.
OnlyRowsArePolled ==
  /\ \A t \in timer : row[t] # "none"
  /\ \A t \in Requests, n \in 1 .. Periods : ticks[t][n] # "idle" => row[t] # "none"

SlotsAreSpent == \A t \in Requests : task[t] = "ExecSuccess" => SlotOf[t] \in spent

\* What a tick is about to write is true, and stays so: final states are final.
TicksTellTheTruth ==
  \A t \in Requests, n \in 1 .. Periods :
    /\ ticks[t][n] = "EXECUTED" => task[t] = "ExecSuccess"
    /\ ticks[t][n] = "FAILED"   => task[t] = "ExecReverted"

\* A caller is told of tasks of ours.
AnswersNameTasks ==
  \A r \in Requests : answer[r].status = "PENDING" => answer[r].task \in Requests

RequestInv == RequestTypes /\ TasksStartOnce /\ AnswersNameTasks /\ PendingIsRecorded

PollInv ==
  /\ PollTypes /\ OneRowPerKey /\ OnlyRowsArePolled /\ SilentAfterShutdown
  /\ SlotsAreSpent /\ TicksTellTheTruth /\ RowsTellTheTruth

RelayInv == RequestInv /\ PollInv

LEMMA RelayInit == Init => RelayInv
<1> SUFFICES ASSUME Init PROVE RelayInv
  OBVIOUS
<1>1. RequestInv
  <2>1. \A r \in Requests : answer[r].status = "none"
    BY DEF Init, NoAnswer
  <2>2. RequestTypes /\ TasksStartOnce
    BY <2>1 DEF Init, RequestTypes, TasksStartOnce
  <2> QED
    BY <2>1, <2>2 DEF RequestInv, AnswersNameTasks, PendingIsRecorded
<1>2. PollTypes
  BY RelayAssumption DEF Init, PollTypes, Statuses, TickStates
<1>3. PollInv
  BY <1>2 DEF Init, PollInv, OneRowPerKey, OnlyRowsArePolled, SilentAfterShutdown,
     SlotsAreSpent, TicksTellTheTruth, RowsTellTheTruth
<1> QED
  BY <1>1, <1>3 DEF RelayInv

\* Neither half of the invariant speaks of all the variables.
LEMMA PollingUntouched ==
  ASSUME PollInv, UNCHANGED <<chainVars, tableVars, pollVars, shuttingDown>>
  PROVE  PollInv'
BY DEF PollInv, chainVars, tableVars, pollVars, PollTypes, OneRowPerKey, OnlyRowsArePolled,
   SilentAfterShutdown, SlotsAreSpent, TicksTellTheTruth, RowsTellTheTruth

LEMMA RequestsUntouched ==
  ASSUME RequestInv, UNCHANGED requestVars,
         \A t \in Requests : row[t] # "none" => row'[t] # "none",
         \A t \in Requests : task[t] = "none" => task'[t] = "none"
  PROVE  RequestInv'
<1> USE DEF requestVars
<1>1. RequestTypes' /\ AnswersNameTasks'
  BY DEF RequestInv, RequestTypes, AnswersNameTasks
<1>2. TasksStartOnce' /\ PendingIsRecorded'
  BY DEF RequestInv, RequestTypes, TasksStartOnce, AnswersNameTasks, PendingIsRecorded
<1> QED
  BY <1>1, <1>2 DEF RequestInv

\* A request goes on with no answer, or is answered with a in the state after it.
LEMMA RequestGoesOn ==
  ASSUME RequestInv, NEW r \in Requests, NEW p \in {"lookup", "sponsor", "create"}, Goto(r, p),
         UNCHANGED row,
         \A t \in Requests : task[t] = "none" /\ t # r => task'[t] = "none",
         p \in {"lookup", "sponsor"} => task'[r] = "none"
  PROVE  RequestInv'
<1>1. RequestTypes' /\ AnswersNameTasks' /\ PendingIsRecorded'
  BY DEF Goto, RequestInv, RequestTypes, AnswersNameTasks, PendingIsRecorded
<1>2. TasksStartOnce'
  BY DEF Goto, RequestInv, RequestTypes, TasksStartOnce
<1> QED
  BY <1>1, <1>2 DEF RequestInv

LEMMA RequestIsAnswered ==
  ASSUME RequestInv, NEW r \in Requests, NEW a, Answer(r, a),
         a.status \in Statuses \cup {"none", "error"},
         a.status = "PENDING" => a.task \in Requests /\ row'[a.task] # "none",
         \A t \in Requests : row[t] # "none" => row'[t] # "none",
         \A t \in Requests : task[t] = "none" /\ t # r => task'[t] = "none"
  PROVE  RequestInv'
<1>1. \A q \in Requests : /\ pc'[q]     = IF q = r THEN "done" ELSE pc[q]
                          /\ answer'[q] = IF q = r THEN a ELSE answer[q]
  BY DEF Answer, RequestInv, RequestTypes
<1>2. DOMAIN answer' = Requests /\ answer' = [q \in Requests |-> answer'[q]]
  BY DEF Answer, RequestInv, RequestTypes
<1>3. RequestTypes'
  BY <1>1, <1>2 DEF Answer, RequestInv, RequestTypes
<1>4. TasksStartOnce'
  BY <1>1 DEF RequestInv, TasksStartOnce
<1>5. AnswersNameTasks' /\ PendingIsRecorded'
  BY <1>1 DEF RequestInv, AnswersNameTasks, PendingIsRecorded
<1> QED
  BY <1>3, <1>4, <1>5 DEF RequestInv

LEMMA RequestFails ==
  ASSUME RequestInv, NEW r \in Requests, Fail(r),
         \A t \in Requests : row[t] # "none" => row'[t] # "none",
         \A t \in Requests : task[t] = "none" /\ t # r => task'[t] = "none"
  PROVE  RequestInv'
<1>1. [status |-> "error"].status = "error"
  OBVIOUS
<1> QED
  BY <1>1, RequestIsAnswered DEF Fail

------------------------------------------------------------------------------
(* One lemma per group of actions.                                          *)

LEMMA BeforeSponsoring ==
  ASSUME RelayInv, NEW r \in Requests, Validate(r) \/ Refuse(r) \/ Lookup(r)
  PROVE  RelayInv'
<1>1. PollInv'
  BY PollingUntouched DEF RelayInv, Validate, Refuse, Lookup, processVars
<1> SUFFICES RequestInv'
  BY <1>1 DEF RelayInv
<1>2. UNCHANGED row /\ UNCHANGED task
  BY DEF Validate, Refuse, Lookup, chainVars, tableVars
<1>3. CASE Validate(r)
  BY <1>2, <1>3, RequestGoesOn DEF RelayInv, RequestInv, TasksStartOnce, Validate, At
<1>4. CASE Refuse(r)
  BY <1>2, <1>4, RequestFails DEF RelayInv, Refuse
<1>5. CASE Lookup(r)
  <2>1. CASE Goto(r, "sponsor")
    BY <1>2, <1>5, <2>1, RequestGoesOn DEF RelayInv, RequestInv, TasksStartOnce, Lookup, At
  <2>2. ASSUME NEW q \in Recorded(r), Answer(r, Existing(q))
        PROVE  RequestInv'
    <3>1. q \in Requests /\ row[q] \in Statuses /\ row'[q] # "none"
      BY <1>2 DEF Recorded, RelayInv, PollInv, PollTypes, Statuses
    <3> QED
      BY <1>2, <2>2, <3>1, RequestIsAnswered DEF RelayInv, Existing
  <2>3. CASE Fail(r)
    BY <1>2, <2>3, RequestFails DEF RelayInv
  <2> QED
    BY <1>5, <2>1, <2>2, <2>3 DEF Lookup
<1> QED
  BY <1>3, <1>4, <1>5

LEMMA Sponsoring ==
  ASSUME RelayInv, NEW r \in Requests, Sponsor(r)
  PROVE  RelayInv'
<1>1. task[r] = "none"
  BY DEF Sponsor, At, RelayInv, RequestInv, TasksStartOnce
<1>2. UNCHANGED <<spent, row, pollVars, shuttingDown>>
  BY DEF Sponsor, processVars
<1>3. \A t \in Requests : task'[t] = task[t] \/ (t = r /\ task'[t] = "unseen")
  <2>1. task' = [task EXCEPT ![r] = "unseen"] \/ UNCHANGED task
    BY DEF Sponsor
  <2> QED
    BY <2>1 DEF RelayInv, PollInv, PollTypes
<1>4. RequestInv'
  <2>1. CASE Goto(r, "create")
    BY <1>2, <1>3, <2>1, RequestGoesOn DEF RelayInv
  <2>2. CASE Fail(r)
    BY <1>2, <1>3, <2>2, RequestFails DEF RelayInv
  <2> QED
    BY <2>1, <2>2 DEF Sponsor
<1>5. PollTypes'
  <2>1. inserting' \subseteq inserting \cup {r}
    BY DEF Sponsor
  <2>2. task' \in [Requests -> {"none", "unseen", "pending"} \cup Final]
    BY DEF Sponsor, RelayInv, PollInv, PollTypes
  <2> QED
    BY <1>2, <2>1, <2>2 DEF RelayInv, PollInv, PollTypes, pollVars
<1>6. OneRowPerKey' /\ OnlyRowsArePolled' /\ SilentAfterShutdown'
  BY <1>2 DEF RelayInv, PollInv, OneRowPerKey, OnlyRowsArePolled, SilentAfterShutdown, pollVars
<1>7. SlotsAreSpent'
  BY <1>2, <1>3 DEF RelayInv, PollInv, SlotsAreSpent
<1>8. TicksTellTheTruth' /\ RowsTellTheTruth'
  BY <1>1, <1>2, <1>3 DEF RelayInv, PollInv, TicksTellTheTruth, RowsTellTheTruth, pollVars
<1> QED
  BY <1>4, <1>5, <1>6, <1>7, <1>8 DEF RelayInv, PollInv

LEMMA Inserting ==
  ASSUME RelayInv, NEW r \in Requests, Insert(r)
  PROVE  RelayInv'
<1>1. /\ UNCHANGED <<requestVars, task, spent, timer, attempts, ticks, shuttingDown>>
      /\ inserting' \subseteq inserting
  BY DEF Insert, chainVars, pollVars, processVars
<1>2. CASE UNCHANGED row
  <2>1. RequestInv'
    BY <1>1, <1>2, RequestsUntouched DEF RelayInv
  <2>2. PollInv'
    BY <1>1, <1>2 DEF RelayInv, PollInv, PollTypes, OneRowPerKey, OnlyRowsArePolled,
       SilentAfterShutdown, SlotsAreSpent, TicksTellTheTruth, RowsTellTheTruth
  <2> QED
    BY <2>1, <2>2 DEF RelayInv
<1>3. CASE Recorded(r) = {} /\ row' = [row EXCEPT ![r] = "PENDING"]
  <2>1. /\ \A t \in Requests : row'[t] = IF t = r THEN "PENDING" ELSE row[t]
        /\ row' \in [Requests -> {"none"} \cup Statuses]
    BY <1>3 DEF RelayInv, PollInv, PollTypes, Statuses
  <2>2. \A t \in Requests : row[t] # "none" => KeyOf[t] # KeyOf[r]
    BY <1>3 DEF Recorded, SameKey
  <2>3. RequestInv'
    BY <1>1, <2>1, RequestsUntouched DEF RelayInv
  <2>4. PollTypes' /\ OneRowPerKey'
    BY <1>1, <2>1, <2>2 DEF RelayInv, PollInv, PollTypes, OneRowPerKey
  <2>5. OnlyRowsArePolled' /\ SilentAfterShutdown'
    BY <1>1, <2>1 DEF RelayInv, PollInv, PollTypes, OnlyRowsArePolled, SilentAfterShutdown
  <2>6. SlotsAreSpent' /\ TicksTellTheTruth' /\ RowsTellTheTruth'
    BY <1>1, <2>1 DEF RelayInv, PollInv, SlotsAreSpent, TicksTellTheTruth, RowsTellTheTruth
  <2> QED
    BY <2>3, <2>4, <2>5, <2>6 DEF RelayInv, PollInv
<1> QED
  BY <1>2, <1>3 DEF Insert

LEMMA Creating ==
  ASSUME RelayInv, NEW r \in Requests, Create(r)
  PROVE  RelayInv'
<1>1. UNCHANGED <<task, spent, row, inserting, attempts, ticks, shuttingDown>>
  BY DEF Create, chainVars, tableVars, processVars
<1>2. CASE Answer(r, AnswerRejected(r)) /\ UNCHANGED timer
  <2>1. PollInv'
    BY <1>1, <1>2, PollingUntouched DEF RelayInv, chainVars, tableVars, pollVars
  <2>2. RequestInv'
    BY <1>1, <1>2, RequestFails DEF RelayInv, AnswerRejected, Fail
  <2> QED
    BY <2>1, <2>2 DEF RelayInv
<1>3. CASE /\ row[r] # "none" /\ PollForCompletion(r)
           /\ Answer(r, [status |-> "PENDING", task |-> r])
  <2>1. timer' \subseteq timer \cup {r} /\ (shuttingDown => timer' = timer)
    BY <1>3 DEF PollForCompletion
  <2>2. RequestInv'
    BY <1>1, <1>3, RequestIsAnswered DEF RelayInv, Statuses
  <2>3. PollTypes' /\ OneRowPerKey'
    BY <1>1, <2>1 DEF RelayInv, PollInv, PollTypes, OneRowPerKey
  <2>4. OnlyRowsArePolled' /\ SilentAfterShutdown'
    BY <1>1, <1>3, <2>1 DEF RelayInv, PollInv, PollTypes, OnlyRowsArePolled, SilentAfterShutdown
  <2>5. SlotsAreSpent' /\ TicksTellTheTruth' /\ RowsTellTheTruth'
    BY <1>1 DEF RelayInv, PollInv, SlotsAreSpent, TicksTellTheTruth, RowsTellTheTruth
  <2> QED
    BY <2>2, <2>3, <2>4, <2>5 DEF RelayInv, PollInv
<1> QED
  BY <1>2, <1>3 DEF Create

\* Attempts never pass the ceiling: MAX_POLLING_DURATION comes first.
LEMMA NeverPastCeiling ==
  ASSUME RelayInv, NEW t \in Requests
  PROVE  ~PastCeiling(t)
BY RelayAssumption DEF RelayInv, PollInv, PollTypes, PastCeiling

LEMMA Polling ==
  ASSUME RelayInv, NEW t \in Requests,
         \/ Tick(t) \/ Safety(t)
         \/ \E n \in 1 .. Periods : Hear(t, n) \/ Write(t, n) \/ Clear(t, n) \/ TickError(t, n)
  PROVE  RelayInv'
<1>1. UNCHANGED <<requestVars, task, spent, inserting, shuttingDown>>
  BY DEF Tick, Safety, Hear, Write, Clear, TickError, chainVars, tableVars, processVars
<1>2. timer' \subseteq timer
  BY DEF Tick, Safety, Stop, Hear, Write, Clear, TickError
<1>3. PollInv /\ PollTypes
  BY DEF RelayInv, PollInv
<1>4. attempts' \in [Requests -> 0 .. Periods]
  <2>1. CASE Tick(t)
    BY <1>3, <2>1, RelayAssumption DEF Tick, PollTypes
  <2>2. CASE ~Tick(t)
    BY <1>3, <2>2 DEF PollTypes, Safety, Hear, Write, Clear, TickError
  <2> QED
    BY <2>1, <2>2
<1>5. /\ ticks' \in [Requests -> [1 .. Periods -> TickStates]]
      /\ \A q \in Requests, n \in 1 .. Periods :
           \/ ticks'[q][n] = ticks[q][n]
           \/ ticks'[q][n] = "idle"
           \/ ticks'[q][n] = "written" /\ ticks[q][n] # "idle"
           \/ q = t /\ ticks'[q][n] = "asking" /\ row[t] # "none"
           \/ q = t /\ ticks[q][n] = "asking" /\ ticks'[q][n] = Verdict(t)
  <2>1. CASE Tick(t)
    <3>1. attempts[t] + 1 \in 1 .. Periods /\ row[t] # "none"
      BY <1>3, <2>1, RelayAssumption DEF Tick, PollTypes, PollInv, OnlyRowsArePolled
    <3> QED
      BY <1>3, <2>1, <3>1 DEF Tick, SetTick, PollTypes, TickStates
  <2>2. CASE Safety(t)
    BY <1>3, <2>2 DEF Safety, PollTypes
  <2>3. ASSUME NEW n \in 1 .. Periods, Hear(t, n)
        PROVE  <1>5!:
    BY <1>3, <2>3 DEF Hear, SetTick, Verdict, PollTypes, TickStates
  <2>4. ASSUME NEW n \in 1 .. Periods, Clear(t, n) \/ TickError(t, n)
        PROVE  <1>5!:
    <3>1. ticks' = [ticks EXCEPT ![t][n] = "idle"]
      BY <2>4 DEF Clear, TickError, SetTick
    <3> QED
      BY <1>3, <3>1 DEF PollTypes, TickStates
  <2>5. ASSUME NEW n \in 1 .. Periods, Write(t, n)
        PROVE  <1>5!:
    <3>1. ticks' = [ticks EXCEPT ![t][n] = "written"] /\ ticks[t][n] # "idle"
      BY <2>5 DEF Write, SetTick
    <3> QED
      BY <1>3, <3>1 DEF PollTypes, TickStates
  <2> QED
    BY <2>1, <2>2, <2>3, <2>4, <2>5
<1>6. \/ UNCHANGED row
      \/ \E n \in 1 .. Periods :
           /\ ticks[t][n] \in {"EXECUTED", "FAILED"} /\ row' = [row EXCEPT ![t] = ticks[t][n]]
  BY DEF Tick, Safety, Hear, Write, Clear, TickError, tableVars
<1>7. \A q \in Requests :
        \/ row'[q] = row[q]
        \/ /\ row[q] # "none" /\ row'[q] \in {"EXECUTED", "FAILED"}
           /\ row'[q] = "EXECUTED" => task[q] = "ExecSuccess"
           /\ row'[q] = "FAILED" => task[q] = "ExecReverted"
  BY <1>3, <1>6 DEF PollTypes, PollInv, OnlyRowsArePolled, TicksTellTheTruth
<1>8. row' \in [Requests -> {"none"} \cup Statuses]
  BY <1>3, <1>6 DEF PollTypes, Statuses
<1>9. RequestInv'
  BY <1>1, <1>7, RequestsUntouched DEF RelayInv
<1>10. PollTypes'
  BY <1>1, <1>2, <1>3, <1>4, <1>5, <1>8 DEF PollTypes
<1>11. OneRowPerKey' /\ SilentAfterShutdown'
  BY <1>1, <1>2, <1>3, <1>7 DEF PollInv, OneRowPerKey, SilentAfterShutdown
<1>12. OnlyRowsArePolled'
  <2>1. \A q \in Requests : row[q] # "none" => row'[q] # "none"
    BY <1>7
  <2>2. \A q \in Requests, n \in 1 .. Periods : ticks'[q][n] # "idle" => row[q] # "none"
    <3>1. \A q \in Requests, n \in 1 .. Periods : ticks[q][n] # "idle" => row[q] # "none"
      BY <1>3 DEF PollInv, OnlyRowsArePolled
    <3>2. "asking" # "idle"
      OBVIOUS
    <3> QED
      BY <1>5, <3>1, <3>2
  <2> QED
    BY <1>2, <1>3, <2>1, <2>2 DEF PollInv, PollTypes, OnlyRowsArePolled
<1>13. TicksTellTheTruth'
  <2>1. Verdict(t) = "EXECUTED" => task[t] = "ExecSuccess"
    BY DEF Verdict
  <2>2. Verdict(t) = "FAILED" => task[t] = "ExecReverted"
    BY NeverPastCeiling DEF Verdict
  <2> QED
    BY <1>1, <1>3, <1>5, <2>1, <2>2 DEF PollInv, TicksTellTheTruth
<1>14. SlotsAreSpent' /\ RowsTellTheTruth'
  BY <1>1, <1>3, <1>7 DEF PollInv, SlotsAreSpent, RowsTellTheTruth
<1> QED
  BY <1>9, <1>10, <1>11, <1>12, <1>13, <1>14 DEF RelayInv, PollInv

LEMMA OnChain ==
  ASSUME RelayInv, NEW t \in Requests, Notice(t) \/ Succeed(t) \/ Drop(t)
  PROVE  RelayInv'
<1>1. UNCHANGED <<requestVars, row, inserting, pollVars, shuttingDown>>
  BY DEF Notice, Succeed, Drop, tableVars, processVars
<1>2. PollInv /\ PollTypes
  BY DEF RelayInv, PollInv
<1>3. /\ \A q \in Requests : task'[q] = task[q] \/ q = t
      /\ task[t] \in {"unseen", "pending"}
      /\ task'[t] \in {"pending"} \cup Final
      /\ task' \in [Requests -> {"none", "unseen", "pending"} \cup Final]
  BY <1>2 DEF Notice, Succeed, Drop, Gelato, PollTypes, Final
<1>4. \/ task'[t] # "ExecSuccess" /\ spent' = spent
      \/ SlotOf[t] \notin spent /\ spent' = spent \cup {SlotOf[t]}
  BY <1>2 DEF Notice, Succeed, Drop, Gelato, NonceUnused, PollTypes
<1>5. RequestInv'
  BY <1>1, <1>3, RequestsUntouched DEF RelayInv, Final
<1>6. PollTypes' /\ OneRowPerKey' /\ OnlyRowsArePolled' /\ SilentAfterShutdown'
  BY <1>1, <1>2, <1>3 DEF PollInv, PollTypes, OneRowPerKey, OnlyRowsArePolled,
     SilentAfterShutdown, pollVars
<1>7. SlotsAreSpent'
  BY <1>2, <1>3, <1>4 DEF PollInv, SlotsAreSpent
<1>8. TicksTellTheTruth' /\ RowsTellTheTruth'
  BY <1>1, <1>2, <1>3 DEF PollInv, TicksTellTheTruth, RowsTellTheTruth, pollVars
<1> QED
  BY <1>5, <1>6, <1>7, <1>8 DEF RelayInv, PollInv

LEMMA Process ==
  ASSUME RelayInv, Shutdown \/ Exit \/ Restart
  PROVE  RelayInv'
<1>1. UNCHANGED <<task, spent, row, inserting, attempts>>
  BY DEF Shutdown, Exit, Restart, chainVars, tableVars, pollVars
<1>2. PollInv /\ PollTypes
  BY DEF RelayInv, PollInv
<1>3. timer' \subseteq timer /\ (timer' = {} \/ shuttingDown' = shuttingDown)
  BY DEF Shutdown, Exit, Restart, pollVars
<1>4. /\ ticks' \in [Requests -> [1 .. Periods -> TickStates]]
      /\ \A q \in Requests, n \in 1 .. Periods : ticks'[q][n] \in {"idle", ticks[q][n]}
  <2>1. CASE Exit
    BY <2>1 DEF Exit, TickStates
  <2>2. CASE ~Exit
    BY <1>2, <2>2 DEF Shutdown, Restart, pollVars, PollTypes
  <2> QED
    BY <2>1, <2>2
<1>5. PollInv'
  BY <1>1, <1>2, <1>3, <1>4 DEF PollInv, PollTypes, OneRowPerKey, OnlyRowsArePolled,
     SilentAfterShutdown, SlotsAreSpent, TicksTellTheTruth, RowsTellTheTruth
<1>6. CASE Exit
  <2>1. \A q \in Requests : \/ pc'[q] = pc[q] /\ answer'[q] = answer[q]
                            \/ pc'[q] = "done" /\ answer'[q] = [status |-> "error"]
    BY <1>6 DEF Exit, RelayInv, RequestInv, RequestTypes
  <2>2. [status |-> "error"].status = "error"
    OBVIOUS
  <2>3. /\ pc' \in [Requests -> {"new", "lookup", "sponsor", "create", "done"}]
        /\ DOMAIN answer' = Requests /\ answer' = [r \in Requests |-> answer'[r]]
    BY <1>6 DEF Exit, RelayInv, RequestInv, RequestTypes
  <2>4. RequestTypes' /\ TasksStartOnce'
    BY <1>1, <2>1, <2>2, <2>3 DEF RelayInv, RequestInv, RequestTypes, TasksStartOnce
  <2>5. AnswersNameTasks' /\ PendingIsRecorded'
    BY <1>1, <2>1, <2>2 DEF RelayInv, RequestInv, AnswersNameTasks, PendingIsRecorded
  <2> QED
    BY <1>5, <2>4, <2>5 DEF RelayInv, RequestInv
<1>7. CASE ~Exit
  BY <1>1, <1>5, <1>7, RequestsUntouched DEF RelayInv, Shutdown, Restart
<1> QED
  BY <1>6, <1>7

------------------------------------------------------------------------------
\* The inductive invariant of the relayer.
THEOREM RelayCorrect == Spec => []RelayInv
<1>1. ASSUME RelayInv, [Next]_vars PROVE RelayInv'
  <2>1. CASE UNCHANGED vars
    BY <1>1, <2>1, PollingUntouched, RequestsUntouched
    DEF vars, RelayInv, chainVars, tableVars, processVars
  <2>2. CASE Next
    BY <1>1, <2>2, BeforeSponsoring, Sponsoring, Inserting, Creating, Polling, OnChain, Process DEF Next
  <2> QED
    BY <1>1, <2>1, <2>2
<1> QED
  BY RelayInit, <1>1, PTL DEF Spec

\* Types, and the unique key: two tasks of one key never both have a row.
THEOREM RelayTypesHold == Spec => []RelayTypeOK
<1>1. RelayInv => RelayTypeOK
  BY DEF RelayInv, RequestInv, RequestTypes, PollInv, PollTypes, OneRowPerKey, RelayTypeOK
<1> QED
  BY <1>1, RelayCorrect, PTL

\* A row never says EXECUTED or FAILED of a task that ended otherwise; what became of
\* the bet under other tasks of its key it does not say.
THEOREM RowsAreTrue == Spec => []RowsTellTheTruth
<1>1. RelayInv => RowsTellTheTruth
  BY DEF RelayInv, PollInv
<1> QED
  BY <1>1, RelayCorrect, PTL

\* A caller told PENDING finds the row of that task, after any crash.
THEOREM PendingStaysRecorded == Spec => []PendingIsRecorded
<1>1. RelayInv => PendingIsRecorded
  BY DEF RelayInv, RequestInv
<1> QED
  BY <1>1, RelayCorrect, PTL

\* No timer is armed after shutdown.
THEOREM ShutdownIsSilent == Spec => []SilentAfterShutdown
<1>1. RelayInv => SilentAfterShutdown
  BY DEF RelayInv, PollInv
<1> QED
  BY <1>1, RelayCorrect, PTL

------------------------------------------------------------------------------
(* The relayer implements GaslessBets.                                      *)

\* A request is answered when it is done, and its insert is sent when it is paid.
InStages ==
  \A r \in Requests :
    /\ pc[r] # "done" => answer[r] = NoAnswer
    /\ r \in inserting => task[r] # "none"

Followed(t) == answer[t] = [status |-> "PENDING", task |-> t]

\* What becomes of a task is asked, and its row confirmed, once its caller was told.
FollowedRows ==
  \A t \in Requests :
    /\ t \in timer => Followed(t)
    /\ \A n \in 1 .. Periods : ticks[t][n] # "idle" => Followed(t)
    /\ row[t] \notin {"none", "PENDING"} => Followed(t)

\* Whatever becomes of the other requests.
LEMMA StagesKept ==
  ASSUME InStages, RelayInv, UNCHANGED requestVars, inserting' \subseteq inserting,
         \A t \in Requests : task[t] # "none" => task'[t] # "none"
  PROVE  InStages'
BY DEF InStages, requestVars

LEMMA StagesGoOn ==
  ASSUME InStages, RelayInv, NEW r \in Requests, NEW p, Goto(r, p), pc[r] # "done",
         inserting' = inserting \/ (inserting' = inserting \cup {r} /\ task'[r] # "none"),
         \A t \in Requests : task[t] # "none" => task'[t] # "none"
  PROVE  InStages'
BY DEF InStages, RelayInv, RequestInv, RequestTypes, Goto

LEMMA StagesEnd ==
  ASSUME InStages, RelayInv, NEW r \in Requests, NEW a, Answer(r, a),
         inserting' = inserting,
         \A t \in Requests : task[t] # "none" => task'[t] # "none"
  PROVE  InStages'
BY DEF InStages, RelayInv, RequestInv, RequestTypes, Answer

LEMMA TasksStay ==
  ASSUME RelayInv, Next
  PROVE  \A t \in Requests : task[t] # "none" => task'[t] # "none"
<1>1. task \in [Requests -> {"none", "unseen", "pending"} \cup Final]
  BY DEF RelayInv, PollInv, PollTypes
<1>2. ASSUME NEW r \in Requests, Sponsor(r) \/ Notice(r) \/ Succeed(r) \/ Drop(r)
      PROVE  \/ UNCHANGED task
             \/ \E s \in {"unseen", "pending"} \cup Final : task' = [task EXCEPT ![r] = s]
  BY <1>2 DEF Sponsor, Notice, Succeed, Drop, Gelato, Final
<1>3. CASE UNCHANGED task
  BY <1>3
<1>4. ASSUME NEW r \in Requests, NEW s \in {"unseen", "pending"} \cup Final,
             task' = [task EXCEPT ![r] = s]
      PROVE  \A t \in Requests : task[t] # "none" => task'[t] # "none"
  BY <1>1, <1>4 DEF Final
<1>5. \/ UNCHANGED task
      \/ \E r \in Requests : Sponsor(r) \/ Notice(r) \/ Succeed(r) \/ Drop(r)
  BY DEF Next, chainVars, Validate, Refuse, Lookup, Insert, Create, Tick, Safety, Hear, Write,
     Clear, TickError, Shutdown, Exit, Restart
<1> QED
  BY <1>2, <1>3, <1>4, <1>5

LEMMA StagesStep ==
  ASSUME InStages, RelayInv, [Next]_vars
  PROVE  InStages'
<1>1. CASE UNCHANGED vars
  BY <1>1, StagesKept DEF vars, chainVars, tableVars
<1>2. CASE Next
  <2>1. \A t \in Requests : task[t] # "none" => task'[t] # "none"
    BY <1>2, TasksStay
  <2>2. ASSUME NEW r \in Requests, Validate(r) \/ Refuse(r) \/ Lookup(r) PROVE InStages'
    <3>1. /\ Goto(r, "lookup") \/ Goto(r, "sponsor") \/ \E a : Answer(r, a)
          /\ UNCHANGED inserting
      BY <2>2 DEF Validate, Refuse, Lookup, Fail, tableVars
    <3>2. Goto(r, "lookup") \/ Goto(r, "sponsor") => pc[r] # "done"
      BY <2>2 DEF Validate, Refuse, Lookup, At, Fail, Answer, Goto, RelayInv, RequestInv,
         RequestTypes
    <3> QED
      BY <2>1, <3>1, <3>2, StagesGoOn, StagesEnd
  <2>3. ASSUME NEW r \in Requests, Sponsor(r) PROVE InStages'
    <3>1. CASE /\ Goto(r, "create") /\ task' = [task EXCEPT ![r] = "unseen"]
               /\ inserting' = inserting \cup {r}
      <4>1. pc[r] # "done" /\ task'[r] # "none"
        BY <2>3, <3>1 DEF Sponsor, At, RelayInv, PollInv, PollTypes
      <4> QED
        BY <2>1, <3>1, <4>1, StagesGoOn
    <3>2. CASE Fail(r) /\ UNCHANGED inserting
      BY <2>1, <3>2, StagesEnd DEF Fail
    <3> QED
      BY <2>3, <3>1, <3>2 DEF Sponsor
  <2>4. ASSUME NEW r \in Requests, Create(r) PROVE InStages'
    BY <2>1, <2>4, StagesEnd DEF Create, tableVars
  <2>5. CASE Exit
    BY <2>1, <2>5 DEF Exit, tableVars, InStages, RelayInv, RequestInv, RequestTypes
  <2>6. CASE UNCHANGED requestVars /\ inserting' \subseteq inserting
    BY <2>1, <2>6, StagesKept
  <2> QED
    BY <1>2, <2>2, <2>3, <2>4, <2>5, <2>6
    DEF Next, Insert, Tick, Safety, Hear, Write, Clear, TickError, Notice, Succeed, Drop,
        Shutdown, Restart, tableVars
<1> QED
  BY <1>1, <1>2

THEOREM RequestsStaged == Spec => []InStages
<1>1. Init => InStages
  BY DEF Init, InStages
<1> QED
  BY <1>1, StagesStep, RelayCorrect, PTL DEF Spec

\* An answer stands, and is given before anything is asked or confirmed.
LEMMA FollowedKept ==
  ASSUME FollowedRows, InStages, RelayInv, NEW r \in Requests,
         UNCHANGED <<row, ticks>>,
         timer' \subseteq timer \cup {r}, r \in timer' \ timer => Followed(r)',
         pc[r] # "done",
         \A t \in Requests : t # r => answer'[t] = answer[t]
  PROVE  FollowedRows'
<1>1. ~Followed(r)
  <2>1. NoAnswer # [status |-> "PENDING", task |-> r]
    BY DEF NoAnswer
  <2> QED
    BY <2>1 DEF Followed, InStages
<1>2. \A t \in Requests : Followed(t) => Followed(t)'
  BY <1>1 DEF Followed
<1> QED
  BY <1>2 DEF FollowedRows

LEMMA FollowedStep ==
  ASSUME FollowedRows, InStages, RelayInv, [Next]_vars
  PROVE  FollowedRows'
<1>1. ASSUME NEW r \in Requests,
             Validate(r) \/ Refuse(r) \/ Lookup(r) \/ Sponsor(r) \/ Create(r)
      PROVE  FollowedRows'
  <2>1. UNCHANGED <<row, ticks>> /\ pc[r] # "done"
    BY <1>1 DEF Validate, Refuse, Lookup, Sponsor, Create, At, tableVars, pollVars
  <2>2. \A t \in Requests : t # r => answer'[t] = answer[t]
    BY <1>1 DEF Validate, Refuse, Lookup, Sponsor, Create, Goto, Fail, Answer, RelayInv,
       RequestInv, RequestTypes
  <2>3. timer' \subseteq timer \cup {r} /\ (r \in timer' \ timer => Followed(r)')
    <3>1. CASE Create(r)
      BY <3>1 DEF Create, PollForCompletion, Answer, Followed, RelayInv, RequestInv, RequestTypes
    <3>2. CASE ~Create(r)
      BY <1>1, <3>2 DEF Validate, Refuse, Lookup, Sponsor, pollVars
    <3> QED
      BY <3>1, <3>2
  <2> QED
    BY <2>1, <2>2, <2>3, FollowedKept
<1>2. ASSUME NEW t \in Requests, Insert(t)
      PROVE  FollowedRows'
  BY <1>2 DEF Insert, requestVars, pollVars, FollowedRows, Followed, RelayInv, PollInv, PollTypes
<1>3. ASSUME NEW t \in Requests,
             \/ Tick(t) \/ Safety(t)
             \/ \E n \in 1 .. Periods : Hear(t, n) \/ Write(t, n) \/ Clear(t, n) \/ TickError(t, n)
      PROVE  FollowedRows'
  <2>1. UNCHANGED answer /\ timer' \subseteq timer
    BY <1>3 DEF Tick, Safety, Stop, Hear, Write, Clear, TickError, requestVars
  <2>2. \A q \in Requests : Followed(q)' <=> Followed(q)
    BY <2>1 DEF Followed
  <2>3. t \in timer \/ \E n \in 1 .. Periods : ticks[t][n] # "idle"
    BY <1>3 DEF Tick, Safety, Hear, Write, Clear, TickError
  <2>4. Followed(t)
    BY <2>3 DEF FollowedRows
  <2>5. \A q \in Requests : q # t => ticks'[q] = ticks[q] /\ row'[q] = row[q]
    BY <1>3 DEF Tick, Safety, Hear, Write, Clear, TickError, SetTick, tableVars, RelayInv,
       PollInv, PollTypes
  <2> QED
    BY <2>1, <2>2, <2>4, <2>5 DEF FollowedRows
<1>4. ASSUME NEW t \in Requests, Notice(t) \/ Succeed(t) \/ Drop(t)
      PROVE  FollowedRows'
  BY <1>4 DEF Notice, Succeed, Drop, requestVars, tableVars, pollVars, FollowedRows, Followed
<1>5. CASE Exit
  <2>1. \A t \in Requests : Followed(t) => Followed(t)'
    <3>1. ASSUME NEW t \in Requests, Followed(t) PROVE Followed(t)'
      <4>1. NoAnswer # [status |-> "PENDING", task |-> t]
        BY DEF NoAnswer
      <4>2. pc[t] = "done"
        BY <3>1, <4>1 DEF InStages, Followed
      <4> QED
        BY <1>5, <3>1, <4>2 DEF Exit, Followed
    <3> QED
      BY <3>1
  <2> QED
    BY <1>5, <2>1 DEF Exit, tableVars, FollowedRows
<1>6. CASE Shutdown \/ Restart \/ UNCHANGED vars
  BY <1>6 DEF Shutdown, Restart, vars, requestVars, tableVars, pollVars, FollowedRows, Followed
<1> QED
  BY <1>1, <1>2, <1>3, <1>4, <1>5, <1>6 DEF Next

\* submit arms a timer only where it goes on to answer its caller: whatever is polled, is
\* about to be written or is final in the table, its own caller was told PENDING.
THEOREM OnlyTheToldAreFollowed == Spec => []FollowedRows
<1>1. Init => FollowedRows
  BY DEF Init, FollowedRows
<1> QED
  BY <1>1, FollowedStep, RelayCorrect, RequestsStaged, PTL DEF Spec

\* What a step does not touch of what others see.
LEMMA FateKept == UNCHANGED task => UNCHANGED Fate
BY DEF Fate

\* A call opens or ends: the one entry of Fate that moves.
LEMMA FateMoves ==
  ASSUME RelayInv, NEW r \in Requests, NEW s \in {"unseen", "pending"} \cup Final,
         task' = [task EXCEPT ![r] = s]
  PROVE  Fate' = [Fate EXCEPT ![r] = IF s \in {"unseen", "pending"} THEN "open" ELSE s]
BY DEF RelayInv, PollInv, PollTypes, Fate

\* A request that is refused, or fails, is told of an error.
LEMMA FailingGivesUp ==
  ASSUME RelayInv, InStages, NEW r \in Requests, Fail(r), pc[r] # "done", UNCHANGED <<task, row>>
  PROVE  Promise!GiveUp({r})
<1>1. answer[r] = Promise!Silence
  BY DEF InStages, NoAnswer, Promise!Silence
<1>2. answer' = [q \in Requests |-> IF q \in {r} /\ answer[q] = Promise!Silence
                                    THEN Promise!Error ELSE answer[q]]
  BY <1>1 DEF Fail, Answer, Promise!Error, RelayInv, RequestInv, RequestTypes
<1> QED
  BY <1>2, FateKept DEF Promise!GiveUp

\* The keys a request finds recorded are those GaslessBets knows.
LEMMA RecordedIsKnown ==
  ASSUME NEW r \in Requests PROVE Recorded(r) = Promise!Known(r)
BY DEF Recorded, SameKey, Promise!Known

LEMMA SubmitImplements ==
  ASSUME RelayInv, InStages, NEW r \in Requests,
         FollowedRows,
         Validate(r) \/ Refuse(r) \/ Lookup(r) \/ Sponsor(r) \/ Create(r)
  PROVE  \/ Promise!Pay(r) \/ Promise!Report(r)
         \/ Promise!GiveUp({r}) \/ UNCHANGED Promise!vars
<1>1. pc[r] # "done" /\ answer[r] = Promise!Silence
  BY DEF Validate, Refuse, Lookup, Sponsor, Create, At, InStages, NoAnswer, Promise!Silence
<1>2. CASE Validate(r)
  BY <1>2, FateKept DEF Validate, Goto, chainVars, tableVars, Promise!vars
<1>3. CASE Refuse(r)
  BY <1>1, <1>3, FailingGivesUp DEF Refuse, chainVars, tableVars
<1>4. CASE Lookup(r)
  <2>1. CASE Goto(r, "sponsor")
    BY <1>4, <2>1, FateKept DEF Lookup, Goto, chainVars, tableVars, Promise!vars
  <2>2. ASSUME NEW q \in Recorded(r), Answer(r, Existing(q)) PROVE Promise!Report(r)
    BY <1>1, <1>4, <2>2, FateKept, RecordedIsKnown
    DEF Lookup, Answer, Existing, chainVars, tableVars, Promise!Report, Promise!Tell
  <2>3. CASE Fail(r)
    BY <1>1, <1>4, <2>3, FailingGivesUp DEF Lookup, chainVars, tableVars
  <2> QED
    BY <1>4, <2>1, <2>2, <2>3 DEF Lookup
<1>5. CASE Sponsor(r)
  <2>1. CASE task' = [task EXCEPT ![r] = "unseen"]
    <3>1. Fate[r] = "none"
      BY <1>5 DEF Sponsor, At, Fate, RelayInv, RequestInv, TasksStartOnce
    <3>2. Fate' = [Fate EXCEPT ![r] = "open"]
      BY <2>1, FateMoves
    <3>3. Promise!Tell(r, Promise!Error) \/ UNCHANGED answer
      BY <1>1, <1>5 DEF Sponsor, Goto, Fail, Answer, Promise!Tell, Promise!Error
    <3> QED
      BY <1>1, <1>5, <3>1, <3>2, <3>3 DEF Sponsor, Promise!Pay
  <2>2. CASE UNCHANGED task /\ Fail(r)
    BY <1>1, <1>5, <2>2, FailingGivesUp DEF Sponsor
  <2> QED
    BY <1>5, <2>1, <2>2 DEF Sponsor
<1>6. CASE Create(r)
  <2>1. CASE Answer(r, AnswerRejected(r))
    BY <1>1, <1>6, <2>1, FailingGivesUp DEF Create, Fail, AnswerRejected, chainVars, tableVars
  <2>2. CASE row[r] # "none" /\ Answer(r, [status |-> "PENDING", task |-> r])
    <3>1. row[r] = "PENDING"
      <4>1. answer[r] # [status |-> "PENDING", task |-> r]
        BY <1>1 DEF Promise!Silence
      <4> QED
        BY <2>2, <4>1 DEF FollowedRows, Followed
    <3>2. r \in Promise!Known(r)
      BY <2>2 DEF Promise!Known
    <3>3. Promise!Tell(r, [status |-> row[r], task |-> r])
      BY <1>1, <2>2, <3>1 DEF Answer, Promise!Tell
    <3> QED
      BY <1>6, <3>2, <3>3, FateKept DEF Create, chainVars, tableVars, Promise!Report
  <2> QED
    BY <1>6, <2>1, <2>2 DEF Create
<1> QED
  BY <1>2, <1>3, <1>4, <1>5, <1>6

\* A row that is inserted is the first of its key, of a call that was paid.
LEMMA InsertImplements ==
  ASSUME RelayInv, InStages, NEW r \in Requests, Insert(r)
  PROVE  Promise!Record(r) \/ UNCHANGED Promise!vars
<1>1. UNCHANGED <<answer, Fate>> /\ Fate[r] # "none"
  BY FateKept DEF Insert, requestVars, chainVars, InStages, Fate
<1>2. CASE UNCHANGED row
  BY <1>1, <1>2 DEF Promise!vars
<1>3. CASE Recorded(r) = {} /\ row' = [row EXCEPT ![r] = "PENDING"]
  BY <1>1, <1>3, RecordedIsKnown DEF Promise!Record
<1> QED
  BY <1>2, <1>3 DEF Insert

\* A tick writes what happened to a record that said PENDING, or what it said already.
LEMMA PollingImplements ==
  ASSUME RelayInv, FollowedRows, NEW t \in Requests,
         \/ Tick(t) \/ Safety(t)
         \/ \E n \in 1 .. Periods : Hear(t, n) \/ Write(t, n) \/ Clear(t, n) \/ TickError(t, n)
  PROVE  Promise!Confirm(t) \/ UNCHANGED Promise!vars
<1>1. UNCHANGED <<task, answer>>
  BY DEF Tick, Safety, Hear, Write, Clear, TickError, requestVars, chainVars
<1>2. CASE UNCHANGED row
  BY <1>1, <1>2, FateKept DEF Promise!vars
<1>3. ASSUME NEW n \in 1 .. Periods, Write(t, n)
      PROVE  Promise!Confirm(t) \/ UNCHANGED row
  <2>1. /\ ticks[t][n] \in {"EXECUTED", "FAILED"} /\ row' = [row EXCEPT ![t] = ticks[t][n]]
        /\ ticks[t][n] = "EXECUTED" => task[t] = "ExecSuccess"
        /\ ticks[t][n] = "FAILED"   => task[t] = "ExecReverted"
    BY <1>3 DEF Write, RelayInv, PollInv, TicksTellTheTruth
  <2>2. row[t] \in {"PENDING", ticks[t][n]}
    BY <2>1 DEF RelayInv, PollInv, PollTypes, OnlyRowsArePolled, RowsTellTheTruth, Statuses
  <2>3. CASE row[t] = ticks[t][n]
    BY <2>1, <2>3 DEF RelayInv, PollInv, PollTypes
  <2>4. CASE row[t] = "PENDING"
    <3>1. Fate[t] = task[t] /\ UNCHANGED Fate
      BY <1>1, <2>1, FateKept DEF Fate
    <3>2. answer[t] = [status |-> "PENDING", task |-> t]
      BY <2>1 DEF FollowedRows, Followed
    <3> QED
      BY <1>1, <2>1, <2>4, <3>1, <3>2 DEF Promise!Confirm
  <2> QED
    BY <2>2, <2>3, <2>4
<1> QED
  BY <1>2, <1>3 DEF Tick, Safety, Hear, Clear, TickError, tableVars

\* Gelato and the market: the nonce is free as long as no call that used it succeeded.
LEMMA ChainImplements ==
  ASSUME RelayInv, NEW t \in Requests, Notice(t) \/ Succeed(t) \/ Drop(t)
  PROVE  Promise!Settle(t) \/ UNCHANGED Promise!vars
<1>1. UNCHANGED <<row, answer>> /\ task[t] \in {"unseen", "pending"} /\ Fate[t] = "open"
  BY DEF Notice, Succeed, Drop, Gelato, requestVars, tableVars, Fate
<1>2. CASE task' = [task EXCEPT ![t] = "pending"]
  <2>1. Fate' = [Fate EXCEPT ![t] = "open"]
    BY <1>2, FateMoves
  <2>2. UNCHANGED Fate
    BY <1>1, <2>1 DEF Fate
  <2> QED
    BY <1>1, <2>2 DEF Promise!vars
<1>3. CASE Succeed(t)
  <2>1. Fate' = [Fate EXCEPT ![t] = "ExecSuccess"]
    BY <1>3, FateMoves DEF Succeed, Gelato, Final
  <2>2. \A q \in Requests : Fate[q] = "ExecSuccess" => SlotOf[q] # SlotOf[t]
    BY <1>3 DEF Succeed, NonceUnused, RelayInv, PollInv, SlotsAreSpent, Fate
  <2> QED
    BY <1>1, <2>1, <2>2 DEF Promise!Settle
<1>4. ASSUME NEW s \in {"ExecReverted", "Cancelled"}, task' = [task EXCEPT ![t] = s]
      PROVE  Promise!Settle(t)
  <2>1. Fate' = [Fate EXCEPT ![t] = s]
    BY <1>4, FateMoves DEF Final
  <2> QED
    BY <1>1, <2>1 DEF Promise!Settle
<1> QED
  BY <1>2, <1>3, <1>4 DEF Notice, Drop, Gelato

\* The process may take every request in flight with it.
LEMMA ProcessImplements ==
  ASSUME RelayInv, InStages, Shutdown \/ Exit \/ Restart
  PROVE  \/ \E S \in SUBSET Requests : Promise!GiveUp(S)
         \/ UNCHANGED Promise!vars
<1>1. UNCHANGED <<row, Fate>>
  BY FateKept DEF Shutdown, Exit, Restart, chainVars, tableVars
<1>2. CASE Exit
  <2> DEFINE S == {r \in Requests : pc[r] \notin {"new", "done"}}
  <2>1. \A r \in S : answer[r] = Promise!Silence
    BY DEF InStages, NoAnswer, Promise!Silence
  <2>2. answer' = [r \in Requests |-> IF r \in S /\ answer[r] = Promise!Silence
                                      THEN Promise!Error ELSE answer[r]]
    BY <1>2, <2>1 DEF Exit, Promise!Error
  <2> QED
    BY <1>1, <2>2 DEF Promise!GiveUp
<1>3. CASE ~Exit
  BY <1>1, <1>3 DEF Shutdown, Restart, requestVars, Promise!vars
<1> QED
  BY <1>2, <1>3

LEMMA StepImplements ==
  ASSUME RelayInv, InStages, FollowedRows, [Next]_vars
  PROVE  [Promise!Next]_(Promise!vars)
<1>1. CASE UNCHANGED vars
  BY <1>1, FateKept DEF vars, requestVars, chainVars, tableVars, Promise!vars
<1>2. CASE Next
  <2>1. ASSUME NEW r \in Requests,
               \/ Promise!Pay(r) \/ Promise!Record(r) \/ Promise!Report(r)
               \/ Promise!GiveUp({r}) \/ Promise!Settle(r) \/ Promise!Confirm(r)
        PROVE  Promise!Next
    BY <2>1 DEF Promise!Next
  <2>2. (\E S \in SUBSET Requests : Promise!GiveUp(S)) => Promise!Next
    BY DEF Promise!Next
  <2>3. ASSUME NEW r \in Requests,
               Validate(r) \/ Refuse(r) \/ Lookup(r) \/ Sponsor(r) \/ Create(r)
        PROVE  [Promise!Next]_(Promise!vars)
    BY <2>1, <2>3, SubmitImplements
  <2>4. ASSUME NEW t \in Requests,
               \/ Tick(t) \/ Safety(t)
               \/ \E n \in 1 .. Periods : Hear(t, n) \/ Write(t, n) \/ Clear(t, n) \/ TickError(t, n)
        PROVE  [Promise!Next]_(Promise!vars)
    BY <2>1, <2>4, PollingImplements
  <2>5. ASSUME NEW t \in Requests, Notice(t) \/ Succeed(t) \/ Drop(t)
        PROVE  [Promise!Next]_(Promise!vars)
    BY <2>1, <2>5, ChainImplements
  <2>6. CASE Shutdown \/ Exit \/ Restart
    BY <2>2, <2>6, ProcessImplements
  <2>7. ASSUME NEW r \in Requests, Insert(r) PROVE [Promise!Next]_(Promise!vars)
    BY <2>1, <2>7, InsertImplements
  <2> QED
    BY <1>2, <2>3, <2>4, <2>5, <2>6, <2>7 DEF Next
<1> QED
  BY <1>1, <1>2

\* However requests, ticks, timeouts, crashes and Gelato interleave, callers, the
\* table and the chain see nothing but the steps of GaslessBets.
THEOREM RelayIsGasless == Spec => ImplementsGaslessBets
<1>1. Init => Promise!Init
  BY DEF Init, Fate, NoAnswer, Promise!Init, Promise!Silence
<1> QED
  BY <1>1, StepImplements, RelayCorrect, RequestsStaged, OnlyTheToldAreFollowed, PTL
  DEF Spec, ImplementsGaslessBets, Promise!Spec

------------------------------------------------------------------------------
(* Retries.                                                                 *)

\* A retry r of a bet recorded under task q has paid nothing and will not.
SendsNothing(q, r) ==
  /\ row[q] # "none" /\ task[r] = "none" /\ pc[r] \in {"new", "lookup", "done"}

LEMMA NothingIsSent ==
  ASSUME RelayInv, RelayInv', [Next]_vars, NEW q \in Requests, NEW r \in Requests,
         KeyOf[q] = KeyOf[r], SendsNothing(q, r)
  PROVE  SendsNothing(q, r)'
<1>1. CASE UNCHANGED vars
  BY <1>1 DEF vars, requestVars, chainVars, tableVars, SendsNothing
<1>2. CASE Next
  <2>1. row'[q] # "none"
    <3>1. ASSUME NEW t \in Requests, Insert(t) PROVE row'[q] # "none"
      BY <3>1 DEF Insert, SendsNothing, RelayInv, PollInv, PollTypes
    <3>2. ASSUME NEW t \in Requests, NEW n \in 1 .. Periods, Write(t, n) PROVE row'[q] # "none"
      BY <3>2 DEF Write, SendsNothing, RelayInv, PollInv, PollTypes
    <3>3. CASE UNCHANGED row
      BY <3>3 DEF SendsNothing
    <3> QED
      BY <1>2, <3>1, <3>2, <3>3
      DEF Next, tableVars, Validate, Refuse, Lookup, Sponsor, Create, Tick, Safety, Hear, Clear,
          TickError, Notice, Succeed, Drop, Shutdown, Exit, Restart
  <2>2. task'[r] = "none"
    <3>1. ASSUME NEW t \in Requests, Sponsor(t) PROVE task'[r] = "none"
      <4>1. t # r
        BY <3>1 DEF Sponsor, At, SendsNothing
      <4> QED
        BY <3>1, <4>1 DEF Sponsor, SendsNothing, RelayInv, PollInv, PollTypes
    <3>2. ASSUME NEW t \in Requests, Notice(t) \/ Succeed(t) \/ Drop(t) PROVE task'[r] = "none"
      <4>1. t # r
        BY <3>2 DEF Notice, Succeed, Drop, Gelato, SendsNothing
      <4> QED
        BY <3>2, <4>1 DEF Notice, Succeed, Drop, Gelato, SendsNothing, RelayInv, PollInv, PollTypes
    <3>3. CASE UNCHANGED task
      BY <3>3 DEF SendsNothing
    <3> QED
      BY <1>2, <3>1, <3>2, <3>3
      DEF Next, chainVars, Validate, Refuse, Lookup, Insert, Create, Tick, Safety, Hear, Write,
          Clear, TickError, Shutdown, Exit, Restart
  <2>3. pc'[r] \in {"new", "lookup", "done"}
    <3>1. ASSUME NEW t \in Requests,
                 Validate(t) \/ Refuse(t) \/ Lookup(t) \/ Sponsor(t) \/ Create(t)
          PROVE  pc'[r] \in {"new", "lookup", "done"}
      <4>1. CASE t # r
        BY <3>1, <4>1 DEF Validate, Refuse, Lookup, Sponsor, Create, Goto, Fail, Answer,
           SendsNothing, RelayInv, RequestInv, RequestTypes
      <4>2. CASE t = r
        <5>1. Recorded(r) # {}
          BY DEF Recorded, SameKey, SendsNothing
        <5> QED
          BY <3>1, <4>2, <5>1 DEF Validate, Refuse, Lookup, Sponsor, Create, At, Goto, Fail, Answer,
             SendsNothing, RelayInv, RequestInv, RequestTypes
      <4> QED
        BY <4>1, <4>2
    <3>2. CASE Exit
      BY <3>2 DEF Exit, SendsNothing
    <3>3. CASE UNCHANGED requestVars
      BY <3>3 DEF requestVars, SendsNothing
    <3> QED
      BY <1>2, <3>1, <3>2, <3>3
      DEF Next, Insert, Tick, Safety, Hear, Write, Clear, TickError, Notice, Succeed, Drop,
          Shutdown, Restart
  <2> QED
    BY <2>1, <2>2, <2>3 DEF SendsNothing
<1> QED
  BY <1>1, <1>2

\* A retry that arrives when its key is recorded never pays Gelato again, over any
\* crash between.
THEOREM RetriesAreFree == Spec => RetryIsFree
<1>1. ASSUME NEW q \in Requests, NEW r \in Requests
      PROVE  Spec => [](KeyOf[q] = KeyOf[r] /\ pc[r] = "new" /\ row[q] # "none"
                          => [](task[r] = "none"))
  <2>1. CASE KeyOf[q] # KeyOf[r]
    <3>1. KeyOf[q] # KeyOf[r] => ~(KeyOf[q] = KeyOf[r] /\ pc[r] = "new" /\ row[q] # "none")
      OBVIOUS
    <3> QED
      BY <2>1, <3>1, PTL
  <2>2. CASE KeyOf[q] = KeyOf[r]
    <3>1. RelayInv /\ KeyOf[q] = KeyOf[r] /\ pc[r] = "new" /\ row[q] # "none"
            => SendsNothing(q, r)
      BY DEF SendsNothing, RelayInv, RequestInv, TasksStartOnce
    <3>2. RelayInv /\ RelayInv' /\ [Next]_vars /\ SendsNothing(q, r) => SendsNothing(q, r)'
      BY <2>2, NothingIsSent
    <3>3. SendsNothing(q, r) => task[r] = "none"
      BY DEF SendsNothing
    <3> QED
      BY <3>1, <3>2, <3>3, RelayCorrect, PTL DEF Spec
  <2> QED
    BY <2>1, <2>2
<1> QED
  BY <1>1 DEF RetryIsFree
------------------------------------------------------------------------------
(* The guard: what clears a listed address is old.                          *)

Severities == {"NONE", "MEDIUM", "HIGH"}

SanctionsTypes ==
  /\ now \in Nat /\ highSince \in Nat /\ erredAt \in Nat /\ score \in Scores
  /\ rows \subseteq [severity : Severities, checkedAt : Nat]
  /\ stage \in [Screenings -> {"new", "screen", "save", "done"}]
  /\ started \in [Screenings -> Nat] /\ gotAt \in [Screenings -> Nat]
  /\ risk \in [Screenings -> Severities \cup {"none"}]
  /\ verdict \in [Screenings -> {"none", "denied", "allowed"}]

\* Nothing is dated in the future, and an answer is saved in time.
ClockRuns ==
  /\ highSince <= now
  /\ \A entry \in rows : entry.checkedAt <= now
  /\ \A r \in Screenings :
       /\ started[r] <= now
       /\ stage[r] = "save" =>
            /\ started[r] <= gotAt[r] /\ gotAt[r] <= now /\ now <= gotAt[r] + MaxDelay
            /\ risk[r] \in Severities

\* Of a listed address, an answer that clears it is from before the listing, and
\* such an answer was saved at most MaxDelay after it.
ClearancesAreOld ==
  score = "high" /\ erredAt < highSince =>
    /\ \A r \in Screenings :
         stage[r] = "save" /\ ~Restricted(risk[r]) => gotAt[r] <= highSince
    /\ \A entry \in rows : ~Restricted(entry.severity) => entry.checkedAt <= highSince + MaxDelay

SanctionsInv == SanctionsTypes /\ ClockRuns /\ ClearancesAreOld

LEMMA SanctionsInit == GuardInit => SanctionsInv
BY DEF GuardInit, SanctionsInv, SanctionsTypes, ClockRuns, ClearancesAreOld, Scores,
   Severities

------------------------------------------------------------------------------
(* One lemma for each kind of step.                                         *)

LEMMA ClockSteps ==
  ASSUME SanctionsInv, ClockTick \/ (\E s \in Scores : Relist(s))
  PROVE  SanctionsInv'
<1>1. CASE ClockTick
  BY <1>1, LifeAssumption DEF ClockTick, serviceVars, screeningVars,
     SanctionsInv, SanctionsTypes, ClockRuns, ClearancesAreOld
<1>2. ASSUME NEW s \in Scores, Relist(s) PROVE SanctionsInv'
  <2>1. s = "high" => highSince' = now /\ score # "high"
    BY <1>2 DEF Relist
  <2>2. s # "high" => score' # "high" /\ highSince' = highSince
    BY <1>2 DEF Relist
  <2>3. SanctionsTypes' /\ ClockRuns'
    BY <1>2 DEF Relist, screeningVars, SanctionsInv, SanctionsTypes, ClockRuns
  <2>4. ClearancesAreOld'
    BY <1>2, <2>1, <2>2, LifeAssumption DEF Relist, screeningVars, SanctionsInv,
       SanctionsTypes, ClockRuns, ClearancesAreOld
  <2> QED
    BY <2>3, <2>4 DEF SanctionsInv
<1> QED
  BY <1>1, <1>2

LEMMA FindFirstStep ==
  ASSUME SanctionsInv, NEW r \in Screenings, FindFirst(r)
  PROVE  SanctionsInv'
<1>1. CASE stage'[r] = "screen"
  BY <1>1 DEF FindFirst, Decide, Finish, serviceVars, SanctionsInv,
     SanctionsTypes, ClockRuns, ClearancesAreOld
<1>2. CASE stage'[r] # "screen"
  BY <1>2 DEF FindFirst, Decide, Finish, serviceVars, SanctionsInv,
     SanctionsTypes, ClockRuns, ClearancesAreOld
<1> QED
  BY <1>1, <1>2

\* An answer that clears a listed address is an error, and is noted as one.
LEMMA ScreenStep ==
  ASSUME SanctionsInv, NEW r \in Screenings,
         ScreenAnswered(r) \/ ScreenThrows(r) \/ ScreenErrs(r)
  PROVE  SanctionsInv'
<1>1. PICK severity \in Severities :
        /\ Got(r, severity)
        /\ score = "high" => Restricted(severity) \/ erredAt' = now
        /\ erredAt' \in {erredAt, now}
  BY DEF ScreenAnswered, ScreenThrows, ScreenErrs, RiskOf, Scores,
     Severities, Restricted, SanctionsInv, SanctionsTypes
<1>2. SanctionsTypes' /\ ClockRuns'
  BY <1>1, LifeAssumption DEF Got, SanctionsInv, SanctionsTypes, ClockRuns
<1>3. ClearancesAreOld'
  BY <1>1 DEF Got, SanctionsInv, SanctionsTypes, ClockRuns, ClearancesAreOld
<1> QED
  BY <1>2, <1>3 DEF SanctionsInv

LEMMA SaveStep ==
  ASSUME SanctionsInv, NEW r \in Screenings, Save(r) \/ SaveFails(r)
  PROVE  SanctionsInv'
<1>1. /\ stage[r] = "save" /\ risk[r] \in Severities
      /\ rows' \in {rows, rows \cup {[severity |-> risk[r], checkedAt |-> now]}}
      /\ UNCHANGED <<now, score, highSince, erredAt>>
      /\ \E v \in {"denied", "allowed"} : Finish(r, v)
  BY DEF Save, SaveFails, Decide, serviceVars, SanctionsInv, ClockRuns
<1>2. SanctionsTypes' /\ ClockRuns'
  BY <1>1 DEF Finish, SanctionsInv, SanctionsTypes, ClockRuns
<1>3. ClearancesAreOld'
  BY <1>1, LifeAssumption DEF Finish, SanctionsInv, SanctionsTypes, ClockRuns,
     ClearancesAreOld
<1> QED
  BY <1>2, <1>3 DEF SanctionsInv

\* The inductive invariant of the guard, in whatever units its clock runs.
THEOREM ClearancesCorrect == GuardSpec => []SanctionsInv
<1>1. ASSUME SanctionsInv, [GuardNext]_guardVars PROVE SanctionsInv'
  <2>1. CASE UNCHANGED guardVars
    BY <1>1, <2>1 DEF guardVars, serviceVars, screeningVars, SanctionsInv,
       SanctionsTypes, ClockRuns, ClearancesAreOld
  <2>2. CASE GuardNext
    BY <1>1, <2>2, ClockSteps, FindFirstStep, ScreenStep, SaveStep DEF GuardNext
  <2> QED
    BY <1>1, <2>1, <2>2
<1> QED
  BY SanctionsInit, <1>1, PTL DEF GuardSpec

------------------------------------------------------------------------------
\* Who is admitted: on a row that is young, or on an answer of its own.
LEMMA AdmittedOnClearance ==
  ASSUME SanctionsInv, GuardNext, NEW r \in Screenings, Admits(r)
  PROVE  \/ /\ stage[r] = "new"
            /\ \E entry \in rows : Young(entry) /\ ~Restricted(entry.severity)
         \/ stage[r] = "save" /\ ~Restricted(risk[r])
<1>1. \A q \in Screenings : \A v : Finish(q, v) => q = r /\ v = "allowed"
  BY DEF Finish, Admits, SanctionsInv, SanctionsTypes
<1>2. verdict' # verdict
  BY DEF Admits
<1>3. ~ClockTick /\ \A s \in Scores : ~Relist(s)
  BY <1>2 DEF ClockTick, Relist, screeningVars
<1>4. \A q \in Screenings : ~ScreenAnswered(q) /\ ~ScreenThrows(q) /\ ~ScreenErrs(q)
  BY <1>2 DEF ScreenAnswered, ScreenThrows, ScreenErrs, Got
<1>5. PICK q \in Screenings : FindFirst(q) \/ Save(q) \/ SaveFails(q)
  BY <1>3, <1>4 DEF GuardNext
<1>6. CASE FindFirst(q)
  BY <1>1, <1>2, <1>6 DEF FindFirst, Decide
<1>7. CASE Save(q) \/ SaveFails(q)
  BY <1>1, <1>7 DEF Save, SaveFails, Decide
<1> QED
  BY <1>5, <1>6, <1>7

\* Once an address has been listed for the cache life and the longest save, no new
\* request of it is admitted, unless the service answered an error in between.
THEOREM ListingsBite == GuardSpec => ListingTakesEffect
<1>1. ASSUME SanctionsInv, GuardNext, NEW r \in Screenings, Admits(r), score = "high",
             erredAt < highSince
      PROVE  StartOf(r) < highSince + CacheLife + MaxDelay
  <2>1. CASE stage[r] = "new"
    <3>1. PICK entry \in rows : Young(entry) /\ ~Restricted(entry.severity)
      BY <1>1, <2>1, AdmittedOnClearance
    <3>2. entry.checkedAt <= highSince + MaxDelay /\ entry.checkedAt \in Nat
      BY <1>1, <3>1 DEF SanctionsInv, ClearancesAreOld, SanctionsTypes
    <3> QED
      BY <1>1, <2>1, <3>1, <3>2, LifeAssumption DEF Young, StartOf,
         SanctionsInv, SanctionsTypes
  <2>2. CASE stage[r] # "new"
    <3>1. stage[r] = "save" /\ ~Restricted(risk[r])
      BY <1>1, <2>2, AdmittedOnClearance
    <3>2. gotAt[r] <= highSince /\ started[r] <= gotAt[r]
      BY <1>1, <3>1 DEF SanctionsInv, ClearancesAreOld, ClockRuns
    <3> QED
      BY <1>1, <2>2, <3>2, LifeAssumption DEF StartOf, SanctionsInv, SanctionsTypes
  <2> QED
    BY <2>1, <2>2
<1>2. ASSUME SanctionsInv, [GuardNext]_guardVars
      PROVE  [\A r \in Screenings :
                Admits(r) /\ score = "high" /\ erredAt < highSince =>
                  StartOf(r) < highSince + CacheLife + MaxDelay]_guardVars
  BY <1>1, <1>2
<1> QED
  BY <1>2, ClearancesCorrect, PTL DEF GuardSpec, ListingTakesEffect
=============================================================================

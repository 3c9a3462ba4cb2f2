---------------------------- MODULE AlertsService ----------------------------
(***************************************************************************)
(* Alerts of the analytics agent: apps/analytics-agent/src/alerts/         *)
(* alerts.service.ts with the snapshot of collector.service.ts.            *)
(*                                                                         *)
(* A cron starts checkAlerts every minute, also while an earlier check     *)
(* waits for the database.  A check takes the rules in order: it asks the  *)
(* database what the rule looks for, waits, and fires what is not in       *)
(* memory yet in one go.  Rules, alerts and the snapshot are in memory     *)
(* only.  Bets are rows of Postgres that somebody else writes.             *)
(***************************************************************************)
EXTENDS Integers, FiniteSets, Sequences, SequencesExt, FiniteSetsExt

CONSTANTS
  Bets, AmountOf, UserOf,  \* the bets there may be
  DefaultRules,            \* a sequence of rules: type, threshold, window, enabled
  AddedRules,              \* rules operators may add
  Switched,                \* positions of rules operators may switch
  Top,                     \* take: 10
  Keep,                    \* alerts kept: 1000
  QuietTime,               \* of volume_spike and rapid_betting: 1 h, 10 min
  HoursInDay, FeeMille,    \* 24, and the fee the milestone is measured by
  Checks,                  \* checks at the same time
  MaxDelay,                \* assumed: a query is answered within this time
  MaxFaults,               \* bound on failed queries and restarts
  MaxCollecting,           \* bound on collections at the same time
  Acknowledged,            \* bound: positions of alerts operators acknowledge
  MaxTime

AlertTypes == {"whale_bet", "volume_spike", "new_market", "revenue_milestone",
               "large_position", "rapid_betting"}

\* Any string is taken as a window; NoWindow stands for those getWindowDate does not know.
NoWindow == 0

AlertRule == [type : AlertTypes, threshold : Nat, window : Nat, enabled : BOOLEAN]

ASSUME AlertsAssumption ==
  /\ IsFiniteSet(Bets) /\ AmountOf \in [Bets -> Nat]
  /\ DefaultRules \in Seq(AlertRule) /\ AddedRules \subseteq AlertRule
  /\ Top \in Nat /\ Keep \in Nat /\ Top <= Keep /\ MaxDelay \in Nat
  /\ QuietTime \in [{"volume_spike", "rapid_betting"} -> Nat]

VARIABLES
  now, placedAt,       \* 0: not placed
  rules, firedAlerts,
  latestSnapshot, collected,  \* -1: none; volumes collections are about to store
  check,               \* the state of each check
  checkedAt,           \* when the last check started
  reported,            \* history: bets an alert was fired for
  disabledAt,          \* history: when each rule was last switched off
  faults

memoryVars == <<rules, firedAlerts, latestSnapshot, disabledAt>>
vars == <<now, placedAt, memoryVars, collected, check, checkedAt, reported, faults>>

Idle == [rule |-> 0, at |-> "idle", askedAt |-> 0, snapshot |-> -1, found |-> <<>>]

Init ==
  /\ now = 1 /\ placedAt = [b \in Bets |-> 0]
  /\ rules = DefaultRules /\ firedAlerts = <<>>
  /\ latestSnapshot = -1 /\ collected = {}
  /\ check = [c \in Checks |-> Idle] /\ checkedAt = 0
  /\ reported = {} /\ disabledAt = [i \in Switched |-> 0] /\ faults = 0

------------------------------------------------------------------------------
(* The bets in the database.                                                *)

BetsSince(t) == {b \in Bets : placedAt[b] # 0 /\ placedAt[b] >= t}

Volume(bs) == MapThenSumSet(LAMBDA b : AmountOf[b], bs)

PlaceBet(b) ==
  /\ placedAt[b] = 0 /\ placedAt' = [placedAt EXCEPT ![b] = now]
  /\ UNCHANGED <<now, memoryVars, collected, check, checkedAt, reported, faults>>

\* The cron does not miss a minute, and queries are answered in MaxDelay.
Tick ==
  /\ now < MaxTime /\ checkedAt = now
  /\ \A c \in Checks : check[c].at # "idle" => now < check[c].askedAt + MaxDelay
  /\ now' = now + 1
  /\ UNCHANGED <<placedAt, memoryVars, collected, check, checkedAt, reported, faults>>

------------------------------------------------------------------------------
(* The collector.                                                           *)

\* dailyVolume; the clock of the model runs for less than a day.
Collect ==
  /\ Cardinality(collected) < MaxCollecting
  /\ collected' = collected \cup {Volume(BetsSince(1))}
  /\ UNCHANGED <<now, placedAt, memoryVars, check, checkedAt, reported, faults>>

Store(v) ==
  /\ v \in collected /\ collected' = collected \ {v} /\ latestSnapshot' = v
  /\ UNCHANGED <<now, placedAt, rules, firedAlerts, check, checkedAt, reported, disabledAt, faults>>

------------------------------------------------------------------------------
(* Operators.                                                               *)

Appended(rule) == Append(rules, rule)

AddRule(rule) ==
  /\ rule \in AddedRules /\ Len(rules) = Len(DefaultRules)
  /\ rules' = Appended(rule)
  /\ UNCHANGED <<now, placedAt, firedAlerts, latestSnapshot, collected, check, checkedAt,
                 reported, disabledAt, faults>>

ToggleRule(i, enabled) ==
  /\ i \in DOMAIN rules \cap Switched /\ rules[i].enabled # enabled
  /\ rules' = [rules EXCEPT ![i].enabled = enabled]
  /\ disabledAt' = [disabledAt EXCEPT ![i] = now]
  /\ UNCHANGED <<now, placedAt, firedAlerts, latestSnapshot, collected, check, checkedAt,
                 reported, faults>>

AcknowledgeAlert(k) ==
  /\ k \in DOMAIN firedAlerts /\ ~firedAlerts[k].acknowledged
  /\ firedAlerts' = [firedAlerts EXCEPT ![k].acknowledged = TRUE]
  /\ UNCHANGED <<now, placedAt, rules, latestSnapshot, collected, check, checkedAt,
                 reported, disabledAt, faults>>

------------------------------------------------------------------------------
(* checkAlerts.                                                             *)

Set(c, to) == check' = [check EXCEPT ![c] = to]

\* Mutant: disabled rules are checked.
Always(rule) == TRUE

Enabled(rule) == rule.enabled

\* Nothing is looked for by two of the types, nor a spike without a snapshot.
Checked(i) ==
  /\ Enabled(rules[i]) /\ rules[i].type \notin {"new_market", "large_position"}
  /\ rules[i].type = "volume_spike" => latestSnapshot # -1

\* The loop goes on, over the rules there are now, to the next one that asks the
\* database; a spike reads the snapshot before it waits.
From(i) ==
  LET next == {j \in DOMAIN rules : j >= i /\ Checked(j)}
  IN  IF next = {} THEN Idle
      ELSE [rule |-> Min(next), at |-> "asking", askedAt |-> now,
            snapshot |-> latestSnapshot, found |-> <<>>]

Proceed(c) == Set(c, From(check[c].rule + 1))

CheckAlerts(c) ==
  /\ check[c].at = "idle" /\ checkedAt < now /\ checkedAt' = now
  /\ Set(c, From(1))
  /\ UNCHANGED <<now, placedAt, memoryVars, collected, reported, faults>>

\* Mutant: the cases are shifted, each window is as long as the next one.
NextWindow(rule, t) == IF rule.window = NoWindow THEN 0 ELSE t - 3 * rule.window

\* Mutant: only what came since the check before.
SinceLastCheck(rule, t) == t - 1

GetWindowDate(rule, t) == IF rule.window = NoWindow THEN 0 ELSE t - rule.window

\* The largest bets, largest first; equal ones come in any order.
Largest(bs) ==
  LET sorted == {s \in SetToSeqs(bs) :
                   \A i, j \in DOMAIN s : i < j => AmountOf[s[i]] >= AmountOf[s[j]]}
  IN  {SubSeq(s, 1, IF Len(s) < Top THEN Len(s) ELSE Top) : s \in sorted}

WhaleBets(rule, t) ==
  Largest({b \in BetsSince(GetWindowDate(rule, t)) : AmountOf[b] >= rule.threshold})

Spikes(rule, t, daily) ==
  IF daily > 0 /\ Volume(BetsSince(t - QuietTime[rule.type])) * HoursInDay >= rule.threshold * daily
    THEN {<<"spike">>} ELSE {<<>>}

Milestones(rule) ==
  IF Volume(BetsSince(1)) * FeeMille >= rule.threshold THEN {<<"milestone">>} ELSE {<<>>}

RapidUsers(rule, t) ==
  LET recent == BetsSince(GetWindowDate(rule, t))
  IN  SetToSeqs({u \in {UserOf[b] : b \in recent} :
                   Cardinality({b \in recent : UserOf[b] = u}) >= rule.threshold})

\* The answers the database may give.
Found(c) ==
  LET rule == rules[check[c].rule]
      t    == check[c].askedAt
  IN  CASE rule.type = "whale_bet"         -> WhaleBets(rule, t)
        [] rule.type = "volume_spike"      -> Spikes(rule, t, check[c].snapshot)
        [] rule.type = "revenue_milestone" -> Milestones(rule)
        [] rule.type = "rapid_betting"     -> RapidUsers(rule, t)

\* The moment the database takes the query.
Query(c) ==
  /\ check[c].at = "asking"
  /\ \E found \in Found(c) : Set(c, [check[c] EXCEPT !.at = "answered", !.found = found])
  /\ UNCHANGED <<now, placedAt, memoryVars, collected, checkedAt, reported, faults>>

\* Mutant: an acknowledged alert is forgotten.
Unacknowledged(log, i, subject) ==
  \E k \in DOMAIN log :
    log[k].rule = i /\ log[k].subject = subject /\ ~log[k].acknowledged

Quiet(type) == type \in DOMAIN QuietTime

\* Some alerts are fired once, others once in their window.
AlreadyFired(log, i, subject) ==
  \E k \in DOMAIN log :
    /\ log[k].rule = i /\ log[k].subject = subject
    /\ Quiet(rules[i].type) => log[k].firedAt > now - QuietTime[rules[i].type]

Kept(log) == IF Len(log) > Keep THEN SubSeq(log, Len(log) - Keep + 1, Len(log)) ELSE log

Fire(log, i, subject) ==
  IF AlreadyFired(log, i, subject) THEN log
  ELSE Kept(Append(log, [rule |-> i, subject |-> subject, firedAt |-> now, acknowledged |-> FALSE]))

Fired(i, found) ==
  LET log[n \in 0 .. Len(found)] ==
        IF n = 0 THEN firedAlerts ELSE Fire(log[n - 1], i, found[n])
  IN  log[Len(found)]

\* Every new alert of one answer, without an await between.
FireAlerts(c) ==
  /\ check[c].at = "answered"
  /\ firedAlerts' = Fired(check[c].rule, check[c].found)
  /\ reported' = reported \cup {b \in Bets : \E k \in DOMAIN firedAlerts' : firedAlerts'[k].subject = b}
  /\ Proceed(c)
  /\ UNCHANGED <<now, placedAt, rules, latestSnapshot, collected, checkedAt, disabledAt, faults>>

QueryFails(c) ==
  /\ check[c].at \in {"asking", "answered"}
  /\ faults < MaxFaults /\ faults' = faults + 1
  /\ Proceed(c)
  /\ UNCHANGED <<now, placedAt, memoryVars, collected, checkedAt, reported>>

Restart ==
  /\ faults < MaxFaults /\ faults' = faults + 1
  /\ rules' = DefaultRules /\ firedAlerts' = <<>> /\ latestSnapshot' = -1
  /\ collected' = {} /\ check' = [c \in Checks |-> Idle]
  /\ UNCHANGED <<now, placedAt, checkedAt, reported, disabledAt>>

Next ==
  \/ Tick \/ \E b \in Bets : PlaceBet(b)
  \/ Collect \/ \E v \in collected : Store(v)
  \/ \E rule \in AddedRules : AddRule(rule)
  \/ \E i \in Switched, enabled \in BOOLEAN : ToggleRule(i, enabled)
  \/ \E k \in Acknowledged : AcknowledgeAlert(k)
  \/ \E c \in Checks : CheckAlerts(c) \/ Query(c) \/ FireAlerts(c) \/ QueryFails(c)
  \/ Restart

Spec == Init /\ [][Next]_vars

------------------------------------------------------------------------------
(* Properties.                                                              *)

\* Overlapping checks that found the same thing fire it once: no two alerts in
\* memory are about the same subject of a rule, within its quiet time if it has one.
AlertsAreDistinct ==
  \A j, k \in DOMAIN firedAlerts :
    /\ j < k /\ firedAlerts[j].rule = firedAlerts[k].rule
    /\ firedAlerts[j].subject = firedAlerts[k].subject
    => /\ Quiet(rules[firedAlerts[j].rule].type)
       /\ firedAlerts[k].firedAt >=
            firedAlerts[j].firedAt + QuietTime[rules[firedAlerts[j].rule].type]

\* A rapid_betting alert is about a user who made that many bets within the window
\* and the delay of one query, when getWindowDate knows the window.  A rule with any
\* other one, "5m" say, counts the bets of all time, and its alert says "in 5m".
RapidMeansRapid ==
  \A k \in DOMAIN firedAlerts :
    LET alert == firedAlerts[k]
        rule  == rules[alert.rule]
    IN  rule.type = "rapid_betting" /\ rule.window # NoWindow =>
          \E t \in 1 .. alert.firedAt :
            Cardinality({b \in BetsSince(t - rule.window) :
                           UserOf[b] = alert.subject /\ placedAt[b] <= t + MaxDelay})
              >= rule.threshold

\* Once the queries in flight are answered, a rule that was switched off fires
\* nothing more.
DisabledRulesStayQuiet ==
  [][\A i \in Switched \cap DOMAIN rules :
       ~rules[i].enabled /\ now > disabledAt[i] + MaxDelay =>
         \A k \in DOMAIN firedAlerts' :
           firedAlerts'[k].rule = i /\ firedAlerts'[k].firedAt = now =>
             k \in DOMAIN firedAlerts /\ firedAlerts[k] = firedAlerts'[k]]_vars

\* The latest start of the check that reports a bet: a failure, though it may end
\* every check there is, costs no more than the time in which one takes i rules.
LastStart(b, i) == placedAt[b] + 1 + faults * (i * MaxDelay + 1)

\* Bets that come before b among the largest of any window b is in.
Rivals(b, rule) == {n \in BetsSince(placedAt[b] - rule.window) : AmountOf[n] >= AmountOf[b]}

\* "$1000+ single bet", "Whale Bet Detected" (alerts.service.ts): every bet over the
\* threshold of a default rule that stays on is reported by a deadline, over failed
\* queries and restarts.  It is while no more bets as large come near it than one
\* query takes, and failures leave time for one more check within the window.
WhaleBetsAreReported ==
  \A b \in Bets, i \in DOMAIN DefaultRules \ Switched :
    LET rule == DefaultRules[i]
    IN  /\ placedAt[b] # 0 /\ rule.enabled /\ rule.type = "whale_bet"
        /\ AmountOf[b] >= rule.threshold
        /\ Cardinality(Rivals(b, rule)) <= Top
        /\ LastStart(b, i) + (i - 1) * MaxDelay <= placedAt[b] + rule.window
        /\ now > LastStart(b, i) + i * MaxDelay
        => b \in reported
=============================================================================

----------------------------- MODULE AlertsProofs -----------------------------
(***************************************************************************)
(* What operators may rely on, for any bets, rules, limits, delays and     *)
(* numbers of overlapping checks: no alert twice, none of rapid betting    *)
(* without it, none by a rule that stays off, and no whale bet missed.     *)
(***************************************************************************)
EXTENDS AlertsService, SequenceTheorems, FiniteSetTheorems, WellFoundedInduction, TLAPS

\* No two alerts of a rule about one subject, but after its quiet time.
Distinct(log) ==
  \A j, k \in 1 .. Len(log) :
    j < k /\ log[j].rule = log[k].rule /\ log[j].subject = log[k].subject
    => /\ Quiet(rules[log[j].rule].type)
       /\ log[k].firedAt >= log[j].firedAt + QuietTime[rules[log[j].rule].type]

\* A user made n bets within the window before t and a delay.
Rapid(window, n, t, user) ==
  Cardinality({b \in BetsSince(t - window) : UserOf[b] = user /\ placedAt[b] <= t + MaxDelay}) >= n

\* What rule i calls rapid, if its window is known.
RapidFor(i, t, user) ==
  \A window \in Nat \ {NoWindow}, n \in Nat :
    rules[i].window = window /\ rules[i].threshold = n => Rapid(window, n, t, user)

AlertFields == {"rule", "subject", "firedAt", "acknowledged"}

\* An alert of a rule there is, from a time that was, with its cause.
Sound(alert) ==
  LET rule == rules[alert.rule]
  IN  /\ DOMAIN alert = AlertFields
      /\ alert.rule \in DOMAIN rules /\ alert.firedAt \in 1 .. now
      /\ rule.type = "rapid_betting" =>
           \E t \in 1 .. alert.firedAt : RapidFor(alert.rule, t, alert.subject)
      /\ alert.rule \in Switched /\ ~rule.enabled =>
           alert.firedAt <= disabledAt[alert.rule] + MaxDelay

IsSeq(s) == \E S : s \in Seq(S)

LogHolds(log) ==
  /\ IsSeq(log) /\ \A k \in 1 .. Len(log) : Sound(log[k])
  /\ Distinct(log)

\* A check in flight asked for a rule that was on, no more than a delay ago, and
\* what it found of rapid betting is so.
Active(k) ==
  LET rule == rules[k.rule]
  IN  /\ k.rule \in DOMAIN rules /\ rule.type \notin {"new_market", "large_position"}
      /\ k.askedAt \in 1 .. now /\ now <= k.askedAt + MaxDelay
      /\ k.rule \in Switched /\ ~rule.enabled => k.askedAt <= disabledAt[k.rule]
      /\ IsSeq(k.found)
      /\ rule.type = "rapid_betting" =>
           \A n \in 1 .. Len(k.found) : RapidFor(k.rule, k.askedAt, k.found[n])

ChecksHold ==
  /\ check = [c \in Checks |-> check[c]]
  /\ \A c \in Checks :
       /\ DOMAIN check[c] = DOMAIN Idle
       /\ check[c].at # "idle" => Active(check[c])

AlertTypesHold ==
  /\ now \in Nat \ {0} /\ placedAt \in [Bets -> 0 .. now]
  /\ rules \in Seq(AlertRule) /\ disabledAt \in [Switched -> 0 .. now]

AlertsInv == AlertTypesHold /\ ChecksHold /\ LogHolds(firedAlerts)

------------------------------------------------------------------------------
(* Numbers.                                                                 *)

LEMMA Smallest ==
  ASSUME NEW S, S \subseteq Nat, S # {}
  PROVE  \E x \in S : \A y \in S : x <= y
<1> DEFINE less == {p \in Nat \X Nat : p[1] < p[2]}
<1>1. IsWellFoundedOn(less, Nat)
  <2>1. OpToRel(<, Nat) = less
    BY DEF OpToRel
  <2> QED
    BY <2>1, NatLessThanWellFounded
<1>2. PICK x \in S : \A y \in S : <<y, x>> \notin less
  <2> HIDE DEF less
  <2> QED
    BY <1>1, WFMin
<1>3. ASSUME NEW y \in S PROVE x <= y
  <2>1. x \in Nat /\ y \in Nat /\ ~(y < x)
    BY <1>2
  <2> QED
    BY <2>1
<1> QED
  BY <1>3

\* What holds at 0 and passes from each number to the next holds up to any n.
LEMMA AllUpTo ==
  ASSUME NEW n \in Nat, NEW S, 0 \in S, \A k \in 0 .. n - 1 : k \in S => k + 1 \in S
  PROVE  0 .. n \subseteq S
<1> SUFFICES ASSUME (0 .. n) \ S # {} PROVE FALSE
  OBVIOUS
<1> DEFINE rest == (0 .. n) \ S
<1>1. PICK x \in rest : \A y \in rest : x <= y
  <2>1. rest \subseteq Nat /\ rest # {}
    OBVIOUS
  <2> HIDE DEF rest
  <2> QED
    BY <2>1, Smallest
<1>2. x # 0 /\ x - 1 \in 0 .. n - 1 /\ x - 1 \notin rest
  BY <1>1
<1> QED
  BY <1>2

\* A set of bets is at least as large as a part of it.
LEMMA FewerBets ==
  ASSUME NEW A, NEW B, A \subseteq B, B \subseteq Bets
  PROVE  IsFiniteSet(B) /\ Cardinality(A) \in Nat /\ Cardinality(B) \in Nat
         /\ Cardinality(A) <= Cardinality(B)
<1>1. IsFiniteSet(B)
  BY FS_Subset, AlertsAssumption
<1> QED
  BY <1>1, FS_Subset, FS_CardinalityType

------------------------------------------------------------------------------
(* The log.                                                                 *)

\* The loop over what a query found: Fired takes as many steps as there are subjects.
LEMMA FiredSteps ==
  ASSUME NEW i, NEW found, Len(found) \in Nat
  PROVE  \E logs : /\ logs[0] = firedAlerts /\ logs[Len(found)] = Fired(i, found)
                   /\ \A n \in 1 .. Len(found) : logs[n] = Fire(logs[n - 1], i, found[n])
<1> DEFINE L == Len(found)
           Loop(f, m) == [n \in 0 .. m |-> IF n = 0 THEN firedAlerts ELSE Fire(f[n - 1], i, found[n])]
           S == {m \in 0 .. L : \E f : f = Loop(f, m)}
<1>1. 0 \in S
  <2> DEFINE f == [n \in 0 .. 0 |-> firedAlerts]
  <2>1. f = Loop(f, 0)
    OBVIOUS
  <2> HIDE DEF f, Loop
  <2> QED
    BY <2>1
<1>2. ASSUME NEW m \in 0 .. L - 1, m \in S PROVE m + 1 \in S
  <2>1. PICK f : f = Loop(f, m)
    BY <1>2
  <2> DEFINE g == [n \in 0 .. m + 1 |-> IF n = m + 1 THEN Fire(f[m], i, found[m + 1]) ELSE f[n]]
  <2>2. ASSUME NEW n \in 0 .. m + 1 PROVE g[n] = Loop(g, m + 1)[n]
    <3>1. CASE n = 0
      BY <2>1, <3>1
    <3>2. CASE n \in 1 .. m
      <4>1. f[n] = Fire(f[n - 1], i, found[n])
        BY <2>1, <3>2
      <4>2. g[n] = f[n] /\ g[n - 1] = f[n - 1]
        BY <3>2
      <4> HIDE DEF g
      <4> QED
        BY <3>2, <4>1, <4>2
    <3>3. CASE n = m + 1
      <4>1. g[n] = Fire(f[m], i, found[m + 1]) /\ g[m] = f[m]
        BY <3>3
      <4> HIDE DEF g
      <4> QED
        BY <3>3, <4>1
    <3> QED
      BY <3>1, <3>2, <3>3
  <2>3. g = Loop(g, m + 1)
    BY <2>2
  <2> HIDE DEF g, Loop
  <2> QED
    BY <2>3
<1>3. L \in S
  <2>1. L \in Nat /\ 0 \in S /\ \A k \in 0 .. L - 1 : k \in S => k + 1 \in S
    BY <1>1, <1>2
  <2> HIDE DEF S, L
  <2>2. 0 .. L \subseteq S
    BY <2>1, AllUpTo
  <2> QED
    BY <2>1, <2>2
<1> DEFINE logs == CHOOSE f : f = Loop(f, L)
<1>4. logs = Loop(logs, L)
  <2>1. \E f : f = Loop(f, L)
    BY <1>3
  <2> QED
    BY <2>1
<1>5. Fired(i, found) = logs[L]
  BY DEF Fired
<1> HIDE DEF logs
<1> QED
  BY <1>4, <1>5

\* The log keeps its newest alerts.
LEMMA KeptIs ==
  ASSUME NEW S, NEW log \in Seq(S)
  PROVE  \E d \in Nat :
           /\ Kept(log) \in Seq(S) /\ Len(Kept(log)) \in Nat
           /\ Len(Kept(log)) + d = Len(log) /\ (d = 0 \/ Len(Kept(log)) = Keep)
           /\ \A k \in 1 .. Len(Kept(log)) : k + d \in 1 .. Len(log) /\ Kept(log)[k] = log[k + d]
<1>1. PICK n \in Nat : n = Len(log) /\ \A k \in 1 .. n : log[k] \in S
  BY LenProperties, ElementOfSeq
<1>2. CASE n > Keep
  <2>1. n - Keep + 1 \in 1 .. n + 1 /\ n - Keep \in Nat
    BY <1>2, AlertsAssumption
  <2> DEFINE kept == SubSeq(log, n - Keep + 1, n)
  <2>2. \A k \in n - Keep + 1 .. n : log[k] \in S
    BY <1>1, <1>2, AlertsAssumption
  <2>3. /\ kept \in Seq(S) /\ Len(kept) = Keep
        /\ \A k \in 1 .. Keep : kept[k] = log[k + (n - Keep)]
    <3>1. /\ kept \in Seq(S)
          /\ Len(kept) = IF n - Keep + 1 <= n THEN n - (n - Keep + 1) + 1 ELSE 0
          /\ \A k \in 1 .. n - (n - Keep + 1) + 1 : kept[k] = log[n - Keep + 1 + k - 1]
      BY <1>1, <2>1, <2>2, SubSeqProperties
    <3> HIDE DEF kept
    <3>2. n - (n - Keep + 1) + 1 = Keep /\ \A k \in Nat : n - Keep + 1 + k - 1 = k + (n - Keep)
      BY <1>1, AlertsAssumption
    <3>3. Len(kept) = Keep
      BY <1>1, <1>2, <3>1, AlertsAssumption
    <3>4. ASSUME NEW k \in 1 .. Keep PROVE kept[k] = log[k + (n - Keep)]
      <4>1. k \in 1 .. n - (n - Keep + 1) + 1 /\ n - Keep + 1 + k - 1 = k + (n - Keep)
        BY <3>2, AlertsAssumption
      <4>2. kept[k] = log[n - Keep + 1 + k - 1]
        BY <3>1, <4>1
      <4> QED
        BY <4>1, <4>2
    <3> QED
      BY <3>1, <3>3, <3>4
  <2>4. Kept(log) = kept
    BY <1>1, <1>2 DEF Kept
  <2> HIDE DEF kept
  <2>5. \A k \in 1 .. Keep : k + (n - Keep) \in 1 .. n
    BY <2>1, AlertsAssumption
  <2>6. PICK d \in Nat : d = n - Keep /\ Keep \in Nat /\ Keep + d = n
    <3>1. Keep \in Nat /\ n - Keep \in Nat
      BY <2>1, AlertsAssumption
    <3>2. Keep + (n - Keep) = n
      BY <1>1, <3>1
    <3> QED
      BY <3>1, <3>2
  <2>7. \A k \in 1 .. Keep : k + d \in 1 .. n /\ kept[k] = log[k + d]
    BY <2>3, <2>5, <2>6
  <2>8. /\ Kept(log) \in Seq(S) /\ Len(Kept(log)) = Keep /\ Len(log) = n
        /\ \A k \in 1 .. Keep : Kept(log)[k] = kept[k]
    BY <1>1, <2>3, <2>4
  <2> HIDE DEF kept
  <2>9. \A k \in 1 .. Len(Kept(log)) :
          k + d \in 1 .. Len(log) /\ Kept(log)[k] = log[k + d]
    BY <2>7, <2>8
  <2>10. Len(Kept(log)) + d = Len(log) /\ Len(Kept(log)) <= Keep
    BY <2>6, <2>8
  <2> QED
    BY <2>8, <2>9, <2>10
<1>3. CASE ~(n > Keep)
  <2>1. Kept(log) = log /\ Len(log) + 0 = Len(log) /\ \A k \in 1 .. n : k + 0 = k
    BY <1>1, <1>3 DEF Kept
  <2> QED
    BY <1>1, <2>1
<1> QED
  BY <1>2, <1>3

\* Firing an alert that has its cause keeps the log distinct.
LEMMA FireKeeps ==
  ASSUME AlertTypesHold, NEW log, LogHolds(log), NEW i, NEW subject,
         Sound([rule |-> i, subject |-> subject, firedAt |-> now, acknowledged |-> FALSE])
  PROVE  LogHolds(Fire(log, i, subject))
<1> DEFINE alert == [rule |-> i, subject |-> subject, firedAt |-> now, acknowledged |-> FALSE]
           new == Append(log, alert)
<1>1. PICK S : log \in Seq(S)
  BY DEF LogHolds, IsSeq
<1>2. PICK n \in Nat : n = Len(log) /\ DOMAIN log = 1 .. n
  BY <1>1, LenProperties
<1>3. CASE AlreadyFired(log, i, subject)
  BY <1>3 DEF Fire
<1>4. CASE ~AlreadyFired(log, i, subject)
  <2>1. /\ new \in Seq(S \cup {alert}) /\ Len(new) = n + 1 /\ new[n + 1] = alert
        /\ \A k \in 1 .. n : new[k] = log[k]
    <3>1. log \in Seq(S \cup {alert})
      BY <1>1, SeqMonotonic
    <3> QED
      BY <1>2, <3>1, AppendProperties
  <2> HIDE DEF new
  <2>2. ASSUME NEW k \in 1 .. n + 1 PROVE Sound(new[k])
    BY <1>2, <2>1, <2>2 DEF LogHolds
  <2>3. Distinct(new)
    <3>1. ASSUME NEW j \in 1 .. n, log[j].rule = i, log[j].subject = subject
          PROVE  /\ Quiet(rules[log[j].rule].type)
                 /\ now >= log[j].firedAt + QuietTime[rules[log[j].rule].type]
      <4>1. Quiet(rules[i].type) /\ ~(log[j].firedAt > now - QuietTime[rules[i].type])
        BY <1>2, <1>4, <3>1 DEF AlreadyFired
      <4>2. log[j].firedAt \in Nat /\ now \in Nat
        BY <1>2 DEF LogHolds, Sound, AlertTypesHold
      <4>3. QuietTime[rules[i].type] \in Nat
        BY <4>1, AlertsAssumption DEF Quiet
      <4> QED
        BY <3>1, <4>1, <4>2, <4>3
    <3>2. ASSUME NEW j \in 1 .. n + 1, NEW k \in 1 .. n + 1, j < k,
                 new[j].rule = new[k].rule, new[j].subject = new[k].subject
          PROVE  /\ Quiet(rules[new[j].rule].type)
                 /\ new[k].firedAt >= new[j].firedAt + QuietTime[rules[new[j].rule].type]
      <4>1. CASE k = n + 1
        BY <2>1, <3>1, <3>2, <4>1
      <4>2. CASE k \in 1 .. n
        <5>1. j \in 1 .. n /\ new[j] = log[j] /\ new[k] = log[k]
          BY <2>1, <3>2, <4>2
        <5> QED
          BY <1>2, <3>2, <4>2, <5>1 DEF LogHolds, Distinct
      <4> QED
        BY <4>1, <4>2
    <3> QED
      BY <2>1, <3>2 DEF Distinct
  <2> DEFINE kept == Kept(new)
  <2>4. PICK d \in Nat :
           /\ kept \in Seq(S \cup {alert}) /\ Len(kept) \in Nat
           /\ \A k \in 1 .. Len(kept) : k + d \in 1 .. Len(new) /\ kept[k] = new[k + d]
    <3> DEFINE T == S \cup {alert}
    <3>1. new \in Seq(T)
      BY <2>1
    <3> HIDE DEF T
    <3> QED
      BY <3>1, KeptIs DEF T
  <2>5. Fire(log, i, subject) = kept
    BY <1>4 DEF Fire, new
  <2> HIDE DEF kept, alert
  <2>6. IsSeq(kept)
    BY <2>4 DEF IsSeq
  <2>7. ASSUME NEW k \in 1 .. Len(kept) PROVE Sound(kept[k])
    BY <2>1, <2>2, <2>4
  <2>8. Distinct(kept)
    <3>1. \A j, k \in 1 .. Len(kept) : j < k => j + d < k + d
      BY <2>4
    <3> QED
      BY <2>3, <2>4, <3>1 DEF Distinct
  <2> QED
    BY <2>5, <2>6, <2>7, <2>8 DEF LogHolds
<1> QED
  BY <1>3, <1>4

LEMMA FiredKeeps ==
  ASSUME AlertTypesHold, LogHolds(firedAlerts), NEW i, NEW found, Len(found) \in Nat,
         \A n \in 1 .. Len(found) :
           Sound([rule |-> i, subject |-> found[n], firedAt |-> now, acknowledged |-> FALSE])
  PROVE  LogHolds(Fired(i, found))
<1> DEFINE L == Len(found)
<1>1. PICK logs : /\ logs[0] = firedAlerts /\ logs[L] = Fired(i, found)
                  /\ \A n \in 1 .. L : logs[n] = Fire(logs[n - 1], i, found[n])
  BY FiredSteps
<1> DEFINE S == {n \in 0 .. L : LogHolds(logs[n])}
<1>2. 0 \in S
  BY <1>1
<1>3. ASSUME NEW n \in 0 .. L - 1, n \in S PROVE n + 1 \in S
  <2>1. n + 1 \in 1 .. L /\ (n + 1) - 1 = n /\ LogHolds(logs[n])
    BY <1>3
  <2>2. logs[n + 1] = Fire(logs[n], i, found[n + 1])
    BY <1>1, <2>1
  <2>3. LogHolds(Fire(logs[n], i, found[n + 1]))
    BY <2>1, FireKeeps
  <2> QED
    BY <2>1, <2>2, <2>3
<1>4. L \in S
  <2>1. L \in Nat
    OBVIOUS
  <2> HIDE DEF S, L
  <2>2. 0 .. L \subseteq S
    BY <1>2, <1>3, <2>1, AllUpTo
  <2> QED
    BY <2>1, <2>2
<1> QED
  BY <1>1, <1>4

------------------------------------------------------------------------------
(* What steps leave as it was.                                              *)

\* Time goes on, bets stay, and a rule is only ever switched.
Carried ==
  /\ AlertTypesHold' /\ now <= now'
  /\ \A b \in Bets : placedAt[b] # 0 => placedAt'[b] = placedAt[b]
  /\ \A i \in DOMAIN rules :
       /\ i \in DOMAIN rules' /\ rules'[i].type = rules[i].type
       /\ rules'[i].window = rules[i].window /\ rules'[i].threshold = rules[i].threshold
       /\ i \in Switched =>
            \/ rules'[i].enabled = rules[i].enabled /\ disabledAt'[i] = disabledAt[i]
            \/ disabledAt'[i] = now

\* Bets do not go away.
LEMMA MoreBets ==
  ASSUME AlertTypesHold, Carried, NEW window \in Nat, NEW n \in Nat, NEW t \in Nat, NEW user,
         Rapid(window, n, t, user)
  PROVE  Rapid(window, n, t, user)'
<1> DEFINE A == {b \in BetsSince(t - window) : UserOf[b] = user /\ placedAt[b] <= t + MaxDelay}
           B == {b \in Bets : placedAt'[b] # 0 /\ placedAt'[b] >= t - window
                              /\ UserOf[b] = user /\ placedAt'[b] <= t + MaxDelay}
<1>1. A \subseteq B /\ B \subseteq Bets
  BY DEF BetsSince, Carried
<1>2. Cardinality(A) >= n
  BY DEF Rapid
<1>3. Rapid(window, n, t, user)' <=> Cardinality(B) >= n
  <2>1. {b \in BetsSince(t - window)' : UserOf[b] = user /\ placedAt'[b] <= t + MaxDelay} = B
    BY DEF BetsSince
  <2> HIDE DEF B
  <2> QED
    BY <2>1 DEF Rapid
<1> HIDE DEF A, B
<1> QED
  BY <1>1, <1>2, <1>3, FewerBets

LEMMA RuleTypes ==
  ASSUME AlertTypesHold, NEW i \in DOMAIN rules
  PROVE  /\ rules[i] \in AlertRule /\ rules[i].window \in Nat /\ rules[i].threshold \in Nat
         /\ rules[i].enabled \in BOOLEAN /\ rules[i].type \in AlertTypes /\ i \in Nat \ {0}
<1>1. i \in 1 .. Len(rules) /\ Len(rules) \in Nat
  BY LenProperties DEF AlertTypesHold
<1>2. rules[i] \in AlertRule
  BY <1>1, ElementOfSeq DEF AlertTypesHold
<1> QED
  BY <1>1, <1>2 DEF AlertRule

LEMMA RapidStays ==
  ASSUME AlertTypesHold, Carried, NEW i \in DOMAIN rules, NEW t \in Nat, NEW user,
         RapidFor(i, t, user)
  PROVE  RapidFor(i, t, user)'
<1>1. rules'[i].window = rules[i].window /\ rules'[i].threshold = rules[i].threshold
  BY DEF Carried
<1>2. ASSUME NEW window \in Nat \ {NoWindow}, NEW n \in Nat, rules'[i].window = window, rules'[i].threshold = n
      PROVE  Rapid(window, n, t, user)'
  BY <1>1, <1>2, MoreBets DEF RapidFor
<1> QED
  BY <1>2 DEF RapidFor

LEMMA SoundStays ==
  ASSUME AlertTypesHold, Carried, NEW alert, Sound(alert)
  PROVE  Sound(alert)'
<1> DEFINE i == alert.rule
<1>1. /\ i \in DOMAIN rules /\ i \in DOMAIN rules' /\ alert.firedAt \in 1 .. now
      /\ now \in Nat /\ now' \in Nat /\ now <= now'
  BY DEF Sound, Carried, AlertTypesHold
<1>2. /\ rules'[i].type = rules[i].type
      /\ rules'[i].window = rules[i].window /\ rules'[i].threshold = rules[i].threshold
      /\ rules[i].window \in Nat /\ rules[i].threshold \in Nat
  BY <1>1, RuleTypes DEF Carried
<1>3. alert.firedAt \in 1 .. now'
  BY <1>1
<1>4. ASSUME rules'[i].type = "rapid_betting"
      PROVE  \E t \in 1 .. alert.firedAt : RapidFor(i, t, alert.subject)'
  <2>1. PICK t \in 1 .. alert.firedAt : RapidFor(i, t, alert.subject)
    BY <1>2, <1>4 DEF Sound
  <2> QED
    BY <1>1, <2>1, RapidStays
<1>5. ASSUME i \in Switched, ~rules'[i].enabled
      PROVE  alert.firedAt <= disabledAt'[i] + MaxDelay
  <2>1. CASE rules'[i].enabled = rules[i].enabled /\ disabledAt'[i] = disabledAt[i]
    BY <1>5, <2>1 DEF Sound
  <2>2. CASE disabledAt'[i] = now
    BY <1>1, <2>2, AlertsAssumption
  <2> QED
    BY <1>1, <1>5, <2>1, <2>2 DEF Carried
<1> QED
  BY <1>1, <1>3, <1>4, <1>5 DEF Sound

LEMMA LogStays ==
  ASSUME AlertTypesHold, Carried, NEW log, LogHolds(log)
  PROVE  LogHolds(log)'
<1>1. \A k \in 1 .. Len(log) : Sound(log[k])'
  BY SoundStays DEF LogHolds
<1>2. \A k \in 1 .. Len(log) : rules'[log[k].rule].type = rules[log[k].rule].type
  BY DEF LogHolds, Sound, Carried
<1>3. Distinct(log)'
  BY <1>2 DEF LogHolds, Distinct, Quiet
<1> QED
  BY <1>1, <1>3 DEF LogHolds, IsSeq

LEMMA ActiveStays ==
  ASSUME AlertTypesHold, Carried, NEW k, Active(k), now' <= k.askedAt + MaxDelay
  PROVE  Active(k)'
<1> DEFINE i == k.rule
<1>1. /\ i \in DOMAIN rules /\ i \in DOMAIN rules' /\ k.askedAt \in 1 .. now
      /\ now \in Nat /\ now' \in Nat /\ now <= now' /\ rules'[i].type = rules[i].type
  BY DEF Active, Carried, AlertTypesHold
<1>2. k.askedAt \in 1 .. now' /\ k.askedAt \in Nat
  BY <1>1
<1>3. ASSUME rules'[i].type = "rapid_betting", NEW n \in 1 .. Len(k.found)
      PROVE  RapidFor(i, k.askedAt, k.found[n])'
  <2>1. RapidFor(i, k.askedAt, k.found[n])
    BY <1>1, <1>3 DEF Active
  <2> QED
    BY <1>1, <1>2, <2>1, RapidStays
<1>4. ASSUME i \in Switched, ~rules'[i].enabled PROVE k.askedAt <= disabledAt'[i]
  BY <1>1, <1>4 DEF Active, Carried
<1> QED
  BY <1>1, <1>2, <1>3, <1>4 DEF Active, IsSeq

------------------------------------------------------------------------------
(* The steps.                                                               *)

\* The next rule the loop looks at is on.
LEMMA FromActive ==
  ASSUME AlertTypesHold, NEW i
  PROVE  DOMAIN From(i) = DOMAIN Idle /\ (From(i).at # "idle" => Active(From(i)))
<1> DEFINE next == {j \in DOMAIN rules : j >= i /\ Checked(j)}
<1>1. CASE next = {}
  BY <1>1 DEF From, Idle
<1>2. CASE next # {}
  <2>1. next \subseteq Nat
    BY RuleTypes
  <2>2. Min(next) \in next
    <3> HIDE DEF next
    <3> QED
      BY <1>2, <2>1, Smallest DEF Min
  <2> DEFINE j == Min(next)
  <2>3. From(i) = [rule |-> j, at |-> "asking", askedAt |-> now, snapshot |-> latestSnapshot,
                   found |-> <<>>]
    BY <1>2 DEF From
  <2>4. j \in DOMAIN rules /\ Checked(j)
    BY <2>2
  <2> HIDE DEF j, next
  <2>5. now \in 1 .. now /\ now <= now + MaxDelay
    BY AlertsAssumption DEF AlertTypesHold
  <2>6. IsSeq(<<>>) /\ Len(<<>>) = 0
    BY EmptySeq DEF IsSeq
  <2>7. DOMAIN From(i) = DOMAIN Idle
    BY <2>3 DEF Idle
  <2> QED
    BY <2>3, <2>4, <2>5, <2>6, <2>7, RuleTypes DEF Active, Checked, Enabled
<1> QED
  BY <1>1, <1>2

\* An order of a set of bets or users is a sequence of them.
LEMMA OrderIsSeq ==
  ASSUME NEW S, IsFiniteSet(S), NEW s \in SetToSeqs(S)
  PROVE  s \in Seq(S)
<1>1. s \in [1 .. Cardinality(S) -> S] /\ Cardinality(S) \in Nat
  BY FS_CardinalityType DEF SetToSeqs
<1> QED
  BY <1>1, SeqDef

LEMMA FoundHolds ==
  ASSUME AlertTypesHold, NEW c, Active(check[c]), NEW found \in Found(c)
  PROVE  /\ IsSeq(found)
         /\ rules[check[c].rule].type = "rapid_betting" =>
              \A n \in 1 .. Len(found) : RapidFor(check[c].rule, check[c].askedAt, found[n])
<1> DEFINE i == check[c].rule
           rule == rules[i]
           t == check[c].askedAt
<1>1. /\ i \in DOMAIN rules /\ rule \in AlertRule /\ rule.type \in AlertTypes
      /\ rule.type \notin {"new_market", "large_position"}
      /\ t \in 1 .. now /\ now \in Nat /\ now <= t + MaxDelay
  BY RuleTypes DEF Active, AlertTypesHold
<1>2. CASE rule.type = "whale_bet"
  <2>1. found \in WhaleBets(rule, t)
    BY <1>2 DEF Found
  <2> DEFINE B == {b \in BetsSince(GetWindowDate(rule, t)) : AmountOf[b] >= rule.threshold}
  <2>2. PICK s \in SetToSeqs(B) : found = SubSeq(s, 1, IF Len(s) < Top THEN Len(s) ELSE Top)
    BY <2>1 DEF WhaleBets, Largest
  <2>3. s \in Seq(B)
    <3>1. IsFiniteSet(B)
      BY FewerBets DEF BetsSince
    <3> HIDE DEF B
    <3> QED
      BY <3>1, OrderIsSeq
  <2> HIDE DEF B
  <2>4. PICK m \in Nat : m = Len(s) /\ \A n \in 1 .. m : s[n] \in B
    BY <2>3, LenProperties, ElementOfSeq
  <2>5. PICK l \in Nat : l <= m /\ found = SubSeq(s, 1, l)
    BY <2>2, <2>4, AlertsAssumption
  <2>6. SubSeq(s, 1, l) \in Seq(B)
    BY <2>4, <2>5, SubSeqProperties
  <2> QED
    BY <1>2, <2>5, <2>6 DEF IsSeq
<1>3. CASE rule.type \in {"volume_spike", "revenue_milestone"}
  <2>1. found \in {<<>>, <<"spike">>, <<"milestone">>}
    BY <1>3 DEF Found, Spikes, Milestones
  <2>2. found \in Seq({"spike", "milestone"})
    <3>1. /\ <<>> \in Seq({"spike", "milestone"}) /\ <<"spike">> \in Seq({"spike", "milestone"})
          /\ <<"milestone">> \in Seq({"spike", "milestone"})
      BY EmptySeq
    <3> QED
      BY <2>1, <3>1
  <2> QED
    BY <1>3, <2>2 DEF IsSeq
<1>4. CASE rule.type = "rapid_betting"
  <2> DEFINE recent == BetsSince(GetWindowDate(rule, t))
             Of(u) == {b \in recent : UserOf[b] = u}
             U == {u \in {UserOf[b] : b \in recent} : Cardinality(Of(u)) >= rule.threshold}
  <2>1. found \in SetToSeqs(U)
    BY <1>4 DEF Found, RapidUsers
  <2>2. IsFiniteSet(U)
    <3>1. IsFiniteSet(recent)
      BY FewerBets DEF BetsSince
    <3> DEFINE f == [b \in recent |-> UserOf[b]]
               all == {UserOf[b] : b \in recent}
    <3>2. f \in Surjection(recent, all)
      BY DEF Surjection
    <3> HIDE DEF f, recent
    <3>3. IsFiniteSet(all)
      <4> HIDE DEF all
      <4> QED
        BY <3>1, <3>2, FS_Surjection
    <3>4. U \in SUBSET all
      OBVIOUS
    <3> HIDE DEF all, U
    <3> QED
      BY <3>3, <3>4, FS_Subset
  <2>3. found \in Seq(U)
    <3> HIDE DEF U
    <3> QED
      BY <2>1, <2>2, OrderIsSeq
  <2>4. ASSUME NEW n \in 1 .. Len(found) PROVE RapidFor(i, t, found[n])
    <3>1. found[n] \in U
      <4> HIDE DEF U
      <4> QED
        BY <2>3, <2>4, ElementOfSeq
    <3>2. Cardinality(Of(found[n])) >= rule.threshold
      BY <3>1
    <3>3. ASSUME rule.window # NoWindow
          PROVE  Of(found[n]) = {b \in BetsSince(t - rule.window) :
                                   UserOf[b] = found[n] /\ placedAt[b] <= t + MaxDelay}
      <4>1. \A b \in Bets : placedAt[b] <= t + MaxDelay
        <5>1. \A b \in Bets : placedAt[b] \in Nat /\ placedAt[b] <= now
          BY DEF AlertTypesHold
        <5>2. MaxDelay \in Nat
          BY AlertsAssumption
        <5> QED
          BY <1>1, <5>1, <5>2
      <4>2. GetWindowDate(rule, t) = t - rule.window
        BY <3>3 DEF GetWindowDate
      <4>3. Of(found[n]) = {b \in BetsSince(t - rule.window) : UserOf[b] = found[n]}
        BY <4>2
      <4> HIDE DEF Of
      <4> QED
        BY <4>1, <4>3 DEF BetsSince
    <3> HIDE DEF Of
    <3> QED
      BY <3>2, <3>3 DEF RapidFor, Rapid
  <2> HIDE DEF U
  <2> QED
    BY <2>3, <2>4 DEF IsSeq
<1> QED
  BY <1>1, <1>2, <1>3, <1>4 DEF AlertTypes

\* Steps that touch neither the log nor a check.
LEMMA OtherStep ==
  ASSUME AlertsInv, Carried, UNCHANGED <<check, firedAlerts>>,
         \A c \in Checks : check[c].at # "idle" => now' <= check[c].askedAt + MaxDelay
  PROVE  AlertsInv'
<1>1. LogHolds(firedAlerts)'
  <2>1. PICK log : log = firedAlerts
    OBVIOUS
  <2>2. LogHolds(log)'
    BY <2>1, LogStays DEF AlertsInv
  <2> QED
    BY <2>1, <2>2
<1>2. ChecksHold'
  <2>1. ASSUME NEW c \in Checks, check'[c].at # "idle" PROVE Active(check[c])'
    <3>1. PICK k : k = check[c]
      OBVIOUS
    <3>2. Active(k)'
      BY <2>1, <3>1, ActiveStays DEF AlertsInv, ChecksHold
    <3> QED
      BY <3>1, <3>2
  <2> QED
    BY <2>1 DEF AlertsInv, ChecksHold
<1> QED
  BY <1>1, <1>2 DEF AlertsInv, Carried

\* Steps of one check: it takes up a rule that is on, or holds an answer.
LEMMA CheckMoves ==
  ASSUME ChecksHold, NEW c \in Checks, NEW k, check' = [check EXCEPT ![c] = k],
         DOMAIN k = DOMAIN Idle, k.at # "idle" => Active(k), UNCHANGED <<now, placedAt, rules, disabledAt>>
  PROVE  ChecksHold'
<1>1. ASSUME NEW d \in Checks, check'[d].at # "idle" PROVE Active(check[d])'
  <2>1. PICK l : l = check'[d]
    OBVIOUS
  <2>2. Active(l)
    BY <1>1, <2>1 DEF ChecksHold
  <2>3. Active(l)'
    BY <2>2 DEF Active, RapidFor, Rapid, BetsSince
  <2> QED
    BY <2>1, <2>3
<1> QED
  BY <1>1 DEF ChecksHold

LEMMA SameLog ==
  ASSUME AlertTypesHold, NEW log, LogHolds(log), UNCHANGED <<now, placedAt, rules, disabledAt>>
  PROVE  LogHolds(log)'
<1>1. Carried
  BY DEF AlertTypesHold, Carried
<1> QED
  BY <1>1, LogStays

LEMMA QueryStep == ASSUME AlertsInv, NEW c \in Checks, Query(c) PROVE AlertsInv'
<1>1. PICK found \in Found(c) : check' = [check EXCEPT ![c] = [check[c] EXCEPT !.at = "answered", !.found = found]]
  BY DEF Query, Set
<1> DEFINE k == [check[c] EXCEPT !.at = "answered", !.found = found]
<1>2. Active(check[c])
  BY DEF AlertsInv, ChecksHold, Query
<1>3. /\ DOMAIN k = DOMAIN Idle
      /\ k.rule = check[c].rule /\ k.askedAt = check[c].askedAt /\ k.found = found
  BY DEF AlertsInv, ChecksHold, Idle
<1>4. Active(k)
  <2>1. /\ IsSeq(found)
        /\ rules[check[c].rule].type = "rapid_betting" =>
             \A n \in 1 .. Len(found) : RapidFor(check[c].rule, check[c].askedAt, found[n])
    BY <1>2, FoundHolds DEF AlertsInv
  <2> HIDE DEF k
  <2> QED
    BY <1>2, <1>3, <2>1 DEF Active
<1> QED
  BY <1>1, <1>3, <1>4, CheckMoves, SameLog DEF Query, AlertsInv, memoryVars, AlertTypesHold

\* What a check found is fired with its cause.
LEMMA FireStep == ASSUME AlertsInv, NEW c \in Checks, FireAlerts(c) PROVE AlertsInv'
<1> DEFINE i == check[c].rule
           found == check[c].found
<1>1. Active(check[c]) /\ now \in Nat \ {0}
  BY DEF AlertsInv, ChecksHold, FireAlerts, AlertTypesHold
<1>2. Len(found) \in Nat
  BY <1>1, LenProperties DEF Active, IsSeq
<1>3. ASSUME NEW n \in 1 .. Len(found)
      PROVE  Sound([rule |-> i, subject |-> found[n], firedAt |-> now, acknowledged |-> FALSE])
  <2> DEFINE alert == [rule |-> i, subject |-> found[n], firedAt |-> now, acknowledged |-> FALSE]
  <2>1. /\ i \in DOMAIN rules /\ check[c].askedAt \in 1 .. now /\ now \in 1 .. now
        /\ now <= check[c].askedAt + MaxDelay
    BY <1>1 DEF Active
  <2>2. ASSUME rules[i].type = "rapid_betting"
        PROVE  \E t \in 1 .. now : RapidFor(i, t, found[n])
    BY <1>1, <2>1, <2>2 DEF Active
  <2>3. ASSUME i \in Switched, ~rules[i].enabled PROVE now <= disabledAt[i] + MaxDelay
    <3>1. check[c].askedAt <= disabledAt[i] /\ disabledAt[i] \in Nat
      BY <1>1, <2>3 DEF Active, AlertsInv, AlertTypesHold
    <3> QED
      BY <1>1, <2>1, <3>1, AlertsAssumption
  <2>4. /\ DOMAIN alert = AlertFields
        /\ alert.rule = i /\ alert.subject = found[n] /\ alert.firedAt = now
    BY DEF AlertFields
  <2> HIDE DEF alert, i, found
  <2>5. Sound(alert)
    BY <2>1, <2>2, <2>3, <2>4 DEF Sound
  <2> QED
    BY <2>5 DEF alert
<1>4. PICK log : log = firedAlerts' /\ LogHolds(log)
  <2>1. firedAlerts' = Fired(i, found)
    BY DEF FireAlerts
  <2>2. LogHolds(Fired(i, found))
    BY <1>2, <1>3, FiredKeeps DEF AlertsInv
  <2> QED
    BY <2>1, <2>2
<1>5. UNCHANGED <<now, placedAt, rules, disabledAt>>
  BY DEF FireAlerts
<1>6. LogHolds(firedAlerts)'
  BY <1>4, <1>5, SameLog DEF AlertsInv
<1>7. ChecksHold'
  <2>1. PICK k : k = From(i + 1) /\ DOMAIN k = DOMAIN Idle /\ (k.at # "idle" => Active(k))
    BY FromActive DEF AlertsInv
  <2>2. check' = [check EXCEPT ![c] = k]
    BY <2>1 DEF FireAlerts, Proceed, Set
  <2> QED
    BY <1>5, <2>1, <2>2, CheckMoves DEF AlertsInv
<1> QED
  BY <1>5, <1>6, <1>7 DEF AlertsInv, AlertTypesHold

LEMMA LoopStep ==
  ASSUME AlertsInv, NEW c \in Checks, CheckAlerts(c) \/ QueryFails(c)
  PROVE  AlertsInv'
<1>1. UNCHANGED <<now, placedAt, rules, disabledAt, firedAlerts>>
  BY DEF CheckAlerts, QueryFails, memoryVars
<1>2. PICK i : check' = [check EXCEPT ![c] = From(i)]
  BY DEF CheckAlerts, QueryFails, Proceed, Set
<1>3. PICK k : k = From(i) /\ DOMAIN k = DOMAIN Idle /\ (k.at # "idle" => Active(k))
  BY FromActive DEF AlertsInv
<1>4. ChecksHold'
  BY <1>1, <1>2, <1>3, CheckMoves DEF AlertsInv
<1>5. LogHolds(firedAlerts)'
  <2>1. PICK log : log = firedAlerts
    OBVIOUS
  <2>2. LogHolds(log)'
    BY <1>1, <2>1, SameLog DEF AlertsInv
  <2> QED
    BY <1>1, <2>1, <2>2
<1> QED
  BY <1>1, <1>4, <1>5 DEF AlertsInv, AlertTypesHold

\* An acknowledged alert stays in the log.
LEMMA AcknowledgeStep == ASSUME AlertsInv, NEW k, AcknowledgeAlert(k) PROVE AlertsInv'
<1> DEFINE new == [firedAlerts EXCEPT ![k].acknowledged = TRUE]
<1>1. UNCHANGED <<now, placedAt, rules, disabledAt, check>> /\ firedAlerts' = new
  BY DEF AcknowledgeAlert
<1>2. PICK S : firedAlerts \in Seq(S)
  BY DEF AlertsInv, LogHolds, IsSeq
<1>3. PICK n \in Nat : n = Len(firedAlerts) /\ DOMAIN firedAlerts = 1 .. n /\ k \in 1 .. n
  BY <1>2, LenProperties DEF AcknowledgeAlert
<1>4. ASSUME NEW j \in 1 .. n
      PROVE  /\ DOMAIN new[j] = DOMAIN firedAlerts[j]
             /\ new[j].rule = firedAlerts[j].rule /\ new[j].subject = firedAlerts[j].subject
             /\ new[j].firedAt = firedAlerts[j].firedAt
  BY <1>2, <1>3
<1>5. IsSeq(new) /\ Len(new) = n
  <2> DEFINE T == S \cup {[firedAlerts[k] EXCEPT !.acknowledged = TRUE]}
  <2>1. firedAlerts \in Seq(T)
    BY <1>2, SeqMonotonic
  <2>2. [firedAlerts[k] EXCEPT !.acknowledged = TRUE] \in T
    OBVIOUS
  <2> HIDE DEF T
  <2>3. new \in Seq(T) /\ Len(new) = n
    BY <1>3, <2>1, <2>2, ExceptSeq
  <2> QED
    BY <2>3 DEF IsSeq
<1> HIDE DEF new
<1>6. ASSUME NEW j \in 1 .. n PROVE Sound(new[j])
  <2>1. Sound(firedAlerts[j])
    BY <1>3 DEF AlertsInv, LogHolds
  <2> QED
    BY <1>4, <2>1 DEF Sound
<1>7. Distinct(new)
  BY <1>3, <1>4, <1>5 DEF AlertsInv, LogHolds, Distinct
<1>8. PICK log : log = firedAlerts' /\ LogHolds(log)
  BY <1>1, <1>5, <1>6, <1>7 DEF LogHolds
<1>9. LogHolds(firedAlerts)'
  BY <1>1, <1>8, SameLog DEF AlertsInv
<1>10. ChecksHold'
  <2>1. ASSUME NEW c \in Checks, check'[c].at # "idle" PROVE Active(check[c])'
    <3>1. PICK l : l = check[c] /\ Active(l)
      BY <1>1, <2>1 DEF AlertsInv, ChecksHold
    <3>2. Active(l)'
      BY <1>1, <3>1 DEF Active, RapidFor, Rapid, BetsSince
    <3> QED
      BY <1>1, <3>1, <3>2
  <2> QED
    BY <1>1, <2>1 DEF AlertsInv, ChecksHold
<1> QED
  BY <1>1, <1>9, <1>10 DEF AlertsInv, AlertTypesHold

\* No check in flight is older than a delay.
LEMMA InFlight ==
  ASSUME AlertsInv, NEW c \in Checks, check[c].at # "idle"
  PROVE  now <= check[c].askedAt + MaxDelay
BY DEF AlertsInv, ChecksHold, Active

LEMMA TickStep == ASSUME AlertsInv, Tick PROVE AlertsInv'
<1>1. /\ now \in Nat \ {0} /\ now' = now + 1 /\ now' \in Nat \ {0}
      /\ UNCHANGED <<placedAt, rules, disabledAt, check, firedAlerts>>
  BY DEF Tick, AlertsInv, AlertTypesHold, memoryVars
<1>2. Carried
  <2>1. 0 .. now \subseteq 0 .. now'
    BY <1>1
  <2>2. AlertTypesHold'
    BY <1>1, <2>1 DEF AlertsInv, AlertTypesHold
  <2> QED
    BY <1>1, <2>2 DEF Carried
<1>3. ASSUME NEW c \in Checks, check[c].at # "idle"
      PROVE  now' <= check[c].askedAt + MaxDelay
  <2>1. now < check[c].askedAt + MaxDelay
    BY <1>3 DEF Tick
  <2>2. check[c].askedAt \in Nat
    BY <1>1, <1>3 DEF AlertsInv, ChecksHold, Active
  <2> QED
    BY <1>1, <2>1, <2>2, AlertsAssumption
<1> QED
  BY <1>1, <1>2, <1>3, OtherStep

LEMMA PlaceBetStep == ASSUME AlertsInv, NEW b \in Bets, PlaceBet(b) PROVE AlertsInv'
<1>1. /\ placedAt[b] = 0 /\ placedAt' = [placedAt EXCEPT ![b] = now]
      /\ UNCHANGED <<now, rules, disabledAt, check, firedAlerts>>
  BY DEF PlaceBet, memoryVars
<1>2. Carried
  <2>1. now \in 0 .. now
    BY DEF AlertsInv, AlertTypesHold
  <2>2. AlertTypesHold'
    BY <1>1, <2>1 DEF AlertsInv, AlertTypesHold
  <2> QED
    BY <1>1, <2>2 DEF Carried, AlertsInv, AlertTypesHold
<1> QED
  BY <1>1, <1>2, InFlight, OtherStep

\* A new rule is the last one.
LEMMA AddRuleStep == ASSUME AlertsInv, NEW rule \in AddedRules, AddRule(rule) PROVE AlertsInv'
<1>1. /\ rules' = Append(rules, rule) /\ rule \in AlertRule
      /\ UNCHANGED <<now, placedAt, disabledAt, check, firedAlerts>>
  BY AlertsAssumption DEF AddRule, Appended
<1>2. rules \in Seq(AlertRule)
  BY DEF AlertsInv, AlertTypesHold
<1>3. PICK n \in Nat : n = Len(rules) /\ DOMAIN rules = 1 .. n
  BY <1>2, LenProperties
<1>4. /\ rules' \in Seq(AlertRule) /\ Len(rules') = n + 1
      /\ \A i \in 1 .. n : rules'[i] = rules[i]
  BY <1>1, <1>2, <1>3, AppendProperties
<1>5. DOMAIN rules' = 1 .. n + 1
  BY <1>4, LenProperties
<1>6. Carried
  BY <1>1, <1>3, <1>4, <1>5 DEF Carried, AlertsInv, AlertTypesHold
<1> QED
  BY <1>1, <1>6, InFlight, OtherStep

LEMMA ToggleRuleStep ==
  ASSUME AlertsInv, NEW i \in Switched, NEW enabled \in BOOLEAN, ToggleRule(i, enabled)
  PROVE  AlertsInv'
<1>1. /\ i \in DOMAIN rules /\ rules' = [rules EXCEPT ![i].enabled = enabled]
      /\ disabledAt' = [disabledAt EXCEPT ![i] = now]
      /\ UNCHANGED <<now, placedAt, check, firedAlerts>>
  BY DEF ToggleRule
<1>2. /\ rules \in Seq(AlertRule) /\ disabledAt \in [Switched -> 0 .. now] /\ now \in 0 .. now
  BY DEF AlertsInv, AlertTypesHold
<1>3. PICK n \in Nat : n = Len(rules) /\ DOMAIN rules = 1 .. n
  BY <1>2, LenProperties
<1> DEFINE rule == [rules[i] EXCEPT !.enabled = enabled]
<1>4. rules[i] \in AlertRule
  BY <1>1, RuleTypes DEF AlertsInv
<1>5. /\ rule \in AlertRule /\ rule.type = rules[i].type
      /\ rule.window = rules[i].window /\ rule.threshold = rules[i].threshold
  BY <1>4 DEF AlertRule
<1>6. rules' = [rules EXCEPT ![i] = rule]
  BY <1>1
<1> HIDE DEF rule
<1>7. rules' \in Seq(AlertRule) /\ DOMAIN rules' = 1 .. n
  <2>1. [rules EXCEPT ![i] = rule] \in Seq(AlertRule) /\ Len([rules EXCEPT ![i] = rule]) = n
    BY <1>1, <1>2, <1>3, <1>5, ExceptSeq
  <2> QED
    BY <1>3, <1>6, <2>1, LenProperties
<1>8. \A j \in 1 .. n : rules'[j] = IF j = i THEN rule ELSE rules[j]
  BY <1>3, <1>6
<1>9. disabledAt' \in [Switched -> 0 .. now] /\ disabledAt'[i] = now
      /\ \A j \in Switched \ {i} : disabledAt'[j] = disabledAt[j]
  BY <1>1, <1>2
<1>10. AlertTypesHold'
  BY <1>1, <1>7, <1>9 DEF AlertsInv, AlertTypesHold
<1>11. Carried
  BY <1>1, <1>3, <1>5, <1>7, <1>8, <1>9, <1>10 DEF Carried, AlertsInv, AlertTypesHold
<1> QED
  BY <1>1, <1>11, InFlight, OtherStep

\* After a restart nothing is known and no check is in flight.
LEMMA FreshHolds ==
  ASSUME firedAlerts' = <<>>, check' = [c \in Checks |-> Idle]
  PROVE  ChecksHold' /\ LogHolds(firedAlerts)'
<1>1. ChecksHold'
  BY DEF ChecksHold, Idle
<1>2. IsSeq(<<>>) /\ Len(<<>>) = 0
  BY EmptySeq DEF IsSeq
<1>3. LogHolds(firedAlerts)'
  BY <1>2 DEF LogHolds, Distinct, IsSeq
<1> QED
  BY <1>1, <1>3

LEMMA AlertsInitInv == Init => AlertsInv
<1> SUFFICES ASSUME Init PROVE AlertsInv
  OBVIOUS
<1>1. AlertTypesHold
  BY AlertsAssumption DEF Init, AlertTypesHold
<1>2. ChecksHold
  BY DEF Init, ChecksHold, Idle
<1>3. IsSeq(<<>>) /\ Len(<<>>) = 0
  BY EmptySeq DEF IsSeq
<1>4. LogHolds(firedAlerts)
  BY <1>3 DEF Init, LogHolds, Distinct
<1> QED
  BY <1>1, <1>2, <1>4 DEF AlertsInv

LEMMA AlertsStep == AlertsInv /\ [Next]_vars => AlertsInv'
<1> SUFFICES ASSUME AlertsInv, [Next]_vars PROVE AlertsInv'
  OBVIOUS
<1>1. CASE Tick
  BY <1>1, TickStep
<1>2. ASSUME NEW b \in Bets, PlaceBet(b) PROVE AlertsInv'
  BY <1>2, PlaceBetStep
<1>3. ASSUME UNCHANGED <<now, placedAt, rules, disabledAt, check, firedAlerts>> PROVE AlertsInv'
  <2>1. Carried
    BY <1>3 DEF Carried, AlertsInv, AlertTypesHold
  <2> QED
    BY <1>3, <2>1, InFlight, OtherStep
<1>4. CASE Collect \/ \E v \in collected : Store(v)
  BY <1>3, <1>4 DEF Collect, Store, memoryVars
<1>5. ASSUME NEW rule \in AddedRules, AddRule(rule) PROVE AlertsInv'
  BY <1>5, AddRuleStep
<1>6. ASSUME NEW i \in Switched, NEW enabled \in BOOLEAN, ToggleRule(i, enabled) PROVE AlertsInv'
  BY <1>6, ToggleRuleStep
<1>7. ASSUME NEW k \in Acknowledged, AcknowledgeAlert(k) PROVE AlertsInv'
  BY <1>7, AcknowledgeStep
<1>8. ASSUME NEW c \in Checks, CheckAlerts(c) \/ QueryFails(c) PROVE AlertsInv'
  BY <1>8, LoopStep
<1>9. ASSUME NEW c \in Checks, Query(c) PROVE AlertsInv'
  BY <1>9, QueryStep
<1>10. ASSUME NEW c \in Checks, FireAlerts(c) PROVE AlertsInv'
  BY <1>10, FireStep
<1>11. CASE Restart
  <2>1. AlertTypesHold'
    BY <1>11, AlertsAssumption DEF Restart, AlertsInv, AlertTypesHold
  <2> QED
    BY <1>11, <2>1, FreshHolds DEF Restart, AlertsInv
<1>12. CASE UNCHANGED vars
  BY <1>3, <1>12 DEF vars, memoryVars
<1> QED
  BY <1>1, <1>2, <1>4, <1>5, <1>6, <1>7, <1>8, <1>9, <1>10, <1>11, <1>12 DEF Next

------------------------------------------------------------------------------
(* The theorems.                                                            *)

\* Every alert in memory and every check in flight has its cause.
THEOREM AlertsCorrect == Spec => []AlertsInv
BY AlertsInitInv, AlertsStep, PTL DEF Spec

\* alerts.service.ts, the checks of alreadyFired: however many checks overlap and
\* whatever is acknowledged or forgotten, no alert in memory repeats another one
\* within its quiet time.
THEOREM NoAlertTwice == Spec => []AlertsAreDistinct
<1>1. AlertsInv => AlertsAreDistinct
  <2> SUFFICES ASSUME AlertsInv PROVE AlertsAreDistinct
    OBVIOUS
  <2>1. DOMAIN firedAlerts = 1 .. Len(firedAlerts)
    BY LenProperties DEF AlertsInv, LogHolds, IsSeq
  <2> QED
    BY <2>1 DEF AlertsInv, LogHolds, Distinct, AlertsAreDistinct
<1> QED
  BY <1>1, AlertsCorrect, PTL

\* checkRapidBetting: who is reported made that many bets within a window that
\* getWindowDate knows and the delay of one query, whatever is placed while it waits.
THEOREM RapidIsRapid == Spec => []RapidMeansRapid
<1>1. AlertsInv => RapidMeansRapid
  <2> SUFFICES ASSUME AlertsInv, NEW k \in DOMAIN firedAlerts,
                      rules[firedAlerts[k].rule].type = "rapid_betting",
                      rules[firedAlerts[k].rule].window # NoWindow
               PROVE  \E t \in 1 .. firedAlerts[k].firedAt :
                        Rapid(rules[firedAlerts[k].rule].window,
                              rules[firedAlerts[k].rule].threshold, t, firedAlerts[k].subject)
    BY DEF RapidMeansRapid, Rapid
  <2>1. Sound(firedAlerts[k])
    BY LenProperties DEF AlertsInv, LogHolds, IsSeq
  <2> QED
    BY <2>1, RuleTypes DEF Sound, RapidFor, AlertsInv
<1> QED
  BY <1>1, AlertsCorrect, PTL

\* toggleRule: a rule that stays off fires nothing once the queries in flight are
\* answered.
THEOREM RulesStayOff == Spec => DisabledRulesStayQuiet
<1> DEFINE A == \A i \in Switched \cap DOMAIN rules :
                  ~rules[i].enabled /\ now > disabledAt[i] + MaxDelay =>
                    \A k \in DOMAIN firedAlerts' :
                      firedAlerts'[k].rule = i /\ firedAlerts'[k].firedAt = now =>
                        k \in DOMAIN firedAlerts /\ firedAlerts[k] = firedAlerts'[k]
<1>1. AlertsInv /\ AlertsInv' /\ [Next]_vars => [A]_vars
  <2> SUFFICES ASSUME AlertsInv, AlertsInv', Next,
                      NEW i \in Switched \cap DOMAIN rules,
                      ~rules[i].enabled, now > disabledAt[i] + MaxDelay,
                      NEW k \in DOMAIN firedAlerts',
                      firedAlerts'[k].rule = i, firedAlerts'[k].firedAt = now
               PROVE  k \in DOMAIN firedAlerts /\ firedAlerts[k] = firedAlerts'[k]
    BY DEF vars
  <2>1. CASE UNCHANGED <<rules, disabledAt>>
    <3>1. Sound(firedAlerts[k])'
      BY LenProperties DEF AlertsInv, LogHolds, IsSeq
    <3>2. now <= disabledAt[i] + MaxDelay
      BY <2>1, <3>1 DEF Sound
    <3>3. now \in Nat /\ disabledAt[i] \in Nat
      BY DEF AlertsInv, AlertTypesHold
    <3> QED
      BY <3>2, <3>3, AlertsAssumption
  <2>2. CASE UNCHANGED firedAlerts
    BY <2>2
  <2>3. CASE Restart
    BY <2>3, EmptySeq DEF Restart
  <2>4. UNCHANGED <<rules, disabledAt>> \/ UNCHANGED firedAlerts \/ Restart
    BY DEF Next, Tick, PlaceBet, Collect, Store, AddRule, ToggleRule, AcknowledgeAlert, CheckAlerts,
           Query, FireAlerts, QueryFails, memoryVars
  <2> QED
    BY <2>1, <2>2, <2>3, <2>4
<1>2. Spec => [][A]_vars
  BY <1>1, AlertsCorrect, PTL DEF Spec
<1> QED
  BY <1>2 DEF DisabledRulesStayQuiet
------------------------------------------------------------------------------
(* Whale bets.                                                              *)

\* The first n subjects of an answer are in the log, among the last n alerts if it
\* did not have them before.
Entered(log, found, n) ==
  LET known == {firedAlerts[k].subject : k \in 1 .. Len(firedAlerts)}
  IN  /\ IsSeq(log)
      /\ \A k \in 1 .. Len(log) : k <= Len(log) - n => log[k].subject \in known
      /\ \A m \in 1 .. n :
           \/ found[m] \in known
           \/ \E k \in 1 .. Len(log) : k > Len(log) - n /\ log[k].subject = found[m]

\* Memory holds more alerts than one query finds.
LEMMA FireEnters ==
  ASSUME NEW i, NEW found, NEW n \in 1 .. Keep, NEW log, Entered(log, found, n - 1)
  PROVE  Entered(Fire(log, i, found[n]), found, n)
<1> DEFINE known == {firedAlerts[k].subject : k \in 1 .. Len(firedAlerts)}
           alert == [rule |-> i, subject |-> found[n], firedAt |-> now, acknowledged |-> FALSE]
           new == Append(log, alert)
           kept == Kept(new)
<1> HIDE DEF known
<1>1. /\ IsSeq(log)
      /\ \A k \in 1 .. Len(log) : k <= Len(log) - (n - 1) => log[k].subject \in known
      /\ \A m \in 1 .. n - 1 :
           \/ found[m] \in known
           \/ \E k \in 1 .. Len(log) : k > Len(log) - (n - 1) /\ log[k].subject = found[m]
  BY DEF Entered, known
<1>2. PICK S : log \in Seq(S)
  BY <1>1 DEF IsSeq
<1>3. PICK l \in Nat : l = Len(log) /\ DOMAIN log = 1 .. l
  BY <1>2, LenProperties
<1>4. n \in Nat /\ n >= 1 /\ n <= Keep /\ Keep \in Nat
  BY AlertsAssumption
<1>5. CASE AlreadyFired(log, i, found[n])
  <2>1. PICK k \in 1 .. l : log[k].subject = found[n]
    BY <1>3, <1>5 DEF AlreadyFired
  <2>2. found[n] \in known \/ k > l - n
    BY <1>1, <1>3, <1>4, <2>1
  <2>3. \A m \in 1 .. n : \/ found[m] \in known
                          \/ \E j \in 1 .. l : j > l - n /\ log[j].subject = found[m]
    <3> TAKE m \in 1 .. n
    <3>1. CASE m = n
      BY <2>1, <2>2, <3>1
    <3>2. CASE m \in 1 .. n - 1
      <4>1. \A j \in 1 .. l : j > l - (n - 1) => j > l - n
        BY <1>4
      <4> QED
        BY <1>1, <1>3, <3>2, <4>1
    <3> QED
      BY <1>4, <3>1, <3>2
  <2>4. \A j \in 1 .. l : j <= l - n => log[j].subject \in known
    <3>1. \A j \in 1 .. l : j <= l - n => j <= l - (n - 1)
      BY <1>4
    <3> QED
      BY <1>1, <1>3, <3>1
  <2>5. Fire(log, i, found[n]) = log
    BY <1>5 DEF Fire
  <2> QED
    BY <1>1, <1>3, <2>3, <2>4, <2>5 DEF Entered, known
<1>6. CASE ~AlreadyFired(log, i, found[n])
  <2> DEFINE T == S \cup {alert}
  <2>1. /\ new \in Seq(T) /\ Len(new) = l + 1 /\ new[l + 1].subject = found[n]
        /\ \A k \in 1 .. l : new[k] = log[k]
    <3>1. log \in Seq(T) /\ alert \in T
      BY <1>2, SeqMonotonic
    <3> HIDE DEF T
    <3>2. new \in Seq(T) /\ Len(new) = l + 1 /\ new[l + 1] = alert /\ \A k \in 1 .. l : new[k] = log[k]
      BY <1>3, <3>1, AppendProperties
    <3> QED
      BY <3>2
  <2> HIDE DEF T, new
  <2>2. PICK d \in Nat :
          /\ kept \in Seq(T) /\ Len(kept) \in Nat
          /\ Len(kept) + d = l + 1 /\ (d = 0 \/ Len(kept) = Keep)
          /\ \A k \in 1 .. Len(kept) : k + d \in 1 .. l + 1 /\ kept[k] = new[k + d]
    <3>1. \E d \in Nat :
            /\ kept \in Seq(T) /\ Len(kept) \in Nat
            /\ Len(kept) + d = Len(new) /\ (d = 0 \/ Len(kept) = Keep)
            /\ \A k \in 1 .. Len(kept) : k + d \in 1 .. Len(new) /\ kept[k] = new[k + d]
      <4>1. new \in Seq(T)
        BY <2>1
      <4> QED
        BY <4>1, KeptIs
    <3> QED
      BY <2>1, <3>1
  <2> HIDE DEF kept
  <2>3. ASSUME NEW k \in 1 .. Len(kept), k <= Len(kept) - n
        PROVE  kept[k].subject \in known
    <3>1. k + d \in 1 .. l /\ k + d <= l - (n - 1)
      BY <1>4, <2>2, <2>3
    <3>2. kept[k] = log[k + d]
      BY <2>1, <2>2, <3>1
    <3> QED
      BY <1>1, <1>3, <3>1, <3>2
  <2>4. ASSUME NEW k \in 1 .. l + 1, k > l + 1 - n
        PROVE  k - d \in 1 .. Len(kept) /\ k - d > Len(kept) - n /\ kept[k - d] = new[k]
    <3>1. k - d \in 1 .. Len(kept) /\ k - d > Len(kept) - n /\ k - d + d = k
      BY <1>4, <2>2, <2>4
    <3> QED
      BY <2>2, <3>1
  <2>5. ASSUME NEW m \in 1 .. n
        PROVE  \/ found[m] \in known
               \/ \E k \in 1 .. Len(kept) : k > Len(kept) - n /\ kept[k].subject = found[m]
    <3>1. CASE m = n
      <4>1. l + 1 \in 1 .. l + 1 /\ l + 1 > l + 1 - n
        BY <1>4
      <4> QED
        BY <2>1, <2>4, <3>1, <4>1
    <3>2. CASE m \in 1 .. n - 1 /\ found[m] \notin known
      <4>1. PICK k \in 1 .. l : k > l - (n - 1) /\ log[k].subject = found[m]
        BY <1>1, <1>3, <3>2
      <4>2. k \in 1 .. l + 1 /\ k > l + 1 - n
        BY <1>4, <4>1
      <4> QED
        BY <2>1, <2>4, <4>1, <4>2
    <3> QED
      BY <1>4, <3>1, <3>2
  <2>6. Fire(log, i, found[n]) = kept
    BY <1>6 DEF Fire, kept, new
  <2>7. IsSeq(kept)
    BY <2>2 DEF IsSeq
  <2> QED
    BY <2>3, <2>5, <2>6, <2>7 DEF Entered, known
<1> QED
  BY <1>5, <1>6

\* What a query finds is known after the loop, or was before.
LEMMA FiredEnters ==
  ASSUME IsSeq(firedAlerts), NEW i, NEW found, Len(found) \in 0 .. Keep, NEW m \in 1 .. Len(found)
  PROVE  \/ \E k \in DOMAIN firedAlerts : firedAlerts[k].subject = found[m]
         \/ \E k \in DOMAIN Fired(i, found) : Fired(i, found)[k].subject = found[m]
<1> DEFINE L == Len(found)
<1>1. L \in Nat /\ L <= Keep /\ Keep \in Nat
  BY AlertsAssumption
<1>2. PICK logs : /\ logs[0] = firedAlerts /\ logs[L] = Fired(i, found)
                  /\ \A n \in 1 .. L : logs[n] = Fire(logs[n - 1], i, found[n])
  <2>1. Len(found) \in Nat
    BY <1>1
  <2> QED
    BY <2>1, FiredSteps
<1> DEFINE S == {n \in 0 .. L : Entered(logs[n], found, n)}
<1>3. 0 \in S
  <2>1. Entered(firedAlerts, found, 0)
    BY DEF Entered
  <2> QED
    BY <1>1, <1>2, <2>1
<1>4. ASSUME NEW n \in 0 .. L - 1, n \in S PROVE n + 1 \in S
  <2>1. n + 1 \in 1 .. L /\ n + 1 \in 1 .. Keep /\ (n + 1) - 1 = n /\ Entered(logs[n], found, n)
    BY <1>1, <1>4
  <2>2. logs[n + 1] = Fire(logs[n], i, found[n + 1])
    BY <1>2, <2>1
  <2>3. Entered(Fire(logs[n], i, found[n + 1]), found, n + 1)
    BY <2>1, FireEnters
  <2> QED
    BY <2>1, <2>2, <2>3
<1>5. L \in S
  <2> HIDE DEF S, L
  <2>1. 0 .. L \subseteq S
    BY <1>1, <1>3, <1>4, AllUpTo
  <2> QED
    BY <1>1, <2>1
<1>6. Entered(Fired(i, found), found, L)
  BY <1>2, <1>5
<1>7. /\ DOMAIN firedAlerts = 1 .. Len(firedAlerts)
      /\ DOMAIN Fired(i, found) = 1 .. Len(Fired(i, found))
  BY <1>6, LenProperties DEF Entered, IsSeq
<1> QED
  BY <1>6, <1>7 DEF Entered

\* A list of all members of a set names each once.
LEMMA ListOfSet ==
  ASSUME NEW S, IsFiniteSet(S), NEW s \in SetToSeqs(S)
  PROVE  /\ Cardinality(S) \in Nat /\ Len(s) = Cardinality(S) /\ s \in [1 .. Len(s) -> S]
         /\ \A i, j \in 1 .. Len(s) : i # j => s[i] # s[j]
         /\ \A x \in S : \E i \in 1 .. Len(s) : s[i] = x
<1>1. /\ Cardinality(S) \in Nat /\ s \in [1 .. Cardinality(S) -> S]
      /\ \A i, j \in 1 .. Cardinality(S) : i # j => s[i] # s[j]
  BY FS_CardinalityType DEF SetToSeqs
<1>2. Len(s) = Cardinality(S)
  BY <1>1, LenProperties
<1>3. s \in Injection(1 .. Cardinality(S), S)
  BY <1>1 DEF Injection, IsInjective
<1>4. IsFiniteSet(1 .. Cardinality(S)) /\ Cardinality(1 .. Cardinality(S)) = Cardinality(S)
  BY <1>1, FS_Interval
<1>5. s \in Surjection(1 .. Cardinality(S), S)
  BY <1>3, <1>4, FS_Injection
<1> QED
  BY <1>1, <1>2, <1>5 DEF Surjection

\* Of distinct members of a set, p are no more than there are.
LEMMA NoMoreThan ==
  ASSUME NEW S, IsFiniteSet(S), NEW p \in Nat, NEW s, \A k \in 1 .. p : s[k] \in S,
         \A i, j \in 1 .. p : i # j => s[i] # s[j]
  PROVE  p <= Cardinality(S)
<1> DEFINE f == [k \in 1 .. p |-> s[k]]
<1>1. f \in Injection(1 .. p, S)
  BY DEF Injection, IsInjective
<1>2. Cardinality(1 .. p) = p
  BY FS_Interval
<1> HIDE DEF f
<1> QED
  BY <1>1, <1>2, FS_Injection

\* An answer names every bet that is among the largest in any order.
LEMMA LargestFinds ==
  ASSUME NEW B, B \subseteq Bets, NEW found \in Largest(B), NEW b \in B,
         Cardinality({n \in B : AmountOf[n] >= AmountOf[b]}) <= Top
  PROVE  Len(found) \in 0 .. Top /\ \E m \in 1 .. Len(found) : found[m] = b
<1> DEFINE rivals == {n \in B : AmountOf[n] >= AmountOf[b]}
<1>1. PICK s \in SetToSeqs(B) :
        /\ \A i, j \in DOMAIN s : i < j => AmountOf[s[i]] >= AmountOf[s[j]]
        /\ found = SubSeq(s, 1, IF Len(s) < Top THEN Len(s) ELSE Top)
  BY DEF Largest
<1>2. IsFiniteSet(B) /\ IsFiniteSet(rivals) /\ Cardinality(rivals) <= Top
  BY FewerBets
<1>3. PICK N \in Nat :
        /\ N = Len(s) /\ s \in [1 .. N -> B]
        /\ \A i, j \in 1 .. N : i # j => s[i] # s[j]
        /\ \A x \in B : \E i \in 1 .. N : s[i] = x
  BY <1>2, ListOfSet
<1>4. PICK p \in 1 .. N : s[p] = b
  BY <1>3
<1>5. Top \in Nat /\ AmountOf \in [Bets -> Nat]
  BY AlertsAssumption
<1>6. ASSUME NEW k \in 1 .. p PROVE s[k] \in rivals
  <2>1. k \in 1 .. N /\ (k < p \/ k = p) /\ s[k] \in B /\ AmountOf[s[k]] \in Nat /\ AmountOf[b] \in Nat
    BY <1>3, <1>4, <1>5
  <2> QED
    BY <1>1, <1>3, <1>4, <2>1
<1>7. p \in Nat /\ p <= Cardinality(rivals)
  <2>1. p \in Nat /\ \A i, j \in 1 .. p : i # j => s[i] # s[j]
    BY <1>3, <1>4
  <2> HIDE DEF rivals
  <2> QED
    BY <1>2, <1>6, <2>1, NoMoreThan
<1>8. p <= Top
  <2>1. Cardinality(rivals) \in Nat
    BY <1>2, FS_CardinalityType
  <2> HIDE DEF rivals
  <2> QED
    BY <1>2, <1>5, <1>7, <2>1
<1>9. PICK l \in 0 .. N : l <= Top /\ p <= l /\ found = SubSeq(s, 1, l)
  <2> DEFINE l == IF N < Top THEN N ELSE Top
  <2>1. found = SubSeq(s, 1, l)
    BY <1>1, <1>3
  <2>2. l \in 0 .. N /\ l <= Top /\ p <= l
    BY <1>3, <1>4, <1>5, <1>8
  <2> HIDE DEF l
  <2> QED
    BY <2>1, <2>2
<1>10. s \in Seq(B)
  BY <1>3, SeqDef
<1>11. Len(found) = l /\ \A k \in 1 .. l : found[k] = s[k]
  <2>1. \A k \in 1 .. l : s[k] \in B
    BY <1>3, <1>9
  <2>2. /\ Len(found) = IF 1 <= l THEN l - 1 + 1 ELSE 0
        /\ \A k \in 1 .. l - 1 + 1 : found[k] = s[1 + k - 1]
    BY <1>3, <1>9, <1>10, <2>1, SubSeqProperties
  <2>3. l \in Nat /\ (1 <= l \/ l = 0) /\ l - 1 + 1 = l
    BY <1>9
  <2>4. \A k \in 1 .. l : 1 + k - 1 = k
    OBVIOUS
  <2> QED
    BY <2>2, <2>3, <2>4
<1> QED
  BY <1>4, <1>5, <1>9, <1>11

\* A bet that a default rule is to report, while there is time to.
Watched(b, i) ==
  LET rule == DefaultRules[i]
  IN  /\ placedAt[b] # 0 /\ rule.enabled /\ rule.type = "whale_bet"
      /\ AmountOf[b] >= rule.threshold
      /\ Cardinality(Rivals(b, rule)) <= Top
      /\ LastStart(b, i) + (i - 1) * MaxDelay <= placedAt[b] + rule.window

\* A check that comes to rule i in time for a bet, and then finds it.
InTime(k, b, i, placed, last) ==
  /\ k.at # "idle" /\ k.rule <= i /\ placed < k.askedAt
  /\ k.askedAt <= last + (k.rule - 1) * MaxDelay
  /\ k.rule = i /\ k.at = "answered" =>
       Len(k.found) \in 0 .. Top /\ \E m \in 1 .. Len(k.found) : k.found[m] = b

InHand(b, i) == \E c \in Checks : InTime(check[c], b, i, placedAt[b], LastStart(b, i))

\* A check in time for the bet is still to start.
Awaited(b, i) == now < LastStart(b, i) \/ (now = LastStart(b, i) /\ checkedAt # now)

Tended(b, i) == b \in reported \/ Awaited(b, i) \/ InHand(b, i)

StaysOn == \A i \in DOMAIN DefaultRules \ Switched : i \in DOMAIN rules /\ rules[i] = DefaultRules[i]

LogIsReported ==
  \A b \in Bets, k \in DOMAIN firedAlerts : firedAlerts[k].subject = b => b \in reported

WhalesTended == \A b \in Bets, i \in DOMAIN DefaultRules \ Switched : Watched(b, i) => Tended(b, i)

WhalesInv == AlertsInv /\ faults \in Nat /\ StaysOn /\ LogIsReported /\ WhalesTended

LEMMA Delays ==
  ASSUME NEW j \in Nat, NEW k \in Nat, j <= k
  PROVE  /\ j * MaxDelay \in Nat /\ k * MaxDelay \in Nat /\ j * MaxDelay <= k * MaxDelay
         /\ (j + 1) * MaxDelay = j * MaxDelay + MaxDelay
<1>1. MaxDelay \in Nat
  BY AlertsAssumption
<1>2. PICK M \in Nat : M = MaxDelay
  BY <1>1
<1>3. j * M \in Nat /\ k * M \in Nat /\ (j + 1) * M = j * M + M
  BY Z3
<1>4. j * M <= k * M
  BY Z3
<1> QED
  BY <1>2, <1>3, <1>4

LEMMA DefaultIndex ==
  ASSUME NEW i \in DOMAIN DefaultRules
  PROVE  /\ i \in Nat \ {0} /\ DefaultRules[i].window \in Nat /\ DefaultRules[i].threshold \in Nat
<1>1. i \in 1 .. Len(DefaultRules) /\ Len(DefaultRules) \in Nat
  BY LenProperties, AlertsAssumption
<1>2. DefaultRules[i] \in AlertRule
  BY <1>1, ElementOfSeq, AlertsAssumption
<1> QED
  BY <1>1, <1>2 DEF AlertRule

\* By when it has to start, in numbers; a failure puts it off.
LEMMA StartIs ==
  ASSUME NEW f \in Nat, NEW p \in Nat, NEW i \in Nat
  PROVE  /\ i * MaxDelay \in Nat /\ p + 1 + f * (i * MaxDelay + 1) \in Nat
         /\ p + 1 + f * (i * MaxDelay + 1) > p
         /\ p + 1 + (f + 1) * (i * MaxDelay + 1) = p + 1 + f * (i * MaxDelay + 1) + i * MaxDelay + 1
<1>1. PICK d \in Nat : d = i * MaxDelay
  BY Delays
<1>2. f * (d + 1) \in Nat /\ (f + 1) * (d + 1) = f * (d + 1) + (d + 1)
  BY Z3
<1>3. PICK e \in Nat : e = f * (d + 1)
  BY <1>2
<1> QED
  BY <1>1, <1>2, <1>3

\* A check in time for a bet holds it no longer than one takes up to rule i.
LEMMA HandBound ==
  ASSUME NEW k, NEW b, NEW i \in Nat, NEW placed \in Nat, NEW last \in Nat,
         InTime(k, b, i, placed, last), Active(k), k.rule \in Nat \ {0}, now \in Nat
  PROVE  now <= last + k.rule * MaxDelay /\ now <= last + i * MaxDelay
<1> DEFINE r == k.rule
<1>1. /\ r \in Nat \ {0} /\ r <= i /\ k.askedAt \in Nat /\ k.askedAt <= last + (r - 1) * MaxDelay
      /\ now <= k.askedAt + MaxDelay
  BY DEF InTime, Active
<1> HIDE DEF r
<1>2. r - 1 \in Nat /\ r - 1 <= r /\ (r - 1) + 1 = r
  BY <1>1
<1>3. (r - 1) * MaxDelay \in Nat /\ r * MaxDelay = (r - 1) * MaxDelay + MaxDelay
  BY <1>2, Delays
<1>4. r * MaxDelay \in Nat /\ i * MaxDelay \in Nat /\ r * MaxDelay <= i * MaxDelay
  BY <1>1, Delays
<1>5. MaxDelay \in Nat
  BY AlertsAssumption
<1>6. now <= last + r * MaxDelay
  BY <1>1, <1>3, <1>5
<1> QED
  BY <1>4, <1>6 DEF r

\* The loop comes to a rule that is on, or to one before it.
LEMMA FromReaches ==
  ASSUME AlertsInv, StaysOn, NEW i \in DOMAIN DefaultRules \ Switched,
         DefaultRules[i].enabled, DefaultRules[i].type = "whale_bet", NEW j \in Nat, j <= i
  PROVE  /\ From(j).at = "asking" /\ From(j).askedAt = now
         /\ From(j).rule \in Nat /\ j <= From(j).rule /\ From(j).rule <= i
<1> DEFINE next == {n \in DOMAIN rules : n >= j /\ Checked(n)}
<1>1. i \in next
  BY DefaultIndex DEF StaysOn, Checked, Enabled
<1>2. next \subseteq Nat
  BY RuleTypes DEF AlertsInv
<1>3. Min(next) \in next /\ Min(next) <= i
  <2>1. \E x \in next : \A y \in next : x <= y
    <3> HIDE DEF next
    <3> QED
      BY <1>1, <1>2, Smallest
  <2> HIDE DEF next
  <2> QED
    BY <1>1, <2>1 DEF Min
<1>4. Min(next) \in Nat /\ Min(next) >= j
  BY <1>2, <1>3
<1>5. From(j) = [rule |-> Min(next), at |-> "asking", askedAt |-> now,
                 snapshot |-> latestSnapshot, found |-> <<>>]
  BY <1>1 DEF From
<1> HIDE DEF next
<1>6. j <= Min(next)
  BY <1>4
<1> QED
  BY <1>3, <1>4, <1>5, <1>6

\* The loop goes on in time for a bet.
LEMMA FromInTime ==
  ASSUME AlertsInv, StaysOn, NEW i \in DOMAIN DefaultRules \ Switched,
         DefaultRules[i].enabled, DefaultRules[i].type = "whale_bet", NEW j \in Nat, j < i,
         NEW b, NEW placed \in Nat, NEW last \in Nat, placed < now, now <= last + j * MaxDelay
  PROVE  InTime(From(j + 1), b, i, placed, last)
<1>1. i \in Nat /\ j + 1 \in Nat /\ j + 1 <= i
  BY DefaultIndex
<1>2. PICK k : k = From(j + 1)
  OBVIOUS
<1>3. /\ k.at = "asking" /\ k.askedAt = now
      /\ k.rule \in Nat /\ j + 1 <= k.rule /\ k.rule <= i
  BY <1>1, <1>2, FromReaches
<1>4. PICK r \in Nat : r = k.rule - 1 /\ j <= r
  BY <1>3
<1>5. j * MaxDelay \in Nat /\ r * MaxDelay \in Nat /\ j * MaxDelay <= r * MaxDelay
  BY <1>4, Delays
<1>6. now <= last + r * MaxDelay
  <2>1. now \in Nat
    BY DEF AlertsInv, AlertTypesHold
  <2> QED
    BY <1>5, <2>1
<1> QED
  BY <1>2, <1>3, <1>4, <1>6 DEF InTime

\* After an answer or a failure, too.
LEMMA GoesOnInTime ==
  ASSUME AlertsInv, StaysOn, NEW i \in DOMAIN DefaultRules \ Switched,
         DefaultRules[i].enabled, DefaultRules[i].type = "whale_bet", NEW c \in Checks,
         NEW b, NEW placed \in Nat, NEW last \in Nat,
         InTime(check[c], b, i, placed, last), check[c].rule # i
  PROVE  InTime(From(check[c].rule + 1), b, i, placed, last)
<1>1. PICK k : k = check[c]
  OBVIOUS
<1>2. Active(k) /\ k.at # "idle" /\ k.rule <= i /\ placed < k.askedAt
  BY <1>1 DEF AlertsInv, ChecksHold, InTime
<1>3. k.rule \in Nat \ {0} /\ i \in Nat /\ now \in Nat
  BY <1>2, RuleTypes, DefaultIndex DEF Active, AlertsInv, AlertTypesHold
<1>4. now <= last + k.rule * MaxDelay
  BY <1>1, <1>2, <1>3, HandBound
<1>5. k.askedAt \in Nat /\ k.askedAt <= now
  BY <1>2, <1>3 DEF Active
<1>6. placed < now
  BY <1>2, <1>3, <1>5
<1>7. k.rule < i
  BY <1>1, <1>2, <1>3
<1>8. InTime(From(k.rule + 1), b, i, placed, last)
  BY <1>3, <1>4, <1>6, <1>7, FromInTime
<1> QED
  BY <1>1, <1>8

\* Bets stay as they are placed, failures and reports are not undone.
Grows ==
  /\ faults \in Nat /\ faults' \in {faults, faults + 1} /\ reported \subseteq reported'
  /\ \A b \in Bets : placedAt[b] # 0 => placedAt'[b] = placedAt[b]

\* What is watched after a step was before: rivals only become more, and time less.
LEMMA WasWatched ==
  ASSUME AlertsInv, AlertsInv', Grows, NEW b \in Bets, NEW i \in DOMAIN DefaultRules \ Switched,
         placedAt[b] # 0, Watched(b, i)'
  PROVE  /\ Watched(b, i) /\ placedAt'[b] = placedAt[b] /\ LastStart(b, i) \in Nat
         /\ faults' = faults => LastStart(b, i)' = LastStart(b, i)
         /\ faults' = faults + 1 => LastStart(b, i)' = LastStart(b, i) + i * MaxDelay + 1
<1> DEFINE rule == DefaultRules[i]
<1>1. i \in Nat \ {0} /\ rule.window \in Nat
  BY DefaultIndex
<1>2. placedAt'[b] = placedAt[b] /\ placedAt[b] \in Nat
  BY DEF Grows, AlertsInv, AlertTypesHold
<1>3. PICK p \in Nat : p = placedAt[b] /\ p = placedAt'[b]
  BY <1>2
<1>4. /\ LastStart(b, i) = p + 1 + faults * (i * MaxDelay + 1)
      /\ LastStart(b, i)' = p + 1 + faults' * (i * MaxDelay + 1)
  BY <1>3 DEF LastStart
<1>5. /\ i * MaxDelay \in Nat /\ p + 1 + faults * (i * MaxDelay + 1) \in Nat
      /\ p + 1 + (faults + 1) * (i * MaxDelay + 1)
           = p + 1 + faults * (i * MaxDelay + 1) + i * MaxDelay + 1
  <2>1. faults \in Nat /\ i \in Nat
    BY <1>1 DEF Grows
  <2> QED
    BY <2>1, StartIs
<1>6. /\ LastStart(b, i) \in Nat
      /\ faults' = faults => LastStart(b, i)' = LastStart(b, i)
      /\ faults' = faults + 1 => LastStart(b, i)' = LastStart(b, i) + i * MaxDelay + 1
  BY <1>4, <1>5
<1>7. LastStart(b, i)' \in Nat /\ LastStart(b, i) <= LastStart(b, i)'
  BY <1>5, <1>6 DEF Grows
<1>8. Cardinality(Rivals(b, rule)) <= Cardinality(Rivals(b, rule)')
      /\ Cardinality(Rivals(b, rule)) \in Nat /\ Cardinality(Rivals(b, rule)') \in Nat
  <2>1. Rivals(b, rule) \subseteq Rivals(b, rule)' /\ Rivals(b, rule)' \subseteq Bets
    BY <1>2 DEF Rivals, BetsSince, Grows
  <2> QED
    BY <2>1, FewerBets
<1>9. Cardinality(Rivals(b, rule)) <= Top
  <2>1. Cardinality(Rivals(b, rule)') <= Top
    BY DEF Watched
  <2> QED
    BY <1>8, <2>1, AlertsAssumption
<1>10. LastStart(b, i) + (i - 1) * MaxDelay <= placedAt[b] + rule.window
  <2>1. LastStart(b, i)' + (i - 1) * MaxDelay <= p + rule.window
    BY <1>3 DEF Watched
  <2>2. (i - 1) * MaxDelay \in Nat
    BY <1>1, Delays
  <2> QED
    BY <1>1, <1>3, <1>6, <1>7, <2>1, <2>2
<1> QED
  BY <1>2, <1>6, <1>9, <1>10 DEF Watched

\* An answer to a query in time names the bet.
LEMMA AnswerFinds ==
  ASSUME AlertsInv, StaysOn, NEW b \in Bets, NEW i \in DOMAIN DefaultRules \ Switched,
         Watched(b, i), LastStart(b, i) \in Nat,
         NEW c \in Checks, InTime(check[c], b, i, placedAt[b], LastStart(b, i)), check[c].rule = i,
         NEW found \in Found(c)
  PROVE  Len(found) \in 0 .. Top /\ \E m \in 1 .. Len(found) : found[m] = b
<1> DEFINE rule == DefaultRules[i]
           t == check[c].askedAt
           B == {n \in BetsSince(GetWindowDate(rule, t)) : AmountOf[n] >= rule.threshold}
           rivals == {n \in B : AmountOf[n] >= AmountOf[b]}
<1>1. rules[i] = rule /\ rule.type = "whale_bet" /\ rule.window \in Nat /\ i \in Nat \ {0}
  BY DefaultIndex DEF StaysOn, Watched
<1>2. found \in Largest(B)
  BY <1>1 DEF Found, WhaleBets
<1>3. placedAt \in [Bets -> Nat] /\ placedAt[b] \in Nat
  BY DEF AlertsInv, AlertTypesHold
<1>4. t \in Nat /\ placedAt[b] < t /\ t <= LastStart(b, i) + (i - 1) * MaxDelay
  <2>1. Active(check[c])
    BY DEF AlertsInv, ChecksHold, InTime
  <2> QED
    BY <2>1 DEF Active, InTime
<1>5. t <= placedAt[b] + rule.window
  <2>1. LastStart(b, i) + (i - 1) * MaxDelay <= placedAt[b] + rule.window
    BY DEF Watched
  <2>2. i - 1 \in Nat
    BY <1>1
  <2>3. (i - 1) * MaxDelay \in Nat
    BY <2>2, Delays
  <2> QED
    BY <1>1, <1>3, <1>4, <2>1, <2>3
<1>6. placedAt[b] >= t - rule.window
  BY <1>1, <1>3, <1>4, <1>5
<1>7. b \in B /\ GetWindowDate(rule, t) = t - rule.window
  <2>1. rule.window # NoWindow
    BY <1>1, <1>3, <1>4, <1>5 DEF NoWindow
  <2>2. GetWindowDate(rule, t) = t - rule.window
    BY <2>1 DEF GetWindowDate
  <2> QED
    BY <1>3, <1>4, <1>6, <2>2 DEF BetsSince, Watched
<1>8. rivals \subseteq Rivals(b, rule)
  <2>1. ASSUME NEW n \in Bets, placedAt[n] >= t - rule.window
        PROVE  placedAt[n] >= placedAt[b] - rule.window
    BY <1>1, <1>3, <1>4, <2>1
  <2> QED
    BY <1>7, <2>1 DEF Rivals, BetsSince
<1>9. Cardinality(rivals) <= Top
  <2>1. Cardinality(Rivals(b, rule)) <= Top /\ Rivals(b, rule) \subseteq Bets
    BY DEF Watched, Rivals, BetsSince
  <2> HIDE DEF rivals
  <2>2. /\ Cardinality(rivals) \in Nat /\ Cardinality(Rivals(b, rule)) \in Nat
        /\ Cardinality(rivals) <= Cardinality(Rivals(b, rule))
    BY <1>8, <2>1, FewerBets
  <2> QED
    BY <2>1, <2>2, AlertsAssumption
<1>10. B \subseteq Bets
  BY DEF BetsSince
<1> HIDE DEF B
<1> QED
  BY <1>2, <1>7, <1>9, <1>10, LargestFinds

\* Until it is reported, a watched bet waits for a check, or is in the hands of one.
LEMMA NotLate ==
  ASSUME WhalesInv, NEW b \in Bets, NEW i \in DOMAIN DefaultRules \ Switched,
         Watched(b, i), LastStart(b, i) \in Nat, b \notin reported
  PROVE  now <= LastStart(b, i) + i * MaxDelay /\ (Awaited(b, i) \/ InHand(b, i))
<1>1. Awaited(b, i) \/ InHand(b, i)
  BY DEF WhalesInv, WhalesTended, Tended
<1>2. now \in Nat /\ placedAt[b] \in Nat /\ i \in Nat
  BY DefaultIndex DEF WhalesInv, AlertsInv, AlertTypesHold
<1>3. i * MaxDelay \in Nat
  BY <1>2, Delays
<1>4. CASE Awaited(b, i)
  BY <1>1, <1>2, <1>3, <1>4 DEF Awaited
<1>5. CASE InHand(b, i)
  <2>1. PICK c \in Checks : InTime(check[c], b, i, placedAt[b], LastStart(b, i))
    BY <1>5 DEF InHand
  <2>2. PICK k : k = check[c]
    OBVIOUS
  <2>3. Active(k)
    BY <2>1, <2>2 DEF WhalesInv, AlertsInv, ChecksHold, InTime
  <2>4. k.rule \in Nat \ {0}
    BY <2>3, RuleTypes DEF Active, WhalesInv, AlertsInv
  <2> QED
    BY <1>1, <1>2, <2>1, <2>2, <2>3, <2>4, HandBound
<1> QED
  BY <1>1, <1>4, <1>5

\* A step of no check, or of one that holds on to the bet.
LEMMA HandsKeep ==
  ASSUME NEW b, NEW i, Awaited(b, i) \/ InHand(b, i),
         UNCHANGED <<now, checkedAt>>, placedAt'[b] = placedAt[b],
         LastStart(b, i)' = LastStart(b, i),
         \A c \in Checks : InTime(check[c], b, i, placedAt[b], LastStart(b, i)) =>
                             \/ b \in reported'
                             \/ InTime(check'[c], b, i, placedAt[b], LastStart(b, i))
  PROVE  Tended(b, i)'
<1>1. CASE Awaited(b, i)
  BY <1>1 DEF Tended, Awaited
<1>2. CASE InHand(b, i)
  BY <1>2 DEF Tended, InHand
<1> QED
  BY <1>1, <1>2

\* What one check does when it goes on keeps every bet in hand.
LEMMA CheckKeeps ==
  ASSUME NEW b, NEW i, Awaited(b, i) \/ InHand(b, i),
         UNCHANGED <<now, checkedAt>>, placedAt'[b] = placedAt[b],
         LastStart(b, i)' = LastStart(b, i), ChecksHold,
         NEW c \in Checks, NEW k, check' = [check EXCEPT ![c] = k],
         InTime(check[c], b, i, placedAt[b], LastStart(b, i)) =>
           b \in reported' \/ InTime(k, b, i, placedAt[b], LastStart(b, i))
  PROVE  Tended(b, i)'
<1>1. \A d \in Checks : check'[d] = IF d = c THEN k ELSE check[d]
  BY DEF ChecksHold
<1>2. ASSUME NEW d \in Checks, InTime(check[d], b, i, placedAt[b], LastStart(b, i))
      PROVE  b \in reported' \/ InTime(check'[d], b, i, placedAt[b], LastStart(b, i))
  BY <1>1, <1>2
<1> QED
  BY <1>2, HandsKeep

\* The steps of a bet that is watched and not reported.
InView(b, i) ==
  /\ WhalesInv /\ b \in Bets /\ i \in DOMAIN DefaultRules \ Switched
  /\ Watched(b, i) /\ LastStart(b, i) \in Nat /\ b \notin reported
  /\ placedAt'[b] = placedAt[b]

LEMMA ViewFacts ==
  ASSUME NEW b, NEW i, InView(b, i)
  PROVE  /\ AlertsInv /\ ChecksHold /\ StaysOn /\ b \in Bets /\ i \in DOMAIN DefaultRules \ Switched
         /\ i \in Nat \ {0} /\ DefaultRules[i].enabled /\ DefaultRules[i].type = "whale_bet"
         /\ placedAt[b] \in Nat /\ LastStart(b, i) \in Nat /\ placedAt[b] < LastStart(b, i)
         /\ now \in Nat /\ now <= LastStart(b, i) + i * MaxDelay
         /\ Awaited(b, i) \/ InHand(b, i)
<1>1. /\ AlertsInv /\ ChecksHold /\ StaysOn /\ b \in Bets /\ i \in DOMAIN DefaultRules \ Switched
      /\ DefaultRules[i].enabled /\ DefaultRules[i].type = "whale_bet" /\ LastStart(b, i) \in Nat
      /\ now \in Nat /\ placedAt[b] \in Nat /\ faults \in Nat
  BY DEF InView, WhalesInv, AlertsInv, Watched, AlertTypesHold
<1>2. i \in Nat \ {0}
  BY <1>1, DefaultIndex
<1>3. placedAt[b] < LastStart(b, i)
  <2>1. placedAt[b] + 1 + faults * (i * MaxDelay + 1) > placedAt[b]
    BY <1>1, <1>2, StartIs
  <2> QED
    BY <1>1, <2>1 DEF LastStart
<1>4. now <= LastStart(b, i) + i * MaxDelay /\ (Awaited(b, i) \/ InHand(b, i))
  BY <1>1, NotLate DEF InView
<1> QED
  BY <1>1, <1>2, <1>3, <1>4

\* The minute does not pass before its check has started.
LEMMA TickTends ==
  ASSUME NEW b, NEW i, InView(b, i), LastStart(b, i)' = LastStart(b, i), Tick
  PROVE  Tended(b, i)'
<1>1. /\ checkedAt = now /\ now' = now + 1 /\ UNCHANGED <<check, checkedAt>>
      /\ now \in Nat /\ LastStart(b, i) \in Nat
  BY ViewFacts DEF Tick
<1>2. CASE Awaited(b, i)
  BY <1>1, <1>2 DEF Tended, Awaited
<1>3. CASE InHand(b, i)
  BY <1>1, <1>3 DEF Tended, InHand, InView
<1> QED
  BY <1>2, <1>3, ViewFacts

\* A check that starts on time comes to the rule in time.
LEMMA StartTends ==
  ASSUME NEW b, NEW i, InView(b, i), LastStart(b, i)' = LastStart(b, i),
         NEW c \in Checks, CheckAlerts(c)
  PROVE  Tended(b, i)'
<1>1. /\ check[c].at = "idle" /\ check' = [check EXCEPT ![c] = From(1)] /\ now' = now
      /\ placedAt'[b] = placedAt[b]
  BY DEF CheckAlerts, Set, InView
<1>2. \A d \in Checks : check'[d] = IF d = c THEN From(1) ELSE check[d]
  BY <1>1, ViewFacts DEF ChecksHold
<1>3. CASE now < LastStart(b, i)
  BY <1>1, <1>3 DEF Tended, Awaited
<1>4. CASE now = LastStart(b, i)
  <2>1. 0 \in Nat /\ 0 < i /\ 0 + 1 = 1 /\ 0 * MaxDelay = 0
    BY ViewFacts, AlertsAssumption
  <2>2. now <= LastStart(b, i) + 0 * MaxDelay /\ placedAt[b] < now
    BY <1>4, <2>1, ViewFacts
  <2>3. InTime(From(0 + 1), b, i, placedAt[b], LastStart(b, i))
    BY <2>1, <2>2, FromInTime, ViewFacts
  <2>4. InTime(check'[c], b, i, placedAt'[b], LastStart(b, i)')
    BY <1>1, <1>2, <2>1, <2>3
  <2> QED
    BY <2>4 DEF Tended, InHand
<1>5. CASE InHand(b, i)
  <2>1. PICK d \in Checks : InTime(check[d], b, i, placedAt[b], LastStart(b, i))
    BY <1>5 DEF InHand
  <2>2. d # c
    BY <1>1, <2>1 DEF InTime
  <2>3. InTime(check'[d], b, i, placedAt'[b], LastStart(b, i)')
    BY <1>1, <1>2, <2>1, <2>2
  <2> QED
    BY <2>3 DEF Tended, InHand
<1> QED
  BY <1>3, <1>4, <1>5, ViewFacts DEF Awaited

LEMMA QueryTends ==
  ASSUME NEW b, NEW i, InView(b, i), LastStart(b, i)' = LastStart(b, i), NEW c \in Checks, Query(c)
  PROVE  Tended(b, i)'
<1>1. PICK found \in Found(c) :
        check' = [check EXCEPT ![c] = [check[c] EXCEPT !.at = "answered", !.found = found]]
  BY DEF Query, Set
<1> DEFINE k == [check[c] EXCEPT !.at = "answered", !.found = found]
<1>2. UNCHANGED <<now, checkedAt>> /\ placedAt'[b] = placedAt[b]
  BY DEF Query, InView
<1>3. DOMAIN check[c] = DOMAIN Idle
  BY ViewFacts DEF ChecksHold
<1>4. k.at = "answered" /\ k.found = found /\ k.rule = check[c].rule /\ k.askedAt = check[c].askedAt
  BY <1>3 DEF Idle
<1>5. ASSUME InTime(check[c], b, i, placedAt[b], LastStart(b, i))
      PROVE  InTime(k, b, i, placedAt[b], LastStart(b, i))
  <2>1. CASE check[c].rule = i
    <3>1. Watched(b, i)
      BY DEF InView
    <3>2. Len(found) \in 0 .. Top /\ \E m \in 1 .. Len(found) : found[m] = b
      BY <1>5, <2>1, <3>1, AnswerFinds, ViewFacts
    <3> HIDE DEF k
    <3> QED
      BY <1>4, <1>5, <3>2 DEF InTime
  <2>2. CASE check[c].rule # i
    <3> HIDE DEF k
    <3> QED
      BY <1>4, <1>5, <2>2 DEF InTime
  <2> QED
    BY <2>1, <2>2
<1>6. (Awaited(b, i) \/ InHand(b, i)) /\ ChecksHold
  BY ViewFacts
<1> HIDE DEF k
<1>7. check' = [check EXCEPT ![c] = k]
  BY <1>1 DEF k
<1> QED
  BY <1>2, <1>5, <1>6, <1>7, CheckKeeps

\* The bet is reported when rule i fires; any other check goes on with it.
LEMMA FireTends ==
  ASSUME NEW b, NEW i, InView(b, i), LastStart(b, i)' = LastStart(b, i),
         NEW c \in Checks, FireAlerts(c)
  PROVE  Tended(b, i)'
<1>1. PICK k : k = From(check[c].rule + 1)
  OBVIOUS
<1>2. /\ UNCHANGED <<now, checkedAt>> /\ placedAt'[b] = placedAt[b]
      /\ check' = [check EXCEPT ![c] = k] /\ check[c].at = "answered"
  BY <1>1 DEF FireAlerts, Proceed, Set, InView
<1>3. ASSUME InTime(check[c], b, i, placedAt[b], LastStart(b, i)), check[c].rule = i
      PROVE  b \in reported'
  <2> DEFINE found == check[c].found
             log == Fired(i, found)
  <2>1. PICK m \in 1 .. Len(found) : found[m] = b
    BY <1>2, <1>3 DEF InTime
  <2>2. Len(found) \in 0 .. Keep
    BY <1>2, <1>3, AlertsAssumption DEF InTime
  <2>3. IsSeq(firedAlerts)
    BY ViewFacts DEF AlertsInv, LogHolds
  <2>4. \/ \E n \in DOMAIN firedAlerts : firedAlerts[n].subject = found[m]
        \/ \E n \in DOMAIN log : log[n].subject = found[m]
    <3> HIDE DEF found
    <3> QED
      BY <2>2, <2>3, FiredEnters
  <2>5. ~ \E n \in DOMAIN firedAlerts : firedAlerts[n].subject = b
    BY DEF InView, WhalesInv, LogIsReported
  <2>6. firedAlerts' = log
    BY <1>3 DEF FireAlerts
  <2> HIDE DEF found, log
  <2>7. \E n \in DOMAIN firedAlerts' : firedAlerts'[n].subject = b
    BY <2>1, <2>4, <2>5, <2>6
  <2> QED
    BY <2>7 DEF FireAlerts, InView
<1>4. ASSUME InTime(check[c], b, i, placedAt[b], LastStart(b, i)), check[c].rule # i
      PROVE  InTime(k, b, i, placedAt[b], LastStart(b, i))
  BY <1>1, <1>4, GoesOnInTime, ViewFacts
<1>5. (Awaited(b, i) \/ InHand(b, i)) /\ ChecksHold
  BY ViewFacts
<1>6. InTime(check[c], b, i, placedAt[b], LastStart(b, i)) =>
        b \in reported' \/ InTime(k, b, i, placedAt[b], LastStart(b, i))
  BY <1>3, <1>4
<1> QED
  BY <1>2, <1>5, <1>6, CheckKeeps

\* A failure puts the deadline off by more than the bet can be late.
LEMMA FailureTends ==
  ASSUME NEW b, NEW i, InView(b, i), LastStart(b, i)' = LastStart(b, i) + i * MaxDelay + 1,
         now' = now
  PROVE  Tended(b, i)'
<1>1. /\ now \in Nat /\ i \in Nat /\ LastStart(b, i) \in Nat
      /\ now <= LastStart(b, i) + i * MaxDelay
  BY ViewFacts
<1>2. i * MaxDelay \in Nat
  BY <1>1, Delays
<1>3. now' < LastStart(b, i)'
  BY <1>1, <1>2
<1> QED
  BY <1>3 DEF Tended, Awaited

\* A step of nobody who checks.
LEMMA OthersTend ==
  ASSUME NEW b, NEW i, InView(b, i), LastStart(b, i)' = LastStart(b, i),
         UNCHANGED <<now, checkedAt, check>>
  PROVE  Tended(b, i)'
<1>1. Awaited(b, i) \/ InHand(b, i)
  BY ViewFacts
<1>2. placedAt'[b] = placedAt[b]
  BY DEF InView
<1> QED
  BY <1>1, <1>2, HandsKeep

LEMMA WhalesGrow ==
  ASSUME WhalesInv, [Next]_vars
  PROVE  Grows /\ (faults' = faults \/ (now' = now /\ faults' = faults + 1))
<1>1. faults \in Nat
  BY DEF WhalesInv
<1>2. \A b \in Bets : placedAt[b] # 0 => placedAt'[b] = placedAt[b]
  <2>1. CASE \E b \in Bets : PlaceBet(b)
    <3>1. PICK b \in Bets : placedAt[b] = 0 /\ placedAt' = [placedAt EXCEPT ![b] = now]
      BY <2>1 DEF PlaceBet
    <3> QED
      BY <3>1 DEF WhalesInv, AlertsInv, AlertTypesHold
  <2>2. CASE UNCHANGED placedAt
    BY <2>2
  <2>3. (\E b \in Bets : PlaceBet(b)) \/ UNCHANGED placedAt
    BY DEF Next, Tick, Collect, Store, AddRule, ToggleRule, AcknowledgeAlert, CheckAlerts, Query,
           FireAlerts, QueryFails, Restart, vars
  <2> QED
    BY <2>1, <2>2, <2>3
<1>3. /\ reported \subseteq reported'
      /\ UNCHANGED faults \/ (now' = now /\ faults' = faults + 1)
  BY DEF Next, Tick, PlaceBet, Collect, Store, AddRule, ToggleRule, AcknowledgeAlert, CheckAlerts,
         Query, FireAlerts, QueryFails, Restart, vars
<1> QED
  BY <1>1, <1>2, <1>3 DEF Grows

\* A bet that is placed is not due.
LEMMA NewBetTends ==
  ASSUME WhalesInv, AlertsInv', NEW b \in Bets, NEW i \in DOMAIN DefaultRules \ Switched,
         placedAt[b] = 0, placedAt'[b] # 0, [Next]_vars
  PROVE  Tended(b, i)'
<1>1. \E n \in Bets : PlaceBet(n)
  BY DEF Next, Tick, Collect, Store, AddRule, ToggleRule, AcknowledgeAlert, CheckAlerts, Query,
         FireAlerts, QueryFails, Restart, vars
<1>2. PICK n \in Bets : placedAt' = [placedAt EXCEPT ![n] = now] /\ UNCHANGED <<now, faults>>
  BY <1>1 DEF PlaceBet
<1>3. placedAt'[b] = now /\ now \in Nat /\ faults \in Nat /\ i \in Nat
  BY <1>2, DefaultIndex DEF WhalesInv, AlertsInv, AlertTypesHold
<1>4. now + 1 + faults * (i * MaxDelay + 1) > now /\ now + 1 + faults * (i * MaxDelay + 1) \in Nat
  BY <1>3, StartIs
<1>5. now' < LastStart(b, i)'
  BY <1>2, <1>3, <1>4 DEF LastStart
<1> QED
  BY <1>5 DEF Tended, Awaited

LEMMA TendedStep ==
  ASSUME WhalesInv, AlertsInv', [Next]_vars,
         NEW b \in Bets, NEW i \in DOMAIN DefaultRules \ Switched, Watched(b, i)'
  PROVE  Tended(b, i)'
<1>1. placedAt'[b] # 0
  BY DEF Watched
<1>2. CASE placedAt[b] = 0
  BY <1>1, <1>2, NewBetTends
<1>3. CASE placedAt[b] # 0 /\ b \in reported
  BY <1>3, WhalesGrow DEF Grows, Tended
<1>4. CASE placedAt[b] # 0 /\ b \notin reported
  <2>1. Grows /\ AlertsInv
    BY WhalesGrow DEF WhalesInv
  <2>2. /\ Watched(b, i) /\ placedAt'[b] = placedAt[b] /\ LastStart(b, i) \in Nat
        /\ faults' = faults => LastStart(b, i)' = LastStart(b, i)
        /\ faults' = faults + 1 => LastStart(b, i)' = LastStart(b, i) + i * MaxDelay + 1
    BY <1>4, <2>1, WasWatched
  <2>3. InView(b, i)
    BY <1>4, <2>2 DEF InView
  <2>4. CASE now' = now /\ faults' = faults + 1
    BY <2>2, <2>3, <2>4, FailureTends
  <2>5. CASE faults' = faults
    <3>1. LastStart(b, i)' = LastStart(b, i)
      BY <2>2, <2>5
    <3>2. CASE Tick
      BY <2>3, <3>1, <3>2, TickTends
    <3>3. ASSUME NEW c \in Checks, CheckAlerts(c) PROVE Tended(b, i)'
      BY <2>3, <3>1, <3>3, StartTends
    <3>4. ASSUME NEW c \in Checks, Query(c) PROVE Tended(b, i)'
      BY <2>3, <3>1, <3>4, QueryTends
    <3>5. ASSUME NEW c \in Checks, FireAlerts(c) PROVE Tended(b, i)'
      BY <2>3, <3>1, <3>5, FireTends
    <3>6. CASE UNCHANGED <<now, checkedAt, check>>
      BY <2>3, <3>1, <3>6, OthersTend
    <3>7. ~(Restart \/ \E c \in Checks : QueryFails(c))
      BY <2>5 DEF Restart, QueryFails, WhalesInv
    <3>8. \/ Tick \/ UNCHANGED <<now, checkedAt, check>>
          \/ \E c \in Checks : CheckAlerts(c) \/ Query(c) \/ FireAlerts(c)
      BY <3>7 DEF Next, PlaceBet, Collect, Store, AddRule, ToggleRule, AcknowledgeAlert, vars
    <3> QED
      BY <3>2, <3>3, <3>4, <3>5, <3>6, <3>8
  <2> QED
    BY <2>4, <2>5, WhalesGrow
<1> QED
  BY <1>2, <1>3, <1>4

\* Default rules are only changed by a switch, also by a restart.
LEMMA DefaultRulesStay == ASSUME WhalesInv, [Next]_vars PROVE StaysOn'
<1>1. rules \in Seq(AlertRule) /\ DefaultRules \in Seq(AlertRule)
  BY AlertsAssumption DEF WhalesInv, AlertsInv, AlertTypesHold
<1>2. DOMAIN DefaultRules = 1 .. Len(DefaultRules) /\ DOMAIN rules = 1 .. Len(rules) /\ Len(rules) \in Nat
  BY <1>1, LenProperties
<1>3. ASSUME NEW rule, AddRule(rule) PROVE StaysOn'
  <2>1. rules' = Append(rules, rule) /\ rule \in AlertRule
    BY <1>3, AlertsAssumption DEF AddRule, Appended
  <2>2. rules' \in Seq(AlertRule) /\ Len(rules') = Len(rules) + 1
        /\ \A j \in 1 .. Len(rules) : rules'[j] = rules[j]
    BY <1>1, <2>1, AppendProperties
  <2>3. DOMAIN rules' = 1 .. Len(rules) + 1
    BY <2>2, LenProperties
  <2> QED
    BY <1>2, <2>2, <2>3 DEF WhalesInv, StaysOn
<1>4. ASSUME NEW i \in Switched, NEW enabled, ToggleRule(i, enabled) PROVE StaysOn'
  <2>1. rules' = [rules EXCEPT ![i].enabled = enabled]
    BY <1>4 DEF ToggleRule
  <2>2. \A j \in DOMAIN rules \ Switched : j \in DOMAIN rules' /\ rules'[j] = rules[j]
    BY <1>1, <2>1
  <2> QED
    BY <2>2 DEF WhalesInv, StaysOn
<1>5. CASE Restart
  BY <1>5 DEF Restart, StaysOn
<1>6. CASE UNCHANGED rules
  BY <1>6 DEF WhalesInv, StaysOn
<1>7. \/ \E rule \in AddedRules : AddRule(rule)
      \/ \E i \in Switched, enabled \in BOOLEAN : ToggleRule(i, enabled)
      \/ Restart \/ UNCHANGED rules
  BY DEF Next, Tick, PlaceBet, Collect, Store, AcknowledgeAlert, CheckAlerts, Query, FireAlerts,
         QueryFails, vars, memoryVars
<1> QED
  BY <1>3, <1>4, <1>5, <1>6, <1>7

\* Who fires an alert says so.
LEMMA LogStaysReported == ASSUME WhalesInv, [Next]_vars PROVE LogIsReported'
<1>1. ASSUME NEW c \in Checks, FireAlerts(c) PROVE LogIsReported'
  <2>1. reported' = reported \cup
                      {b \in Bets : \E k \in DOMAIN firedAlerts' : firedAlerts'[k].subject = b}
    BY <1>1 DEF FireAlerts
  <2>2. ASSUME NEW b \in Bets, NEW k \in DOMAIN firedAlerts', firedAlerts'[k].subject = b
        PROVE  b \in reported'
    BY <2>1, <2>2, Zenon
  <2> QED
    BY <2>2, Zenon DEF LogIsReported
<1>2. ASSUME NEW k, AcknowledgeAlert(k) PROVE LogIsReported'
  <2>1. firedAlerts' = [firedAlerts EXCEPT ![k].acknowledged = TRUE] /\ reported' = reported
    BY <1>2 DEF AcknowledgeAlert
  <2>2. \A n \in DOMAIN firedAlerts : Sound(firedAlerts[n])
    BY LenProperties DEF WhalesInv, AlertsInv, LogHolds, IsSeq
  <2>3. \A n \in DOMAIN firedAlerts : firedAlerts'[n].subject = firedAlerts[n].subject
    BY <2>1, <2>2 DEF Sound, AlertFields
  <2>4. DOMAIN firedAlerts' = DOMAIN firedAlerts
    BY <2>1
  <2> QED
    BY <2>1, <2>3, <2>4 DEF WhalesInv, LogIsReported
<1>3. CASE Restart
  <2>1. DOMAIN firedAlerts' = {}
    BY <1>3, EmptySeq DEF Restart
  <2> QED
    BY <2>1 DEF LogIsReported
<1>4. CASE UNCHANGED <<firedAlerts, reported>>
  BY <1>4 DEF WhalesInv, LogIsReported
<1>5. \/ \E c \in Checks : FireAlerts(c)
      \/ \E k \in Acknowledged : AcknowledgeAlert(k)
      \/ Restart \/ UNCHANGED <<firedAlerts, reported>>
  BY DEF Next, Tick, PlaceBet, Collect, Store, AddRule, ToggleRule, CheckAlerts, Query, QueryFails,
         vars, memoryVars
<1> QED
  BY <1>1, <1>2, <1>3, <1>4, <1>5

LEMMA WhalesInitInv == Init => WhalesInv
<1> SUFFICES ASSUME Init PROVE WhalesInv
  OBVIOUS
<1>1. AlertsInv
  BY AlertsInitInv
<1>2. faults \in Nat /\ StaysOn
  BY DEF Init, StaysOn
<1>3. LogIsReported
  BY EmptySeq DEF Init, LogIsReported
<1>4. WhalesTended
  BY DEF Init, WhalesTended, Watched
<1> QED
  BY <1>1, <1>2, <1>3, <1>4 DEF WhalesInv

LEMMA WhalesStep == WhalesInv /\ [Next]_vars => WhalesInv'
<1> SUFFICES ASSUME WhalesInv, [Next]_vars PROVE WhalesInv'
  OBVIOUS
<1>1. AlertsInv'
  BY AlertsStep DEF WhalesInv
<1>2. faults' \in Nat
  BY WhalesGrow DEF Grows
<1>3. WhalesTended'
  BY <1>1, TendedStep DEF WhalesTended
<1> QED
  BY <1>1, <1>2, <1>3, DefaultRulesStay, LogStaysReported DEF WhalesInv

\* Bets above a threshold are reported by a deadline, over failures and restarts, while
\* they are not crowded out of the window's largest bets.
THEOREM WhalesAreReported == Spec => []WhaleBetsAreReported
<1>1. WhalesInv => WhaleBetsAreReported
  <2> SUFFICES ASSUME WhalesInv, NEW b \in Bets, NEW i \in DOMAIN DefaultRules \ Switched,
                      Watched(b, i), now > LastStart(b, i) + i * MaxDelay, b \notin reported
               PROVE  FALSE
    BY DEF WhaleBetsAreReported, Watched
  <2>1. i \in Nat /\ now \in Nat /\ placedAt[b] \in Nat /\ faults \in Nat
    BY DefaultIndex DEF WhalesInv, AlertsInv, AlertTypesHold
  <2>2. LastStart(b, i) \in Nat /\ i * MaxDelay \in Nat
    BY <2>1, StartIs DEF LastStart
  <2>3. now <= LastStart(b, i) + i * MaxDelay
    BY <2>2, NotLate
  <2> QED
    BY <2>1, <2>2, <2>3
<1> QED
  BY <1>1, WhalesInitInv, WhalesStep, PTL DEF Spec
=============================================================================

--------------------------- MODULE SanctionsGuard ---------------------------
(***************************************************************************)
(* Sanctions screening of the relayer: apps/relayer/src/compliance/guards/ *)
(* sanctions.guard.ts with providers/sanctions.provider.ts, for one        *)
(* address (rows of different addresses never meet) and the requests made  *)
(* in its name.  A request looks for a row younger than the cache life; if *)
(* there is none it asks the screening service, saves the answer, and only *)
(* then decides.  Other requests run at each await, and a row is dated     *)
(* when it is saved.                                                       *)
(***************************************************************************)
EXTENDS Naturals, FiniteSets

CONSTANTS
  Screenings, \* calls of canActivate for the address
  CacheLife,  \* one hour
  MaxDelay,   \* assumed: a screening answer is saved within this time
  MaxTime     \* bound on the clock

ASSUME LifeAssumption == CacheLife \in Nat \ {0} /\ MaxDelay \in Nat

VARIABLES
  now,
  score,      \* what the service knows of the address: low, mid or high
  highSince,  \* when it last became high
  erredAt,    \* when the service last answered with an error body
  rows,       \* SanctionCheck: severity and checkedAt
  stage, started, risk, gotAt, verdict

serviceVars == <<score, highSince, erredAt>>
screeningVars == <<stage, started, risk, gotAt, verdict>>
guardVars == <<now, serviceVars, rows, screeningVars>>

Scores == {"low", "mid", "high"}

GuardInit ==
  /\ now = 1 /\ score \in {"low", "high"} /\ erredAt = 0
  /\ highSince = IF score = "high" THEN 1 ELSE 0
  /\ rows = {}
  /\ stage = [r \in Screenings |-> "new"] /\ verdict = [r \in Screenings |-> "none"]
  /\ started = [r \in Screenings |-> 0] /\ gotAt = [r \in Screenings |-> 0]
  /\ risk = [r \in Screenings |-> "none"]

------------------------------------------------------------------------------
(* The clock and the screening service.                                     *)

\* A saved answer is at most MaxDelay late.
ClockTick ==
  /\ now < MaxTime
  /\ \A r \in Screenings : stage[r] = "save" => now < gotAt[r] + MaxDelay
  /\ now' = now + 1
  /\ UNCHANGED <<serviceVars, rows, screeningVars>>

Relist(s) ==
  /\ s # score /\ score' = s
  /\ highSince' = IF s = "high" THEN now ELSE highSince
  /\ UNCHANGED <<now, erredAt, rows, screeningVars>>

------------------------------------------------------------------------------
(* canActivate.                                                             *)

Restricted(severity) == severity \in {"HIGH", "SEVERE"}

\* The variables of a request end with it.
Finish(r, v) ==
  /\ stage' = [stage EXCEPT ![r] = "done"] /\ verdict' = [verdict EXCEPT ![r] = v]
  /\ started' = [started EXCEPT ![r] = 0] /\ gotAt' = [gotAt EXCEPT ![r] = 0]
  /\ risk' = [risk EXCEPT ![r] = "none"]

Decide(r, severity) == Finish(r, IF Restricted(severity) THEN "denied" ELSE "allowed")

\* Mutant: rows never go stale.
AnyAge(row) == TRUE

Young(row) == row.checkedAt + CacheLife > now

\* findFirst gives no order: any young row may be the one found.
FindFirst(r) ==
  /\ stage[r] = "new"
  /\ LET cached == {row \in rows : Young(row)} IN
       \/ \E row \in cached : Decide(r, row.severity)
       \/ /\ cached = {}
          /\ stage' = [stage EXCEPT ![r] = "screen"] /\ started' = [started EXCEPT ![r] = now]
          /\ UNCHANGED <<risk, gotAt, verdict>>
  /\ UNCHANGED <<now, serviceVars, rows>>

RiskOf(s) == CASE s = "high" -> "HIGH" [] s = "mid" -> "MEDIUM" [] s = "low" -> "NONE"

Got(r, severity) ==
  /\ stage[r] = "screen" /\ stage' = [stage EXCEPT ![r] = "save"]
  /\ risk' = [risk EXCEPT ![r] = severity] /\ gotAt' = [gotAt EXCEPT ![r] = now]
  /\ UNCHANGED <<now, score, highSince, rows, started, verdict>>

ScreenAnswered(r) == Got(r, RiskOf(score)) /\ UNCHANGED erredAt

\* The request fails or the body is no JSON: the catch clause.
ScreenThrows(r) == Got(r, "HIGH") /\ UNCHANGED erredAt

\* An error status with a JSON body: response.ok is not looked at, and there is
\* no riskScore to compare.
ScreenErrs(r) == Got(r, "NONE") /\ erredAt' = now

Save(r) ==
  /\ stage[r] = "save"
  /\ rows' = rows \cup {[severity |-> risk[r], checkedAt |-> now]}
  /\ Decide(r, risk[r])
  /\ UNCHANGED <<now, serviceVars>>

\* The exception of create ends the request.
SaveFails(r) ==
  /\ stage[r] = "save" /\ Finish(r, "denied")
  /\ UNCHANGED <<now, serviceVars, rows>>

GuardNext ==
  \/ ClockTick \/ \E s \in Scores : Relist(s)
  \/ \E r \in Screenings :
       \/ FindFirst(r) \/ ScreenAnswered(r) \/ ScreenThrows(r) \/ ScreenErrs(r)
       \/ Save(r) \/ SaveFails(r)

GuardSpec == GuardInit /\ [][GuardNext]_guardVars

------------------------------------------------------------------------------
(* Properties.                                                              *)

Admits(r) == verdict[r] # "allowed" /\ verdict'[r] = "allowed"

StartOf(r) == IF stage[r] = "new" THEN now ELSE started[r]

\* Once an address has been high for the cache life and the longest save, every
\* new request is denied, unless the service answered an error in between: no
\* row saved late, no concurrent screening and no choice of findFirst keeps an
\* older clearance alive.
ListingTakesEffect ==
  [][\A r \in Screenings :
       Admits(r) /\ score = "high" /\ erredAt < highSince =>
         StartOf(r) < highSince + CacheLife + MaxDelay]_guardVars
=============================================================================

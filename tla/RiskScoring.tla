---------------------------- MODULE RiskScoring ----------------------------
(***************************************************************************)
(* What the intelligence services compute from the answers of the          *)
(* distributors, without any state: the lifecycle and availability of a    *)
(* component, its risk, the risk of a BOM, its explanation, and the trend  *)
(* between two of its snapshots.                                           *)
(*                                                                         *)
(* An answer is a record [status, quantity]: the lifecycle status the      *)
(* distributor names, and the quantity it reports, which may be Unreported. *)
(* The weighted scores 0.6 L + 0.4 A are integers for every L and A that   *)
(* the assessors return; a mean is kept in hundredths, as stored.          *)
(***************************************************************************)
EXTENDS Lists, SequencesExt

CONSTANTS
  Unreported,   \* a quantity (or a status) the distributor does not give
  TopLimit      \* how many components an assessment keeps, 10 in the code

ASSUME ScoringAssumption ==
  /\ Unreported \notin Int
  /\ TopLimit \in Nat \ {0}

LifecycleStatuses == {"ACTIVE", "NRND", "EOL", "OBSOLETE", "UNKNOWN"}
Severities == {"LOW", "MEDIUM", "HIGH", "CRITICAL", "UNKNOWN"}
Elevated == {"HIGH", "CRITICAL"}

CountOf(seq, Test(_)) == Cardinality({i \in DOMAIN seq : Test(seq[i])})
TotalOf(seq, Amount(_)) == Total([i \in DOMAIN seq |-> Amount(seq[i])])

-----------------------------------------------------------------------------
(* One component.                                                          *)

(* The names distributors use; any other is not recognised.                *)
NormalStatus(status) ==
  CASE status \in {"ACTIVE", "PRODUCTION"} -> "ACTIVE"
    [] status \in {"NRND", "NOT RECOMMENDED FOR NEW DESIGNS"} -> "NRND"
    [] status \in {"EOL", "END OF LIFE"} -> "EOL"
    [] status \in {"OBSOLETE", "DISCONTINUED"} -> "OBSOLETE"
    [] OTHER -> "UNKNOWN"

(* The first recognised status, in the order the providers were asked.     *)
Lifecycle(answers) ==
  LET known == {i \in DOMAIN answers : NormalStatus(answers[i].status) # "UNKNOWN"}
  IN IF known = {} THEN "UNKNOWN" ELSE NormalStatus(answers[Min(known)].status)

InStock(answer) == answer.quantity # Unreported /\ answer.quantity > 0
OutOfStock(answer) == answer.quantity # Unreported /\ answer.quantity <= 0

Availability(answers) ==
  [ distributors |-> Len(answers),
    available    |-> CountOf(answers, InStock),
    unavailable  |-> CountOf(answers, OutOfStock),
    total        |-> TotalOf(answers, LAMBDA a : IF a.quantity = Unreported THEN 0 ELSE a.quantity),
    procurement  |-> IF CountOf(answers, InStock) > 0 THEN "READY"
                     ELSE IF CountOf(answers, OutOfStock) > 0 THEN "UNAVAILABLE" ELSE "UNKNOWN" ]

LifecycleScore(status) ==
  CASE status = "ACTIVE" -> 0 [] status = "NRND" -> 50 [] status = "EOL" -> 80
    [] status = "OBSOLETE" -> 100 [] OTHER -> 25

AvailabilityScore(availability) ==
  CASE availability.distributors = 0 -> 25
    [] availability.distributors > 0 /\ availability.available >= 2 -> 0
    [] availability.distributors > 0 /\ availability.available = 1 -> 50
    [] OTHER -> 80

(* Faulty: HIGH from 50 on, but a score of exactly 50 is still MEDIUM, and *)
(* so on: the thresholds belong to the lower severity.                     *)
SeverityInclusive(score, unit) ==
  IF score <= 20 * unit THEN "LOW" ELSE IF score <= 50 * unit THEN "MEDIUM"
  ELSE IF score <= 75 * unit THEN "HIGH" ELSE "CRITICAL"

(* The severity of score / unit: a mean is judged before it is rounded.    *)
Severity(score, unit) ==
  IF score < 20 * unit THEN "LOW" ELSE IF score < 50 * unit THEN "MEDIUM"
  ELSE IF score < 75 * unit THEN "HIGH" ELSE "CRITICAL"

ComponentRisk(answers) ==
  LET life == LifecycleScore(Lifecycle(answers))
      availability == AvailabilityScore(Availability(answers))
      score == (6 * life + 4 * availability) \div 10
  IN [ life |-> life, availability |-> availability,
       score |-> score, severity |-> Severity(score, 1) ]

-----------------------------------------------------------------------------
(* A BOM, from the list of its components' risks, in the order of its      *)
(* lines: records [component, score, severity, lifecycleRisk,              *)
(* availabilityRisk].                                                      *)

(* Faulty: sorted by score in ascending order.                             *)
RankedAscending(risks) ==
  SortSeq(risks, LAMBDA x, y : x.score < y.score)

(* sorted() with reverse=True keeps the order of equal scores.             *)
Ranked(risks) == ByKey(risks, [i \in DOMAIN risks |-> risks[i].score])

Top(risks) == FirstOf(Ranked(risks), TopLimit)

(* round(total / count, 2), in hundredths; no mean of fewer than eight     *)
(* integers lies half-way between two hundredths.                          *)
RoundedMean(total, count) == (200 * total + count) \div (2 * count)

Assessment(risks) ==
  LET total == TotalOf(risks, LAMBDA r : r.score)
  IN [ count     |-> Len(risks),
       overall   |-> IF risks = <<>> THEN 0 ELSE RoundedMean(total, Len(risks)),
       severity  |-> IF risks = <<>> THEN "UNKNOWN" ELSE Severity(total, Len(risks)),
       high      |-> CountOf(risks, LAMBDA r : r.severity \in Elevated),
       critical  |-> CountOf(risks, LAMBDA r : r.severity = "CRITICAL"),
       lifecycleRisks    |-> CountOf(risks, LAMBDA r : r.lifecycleRisk),
       availabilityRisks |-> CountOf(risks, LAMBDA r : r.availabilityRisk),
       top       |-> Top(risks) ]

(* The reason a component is named for; the words are left out.            *)
Reason(risk) ==
  CASE risk.lifecycleRisk /\ risk.availabilityRisk -> "both"
    [] risk.lifecycleRisk /\ ~risk.availabilityRisk -> "lifecycle"
    [] ~risk.lifecycleRisk /\ risk.availabilityRisk -> "availability"
    [] OTHER -> "overall"

(* For a HIGH component the lifecycle alone decides the wording.           *)
Advice(risk) ==
  [ priority  |-> risk.severity,
    component |-> risk.component,
    reason    |-> IF risk.severity = "HIGH" /\ risk.lifecycleRisk THEN "lifecycle"
                  ELSE Reason(risk) ]

(* Advice about the BOM as a whole names no component.                     *)
GeneralAdvice(priority, reason) == <<[priority |-> priority, component |-> 0, reason |-> reason]>>

Drivers(assessment) ==
  LET named == Where(assessment.top, LAMBDA r : r.severity \in Elevated)
  IN [i \in DOMAIN named |-> [component |-> named[i].component, reason |-> Reason(named[i])]]

Recommendations(assessment) ==
  LET named == Where(assessment.top, LAMBDA r : r.severity \in Elevated)
  IN [i \in DOMAIN named |-> Advice(named[i])]
       \o (IF assessment.lifecycleRisks > 0 THEN GeneralAdvice("HIGH", "lifecycle") ELSE <<>>)
       \o (IF assessment.availabilityRisks > 0 THEN GeneralAdvice("HIGH", "availability") ELSE <<>>)

Explanation(assessment) ==
  [ drivers |-> Drivers(assessment),
    recommendations |->
      IF assessment.count = 0 THEN GeneralAdvice("UNKNOWN", "no data")
      ELSE Recommendations(assessment) ]

-----------------------------------------------------------------------------
(* The trend between the last two of a BOM's snapshots.                    *)

(* Changes are in hundredths: five points are 500.                         *)
TrendOf(change) ==
  IF change > 500 THEN "WORSENING" ELSE IF change < -500 THEN "IMPROVING" ELSE "STABLE"

=============================================================================

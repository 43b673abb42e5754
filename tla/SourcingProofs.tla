--------------------------- MODULE SourcingProofs ---------------------------
(***************************************************************************)
(* Proofs about Sourcing, for any distributors' answers, any number of     *)
(* lines and any lifetime of a token.                                      *)
(***************************************************************************)
EXTENDS Sourcing, ListProofs

(* The next call is one of the calls of a question.                        *)
CallTyped ==
  /\ call = [purpose |-> call.purpose, provider |-> call.provider, leg |-> call.leg]
  /\ call.purpose \in {"enrich", "quote"}
  /\ call.provider \in 1..3
  /\ call.leg \in 1..Len(Legs(Provider, call.purpose))
  /\ token \in Int

(* How much of the token's validity is left after the calls since.         *)
Margin == Provider = "digikey" /\ call.leg > 1 => token > Buffer - (call.leg - 2)

TokenInv == CallTyped /\ Margin

-----------------------------------------------------------------------------
(* Every provider makes at least one call for a question.                  *)
LEMMA LegFacts ==
  /\ Len(Providers) = 3
  /\ \A purpose \in {"enrich", "quote"} : \A p \in 1..3 :
       LET legs == Legs(Providers[p], purpose)
       IN /\ Len(legs) \in 1..4
          /\ legs[1] = "token" <=> Providers[p] = "digikey"
          /\ Providers[p] # "digikey" => Len(legs) = 1
          /\ \A i \in 2..Len(legs) : legs[i] # "token"
<1>1. /\ Len(Providers) = 3 /\ Providers[1] = "mouser" /\ Providers[2] = "arrow"
      /\ Providers[3] = "digikey"
  BY DEF Providers
<1>2. \A p \in 1..3 : p = 1 \/ p = 2 \/ p = 3
  OBVIOUS
<1> QED BY <1>1, <1>2 DEF Legs, DigiKeyEnrichCalls, DigiKeyQuoteCalls

(* The first of a number of calls.                                         *)
LEMMA FirstLeg == ASSUME NEW n \in 1..4 PROVE 1 \in 1..n
OBVIOUS

(* The margin after a leg leaves enough for a later one.                   *)
LEMMA MarginPositive ==
  ASSUME NEW t \in Int, NEW b \in Nat, NEW n \in 1..4, NEW l \in 1..n, l > 1, b >= 2,
         t > b - (l - 2)
  PROVE  t > 0
OBVIOUS

(* Before the first call there is nothing to cover.                        *)
LEMMA TokenInit == SourcingInit => TokenInv
<1> SUFFICES ASSUME SourcingInit PROVE TokenInv
  OBVIOUS
<1>1. call = FirstCall /\ token = 0
  BY DEF SourcingInit
<1>2. call.purpose = "enrich" /\ call.provider = 1 /\ call.leg = 1
  BY <1>1 DEF FirstCall
<1>3. call = [purpose |-> call.purpose, provider |-> call.provider, leg |-> call.leg]
  BY <1>1 DEF FirstCall
<1>4. Len(Legs(Provider, call.purpose)) \in 1..4
  BY <1>2, LegFacts DEF Provider
<1>5. CallTyped
  BY <1>1, <1>2, <1>3, <1>4 DEF CallTyped
<1>6. Margin
  BY <1>2 DEF Margin
<1> QED BY <1>5, <1>6 DEF TokenInv

(* A new question starts with its first call.                              *)
LEMMA NextProviderTyped ==
  ASSUME CallTyped, NextProvider, token' \in Int
  PROVE  TokenInv'
<1>1. /\ call'.purpose \in {"enrich", "quote"} /\ call'.provider \in 1..3 /\ call'.leg = 1
      /\ call' = [purpose |-> call'.purpose, provider |-> call'.provider, leg |-> call'.leg]
  <2>1. CASE call.provider < Len(Providers)
    <3>1. call' = [call EXCEPT !.provider = @ + 1, !.leg = 1]
      BY <2>1 DEF NextProvider
    <3>2. call' = [purpose |-> call.purpose, provider |-> call.provider + 1, leg |-> 1]
      BY <3>1 DEF CallTyped
    <3> QED BY <2>1, <3>2, LegFacts DEF CallTyped
  <2>2. CASE ~(call.provider < Len(Providers)) /\ call.purpose = "enrich"
    <3>1. call' = [FirstCall EXCEPT !.purpose = "quote"]
      BY <2>2 DEF NextProvider
    <3>2. call' = [purpose |-> "quote", provider |-> 1, leg |-> 1]
      BY <3>1 DEF FirstCall
    <3> QED BY <3>2
  <2>3. CASE ~(call.provider < Len(Providers)) /\ call.purpose # "enrich"
    <3>1. call' = [purpose |-> "enrich", provider |-> 1, leg |-> 1]
      BY <2>3 DEF NextProvider, FirstCall
    <3> QED BY <3>1
  <2> QED BY <2>1, <2>2, <2>3
<1>2. Len(Legs(Provider', call'.purpose)) \in 1..4
  BY <1>1, LegFacts DEF Provider
<1>3. 1 \in 1..Len(Legs(Provider', call'.purpose))
  BY <1>2, FirstLeg
<1>4. CallTyped'
  BY <1>1, <1>3 DEF CallTyped, Legs
<1>5. Margin'
  BY <1>1 DEF Margin
<1> QED BY <1>4, <1>5 DEF TokenInv

(* The next call of the same question.                                     *)
LEMMA NextLegTyped ==
  ASSUME CallTyped, NextLeg, ~LastLeg, token' \in Int,
         Provider = "digikey" => token' > Buffer - (call.leg - 1)
  PROVE  TokenInv'
<1>1. call' = [purpose |-> call.purpose, provider |-> call.provider, leg |-> call.leg + 1]
  BY DEF NextLeg, CallTyped
<1>2. call'.purpose = call.purpose /\ call'.provider = call.provider /\ call'.leg = call.leg + 1
  BY <1>1
<1>3. Provider' = Provider
  BY <1>2 DEF Provider
<1>4. /\ Len(Legs(Provider, call.purpose)) \in 1..4
      /\ call.leg # Len(Legs(Provider, call.purpose))
      /\ call.leg \in 1..Len(Legs(Provider, call.purpose))
  BY LegFacts DEF CallTyped, LastLeg, Provider
<1>5. call.leg + 1 \in 1..Len(Legs(Provider, call.purpose))
  BY <1>4
<1>6. CallTyped'
  <2>1. call' = [purpose |-> call'.purpose, provider |-> call'.provider, leg |-> call'.leg]
    BY <1>1
  <2> QED BY <1>2, <1>3, <1>5, <2>1 DEF CallTyped, Provider, Legs
<1>7. call.leg \in Int
  BY <1>4
<1>8. Margin'
  <2>1. call'.leg - 2 = call.leg - 1
    <3>1. call'.leg = call.leg + 1
      BY <1>2
    <3> QED BY <3>1, <1>7
  <2>2. Provider' = "digikey" => token' > Buffer - (call'.leg - 2)
    BY <1>3, <2>1
  <2> QED BY <2>2 DEF Margin
<1> QED BY <1>6, <1>8 DEF TokenInv

(* Every call leaves enough of the token's validity for those after it: a  *)
(* cached token is used with more than the buffer left, a new one is asked *)
(* for otherwise.                                                          *)
LEMMA TokenStep ==
  ASSUME TokenInv, [SourcingNext]_sourcingVars
  PROVE  TokenInv'
<1>0. /\ CallTyped /\ Margin
      /\ token \in Int /\ Buffer \in Nat /\ Lifetime \in Nat /\ Lifetime > Buffer + 1
      /\ call.leg \in 1..Len(Legs(Provider, call.purpose))
      /\ Len(Legs(Provider, call.purpose)) \in 1..4
  BY SourcingAssumption, LegFacts DEF TokenInv, CallTyped, Provider
<1>1. ASSUME UNCHANGED <<call, token>> PROVE TokenInv'
  BY <1>0, <1>1 DEF TokenInv, CallTyped, Margin, Provider, Legs
<1>2. /\ Leg = "token" => call.leg = 1 /\ Provider = "digikey" /\ ~LastLeg
      /\ Leg # "token" /\ Provider = "digikey" => call.leg > 1
      /\ Provider # "digikey" => LastLeg
  BY <1>0, LegFacts DEF Leg, LastLeg, Provider, CallTyped, Legs, DigiKeyEnrichCalls, DigiKeyQuoteCalls
<1>3. ASSUME NEW elapsed \in {0, 1}, token' = Remaining(elapsed)
      PROVE  token' \in Int /\ token' >= token - 1
  BY <1>0, <1>3 DEF Remaining
<1>4. ASSUME \E elapsed \in {0, 1} : token' = Remaining(elapsed), NextLeg, ~LastLeg, Leg # "token"
      PROVE  TokenInv'
  <2>1. token' \in Int /\ token' >= token - 1
    BY <1>3, <1>4
  <2>2. Provider = "digikey" => token' > Buffer - (call.leg - 1)
    BY <1>0, <1>2, <1>4, <2>1 DEF Margin
  <2> QED BY <1>0, <1>4, <2>1, <2>2, NextLegTyped
<1>5. ASSUME \E elapsed \in {0, 1} : token' = Remaining(elapsed), NextProvider
      PROVE  TokenInv'
  BY <1>0, <1>3, <1>5, NextProviderTyped
<1>6. CASE UseToken
  <2>1. NextLeg /\ Leg = "token" /\ token' = token /\ token > Buffer
    BY <1>6 DEF UseToken, Cached
  <2>2. token' > Buffer - (call.leg - 1)
    BY <1>0, <1>2, <2>1
  <2> QED BY <1>0, <1>2, <2>1, <2>2, NextLegTyped
<1>7. CASE AskToken
  <2>1. Leg = "token"
    BY <1>7 DEF AskToken
  <2>2. PICK elapsed \in {0, 1} : \/ token' = Lifetime - elapsed /\ NextLeg
                                  \/ token' = Remaining(elapsed) /\ NextProvider
    BY <1>7 DEF AskToken
  <2>3. CASE token' = Lifetime - elapsed /\ NextLeg
    <3>1. token' \in Int /\ token' > Buffer - (call.leg - 1)
      BY <1>0, <1>2, <2>1, <2>3
    <3> QED BY <1>0, <1>2, <2>1, <2>3, <3>1, NextLegTyped
  <2>4. CASE token' = Remaining(elapsed) /\ NextProvider
    BY <1>5, <2>4
  <2> QED BY <2>2, <2>3, <2>4
<1>8. CASE SearchKeyword
  BY <1>4, <1>8 DEF SearchKeyword
<1>9. CASE GetDetails
  BY <1>4, <1>9 DEF GetDetails
<1>10. CASE Nothing
  BY <1>5, <1>10 DEF Nothing
<1>11. CASE Answered
  BY <1>5, <1>11 DEF Answered
<1>12. CASE DecideLine \/ EndCandidate
  BY <1>1, <1>12 DEF DecideLine, EndCandidate, NextItem
<1>13. CASE FailLine \/ FinishBom \/ FinishComponent \/ FinishLifecycle \/ FinishAlternatives
            \/ PersistAlternatives
  BY <1>1, <1>13 DEF FailLine, FinishBom, FinishComponent, FinishLifecycle, FinishAlternatives,
                    PersistAlternatives
<1>14. CASE \E r \in Requests : Begin(r)
  BY <1>1, <1>14 DEF Begin
<1>15. CASE UNCHANGED sourcingVars
  BY <1>1, <1>15 DEF sourcingVars
<1> QED BY <1>6, <1>7, <1>8, <1>9, <1>10, <1>11, <1>12, <1>13, <1>14, <1>15 DEF SourcingNext

(* What the margin leaves is a token that is still valid.                  *)
LEMMA MarginSuffices ==
  ASSUME TokenInv
  PROVE  TokenLive
<1>1. /\ call.leg \in 1..Len(Legs(Provider, call.purpose))
      /\ Len(Legs(Provider, call.purpose)) \in 1..4
      /\ token \in Int /\ Buffer \in Nat
  BY SourcingAssumption, LegFacts DEF TokenInv, CallTyped, Provider
<1>2. Buffer >= 2
  BY BufferAssumption DEF DigiKeyQuoteCalls
<1>3. Provider = "digikey" /\ Leg # "token" => call.leg > 1
  BY <1>1, LegFacts DEF Leg, Provider, TokenInv, CallTyped
<1>4. Provider = "digikey" /\ call.leg > 1 => token > Buffer - (call.leg - 2)
  BY DEF TokenInv, Margin
<1>5. Provider = "digikey" /\ Leg # "token" => token > 0
  BY <1>1, <1>2, <1>3, <1>4, MarginPositive
<1> QED BY <1>5 DEF TokenLive

(* As long as every call returns within its timeout, no call to DigiKey is *)
(* made with a token that has expired.                                     *)
THEOREM TokenStaysLive == SourcingSpec => []TokenLive
<1>1. SourcingInit => TokenInv
  BY TokenInit
<1>2. TokenInv /\ [SourcingNext]_sourcingVars => TokenInv'
  BY TokenStep
<1>3. TokenInv => TokenLive
  BY MarginSuffices
<1> QED BY <1>1, <1>2, <1>3, PTL DEF SourcingSpec

-----------------------------------------------------------------------------
(* The decision on a line.                                                 *)

ListsInv ==
  /\ IsList(answers)
  /\ phase = "idle" \/ request.kind # "alternatives" => IsList(results)

(* A provider answers an enrichment with one result or none.               *)
LEMMA EnrichedList == \A parts : IsList(Enriched(parts))
<1> TAKE parts
<1>1. \A l, name, maker : FirstMatch(l, name, maker) = <<>> \/ \E x : FirstMatch(l, name, maker) = <<x>>
  BY DEF FirstMatch
<1>2. \A l, name, maker : DigiKeyFound(l, name, maker) = <<>> \/ \E x : DigiKeyFound(l, name, maker) = <<x>>
  BY <1>1 DEF DigiKeyFound, DigiKeySelected
<1>3. \A f : (f = <<>> \/ \E x : f = <<x>>) =>
        /\ IsList(ForEach(f, MouserAnswer)) /\ IsList(ForEach(f, ArrowAnswer))
        /\ IsList(ForEach(f, DigiKeyAnswer))
  <2> SUFFICES ASSUME NEW f, f = <<>> \/ \E x : f = <<x>>
               PROVE  /\ IsList(ForEach(f, MouserAnswer)) /\ IsList(ForEach(f, ArrowAnswer))
                      /\ IsList(ForEach(f, DigiKeyAnswer))
    OBVIOUS
  <2>1. CASE f = <<>>
    <3>1. ForEach(f, MouserAnswer) = <<>> /\ ForEach(f, ArrowAnswer) = <<>> /\ ForEach(f, DigiKeyAnswer) = <<>>
      BY <2>1 DEF ForEach
    <3> QED BY <3>1, EmptyList
  <2>2. ASSUME NEW x, f = <<x>>
        PROVE  /\ IsList(ForEach(f, MouserAnswer)) /\ IsList(ForEach(f, ArrowAnswer))
               /\ IsList(ForEach(f, DigiKeyAnswer))
    <3>1. /\ ForEach(f, MouserAnswer) = <<MouserAnswer(x)>>
          /\ ForEach(f, ArrowAnswer) = <<ArrowAnswer(x)>>
          /\ ForEach(f, DigiKeyAnswer) = <<DigiKeyAnswer(x)>>
      BY <2>2 DEF ForEach
    <3> QED BY <3>1, OneElementList
  <2> QED BY <2>1, <2>2
<1>4. CASE Provider = "mouser"
  BY <1>1, <1>3, <1>4 DEF Enriched, MouserEnrich, MouserSelected
<1>5. CASE Provider = "arrow"
  BY <1>1, <1>3, <1>5 DEF Enriched, ArrowEnrich, ArrowSelected
<1>6. CASE Provider # "mouser" /\ Provider # "arrow"
  BY <1>2, <1>3, <1>6 DEF Enriched, DigiKeyEnrich
<1> QED BY <1>4, <1>5, <1>6

(* Nothing has been answered or decided at the start.                      *)
LEMMA ListsInit == SourcingInit => ListsInv
BY EmptyList DEF SourcingInit, ListsInv

(* Answers are only appended or forgotten, and so are results.             *)
LEMMA ListsStep ==
  ASSUME ListsInv, [SourcingNext]_sourcingVars
  PROVE  ListsInv'
<1>1. ASSUME UNCHANGED <<answers, results, request>>, phase # "idle" => phase' # "idle"
      PROVE  ListsInv'
  BY <1>1 DEF ListsInv, IsList
<1>2. ASSUME NextProvider, phase = "calling" PROVE phase' # "idle"
  BY <1>2 DEF NextProvider
<1>3. CASE \E r \in Requests : Begin(r)
  <2>1. PICK r \in Requests : Begin(r)
    BY <1>3
  <2>2. phase = "idle" /\ request' = r /\ phase' # "idle" /\ answers' = answers
    BY <2>1 DEF Begin
  <2>3. r.kind # "alternatives" => results' = results
    BY <2>1 DEF Begin
  <2> QED BY <2>2, <2>3 DEF ListsInv, IsList
<1>4. CASE UseToken \/ SearchKeyword \/ GetDetails
  BY <1>1, <1>4 DEF UseToken, SearchKeyword, GetDetails, NextLeg
<1>5. CASE AskToken \/ Nothing
  BY <1>1, <1>2, <1>5 DEF AskToken, Nothing, NextLeg
<1>6. CASE Answered
  <2>1. phase' # "idle" /\ phase # "idle" /\ results' = results /\ request' = request
    BY <1>2, <1>6 DEF Answered
  <2>2. answers' = answers \/ \E parts : answers' = answers \o Enriched(parts)
    BY <1>6 DEF Answered
  <2>3. IsList(answers')
    BY <2>2, EnrichedList, ConcatList DEF ListsInv
  <2> QED BY <2>1, <2>3 DEF ListsInv, IsList
<1>7. ASSUME NEW result, NextItem(result), phase = "decide" PROVE ListsInv'
  <2>1. answers' = <<>> /\ results' = Append(results, result) /\ request' = request
    BY <1>7 DEF NextItem
  <2>2. phase' # "idle"
    BY <1>7 DEF NextItem
  <2>3. request.kind # "alternatives" => IsList(results')
    BY <2>1, AppendList DEF ListsInv
  <2> QED BY <2>1, <2>2, <2>3, EmptyList DEF ListsInv, IsList
<1>8. CASE DecideLine \/ EndCandidate
  BY <1>7, <1>8 DEF DecideLine, EndCandidate
<1>9. CASE FailLine \/ FinishBom \/ FinishComponent \/ FinishLifecycle \/ FinishAlternatives
           \/ PersistAlternatives
  BY <1>1, <1>9 DEF FailLine, FinishBom, FinishComponent, FinishLifecycle, FinishAlternatives,
                    PersistAlternatives
<1>10. CASE UNCHANGED sourcingVars
  BY <1>1, <1>10 DEF sourcingVars
<1> QED BY <1>3, <1>4, <1>5, <1>6, <1>8, <1>9, <1>10 DEF SourcingNext

-----------------------------------------------------------------------------
(* What the scores of a component say of it.                               *)
LEMMA ScoresOfNRND ==
  ASSUME IsList(answers)
  PROVE  /\ Status \in LifecycleStatuses
         /\ CountOf(answers, InStock) \in Nat
         /\ Status = "NRND" =>
              (Risk.severity \in Elevated <=> CountOf(answers, InStock) < 2)
         /\ Status \in {"ACTIVE", "UNKNOWN"} => Risk.severity \notin Elevated
<1> DEFINE stocked == CountOf(answers, InStock)
           available == AvailabilityScore(Availability(answers))
<1>1. Status \in LifecycleStatuses
  <2>1. \A s : NormalStatus(s) \in LifecycleStatuses
    BY DEF NormalStatus, LifecycleStatuses
  <2> QED BY <2>1 DEF Status, Lifecycle, LifecycleStatuses
<1>2. stocked \in Nat
  <2>1. IsFiniteSet(1..Len(answers))
    <3>1. 1 \in Int /\ Len(answers) \in Int
      BY DEF IsList
    <3> QED BY <3>1, FS_Interval
  <2>2. {i \in DOMAIN answers : InStock(answers[i])} \subseteq 1..Len(answers)
    BY DEF IsList
  <2>3. IsFiniteSet({i \in DOMAIN answers : InStock(answers[i])})
    BY <2>1, <2>2, FS_Subset
  <2> QED BY <2>3, FS_CardinalityType DEF CountOf
<1>3. /\ Availability(answers).distributors = Len(answers)
      /\ Availability(answers).available = stocked
  BY DEF Availability
<1> HIDE DEF stocked
<1>4. /\ available \in {0, 25, 50, 80}
      /\ Len(answers) # 0 => (available \in {50, 80} <=> stocked < 2)
      /\ available = 25 => Len(answers) = 0
  BY <1>2, <1>3 DEF AvailabilityScore, IsList
<1>5. Status = "NRND" => Len(answers) # 0
  BY DEF Status, Lifecycle, IsList
<1>6. Risk.severity = Severity((6 * LifecycleScore(Status) + 4 * available) \div 10, 1)
  BY DEF Risk, ComponentRisk, Status
<1> HIDE DEF available
<1>7. \A s \in Int : Severity(s, 1) \in Elevated <=> s >= 50
  BY DEF Severity, Elevated
<1>8. Status = "NRND" => (Risk.severity \in Elevated <=> stocked < 2)
  <2> SUFFICES ASSUME Status = "NRND" PROVE Risk.severity \in Elevated <=> stocked < 2
    OBVIOUS
  <2>1. LifecycleScore(Status) = 50
    BY DEF LifecycleScore
  <2>2. available \in {0, 50, 80}
    BY <1>4, <1>5
  <2>3. (6 * 50 + 4 * available) \div 10 \in Int
        /\ ((6 * 50 + 4 * available) \div 10 >= 50 <=> available \in {50, 80})
    BY <2>2
  <2> QED BY <1>4, <1>5, <1>6, <1>7, <2>1, <2>3
<1>9. Status \in {"ACTIVE", "UNKNOWN"} => Risk.severity \notin Elevated
  <2> SUFFICES ASSUME Status \in {"ACTIVE", "UNKNOWN"} PROVE Risk.severity \notin Elevated
    OBVIOUS
  <2>1. LifecycleScore(Status) \in {0, 25}
    BY DEF LifecycleScore
  <2>2. (6 * LifecycleScore(Status) + 4 * available) \div 10 \in Int
        /\ (6 * LifecycleScore(Status) + 4 * available) \div 10 < 50
    BY <1>4, <2>1
  <2> QED BY <1>6, <1>7, <2>2
<1> QED BY <1>1, <1>2, <1>8, <1>9 DEF stocked

(* A line that is decided in a step is decided from the answers and quotes *)
(* of that moment.                                                         *)
LEMMA LineIsDecided ==
  ASSUME ListsInv, [SourcingNext]_sourcingVars, Decides
  PROVE  Decided = Line /\ DecideLine /\ ~Indivisible(EligibleQuotes)
<1>1. phase = "decide" /\ Len(results') > Len(results) /\ request.kind # "alternatives"
  BY DEF Decides
<1>2. IsList(results)
  BY <1>1 DEF ListsInv
<1>3. results' # results
  BY <1>1, <1>2 DEF IsList
<1>4. DecideLine
  BY <1>1, <1>3 DEF SourcingNext, sourcingVars, Begin, UseToken, AskToken, SearchKeyword, GetDetails,
     Nothing, Answered, FailLine, EndCandidate, FinishBom, FinishComponent, FinishLifecycle,
     FinishAlternatives, PersistAlternatives
<1>5. results' = Append(results, Line) /\ ~Indivisible(EligibleQuotes)
  BY <1>4 DEF DecideLine, NextItem
<1>6. Decided = Line
  BY <1>2, <1>5, AppendList DEF Decided
<1> QED BY <1>4, <1>5, <1>6

(* It is decided by Decision.                                              *)
LEMMA DecisionStep ==
  ASSUME ListsInv, [SourcingNext]_sourcingVars, Decides
  PROVE  Decided.decision.action = Decision(quotes, Risk, Status, Item.quantity).action
BY LineIsDecided DEF Line

(* So the decision of a step is one that the rules justify.                *)
LEMMA SafeStep ==
  ASSUME ListsInv, [SourcingNext]_sourcingVars, Decides
  PROVE  /\ Decided.decision.action = "BUY" =>
              /\ Status \notin {"EOL", "OBSOLETE"}
              /\ Status = "NRND" => CountOf(answers, InStock) >= 2
         /\ Decided.decision.action = "REVIEW" =>
              \/ Status \in {"EOL", "OBSOLETE"}
              \/ Status = "NRND" /\ CountOf(answers, InStock) < 2
<1>1. /\ Status \in LifecycleStatuses
      /\ CountOf(answers, InStock) \in Nat
      /\ Status = "NRND" => (Risk.severity \in Elevated <=> CountOf(answers, InStock) < 2)
      /\ Status \in {"ACTIVE", "UNKNOWN"} => Risk.severity \notin Elevated
  BY ScoresOfNRND DEF ListsInv
<1>2. /\ Decided.decision.action = "BUY" => Action(Risk, Status) = "BUY"
      /\ Decided.decision.action = "REVIEW" => Action(Risk, Status) = "REVIEW"
  BY DecisionStep DEF Decision
<1>3. LifecycleRisk(Status) \in Elevated <=> Status \in {"EOL", "OBSOLETE"}
  BY <1>1 DEF LifecycleRisk, Elevated, LifecycleStatuses
<1>4. /\ Action(Risk, Status) = "BUY" =>
           Risk.severity \notin Elevated /\ Status \notin {"EOL", "OBSOLETE"}
      /\ Action(Risk, Status) = "REVIEW" =>
           Risk.severity \in Elevated \/ Status \in {"EOL", "OBSOLETE"}
  BY <1>3 DEF Action
<1> HIDE DEF CountOf, Status, Risk
<1> QED BY <1>1, <1>2, <1>4 DEF LifecycleStatuses

(* What is to be bought is not at the end of its life by the first status  *)
(* that is recognised, and what is held back is at its end, or not         *)
(* recommended and stocked by fewer than two distributors.                 *)
THEOREM DecisionsAreSafe == SourcingSpec => BuyIsSafe
<1>1. SourcingInit => ListsInv
  BY ListsInit
<1>2. ListsInv /\ [SourcingNext]_sourcingVars => ListsInv'
  BY ListsStep
<1>3. ListsInv /\ [SourcingNext]_sourcingVars =>
        [Decides =>
         /\ Decided.decision.action = "BUY" =>
              /\ Status \notin {"EOL", "OBSOLETE"}
              /\ Status = "NRND" => CountOf(answers, InStock) >= 2
         /\ Decided.decision.action = "REVIEW" =>
              \/ Status \in {"EOL", "OBSOLETE"}
              \/ Status = "NRND" /\ CountOf(answers, InStock) < 2]_sourcingVars
  BY SafeStep
<1> QED BY <1>1, <1>2, <1>3, PTL DEF SourcingSpec, BuyIsSafe

-----------------------------------------------------------------------------
(* The alternatives of a component.                                        *)

Passed(source) == {c \in Discovered(source) : Compatible(Row(source), Row(c))}

(* A list in which each element of a set has one place.                    *)
Lists(list, S) ==
  /\ IsFiniteSet(S) /\ Cardinality(S) \in Nat
  /\ list = [i \in 1..Cardinality(S) |-> list[i]] /\ Len(list) = Cardinality(S)
  /\ \A i \in 1..Cardinality(S) : list[i] \in S
  /\ \A x \in S : \E i \in 1..Cardinality(S) : list[i] = x
  /\ \A i, j \in 1..Cardinality(S) : list[i] = list[j] => i = j

(* The candidates are those that pass the gates, each once.                *)
LEMMA CandidatesListed == \A source : Lists(Candidates(source), Passed(source))
<1> TAKE source
<1> DEFINE S == Passed(source)
           list == InOrder(S, Ascending)
<1>1. S \in SUBSET (DOMAIN Catalogue) /\ S \in SUBSET Int
  BY CatalogueAssumption DEF Passed, Discovered
<1>2. Candidates(source) = list
  BY DEF Candidates, Passed
<1> HIDE DEF S
<1>3. IsFiniteSet(S)
  BY <1>1, CatalogueAssumption, FS_Subset
<1>4. StrictOrder(S, Ascending)
  BY <1>1, AscendingStrict
<1>5. /\ Cardinality(S) \in Nat
      /\ DOMAIN list = 1..Cardinality(S) /\ Len(list) = Cardinality(S)
      /\ list \in [1..Cardinality(S) -> S]
      /\ \A x \in S : \E n \in DOMAIN list : list[n] = x
      /\ \A m, n \in DOMAIN list : list[m] = list[n] => m = n
  BY <1>3, <1>4, InOrderLists
<1> HIDE DEF list
<1>6. Lists(list, S)
  BY <1>3, <1>5 DEF Lists
<1> QED BY <1>2, <1>6 DEF S

(* A candidate that passes the gates has another name than the source and  *)
(* enough points, whatever is known of it; without anything in its favour  *)
(* from the distributors it is not recommended.                            *)
LEMMA PassedScores ==
  ASSUME NEW source \in DOMAIN Catalogue, NEW c \in Passed(source), NEW known
  PROVE  /\ c \in DOMAIN Catalogue /\ Catalogue[c].name # Catalogue[source].name
         /\ Compatible(Catalogue[source], Catalogue[c])
         /\ MatchScore(Catalogue[source], Catalogue[c], known) \in Int
         /\ Relevant(MatchScore(Catalogue[source], Catalogue[c], known))
         /\ RecommendedAt(MatchScore(Catalogue[source], Catalogue[c], known)) =>
              StatusPoints(known.status) + StockPoints(known.stock) > 0
<1>1. c \in DOMAIN Catalogue /\ c # source /\ Compatible(Catalogue[source], Catalogue[c])
  BY DEF Passed, Discovered, Row
<1>2. Catalogue[c].name # Catalogue[source].name
  BY <1>1, CatalogueAssumption
<1> DEFINE x == Catalogue[source]
           y == Catalogue[c]
           category == Matches(x.category, y.category)
           family == FamilyMatch(x.category, y.category)
           package == Matches(x.package, y.package)
           maker == Matches(x.maker, y.maker)
           a == StatusPoints(known.status)
           b == StockPoints(known.stock)
           total == (IF category THEN 3500 ELSE IF family THEN 2625 ELSE 0)
                      + (IF package THEN 3000 ELSE 0) + (IF maker THEN 1000 ELSE 0) + a + b
<1>3. a \in {0, 500, 1500} /\ b \in {0, 500, 1000}
  BY DEF StatusPoints, StockPoints
<1>4. /\ category \/ family
      /\ category => package
      /\ family => package \/ maker
  BY <1>1 DEF Compatible
<1>5. MatchScore(x, y, known) = IF total > 10000 THEN 10000 ELSE total
  BY DEF MatchScore
<1> HIDE DEF category, family, package, maker, a, b
<1>6. total \in Int /\ total >= 3000 /\ (total >= 8000 => a + b > 0)
  BY <1>3, <1>4
<1> HIDE DEF total
<1>7. /\ MatchScore(x, y, known) \in Int
      /\ MatchScore(x, y, known) >= 3000
      /\ MatchScore(x, y, known) >= 8000 => a + b > 0
  BY <1>3, <1>5, <1>6
<1> QED BY <1>1, <1>2, <1>7 DEF Relevant, RecommendedAt, a, b

Points(source, c) == MatchScore(Catalogue[source], Catalogue[c.component], c)

Recommendation(points) == IF RecommendedAt(points) THEN "RECOMMENDED" ELSE "REVIEW"

(* The answer shows the best of what was analysed.                         *)
Answer(shown, n, source, candidates, limit) ==
  /\ Len(shown) = (IF n < limit THEN n ELSE limit)
  /\ shown = [k \in 1..Len(shown) |-> shown[k]]
  /\ \E order \in [1..n -> 1..n] :
       /\ \A i \in 1..n : \E k \in 1..n : order[k] = i
       /\ \A j, k \in 1..n : order[j] = order[k] => j = k
       /\ \A k \in 1..Len(shown) :
            /\ k \in 1..n
            /\ shown[k].component = candidates[order[k]].component
            /\ shown[k].known = candidates[order[k]]
            /\ shown[k].status = Recommendation(Points(source, candidates[order[k]]))
       /\ \A j, k \in 1..n : j < k =>
            Points(source, candidates[order[j]]) >= Points(source, candidates[order[k]])

(* The matcher's own gates discard none of the candidates.                 *)
LEMMA RankedAnswer ==
  ASSUME NEW source \in DOMAIN Catalogue, NEW n \in Nat, NEW candidates,
         candidates = [i \in 1..n |-> candidates[i]],
         \A i \in 1..n : candidates[i].component \in Passed(source),
         NEW limit \in Nat
  PROVE  Answer(FirstOf(RankedAlternatives(source, candidates), limit), n, source, candidates, limit)
<1> DEFINE scoredAt(i) == [ component |-> candidates[i].component, known |-> candidates[i],
                            score |-> Points(source, candidates[i]) ]
           scored == [i \in 1..n |-> scoredAt(i)]
           S == {scoredAt(i) : i \in 1..n}
           key == [i \in 1..n |-> Points(source, candidates[i])]
           order == InOrder(1..n, Earlier(key))
           ranked == ByKey(scored, key)
           show(x) == [ component |-> x.component, score |-> x.score, known |-> x.known,
                        status |-> Recommendation(x.score) ]
           all == [i \in 1..n |-> show(ranked[i])]
<1>1. \A i \in 1..n : /\ Points(source, candidates[i]) \in Int
                      /\ Catalogue[candidates[i].component].name # Catalogue[source].name
                      /\ Compatible(Catalogue[source], Catalogue[candidates[i].component])
                      /\ Relevant(Points(source, candidates[i]))
  BY PassedScores DEF Points
<1>2. DOMAIN candidates = 1..n
  OBVIOUS
<1>3. key \in [1..n -> Int] /\ scored \in [1..n -> S]
  BY <1>1
<1>4. /\ \A i \in 1..n : scored[i].component = candidates[i].component
      /\ \A i \in 1..n : scored[i].known = candidates[i]
      /\ \A i \in 1..n : scored[i].score = Points(source, candidates[i])
      /\ scored = [i \in 1..n |-> scored[i]]
  OBVIOUS
<1>5. RankedAlternatives(source, candidates) = all
  <2> DEFINE list == [i \in DOMAIN candidates |->
                        [ component |-> candidates[i].component, known |-> candidates[i],
                          score |-> MatchScore(Catalogue[source],
                                               Catalogue[candidates[i].component], candidates[i]) ]]
             kept == {i \in DOMAIN list :
                        /\ Catalogue[list[i].component].name # Catalogue[source].name
                        /\ Compatible(Catalogue[source], Catalogue[list[i].component])
                        /\ Relevant(list[i].score)}
             left == AtIndices(list, kept)
             best == ByKey(left, [i \in DOMAIN left |-> left[i].score])
  <2>1. RankedAlternatives(source, candidates) =
          [i \in DOMAIN best |->
             [ component |-> best[i].component, score |-> best[i].score, known |-> best[i].known,
               status |-> IF RecommendedAt(best[i].score) THEN "RECOMMENDED" ELSE "REVIEW" ]]
    BY Zenon DEF RankedAlternatives, Where, Ranked
  <2>2. list = scored
    BY <1>2 DEF Points
  <2>3. kept = 1..n
    <3> HIDE DEF list
    <3>1. kept = {i \in DOMAIN scored :
                    /\ Catalogue[scored[i].component].name # Catalogue[source].name
                    /\ Compatible(Catalogue[source], Catalogue[scored[i].component])
                    /\ Relevant(scored[i].score)}
      BY <2>2
    <3>2. DOMAIN scored = 1..n
      OBVIOUS
    <3> HIDE DEF kept, scored
    <3> QED BY <1>1, <1>4, <3>1, <3>2
  <2> HIDE DEF list, kept
  <2>4. left = scored
    <3> HIDE DEF scored
    <3>1. left = AtIndices(scored, 1..n)
      BY <2>2, <2>3
    <3> QED BY <1>4, <3>1, AllPlaces
  <2> HIDE DEF left
  <2>5. [i \in DOMAIN left |-> left[i].score] = key
    BY <1>4, <2>4
  <2>6. best = ranked
    BY <2>4, <2>5
  <2>7. DOMAIN ranked = 1..n
    <3> HIDE DEF ranked, scored, key, S
    <3>1. SortedBy(ByKey(scored, key), InOrder(1..n, Earlier(key)), n, S, scored, key)
      BY <1>3, ByKeySorts
    <3> QED BY <3>1 DEF SortedBy, ranked
  <2> HIDE DEF best, ranked
  <2> QED BY <2>1, <2>6, <2>7 DEF Recommendation
<1>6. SortedBy(ranked, order, n, S, scored, key)
  <2> HIDE DEF scored, key, S
  <2> QED BY <1>3, ByKeySorts
<1> HIDE DEF ranked, order
<1>7. /\ ranked = [i \in 1..n |-> scored[order[i]]]
      /\ order \in [1..n -> 1..n]
      /\ \A i \in 1..n : \E k \in 1..n : order[k] = i
      /\ \A j, k \in 1..n : order[j] = order[k] => j = k
      /\ \A j, k \in 1..n : j < k =>
           key[order[j]] > key[order[k]]
             \/ (key[order[j]] = key[order[k]] /\ order[j] < order[k])
  BY <1>6 DEF SortedBy
<1> HIDE DEF scored
<1>8. \A k \in 1..n : /\ all[k].component = candidates[order[k]].component
                      /\ all[k].known = candidates[order[k]]
                      /\ all[k].status = Recommendation(Points(source, candidates[order[k]]))
  <2> SUFFICES ASSUME NEW k \in 1..n
               PROVE  /\ all[k].component = candidates[order[k]].component
                      /\ all[k].known = candidates[order[k]]
                      /\ all[k].status = Recommendation(Points(source, candidates[order[k]]))
    OBVIOUS
  <2>1. order[k] \in 1..n /\ ranked[k] = scored[order[k]]
    BY <1>7
  <2>2. all[k] = show(scored[order[k]])
    BY <2>1
  <2> QED BY <1>4, <2>1, <2>2
<1>9. \A j, k \in 1..n : j < k =>
        Points(source, candidates[order[j]]) >= Points(source, candidates[order[k]])
  <2> SUFFICES ASSUME NEW j \in 1..n, NEW k \in 1..n, j < k
               PROVE  Points(source, candidates[order[j]]) >= Points(source, candidates[order[k]])
    OBVIOUS
  <2>1. order[j] \in 1..n /\ order[k] \in 1..n
    BY <1>7
  <2>2. /\ key[order[j]] = Points(source, candidates[order[j]])
        /\ key[order[k]] = Points(source, candidates[order[k]])
    BY <2>1
  <2>3. \/ key[order[j]] > key[order[k]]
        \/ key[order[j]] = key[order[k]] /\ order[j] < order[k]
    BY <1>7
  <2> QED BY <1>1, <2>1, <2>2, <2>3
<1>10. Len(all) = n
  OBVIOUS
<1> HIDE DEF all, key
<1> DEFINE m == IF n < limit THEN n ELSE limit
           shown == FirstOf(all, limit)
<1>11. m \in Nat /\ m <= n
  OBVIOUS
<1>12. shown = [k \in 1..m |-> all[k]]
  BY <1>10 DEF FirstOf
<1> HIDE DEF m
<1>13. /\ Len(shown) = m /\ shown = [k \in 1..m |-> shown[k]]
       /\ \A k \in 1..m : k \in 1..n /\ shown[k] = all[k]
  BY <1>11, <1>12
<1> HIDE DEF shown
<1>14. Answer(shown, n, source, candidates, limit)
  <2>1. /\ Len(shown) = (IF n < limit THEN n ELSE limit)
        /\ shown = [k \in 1..Len(shown) |-> shown[k]]
    BY <1>13 DEF m
  <2>2. \A k \in 1..Len(shown) :
          /\ k \in 1..n
          /\ shown[k].component = candidates[order[k]].component
          /\ shown[k].known = candidates[order[k]]
          /\ shown[k].status = Recommendation(Points(source, candidates[order[k]]))
    BY <1>8, <1>13
  <2> QED BY <1>7, <1>9, <2>1, <2>2, Zenon DEF Answer
<1> QED BY <1>5, <1>14 DEF shown

(* Rows of a source that name the components of an answer in order.        *)
RowsOf(rows, source, m, shown) ==
  /\ Len(rows) = m /\ rows = [i \in 1..m |-> rows[i]]
  /\ \A i \in 1..m : rows[i].source = source /\ rows[i].component = shown[i].component

(* What is recorded is what was answered, in the same order: a name finds  *)
(* the component it was taken from.                                        *)
LEMMA RecordsNamed ==
  ASSUME NEW source, NEW m \in Nat, NEW ranked, ranked = [i \in 1..m |-> ranked[i]],
         \A i \in 1..m : ranked[i].component \in DOMAIN Catalogue
  PROVE  RowsOf(RecordsOf(source, ranked), source, m, ranked)
<1> DEFINE Named(name) == {c \in DOMAIN Catalogue : Catalogue[c].name = name}
           kept == {i \in DOMAIN ranked : Named(Catalogue[ranked[i].component].name) # {}}
           found == AtIndices(ranked, kept)
           row(a) == [ source |-> source, score |-> a.score,
                       component |-> CHOOSE c \in Named(Catalogue[a.component].name) : TRUE ]
           records == [i \in 1..m |-> row(ranked[i])]
<1>1. \A c \in DOMAIN Catalogue : Named(Catalogue[c].name) = {c}
  BY CatalogueAssumption
<1>2. RecordsOf(source, ranked) = [i \in DOMAIN found |-> row(found[i])]
  BY Zenon DEF RecordsOf, Where, ForEach, Row
<1>3. DOMAIN ranked = 1..m
  OBVIOUS
<1>4. kept = 1..m
  <2> HIDE DEF Named
  <2>1. \A i \in 1..m : Named(Catalogue[ranked[i].component].name) # {}
    BY <1>1
  <2> QED BY <1>3, <2>1
<1> HIDE DEF kept
<1>5. found = ranked
  BY <1>4, AllPlaces
<1> HIDE DEF found
<1>6. RecordsOf(source, ranked) = records
  BY <1>2, <1>3, <1>5
<1>7. \A c \in DOMAIN Catalogue : (CHOOSE d \in Named(Catalogue[c].name) : TRUE) = c
  <2> SUFFICES ASSUME NEW c \in DOMAIN Catalogue
               PROVE  (CHOOSE d \in Named(Catalogue[c].name) : TRUE) = c
    OBVIOUS
  <2>1. Named(Catalogue[c].name) = {c}
    BY <1>1
  <2> HIDE DEF Named
  <2>2. (CHOOSE d \in {c} : TRUE) = c
    OBVIOUS
  <2> QED BY <2>1, <2>2
<1> HIDE DEF Named
<1>8. \A i \in 1..m : records[i].source = source /\ records[i].component = ranked[i].component
  <2> SUFFICES ASSUME NEW i \in 1..m
               PROVE  records[i].source = source /\ records[i].component = ranked[i].component
    OBVIOUS
  <2>1. records[i] = row(ranked[i])
    <3> HIDE DEF row
    <3> QED OBVIOUS
  <2> HIDE DEF records
  <2>2. row(ranked[i]).source = source
    OBVIOUS
  <2>3. row(ranked[i]).component = (CHOOSE d \in Named(Catalogue[ranked[i].component].name) : TRUE)
    OBVIOUS
  <2> HIDE DEF row
  <2>4. (CHOOSE d \in Named(Catalogue[ranked[i].component].name) : TRUE) = ranked[i].component
    BY <1>7
  <2> QED BY <2>1, <2>2, <2>3, <2>4
<1>9. Len(records) = m /\ records = [i \in 1..m |-> records[i]]
  <2> HIDE DEF row
  <2> QED OBVIOUS
<1> HIDE DEF records
<1> QED BY <1>6, <1>8, <1>9 DEF RowsOf

(* The history of the source is all that was recorded, the newest first.   *)
LEMMA HistoryOf ==
  ASSUME NEW source, NEW m \in Nat, Len(recorded) = m, recorded = [i \in 1..m |-> recorded[i]],
         \A i \in 1..m : recorded[i].source = source
  PROVE  Reverse(ForEach(AlternativeHistory(source), LAMBDA r : r.component))
           = [i \in 1..m |-> recorded[i].component]
<1> DEFINE kept == {i \in DOMAIN recorded : recorded[i].source = source}
           history == AlternativeHistory(source)
           named == [i \in DOMAIN history |-> history[i].component]
<1>1. DOMAIN recorded = 1..m
  OBVIOUS
<1>2. kept = 1..m
  BY <1>1
<1>3. history = Reverse(AtIndices(recorded, kept))
  BY Zenon DEF AlternativeHistory, Where
<1> HIDE DEF kept, history
<1>4. history = [i \in 1..m |-> recorded[(m - i) + 1]]
  <2>1. AtIndices(recorded, kept) = recorded
    BY <1>2, AllPlaces
  <2> QED BY <1>3, <2>1 DEF Reverse
<1>5. named = [i \in 1..m |-> recorded[(m - i) + 1].component] /\ Len(named) = m
  BY <1>4
<1>6. ForEach(history, LAMBDA r : r.component) = named
  BY Zenon DEF ForEach
<1> HIDE DEF named
<1>7. Reverse(named) = [i \in 1..m |-> recorded[i].component]
  <2>1. \A i \in 1..m : /\ (m - i) + 1 \in 1..m
                       /\ named[(m - i) + 1] = recorded[(m - ((m - i) + 1)) + 1].component
                       /\ (m - ((m - i) + 1)) + 1 = i
    BY <1>5
  <2>2. \A i \in 1..m : named[(m - i) + 1] = recorded[i].component
    BY <2>1
  <2>3. Reverse(named) = [i \in 1..m |-> named[(m - i) + 1]]
    BY <1>5 DEF Reverse
  <2> QED BY <2>2, <2>3
<1> QED BY <1>6, <1>7 DEF history

(* Each candidate is analysed in its turn, and the answer is the ranking.  *)
Analysed(list, found, n) ==
  /\ IsList(list) /\ Len(list) = n
  /\ \A i \in 1..n : list[i].component = found[i]

AlternativesOf(r) ==
  LET found == Candidates(r.source)
      best == FirstOf(RankedAlternatives(r.source, results), r.limit)
  IN /\ phase \in {"calling", "decide"} =>
          /\ at \in 1..Len(found) /\ Analysed(results, found, at - 1)
          /\ Len(work) = Len(found)
          /\ \A i \in 1..Len(found) : work[i].component = found[i]
     /\ phase \in {"finish", "persist", "done"} => Analysed(results, found, Len(found))
     /\ phase \in {"persist", "done"} => outcome = best
     /\ phase \notin {"done", "failed"} => recorded = <<>>
     /\ phase = "persist" => r.persist
     /\ phase = "done" =>
          recorded = IF r.persist THEN RecordsOf(r.source, outcome) ELSE <<>>

AlternativesInv ==
  /\ phase = "idle" => at = 1 /\ results = <<>> /\ recorded = <<>>
  /\ phase # "idle" => request \in Requests
  /\ phase # "idle" /\ request.kind = "alternatives" => AlternativesOf(request)

(* Nothing is asked at the start.                                          *)
LEMMA AlternativesInit == SourcingInit => AlternativesInv
BY DEF SourcingInit, AlternativesInv

(* An empty list is a whole analysis of no candidates.                     *)
LEMMA AnalysedNone == \A found : Analysed(<<>>, found, 0)
BY EmptyList DEF Analysed

(* Every step keeps AlternativesInv.                                       *)
LEMMA AlternativesStep ==
  ASSUME AlternativesInv, [SourcingNext]_sourcingVars
  PROVE  AlternativesInv'
<1>1. ASSUME UNCHANGED <<request, work, at, results, outcome, recorded>>, phase = "calling",
             phase' \in {"calling", "decide"}
      PROVE  AlternativesInv'
  BY <1>1 DEF AlternativesInv, AlternativesOf, Analysed, IsList
<1>2. ASSUME NextProvider, phase = "calling" PROVE phase' \in {"calling", "decide"}
  BY <1>2 DEF NextProvider
<1>3. CASE \E r \in Requests : Begin(r)
  <2>1. PICK r \in Requests : Begin(r)
    BY <1>3
  <2>2. /\ phase = "idle" /\ at = 1 /\ results = <<>> /\ recorded = <<>>
        /\ request' = r /\ at' = at /\ recorded' = recorded
        /\ phase' \in {"calling", "finish"}
    BY <2>1 DEF Begin, AlternativesInv
  <2> DEFINE found == Candidates(r.source)
             asked == [i \in DOMAIN found |-> [component |-> found[i], quantity |-> 1]]
             unknown == [i \in DOMAIN found |-> Unknown(found[i])]
             n == Cardinality(Passed(r.source))
  <2>3. /\ n \in Nat /\ found = [i \in 1..n |-> found[i]] /\ Len(found) = n
    BY CandidatesListed DEF Lists
  <2> HIDE DEF found, n
  <2>4. DOMAIN found = 1..n
    BY <2>3
  <2>5. ASSUME r.kind = "alternatives" PROVE AlternativesOf(r)'
    <3>1. \/ work' = asked /\ phase' = "calling" /\ results' = results /\ found # <<>>
          \/ results' = unknown /\ phase' = "finish"
      BY <2>1, <2>5 DEF Begin, found
    <3>2. CASE work' = asked /\ phase' = "calling" /\ results' = results /\ found # <<>>
      <4>1. Len(asked) = n /\ \A i \in 1..n : asked[i].component = found[i]
        BY <2>3, <2>4
      <4>2. n # 0
        <5> SUFFICES ASSUME n = 0 PROVE FALSE
          OBVIOUS
        <5>1. found = <<>>
          BY <2>3
        <5> QED BY <3>2, <5>1
      <4> HIDE DEF asked
      <4>3. at' \in 1..n /\ Analysed(results', found, at' - 1)
        BY <2>2, <2>3, <3>2, <4>2, AnalysedNone
      <4> QED BY <2>2, <2>3, <3>2, <4>1, <4>3 DEF AlternativesOf, found
    <3>3. CASE results' = unknown /\ phase' = "finish"
      <4>1. /\ unknown = [i \in 1..n |-> unknown[i]] /\ Len(unknown) = n
            /\ \A i \in 1..n : unknown[i].component = found[i]
        BY <2>3, <2>4 DEF Unknown
      <4> HIDE DEF unknown
      <4>2. Analysed(results', found, n)
        BY <2>3, <3>3, <4>1 DEF Analysed, IsList
      <4> QED BY <2>2, <2>3, <3>3, <4>2 DEF AlternativesOf, found
    <3> QED BY <3>1, <3>2, <3>3
  <2> QED BY <2>2, <2>5 DEF AlternativesInv, AlternativesOf
<1>4. CASE UseToken \/ SearchKeyword \/ GetDetails
  BY <1>1, <1>4 DEF UseToken, SearchKeyword, GetDetails, NextLeg
<1>5. CASE AskToken \/ Nothing \/ Answered
  <2>1. /\ phase = "calling"
        /\ NextProvider \/ NextLeg
        /\ UNCHANGED <<request, work, at, results, outcome, recorded>>
    BY <1>5 DEF AskToken, Nothing, Answered
  <2>2. phase' \in {"calling", "decide"}
    BY <1>2, <2>1 DEF NextLeg
  <2> QED BY <1>1, <2>1, <2>2
<1>6. CASE DecideLine \/ FailLine \/ FinishBom \/ FinishComponent \/ FinishLifecycle
  <2>1. /\ phase # "idle" /\ request' = request /\ request.kind # "alternatives"
        /\ phase' # "idle"
    BY <1>6 DEF DecideLine, FailLine, FinishBom, FinishComponent, FinishLifecycle, NextItem
  <2> QED BY <2>1 DEF AlternativesInv
<1>7. CASE EndCandidate
  <2>1. /\ phase = "decide" /\ request.kind = "alternatives" /\ request' = request
        /\ UNCHANGED <<work, outcome, recorded>>
    BY <1>7 DEF EndCandidate, NextItem
  <2>2. PICK result : /\ result.component = Item.component
                      /\ NextItem(result)
    BY <1>7 DEF EndCandidate, Unknown
  <2> DEFINE found == Candidates(request.source)
  <2>3. /\ request \in Requests /\ at \in 1..Len(found) /\ Analysed(results, found, at - 1)
        /\ Len(work) = Len(found) /\ recorded = <<>>
        /\ \A i \in 1..Len(found) : work[i].component = found[i]
    BY <2>1 DEF AlternativesInv, AlternativesOf
  <2>4. Len(found) \in Nat
    BY CandidatesListed DEF Lists
  <2>5. result.component = found[at]
    BY <2>2, <2>3 DEF Item
  <2>6. Analysed(Append(results, result), found, at)
    <3> DEFINE longer == Append(results, result)
    <3>1. IsList(results) /\ Len(results) = at - 1
      BY <2>3 DEF Analysed
    <3>2. /\ IsList(longer) /\ Len(longer) = Len(results) + 1
          /\ longer[Len(longer)] = result
      BY <3>1, AppendList
    <3>3. \A i \in 1..(at - 1) : longer[i] = results[i]
      <4> DEFINE S == {results[i] : i \in 1..Len(results)} \cup {result}
      <4>1. results \in Seq(S) /\ result \in S
        BY <3>1 DEF IsList
      <4> HIDE DEF S
      <4> QED BY <3>1, <4>1
    <3> HIDE DEF longer
    <3>4. Len(longer) = at
      BY <2>3, <2>4, <3>1, <3>2
    <3>5. \A i \in 1..at : longer[i].component = found[i]
      <4> SUFFICES ASSUME NEW i \in 1..at PROVE longer[i].component = found[i]
        OBVIOUS
      <4>1. CASE i = at
        BY <2>5, <3>2, <3>4, <4>1
      <4>2. CASE i # at
        <5>1. i \in 1..(at - 1)
          BY <2>3, <2>4, <4>2
        <5> QED BY <2>3, <3>3, <5>1 DEF Analysed
      <4> QED BY <4>1, <4>2
    <3>6. Analysed(longer, found, at)
      BY <3>2, <3>4, <3>5 DEF Analysed
    <3> QED BY <3>6 DEF longer
  <2> HIDE DEF found
  <2>7. results' = Append(results, result)
    BY <2>2 DEF NextItem
  <2>8. CASE at < Len(work)
    <3>1. at' = at + 1 /\ phase' = "calling"
      BY <2>2, <2>8 DEF NextItem
    <3>2. at' \in 1..Len(found) /\ at' - 1 = at
      BY <2>3, <2>4, <2>8, <3>1
    <3>3. Analysed(results', found, at' - 1)
      BY <2>6, <2>7, <3>2
    <3> QED BY <2>1, <2>3, <3>1, <3>2, <3>3 DEF AlternativesInv, AlternativesOf, found
  <2>9. CASE ~(at < Len(work))
    <3>1. phase' = "finish" /\ at = Len(found)
      <4>1. phase' = "finish"
        BY <2>2, <2>9 DEF NextItem
      <4> QED BY <2>3, <2>4, <2>9, <4>1
    <3>2. Analysed(results', found, Len(found))
      BY <2>6, <2>7, <3>1
    <3> QED BY <2>1, <2>3, <3>1, <3>2 DEF AlternativesInv, AlternativesOf, found
  <2> QED BY <2>8, <2>9
<1>8. CASE FinishAlternatives
  <2>1. /\ phase = "finish" /\ request.kind = "alternatives"
        /\ outcome' = FirstOf(RankedAlternatives(request.source, results), request.limit)
        /\ phase' = IF request.persist THEN "persist" ELSE "done"
        /\ UNCHANGED <<request, work, at, results, recorded>>
    BY <1>8 DEF FinishAlternatives
  <2>2. request \in Requests /\ AlternativesOf(request)
    BY <2>1 DEF AlternativesInv
  <2>3. AlternativesOf(request)'
    BY <2>1, <2>2 DEF AlternativesOf, Analysed, IsList
  <2> QED BY <2>1, <2>2, <2>3 DEF AlternativesInv
<1>9. CASE PersistAlternatives
  <2>1. /\ phase = "persist" /\ UNCHANGED <<request, work, at, results>>
        /\ \/ phase' = "done" /\ recorded' = RecordsOf(request.source, outcome) /\ outcome' = outcome
           \/ phase' = "failed"
    BY <1>9 DEF PersistAlternatives
  <2>2. request \in Requests
    BY <2>1 DEF AlternativesInv
  <2>3. request.kind = "alternatives" => AlternativesOf(request)'
    BY <2>1 DEF AlternativesInv, AlternativesOf, Analysed, IsList
  <2> QED BY <2>1, <2>2, <2>3 DEF AlternativesInv
<1>10. CASE UNCHANGED sourcingVars
  BY <1>10 DEF sourcingVars, AlternativesInv, AlternativesOf, Analysed, IsList
<1> QED BY <1>3, <1>4, <1>5, <1>6, <1>7, <1>8, <1>9, <1>10 DEF SourcingNext

(* An answer lists candidates that passed, each once and with what was     *)
(* found out of it, and leaves out no candidate for a lesser one.          *)
LEMMA AnswerCovers ==
  ASSUME NEW source \in DOMAIN Catalogue, NEW limit \in Nat, NEW n \in Nat,
         n = Cardinality(Passed(source)), NEW list, Analysed(list, Candidates(source), n),
         NEW shown, Answer(shown, n, source, list, limit)
  PROVE  /\ \A k \in 1..Len(shown) : \E i \in 1..n :
              /\ shown[k].component = list[i].component
              /\ shown[k].known = list[i]
              /\ shown[k].status = Recommendation(Points(source, list[i]))
         /\ \A j, k \in 1..Len(shown) : shown[j].component = shown[k].component => j = k
         /\ \A i \in 1..n, k \in 1..Len(shown) :
              \/ \E j \in 1..Len(shown) : shown[j].component = list[i].component
              \/ Points(source, list[i]) <= Points(source, shown[k].known)
<1> DEFINE found == Candidates(source)
<1>1. /\ \A i \in 1..n : found[i] \in Passed(source)
      /\ \A i, j \in 1..n : found[i] = found[j] => i = j
  BY CandidatesListed DEF Lists
<1>2. \A i \in 1..n : list[i].component = found[i]
  BY DEF Analysed
<1> HIDE DEF found
<1>3. PICK order \in [1..n -> 1..n] :
        /\ \A i \in 1..n : \E k \in 1..n : order[k] = i
        /\ \A j, k \in 1..n : order[j] = order[k] => j = k
        /\ \A k \in 1..Len(shown) :
             /\ k \in 1..n
             /\ shown[k].component = list[order[k]].component
             /\ shown[k].known = list[order[k]]
             /\ shown[k].status = Recommendation(Points(source, list[order[k]]))
        /\ \A j, k \in 1..n : j < k =>
             Points(source, list[order[j]]) >= Points(source, list[order[k]])
  BY Zenon DEF Answer
<1>4. Len(shown) \in Nat /\ \A k \in 1..n : k <= Len(shown) => k \in 1..Len(shown)
  BY DEF Answer
<1>5. \A j, k \in 1..Len(shown) : shown[j].component = shown[k].component => j = k
  <2> SUFFICES ASSUME NEW j \in 1..Len(shown), NEW k \in 1..Len(shown),
                      shown[j].component = shown[k].component
               PROVE  j = k
    OBVIOUS
  <2>1. found[order[j]] = found[order[k]] /\ order[j] \in 1..n /\ order[k] \in 1..n
    BY <1>2, <1>3
  <2>2. order[j] = order[k]
    BY <1>1, <2>1
  <2> QED BY <1>3, <2>2
<1>6. \A i \in 1..n : Points(source, list[i]) \in Int
  <2> SUFFICES ASSUME NEW i \in 1..n PROVE Points(source, list[i]) \in Int
    OBVIOUS
  <2>1. list[i].component \in Passed(source)
    BY <1>1, <1>2
  <2> QED BY <2>1, PassedScores DEF Points
<1>7. ASSUME NEW i \in 1..n, NEW k \in 1..Len(shown)
      PROVE  \/ \E j \in 1..Len(shown) : shown[j].component = list[i].component
             \/ Points(source, list[i]) <= Points(source, shown[k].known)
  <2>1. PICK j \in 1..n : order[j] = i
    BY <1>3
  <2>2. CASE j <= Len(shown)
    BY <1>3, <1>4, <2>1, <2>2
  <2>3. CASE ~(j <= Len(shown))
    <3>1. k \in 1..n /\ k < j /\ order[k] \in 1..n
      <4>1. k \in 1..n
        BY <1>3
      <4>2. k < j
        BY <1>4, <2>3
      <4> QED BY <1>3, <4>1, <4>2
    <3>2. Points(source, list[order[k]]) >= Points(source, list[order[j]])
      BY <1>3, <3>1
    <3>3. shown[k].known = list[order[k]]
      BY <1>3
    <3> QED BY <1>6, <2>1, <3>1, <3>2, <3>3
  <2> QED BY <2>2, <2>3
<1>8. \A k \in 1..Len(shown) : order[k] \in 1..n
  BY <1>3
<1>9. ASSUME NEW k \in 1..Len(shown)
      PROVE  \E i \in 1..n : /\ shown[k].component = list[i].component
                             /\ shown[k].known = list[i]
                             /\ shown[k].status = Recommendation(Points(source, list[i]))
  BY <1>3, <1>8
<1> QED BY <1>5, <1>7, <1>9

(* What is known of a component is what was found out of it last.          *)
LEMMA KnownOf ==
  ASSUME NEW source, NEW n \in Nat, n = Cardinality(Passed(source)), NEW list,
         Analysed(list, Candidates(source), n), NEW i \in 1..n
  PROVE  /\ (CHOOSE k \in Range(list) : k.component = list[i].component) = list[i]
         /\ list[i].component \in Passed(source)
<1> DEFINE found == Candidates(source)
<1>1. /\ \A j \in 1..n : found[j] \in Passed(source)
      /\ \A j, k \in 1..n : found[j] = found[k] => j = k
  BY CandidatesListed DEF Lists
<1> HIDE DEF found
<1>2. /\ DOMAIN list = 1..n
      /\ \A j \in 1..n : list[j].component = found[j]
  BY DEF Analysed, IsList, found
<1>3. list[i] \in Range(list) /\ list[i].component \in Passed(source)
  BY <1>1, <1>2 DEF Range
<1>4. \A k \in Range(list) : k.component = list[i].component => k = list[i]
  BY <1>1, <1>2 DEF Range
<1> DEFINE chosen == CHOOSE k \in Range(list) : k.component = list[i].component
<1>5. chosen \in Range(list) /\ chosen.component = list[i].component
  BY <1>3
<1>6. chosen = list[i]
  <2> HIDE DEF chosen
  <2> QED BY <1>4, <1>5
<1> QED BY <1>3, <1>6

(* The answer is what AlternativesComplete asks of it.                     *)
LEMMA AnswerIsComplete == AlternativesInv => AlternativesComplete
<1> SUFFICES ASSUME AlternativesInv, phase = "done", request.kind = "alternatives"
             PROVE  AlternativesComplete
  BY DEF AlternativesComplete
<1> DEFINE source == request.source
           n == Cardinality(Passed(source))
           m == Len(outcome)
           listed == {a.component : a \in Range(outcome)}
           scoreOf(c) == LET known == CHOOSE k \in Range(results) : k.component = c
                         IN MatchScore(Row(source), Row(c), known)
<1>1. request \in Requests /\ source \in DOMAIN Catalogue /\ request.limit \in Nat \ {0}
  BY RequestsAssumption DEF AlternativesInv
<1>2. /\ Analysed(results, Candidates(source), Len(Candidates(source)))
      /\ outcome = FirstOf(RankedAlternatives(source, results), request.limit)
      /\ recorded = IF request.persist THEN RecordsOf(source, outcome) ELSE <<>>
  BY DEF AlternativesInv, AlternativesOf
<1>3. /\ n \in Nat /\ Len(Candidates(source)) = n /\ IsFiniteSet(Passed(source))
      /\ \A x \in Passed(source) : \E i \in 1..n : Candidates(source)[i] = x
  BY CandidatesListed DEF Lists
<1> HIDE DEF n, source
<1>4. Analysed(results, Candidates(source), n)
  BY <1>2, <1>3
<1>5. /\ \A i \in 1..n : results[i].component \in Passed(source)
      /\ \A i \in 1..n : (CHOOSE k \in Range(results) : k.component = results[i].component)
                           = results[i]
  BY <1>3, <1>4, KnownOf DEF n
<1>6. results = [i \in 1..n |-> results[i]]
  BY <1>4 DEF Analysed, IsList
<1>7. Answer(outcome, n, source, results, request.limit)
  BY <1>1, <1>2, <1>3, <1>5, <1>6, RankedAnswer
<1>8. m = (IF n < request.limit THEN n ELSE request.limit) /\ outcome = [k \in 1..m |-> outcome[k]]
  BY <1>7 DEF Answer
<1>9. m \in Nat /\ DOMAIN outcome = 1..m /\ listed = {outcome[k].component : k \in 1..m}
  <2> HIDE DEF m
  <2>1. m \in Nat /\ DOMAIN outcome = 1..m
    BY <1>1, <1>3, <1>8
  <2> QED BY <2>1 DEF Range
<1>10. /\ \A k \in 1..m : \E i \in 1..n :
            /\ outcome[k].component = results[i].component
            /\ outcome[k].known = results[i]
            /\ outcome[k].status = Recommendation(Points(source, results[i]))
       /\ \A j, k \in 1..m : outcome[j].component = outcome[k].component => j = k
       /\ \A i \in 1..n, k \in 1..m :
            \/ \E j \in 1..m : outcome[j].component = results[i].component
            \/ Points(source, results[i]) <= Points(source, outcome[k].known)
  BY <1>1, <1>3, <1>4, <1>7, AnswerCovers DEF n
<1> HIDE DEF m, listed
<1>11. \A i \in 1..n : scoreOf(results[i].component) = Points(source, results[i])
  BY <1>5 DEF Points, Row
<1> HIDE DEF scoreOf
<1>12. listed \subseteq Passed(source)
  BY <1>5, <1>9, <1>10
<1>13. Cardinality(listed) = Min({request.limit, Cardinality(Passed(source))})
  <2> DEFINE f == [k \in 1..m |-> outcome[k].component]
  <2>1. /\ f \in [1..m -> listed]
        /\ \A x \in listed : \E k \in 1..m : f[k] = x
        /\ \A j, k \in 1..m : f[j] = f[k] => j = k
    BY <1>9, <1>10
  <2> HIDE DEF f
  <2>2. Cardinality(listed) = m
    BY <1>9, <2>1, ListedOnce
  <2> DEFINE S == {request.limit, n}
  <2>3. m \in S /\ \A y \in S : m <= y
    BY <1>1, <1>3, <1>8
  <2>4. Min(S) = m
    <3>1. \A x \in S : (\A y \in S : x =< y) => x = m
      BY <1>1, <1>3, <2>3
    <3> HIDE DEF S
    <3> QED BY <2>3, <3>1 DEF Min
  <2> QED BY <2>2, <2>4 DEF n
<1>14. \A c \in Passed(source) \ listed, d \in listed : scoreOf(c) <= scoreOf(d)
  <2> SUFFICES ASSUME NEW c \in Passed(source) \ listed, NEW d \in listed
               PROVE  scoreOf(c) <= scoreOf(d)
    OBVIOUS
  <2>1. PICK i \in 1..n : results[i].component = c
    BY <1>3, <1>4 DEF Analysed
  <2>2. PICK k \in 1..m : outcome[k].component = d
    BY <1>9
  <2>3. PICK j \in 1..n : outcome[k].component = results[j].component /\ outcome[k].known = results[j]
    BY <1>10
  <2>4. ~ \E h \in 1..m : outcome[h].component = results[i].component
    BY <1>9, <2>1
  <2>5. Points(source, results[i]) <= Points(source, outcome[k].known)
    BY <1>10, <2>4
  <2>6. scoreOf(c) = Points(source, results[i]) /\ scoreOf(d) = Points(source, results[j])
    BY <1>11, <2>1, <2>2, <2>3
  <2> QED BY <2>3, <2>5, <2>6
<1>15. \A a \in Range(outcome) :
         a.status = "RECOMMENDED" => StatusPoints(a.known.status) + StockPoints(a.known.stock) > 0
  <2> SUFFICES ASSUME NEW k \in 1..m, outcome[k].status = "RECOMMENDED"
               PROVE  StatusPoints(outcome[k].known.status)
                        + StockPoints(outcome[k].known.stock) > 0
    BY <1>9 DEF Range
  <2>1. PICK i \in 1..n : /\ outcome[k].known = results[i]
                          /\ outcome[k].status = Recommendation(Points(source, results[i]))
    BY <1>10
  <2>2. RecommendedAt(Points(source, results[i]))
    BY <2>1 DEF Recommendation
  <2> QED BY <1>1, <1>5, <2>1, <2>2, PassedScores DEF Points
<1>16. Reverse(ForEach(AlternativeHistory(source), LAMBDA r : r.component))
         = IF request.persist THEN ForEach(outcome, LAMBDA a : a.component) ELSE <<>>
  <2>1. CASE request.persist
    <3> DEFINE records == RecordsOf(source, outcome)
    <3>1. \A k \in 1..m : outcome[k].component \in DOMAIN Catalogue
      <4> SUFFICES ASSUME NEW k \in 1..m PROVE outcome[k].component \in DOMAIN Catalogue
        OBVIOUS
      <4>1. outcome[k].component \in Passed(source)
        BY <1>5, <1>10
      <4> QED BY <4>1 DEF Passed, Discovered
    <3>2. /\ Len(records) = m /\ records = [i \in 1..m |-> records[i]]
          /\ \A i \in 1..m : /\ records[i].source = source
                             /\ records[i].component = outcome[i].component
      <4>1. RowsOf(RecordsOf(source, outcome), source, m, outcome)
        BY <1>8, <1>9, <3>1, RecordsNamed
      <4> QED BY <4>1 DEF RowsOf
    <3>3. recorded = records
      BY <1>2, <2>1
    <3> HIDE DEF records
    <3>4. Reverse(ForEach(AlternativeHistory(source), LAMBDA r : r.component))
            = [i \in 1..m |-> recorded[i].component]
      BY <1>9, <3>2, <3>3, HistoryOf
    <3>5. ForEach(outcome, LAMBDA a : a.component) = [i \in DOMAIN outcome |-> outcome[i].component]
      BY Zenon DEF ForEach
    <3>6. [i \in 1..m |-> recorded[i].component] = [i \in 1..m |-> outcome[i].component]
      BY <3>2, <3>3
    <3> QED BY <1>9, <2>1, <3>4, <3>5, <3>6
  <2>2. CASE ~request.persist
    <3>1. recorded = <<>>
      BY <1>2, <2>2
    <3> DEFINE none == 0
    <3>2. /\ none \in Nat /\ Len(recorded) = none
          /\ recorded = [i \in 1..none |-> recorded[i]]
          /\ \A i \in 1..none : recorded[i].source = source
      BY <3>1
    <3>3. [i \in 1..none |-> recorded[i].component] = <<>>
      OBVIOUS
    <3> HIDE DEF none
    <3>4. Reverse(ForEach(AlternativeHistory(source), LAMBDA r : r.component))
            = [i \in 1..none |-> recorded[i].component]
      BY <3>2, HistoryOf
    <3> QED BY <2>2, <3>3, <3>4
  <2> QED BY <2>1, <2>2
<1> QED
  BY <1>12, <1>13, <1>14, <1>15, <1>16, Zenon
  DEF AlternativesComplete, Passed, source, listed, scoreOf

(* Whatever the distributors answer, when the alternatives of a component  *)
(* have been answered: every one of them passed the gates, as many are     *)
(* shown as asked for or as passed, none that was left out scores higher,  *)
(* none is recommended by the catalogue alone, and the history, if it was  *)
(* asked for, names them in order.                                         *)
THEOREM AlternativesAreComplete == SourcingSpec => []AlternativesComplete
<1>1. SourcingInit => AlternativesInv
  BY AlternativesInit
<1>2. AlternativesInv /\ [SourcingNext]_sourcingVars => AlternativesInv'
  BY AlternativesStep
<1>3. AlternativesInv => AlternativesComplete
  BY AnswerIsComplete
<1> QED BY <1>1, <1>2, <1>3, PTL DEF SourcingSpec

-----------------------------------------------------------------------------
(* What the quotes of the distributors are.                                *)

(* A break that starts somewhere and has a price, or lacks them.           *)
AreBreaks(breaks) == IsList(breaks) /\ \A i \in 1..Len(breaks) : IsBreak(breaks[i])

(* The numbers of a quote are numbers, and its price is the effective one. *)
IsQuote(q, quantity) ==
  /\ q.price \in Numbers /\ q.stock \in Numbers
  /\ q.moq \in Numbers /\ q.multiple \in Numbers /\ q.lead \in Numbers
  /\ EffectivePrice(q, quantity) = Priced(q.price, q.currency)

(* A finite set of integers has a smallest and a largest one.              *)
LEMMA MinAndMax ==
  ASSUME NEW S \in SUBSET Int, IsFiniteSet(S), S # {}
  PROVE  Min(S) \in S /\ Max(S) \in S
<1> DEFINE list == InOrder(S, Ascending)
           N == Cardinality(S)
<1>1. StrictOrder(S, Ascending)
  BY AscendingStrict
<1>2. /\ N \in Nat /\ DOMAIN list = 1..N /\ list \in [1..N -> S]
      /\ \A x \in S : \E n \in DOMAIN list : list[n] = x
      /\ \A m, n \in DOMAIN list : m < n <=> <<list[m], list[n]>> \in Ascending
  BY <1>1, InOrderLists
<1> HIDE DEF list, N
<1>3. \A m, n \in 1..N : m < n <=> list[m] < list[n]
  BY <1>2, AscendingPair
<1>4. 1 \in 1..N /\ N \in 1..N
  <2>1. PICK x \in S, n \in 1..N : list[n] = x
    BY <1>2
  <2> QED BY <1>2, <2>1
<1>5. \A y \in S : list[1] =< y /\ y =< list[N]
  <2> SUFFICES ASSUME NEW y \in S PROVE list[1] =< y /\ y =< list[N]
    OBVIOUS
  <2>1. PICK n \in 1..N : list[n] = y
    BY <1>2
  <2>2. list[1] \in Int /\ list[N] \in Int /\ y \in Int
    BY <1>2, <1>4
  <2>3. n = 1 \/ 1 < n
    OBVIOUS
  <2>4. n = N \/ n < N
    BY <1>2
  <2> QED BY <1>3, <1>4, <2>1, <2>2, <2>3, <2>4
<1>6. list[1] \in S /\ list[N] \in S
  BY <1>2, <1>4
<1>7. (CHOOSE x \in S : \A y \in S : x =< y) \in S
  BY <1>5, <1>6
<1>8. (CHOOSE x \in S : \A y \in S : x >= y) \in S
  <2>1. \A y \in S : list[N] >= y
    BY <1>5, <1>6
  <2> QED BY <1>6, <2>1
<1> QED BY <1>7, <1>8 DEF Min, Max

(* A provider takes one of the parts that are listed, or none.             *)
LEMMA MatchIsListed ==
  ASSUME NEW parts, IsList(parts), NEW name, NEW maker
  PROVE  \/ FirstMatch(parts, name, maker) = <<>>
         \/ \E part \in Range(parts) : FirstMatch(parts, name, maker) = <<part>>
<1> DEFINE matching == {i \in DOMAIN parts :
                          parts[i].name = name /\ MakersMatch(parts[i].maker, maker)}
<1>1. DOMAIN parts = 1..Len(parts) /\ Len(parts) \in Nat
  BY DEF IsList
<1>2. matching \in SUBSET (1..Len(parts)) /\ matching \in SUBSET Int
  BY <1>1
<1>3. FirstMatch(parts, name, maker) = IF matching = {} THEN <<>> ELSE <<parts[Min(matching)]>>
  BY DEF FirstMatch
<1> HIDE DEF matching
<1>4. IsFiniteSet(matching)
  BY <1>1, <1>2, IndicesFinite
<1>5. CASE matching # {}
  <2>1. Min(matching) \in 1..Len(parts)
    BY <1>2, <1>4, <1>5, MinAndMax
  <2>2. parts[Min(matching)] \in Range(parts)
    BY <1>1, <2>1 DEF Range
  <2> QED BY <1>3, <1>5, <2>2
<1> QED BY <1>3, <1>5

(* A break for a quantity is one of the breaks.                            *)
LEMMA BreakIsListed ==
  ASSUME NEW breaks, AreBreaks(breaks), NEW quantity, BreakFor(breaks, quantity) # <<>>
  PROVE  IsBreak(BreakFor(breaks, quantity)[1])
<1> DEFINE first == {i \in DOMAIN breaks :
                       breaks[i].from <= quantity /\ (Given(breaks[i].to) => quantity <= breaks[i].to)}
           applicable == AtIndices(breaks, first)
           second == {i \in DOMAIN applicable :
                        \A x \in Range(applicable) : x.from <= applicable[i].from}
           chosen == AtIndices(applicable, second)
<1>1. BreakFor(breaks, quantity) = chosen
  BY Zenon DEF BreakFor, Where
<1>2. IsList(breaks) /\ DOMAIN breaks = 1..Len(breaks)
  BY ListRange DEF AreBreaks
<1>3. first \in SUBSET (1..Len(breaks))
  BY <1>2
<1> HIDE DEF first
<1>4. IsList(applicable) /\ Range(applicable) = {breaks[i] : i \in first}
  BY <1>2, <1>3, KeptElements
<1> HIDE DEF applicable
<1>5. DOMAIN applicable = 1..Len(applicable)
      /\ Range(applicable) = {applicable[i] : i \in 1..Len(applicable)}
  BY <1>4, ListRange
<1>6. second \in SUBSET (1..Len(applicable))
  BY <1>5
<1> HIDE DEF second
<1>7. IsList(chosen) /\ Range(chosen) = {applicable[i] : i \in second}
  BY <1>4, <1>6, KeptElements
<1> HIDE DEF chosen
<1>8. chosen # <<>>
  BY <1>1
<1>9. /\ Len(chosen) >= 1 /\ Range(chosen) = {chosen[i] : i \in 1..Len(chosen)}
  BY <1>7, <1>8, ListRange
<1>10. Len(chosen) \in Nat
  BY <1>7 DEF IsList
<1>11. chosen[1] \in Range(chosen)
  BY <1>9, <1>10
<1>12. PICK i \in second : chosen[1] = applicable[i]
  BY <1>7, <1>11
<1>13. PICK j \in first : chosen[1] = breaks[j]
  BY <1>4, <1>5, <1>6, <1>12
<1>14. IsBreak(breaks[j])
  BY <1>3 DEF AreBreaks
<1> QED BY <1>1, <1>13, <1>14

(* So the price that is quoted is a number, and the one the calculator     *)
(* finds again in the quote.                                               *)
LEMMA QuoteIsQuote ==
  ASSUME NEW breaks, AreBreaks(breaks), NEW otherwise, otherwise.price \in Numbers,
         otherwise = Priced(otherwise.price, otherwise.currency),
         NEW stock \in Numbers, NEW provider, NEW part, NEW quantity,
         NEW moq \in Numbers, NEW multiple \in Numbers, NEW lead \in Numbers
  PROVE  LET q == QuoteOf(provider, part, QuotedPrice(breaks, quantity, otherwise), breaks, stock,
                          [moq |-> moq, multiple |-> multiple, lead |-> lead])
         IN IsQuote(q, quantity) /\ q.supplier = provider
<1> DEFINE priced == QuotedPrice(breaks, quantity, otherwise)
           terms == [moq |-> moq, multiple |-> multiple, lead |-> lead]
           q == QuoteOf(provider, part, priced, breaks, stock, terms)
           chosen == BreakFor(breaks, quantity)
<1>1. \A b : IsBreak(b) => b.price \in Numbers
  BY DEF IsBreak
<1>2. breaks # <<>> => breaks[1].price \in Numbers
  <2>1. IsList(breaks)
    BY DEF AreBreaks
  <2>2. breaks # <<>> => 1 \in 1..Len(breaks)
    BY <2>1, ListRange DEF IsList
  <2> QED BY <1>1, <2>2 DEF AreBreaks
<1>3. chosen # <<>> => chosen[1].price \in Numbers
  BY <1>1, BreakIsListed
<1>4. /\ priced = IF chosen # <<>> THEN Priced(chosen[1].price, chosen[1].currency)
                  ELSE IF breaks # <<>> THEN Priced(breaks[1].price, breaks[1].currency)
                  ELSE otherwise
  BY DEF QuotedPrice
<1> HIDE DEF chosen
<1>5. priced.price \in Numbers /\ priced = Priced(priced.price, priced.currency)
  BY <1>2, <1>3, <1>4 DEF Priced
<1>6. chosen # <<>> => priced = Priced(chosen[1].price, chosen[1].currency)
  BY <1>4
<1> HIDE DEF priced
<1>7. /\ q.supplier = provider /\ q.price = priced.price /\ q.currency = priced.currency
      /\ q.stock = stock /\ q.moq = moq /\ q.multiple = multiple /\ q.lead = lead
      /\ q.breaks = breaks
  BY DEF QuoteOf
<1> HIDE DEF q
<1>8. EffectivePrice(q, quantity) = Priced(q.price, q.currency)
  BY <1>5, <1>6, <1>7 DEF EffectivePrice, chosen
<1>9. IsQuote(q, quantity)
  BY <1>5, <1>7, <1>8 DEF IsQuote
<1> QED BY <1>7, <1>9 DEF q, priced

(* A number that must not be negative is still one, or not reported.       *)
LEMMA NumberIsNumber == \A v \in Numbers : Number(v) \in Numbers /\ Unreported \in Numbers
BY DEF Number, Numbers

(* The providers change breaks in one of these ways.                       *)
LEMMA ChangedBreak ==
  ASSUME NEW b, IsBreak(b)
  PROVE  /\ IsBreak([b EXCEPT !.from = Number(@)])
         /\ IsBreak([b EXCEPT !.to = Unreported])
         /\ IsBreak([b EXCEPT !.price = Number(@)])
         /\ IsBreak([b EXCEPT !.from = Number(@), !.to = Number(@), !.price = Number(@)])
<1>1. PICK f, t, p, c :
        /\ f \in Numbers /\ t \in Numbers /\ p \in Numbers
        /\ b = [from |-> f, to |-> t, price |-> p, currency |-> c]
  BY DEF IsBreak
<1>2. \A x \in Numbers, y \in Numbers, z \in Numbers : \A w :
        IsBreak([from |-> x, to |-> y, price |-> z, currency |-> w])
  BY DEF IsBreak
<1>3. /\ f \in Numbers /\ t \in Numbers /\ p \in Numbers /\ Unreported \in Numbers
      /\ Number(f) \in Numbers /\ Number(t) \in Numbers /\ Number(p) \in Numbers
  BY <1>1, NumberIsNumber
<1>4. [b EXCEPT !.from = Number(@)] = [from |-> Number(f), to |-> t, price |-> p, currency |-> c]
  BY <1>1
<1>5. [b EXCEPT !.to = Unreported] = [from |-> f, to |-> Unreported, price |-> p, currency |-> c]
  BY <1>1
<1>6. [b EXCEPT !.price = Number(@)] = [from |-> f, to |-> t, price |-> Number(p), currency |-> c]
  BY <1>1
<1>7. [b EXCEPT !.from = Number(@), !.to = Number(@), !.price = Number(@)]
        = [from |-> Number(f), to |-> Number(t), price |-> Number(p), currency |-> c]
  <2> DEFINE g == [b EXCEPT !.from = Number(@), !.to = Number(@), !.price = Number(@)]
             h == [from |-> Number(f), to |-> Number(t), price |-> Number(p), currency |-> c]
             names == {"from", "to", "price", "currency"}
  <2>1. DOMAIN b = names /\ b.from = f /\ b.to = t /\ b.price = p /\ b.currency = c
    BY <1>1
  <2>2. g = [x \in DOMAIN b |-> g[x]] /\ DOMAIN g = DOMAIN b
    OBVIOUS
  <2>3. g.from = Number(f) /\ g.to = Number(t) /\ g.price = Number(p) /\ g.currency = c
    BY <2>1
  <2>4. h = [x \in names |-> h[x]]
    OBVIOUS
  <2>5. h.from = Number(f) /\ h.to = Number(t) /\ h.price = Number(p) /\ h.currency = c
    OBVIOUS
  <2> HIDE DEF g, h
  <2>6. \A x \in names : g[x] = h[x]
    BY <2>3, <2>5
  <2>7. g = h
    BY <2>1, <2>2, <2>4, <2>6
  <2> QED BY <2>7 DEF g, h
<1> QED BY <1>2, <1>3, <1>4, <1>5, <1>6, <1>7

(* Breaks that are changed one by one are breaks.                          *)
LEMMA ChangedBreaks ==
  ASSUME NEW l, IsList(l), NEW m, m = [i \in DOMAIN l |-> m[i]],
         \A i \in 1..Len(l) : IsBreak(m[i])
  PROVE  AreBreaks(m)
<1>1. Len(l) \in Nat /\ DOMAIN l = 1..Len(l)
  BY ListRange DEF IsList
<1>2. Len(m) = Len(l)
  BY <1>1
<1>3. IsList(m)
  BY <1>1, <1>2 DEF IsList
<1> QED BY <1>2, <1>3 DEF AreBreaks

(* So are the complete ones of them.                                       *)
LEMMA CompleteBreaks == ASSUME NEW l, AreBreaks(l) PROVE AreBreaks(Complete(l))
<1> DEFINE kept == {i \in DOMAIN l : Given(l[i].from) /\ Given(l[i].price) /\ Given(l[i].currency)}
           some == AtIndices(l, kept)
<1>1. Complete(l) = some
  BY Zenon DEF Complete, Where
<1>2. IsList(l) /\ DOMAIN l = 1..Len(l)
  BY ListRange DEF AreBreaks
<1>3. kept \in SUBSET (1..Len(l))
  BY <1>2
<1> HIDE DEF kept
<1>4. IsList(some) /\ Range(some) = {l[i] : i \in kept}
  BY <1>2, <1>3, KeptElements
<1> HIDE DEF some
<1>5. Range(some) = {some[i] : i \in 1..Len(some)}
  BY <1>4, ListRange
<1>6. \A i \in 1..Len(some) : \E j \in kept : some[i] = l[j]
  BY <1>4, <1>5
<1>7. \A i \in 1..Len(some) : IsBreak(some[i])
  BY <1>3, <1>6 DEF AreBreaks
<1> QED BY <1>1, <1>4, <1>7 DEF AreBreaks

(* What each provider makes of the breaks of a part.                       *)
LEMMA ProviderBreaks ==
  ASSUME NEW part, IsPart(part)
  PROVE  AreBreaks(MouserBreaks(part)) /\ AreBreaks(ArrowBreaks(part)) /\ AreBreaks(DigiKeyBreaks(part))
<1> DEFINE l == part.breaks
           from == [i \in DOMAIN l |-> [l[i] EXCEPT !.from = Number(@)]]
           price == [i \in DOMAIN l |-> [l[i] EXCEPT !.price = Number(@)]]
           all == [i \in DOMAIN l |->
                     [l[i] EXCEPT !.from = Number(@), !.to = Number(@), !.price = Number(@)]]
           open(m) == [i \in DOMAIN m |-> [m[i] EXCEPT !.to = Unreported]]
<1>1. IsList(l) /\ DOMAIN l = 1..Len(l) /\ \A i \in 1..Len(l) : IsBreak(l[i])
  BY ListRange DEF IsPart
<1> HIDE DEF l
<1>2. AreBreaks(from)
  <2>1. from = [i \in DOMAIN l |-> from[i]] /\ \A i \in 1..Len(l) : IsBreak(from[i])
    BY <1>1, ChangedBreak
  <2> HIDE DEF from
  <2> QED BY <1>1, <2>1, ChangedBreaks
<1>3. AreBreaks(price)
  <2>1. price = [i \in DOMAIN l |-> price[i]] /\ \A i \in 1..Len(l) : IsBreak(price[i])
    BY <1>1, ChangedBreak
  <2> HIDE DEF price
  <2> QED BY <1>1, <2>1, ChangedBreaks
<1>4. AreBreaks(all)
  <2>1. all = [i \in DOMAIN l |-> all[i]] /\ \A i \in 1..Len(l) : IsBreak(all[i])
    BY <1>1, ChangedBreak
  <2> HIDE DEF all
  <2> QED BY <1>1, <2>1, ChangedBreaks
<1>5. ASSUME NEW m, AreBreaks(m) PROVE AreBreaks(open(m))
  <2>1. IsList(m) /\ DOMAIN m = 1..Len(m)
    BY <1>5, ListRange DEF AreBreaks
  <2>2. open(m) = [i \in DOMAIN m |-> open(m)[i]] /\ \A i \in 1..Len(m) : IsBreak(open(m)[i])
    BY <1>5, <2>1, ChangedBreak DEF AreBreaks
  <2> HIDE DEF open
  <2> QED BY <2>1, <2>2, ChangedBreaks
<1>6. /\ MouserBreaks(part) = open(Complete(from))
      /\ ArrowBreaks(part) = Complete(all)
      /\ DigiKeyBreaks(part) = open(Complete(price))
  BY Zenon DEF MouserBreaks, ArrowBreaks, DigiKeyBreaks, ForEach, l
<1> HIDE DEF from, all, price, open
<1> QED BY <1>2, <1>3, <1>4, <1>5, <1>6, CompleteBreaks

(* The sum of what is given.                                               *)
LEMMA SumIsNumber ==
  ASSUME NEW values, IsList(values), \A i \in 1..Len(values) : values[i] \in Numbers
  PROVE  SumGiven(values) \in Numbers
<1> DEFINE kept == {i \in DOMAIN values : Given(values[i])}
           given == AtIndices(values, kept)
           same == [i \in DOMAIN given |-> given[i]]
<1>1. SumGiven(values) = IF given = <<>> THEN Unreported ELSE Total(same)
  BY Zenon DEF SumGiven, Where, TotalOf
<1>2. DOMAIN values = 1..Len(values)
  BY ListRange
<1>3. kept \in SUBSET (1..Len(values)) /\ \A i \in kept : values[i] \in Int
  BY <1>2 DEF Given, Numbers
<1> HIDE DEF kept
<1>4. IsList(given) /\ Range(given) = {values[i] : i \in kept}
  BY <1>3, KeptElements
<1> HIDE DEF given
<1>5. DOMAIN given = 1..Len(given) /\ Range(given) = {given[i] : i \in 1..Len(given)}
  BY <1>4, ListRange
<1>6. \A i \in 1..Len(given) : given[i] \in Int
  BY <1>3, <1>4, <1>5
<1>7. same \in Seq(Int)
  BY <1>4, <1>5, <1>6 DEF IsList
<1> HIDE DEF same
<1>8. Total(same) \in Int
  BY <1>7, TotalType
<1> QED BY <1>1, <1>8 DEF Numbers

(* What each provider makes of a part is a quote of its own.               *)
LEMMA MouserIsQuote ==
  ASSUME NEW part, IsPart(part), Len(part.stock) >= 1, Len(part.lead) >= 1, NEW quantity
  PROVE  IsQuote(MouserQuote(part, quantity), quantity) /\ MouserQuote(part, quantity).supplier = "mouser"
<1>1. AreBreaks(MouserBreaks(part))
  BY ProviderBreaks
<1>2. MouserStock(part) \in Numbers /\ MouserLead(part) \in Numbers
  <2>1. 1 \in 1..Len(part.stock) /\ 1 \in 1..Len(part.lead)
    BY DEF IsPart, IsList
  <2>2. part.stock[1] \in Range(part.stock) /\ part.lead[1] \in Range(part.lead)
    BY <2>1, ListRange DEF IsPart
  <2> QED BY <2>2 DEF IsPart, MouserStock, MouserLead
<1>3. Number(part.moq) \in Numbers /\ Number(part.multiple) \in Numbers
  BY NumberIsNumber DEF IsPart
<1>4. /\ MouserPrice(part).price \in Numbers
      /\ MouserPrice(part) = Priced(MouserPrice(part).price, MouserPrice(part).currency)
  BY DEF IsPart, MouserPrice, Priced
<1> QED BY <1>1, <1>2, <1>3, <1>4, QuoteIsQuote DEF MouserQuote

(* A quote without a price of its own.                                     *)
LEMMA NoPriceIsNone ==
  NoPrice.price \in Numbers /\ NoPrice = Priced(NoPrice.price, NoPrice.currency)
BY DEF NoPrice, Priced, Numbers

(* Arrow's numbers are sums.                                               *)
LEMMA ArrowIsQuote ==
  ASSUME NEW part, IsPart(part), NEW quantity
  PROVE  IsQuote(ArrowQuote(part, quantity), quantity) /\ ArrowQuote(part, quantity).supplier = "arrow"
<1>1. AreBreaks(ArrowBreaks(part))
  BY ProviderBreaks
<1>2. IsList(part.stock) /\ \A i \in 1..Len(part.stock) : part.stock[i] \in Numbers
  BY ListRange DEF IsPart
<1>3. ArrowStock(part) \in Numbers
  BY <1>2, SumIsNumber DEF ArrowStock
<1> DEFINE l == part.lead
           leads == [i \in DOMAIN l |-> Number(l[i])]
<1>4. IsList(l) /\ DOMAIN l = 1..Len(l) /\ \A i \in 1..Len(l) : l[i] \in Numbers
  BY ListRange DEF IsPart
<1>5. ArrowLead(part) = SumGiven(leads)
  BY Zenon DEF ArrowLead, ForEach
<1> HIDE DEF l
<1>6. Len(l) \in Nat
  BY <1>4 DEF IsList
<1>7. Len(leads) = Len(l) /\ leads = [i \in 1..Len(l) |-> leads[i]]
      /\ \A i \in 1..Len(l) : leads[i] \in Numbers
  BY <1>4, <1>6, NumberIsNumber
<1> HIDE DEF leads
<1>8. ArrowLead(part) \in Numbers
  BY <1>5, <1>6, <1>7, SumIsNumber DEF IsList
<1>9. Number(part.moq) \in Numbers /\ Number(part.multiple) \in Numbers
  BY NumberIsNumber DEF IsPart
<1> QED BY <1>1, <1>3, <1>8, <1>9, NoPriceIsNone, QuoteIsQuote DEF ArrowQuote

(* DigiKey's are taken as they are.                                        *)
LEMMA DigiKeyIsQuote ==
  ASSUME NEW part, IsPart(part), Len(part.stock) >= 2, Len(part.lead) >= 1, NEW quantity
  PROVE  /\ IsQuote(DigiKeyQuote(part, quantity), quantity)
         /\ DigiKeyQuote(part, quantity).supplier = "digikey"
<1>1. AreBreaks(DigiKeyBreaks(part))
  BY ProviderBreaks
<1>2. DigiKeyStock(part) \in Numbers /\ part.lead[1] \in Numbers
  <2>1. 1 \in 1..Len(part.stock) /\ 2 \in 1..Len(part.stock) /\ 1 \in 1..Len(part.lead)
    BY DEF IsPart, IsList
  <2>2. /\ part.stock[1] \in Range(part.stock) /\ part.stock[2] \in Range(part.stock)
        /\ part.lead[1] \in Range(part.lead)
    BY <2>1, ListRange DEF IsPart
  <2> QED BY <2>2 DEF IsPart, DigiKeyStock
<1>3. part.moq \in Numbers /\ part.multiple \in Numbers
  BY DEF IsPart
<1> QED BY <1>1, <1>2, <1>3, NoPriceIsNone, QuoteIsQuote DEF DigiKeyQuote

(* A provider is quoted by one quote or none, and it is its own.           *)
OneQuote(list, provider, quantity) ==
  \/ list = <<>>
  \/ \E q : list = <<q>> /\ IsQuote(q, quantity) /\ q.supplier = provider

(* Whatever the provider is answered with.                                 *)
LEMMA QuotedOnce ==
  ASSUME CallTyped, NEW parts \in Listings[Provider]
  PROVE  OneQuote(Quoted(parts), Provider, Item.quantity)
<1> DEFINE quantity == Item.quantity
<1> HIDE DEF quantity
<1>1. Provider \in {"mouser", "arrow", "digikey"}
  BY DEF CallTyped, Provider, Providers
<1>2. CASE Provider = "mouser"
  <2> DEFINE found == FirstMatch(parts, Name, Maker)
  <2>1. Quoted(parts) = [i \in DOMAIN found |-> MouserQuote(found[i], quantity)]
    BY <1>2, Zenon DEF Quoted, MouserQuotes, MouserSelected, ForEach, quantity
  <2>2. ArePartsWith(parts, 1, 1)
    BY <1>2, ListingsAssumption
  <2>3. found = <<>> \/ \E part \in Range(parts) : found = <<part>>
    BY <2>2, MatchIsListed DEF ArePartsWith
  <2> HIDE DEF found
  <2>4. CASE found = <<>>
    BY <2>1, <2>4 DEF OneQuote
  <2>5. ASSUME NEW part \in Range(parts), found = <<part>>
        PROVE  OneQuote(Quoted(parts), Provider, quantity)
    <3>1. IsPart(part) /\ Len(part.stock) >= 1 /\ Len(part.lead) >= 1
      BY <2>2 DEF ArePartsWith
    <3>2. /\ IsQuote(MouserQuote(part, quantity), quantity)
          /\ MouserQuote(part, quantity).supplier = "mouser"
      BY <3>1, MouserIsQuote
    <3>3. Quoted(parts) = <<MouserQuote(part, quantity)>>
      BY <2>1, <2>5
    <3> QED BY <1>2, <3>2, <3>3 DEF OneQuote
  <2> QED BY <2>3, <2>4, <2>5 DEF quantity
<1>3. CASE Provider = "arrow"
  <2> DEFINE listed == Flattened(parts)
             found == FirstMatch(listed, Name, Maker)
             n == Len(parts)
             S == UNION {Range(parts[i]) : i \in 1..n}
  <2>1. Quoted(parts) = [i \in DOMAIN found |-> ArrowQuote(found[i], quantity)]
    BY <1>3, Zenon DEF Quoted, ArrowQuotes, ArrowSelected, ArrowParts, ForEach, quantity
  <2>2. IsList(parts) /\ \A block \in Range(parts) : ArePartsWith(block, 0, 0)
    BY <1>3, ListingsAssumption
  <2>3. n \in Nat /\ \A i \in 1..n : parts[i] \in Range(parts)
    BY <2>2, ListRange DEF IsList
  <2>4. \A x \in S : IsPart(x)
    BY <2>2, <2>3 DEF ArePartsWith
  <2>5. \A i \in 1..n : parts[i] \in Seq(S)
    <3> SUFFICES ASSUME NEW i \in 1..n PROVE parts[i] \in Seq(S)
      OBVIOUS
    <3>1. IsList(parts[i])
      BY <2>2, <2>3 DEF ArePartsWith
    <3>2. \A j \in 1..Len(parts[i]) : parts[i][j] \in S
      BY <3>1, ListRange
    <3> HIDE DEF S
    <3> QED BY <3>1, <3>2 DEF IsList
  <2>6. parts \in [1..n -> Seq(S)]
    BY <2>2, <2>5 DEF IsList
  <2> HIDE DEF S, n
  <2>7. listed \in Seq(S)
    BY <2>3, <2>6, FlattenedElements
  <2> HIDE DEF listed
  <2>8. IsList(listed) /\ \A x \in Range(listed) : IsPart(x)
    BY <2>4, <2>7, SequenceIsList DEF Range
  <2>9. found = <<>> \/ \E part \in Range(listed) : found = <<part>>
    BY <2>8, MatchIsListed
  <2> HIDE DEF found
  <2>10. CASE found = <<>>
    BY <2>1, <2>10 DEF OneQuote
  <2>11. ASSUME NEW part \in Range(listed), found = <<part>>
         PROVE  OneQuote(Quoted(parts), Provider, quantity)
    <3>1. /\ IsQuote(ArrowQuote(part, quantity), quantity)
          /\ ArrowQuote(part, quantity).supplier = "arrow"
      BY <2>8, ArrowIsQuote
    <3>2. Quoted(parts) = <<ArrowQuote(part, quantity)>>
      BY <2>1, <2>11
    <3> QED BY <1>3, <3>1, <3>2 DEF OneQuote
  <2> QED BY <2>9, <2>10, <2>11 DEF quantity
<1>4. CASE Provider = "digikey"
  <2> DEFINE found == DigiKeyFound(parts, Name, Maker)
  <2>1. Quoted(parts) = [i \in DOMAIN found |-> DigiKeyQuote(found[i], quantity)]
    BY <1>4, Zenon DEF Quoted, DigiKeyQuotes, ForEach, quantity
  <2>2. ArePartsWith(parts, 2, 1)
    BY <1>4, ListingsAssumption
  <2>3. found = <<>> \/ \E part \in Range(parts) : found = <<part>>
    BY <2>2, MatchIsListed DEF ArePartsWith, DigiKeyFound, DigiKeySelected
  <2> HIDE DEF found
  <2>4. CASE found = <<>>
    BY <2>1, <2>4 DEF OneQuote
  <2>5. ASSUME NEW part \in Range(parts), found = <<part>>
        PROVE  OneQuote(Quoted(parts), Provider, quantity)
    <3>1. IsPart(part) /\ Len(part.stock) >= 2 /\ Len(part.lead) >= 1
      BY <2>2 DEF ArePartsWith
    <3>2. /\ IsQuote(DigiKeyQuote(part, quantity), quantity)
          /\ DigiKeyQuote(part, quantity).supplier = "digikey"
      BY <3>1, DigiKeyIsQuote
    <3>3. Quoted(parts) = <<DigiKeyQuote(part, quantity)>>
      BY <2>1, <2>5
    <3> QED BY <1>4, <3>2, <3>3 DEF OneQuote
  <2> QED BY <2>3, <2>4, <2>5 DEF quantity
<1> QED BY <1>1, <1>2, <1>3, <1>4

-----------------------------------------------------------------------------
(* The score and the selection.                                            *)

IsFraction(x) == x.num \in Int /\ x.den \in Int /\ x.den > 0

(* A denominator that is not zero becomes positive.                        *)
LEMMA FractionTyped ==
  \A num \in Int, den \in Int : den # 0 => IsFraction(Fraction(num, den))
BY DEF Fraction, IsFraction

(* Fractions are added, and the sum is one.                                *)
LEMMA PlusTyped ==
  ASSUME NEW x, IsFraction(x), NEW y, IsFraction(y)
  PROVE  IsFraction(Plus(x, y))
<1>1. \A a, b \in Int : a > 0 /\ b > 0 => a * b \in Int /\ a * b > 0
  OBVIOUS
<1>2. /\ x.num * y.den + y.num * x.den \in Int
      /\ x.den * y.den \in Int /\ x.den * y.den # 0
  BY <1>1 DEF IsFraction
<1> QED BY <1>2, FractionTyped DEF Plus

(* A fraction is rounded to an integer.                                    *)
LEMMA RoundedTyped == ASSUME NEW x, IsFraction(x) PROVE Rounded(x) \in Int
<1> DEFINE a == 2 * x.num + x.den
           b == 2 * x.den
<1>1. a \in Int /\ b \in Int /\ b > 0
  BY DEF IsFraction
<1> HIDE DEF a, b
<1>2. a \div b \in Int
  BY <1>1
<1> QED BY <1>2 DEF Rounded, a, b

(* As long as no quote has to be divided by zero, each has a score.        *)
LEMMA ScoreTyped ==
  ASSUME NEW list, IsList(list), NEW quantity \in Int,
         \A i \in 1..Len(list) : IsQuote(list[i], quantity),
         ~Indivisible(list), NEW q \in Range(list)
  PROVE  SupplierScore(q, list, quantity) \in Int
<1>1. \A x \in Range(list) : IsQuote(x, quantity)
  BY ListRange
<1>2. IsFiniteSet(Range(list))
  BY RangeFinite
<1> DEFINE R == Range(list)
<1> HIDE DEF R
<1>3. IsFiniteSet(R) /\ q \in R /\ \A x \in R : IsQuote(x, quantity)
  BY <1>1, <1>2 DEF R
<1> DEFINE prices == PositivePrices(list)
           stocks == PositiveStocks(list)
           leads == PositiveLeads(list)
<1>4. \A v \in Numbers : Given(v) => v \in Int
  BY DEF Numbers, Given
<1>5. prices \in SUBSET Int /\ IsFiniteSet(prices)
  <2> DEFINE T == {x \in R : Positive(x.price)}
  <2>1. IsFiniteSet(T)
    BY <1>3, FS_Subset
  <2> HIDE DEF T
  <2>2. IsFiniteSet({x.price : x \in T})
    <3> DEFINE g == [x \in T |-> x.price]
    <3>1. DOMAIN g = T /\ g = [x \in T |-> g[x]] /\ {g[x] : x \in T} = {x.price : x \in T}
      OBVIOUS
    <3> HIDE DEF g
    <3>2. IsFiniteSet({g[x] : x \in T})
      BY <2>1, <3>1, ImageFinite
    <3> QED BY <3>1, <3>2
  <2>3. prices = {x.price : x \in T}
    BY DEF PositivePrices, R, T
  <2>4. \A x \in T : x.price \in Int
    BY <1>3, <1>4 DEF T, Positive, IsQuote
  <2> QED BY <2>2, <2>3, <2>4
<1>6. stocks \in SUBSET Int /\ IsFiniteSet(stocks) /\ \A s \in stocks : s > 0
  <2> DEFINE T == {x \in R : Positive(x.stock)}
  <2>1. IsFiniteSet(T)
    BY <1>3, FS_Subset
  <2> HIDE DEF T
  <2>2. IsFiniteSet({x.stock : x \in T})
    <3> DEFINE g == [x \in T |-> x.stock]
    <3>1. DOMAIN g = T /\ g = [x \in T |-> g[x]] /\ {g[x] : x \in T} = {x.stock : x \in T}
      OBVIOUS
    <3> HIDE DEF g
    <3>2. IsFiniteSet({g[x] : x \in T})
      BY <2>1, <3>1, ImageFinite
    <3> QED BY <3>1, <3>2
  <2>3. stocks = {x.stock : x \in T}
    BY DEF PositiveStocks, R, T
  <2>4. \A x \in T : x.stock \in Int /\ x.stock > 0
    BY <1>3, <1>4 DEF T, Positive, IsQuote
  <2> QED BY <2>2, <2>3, <2>4
<1>7. leads \in SUBSET Int /\ IsFiniteSet(leads)
  <2> DEFINE T == {x \in R : Positive(x.lead)}
  <2>1. IsFiniteSet(T)
    BY <1>3, FS_Subset
  <2> HIDE DEF T
  <2>2. IsFiniteSet({x.lead : x \in T})
    <3> DEFINE g == [x \in T |-> x.lead]
    <3>1. DOMAIN g = T /\ g = [x \in T |-> g[x]] /\ {g[x] : x \in T} = {x.lead : x \in T}
      OBVIOUS
    <3> HIDE DEF g
    <3>2. IsFiniteSet({g[x] : x \in T})
      BY <2>1, <3>1, ImageFinite
    <3> QED BY <3>1, <3>2
  <2>3. leads = {x.lead : x \in T}
    BY DEF PositiveLeads, R, T
  <2>4. \A x \in T : x.lead \in Int
    BY <1>3, <1>4 DEF T, Positive, IsQuote
  <2> QED BY <2>2, <2>3, <2>4
<1>8. /\ prices # {} => q.price # 0
      /\ leads # {} => q.lead # 0
  BY DEF Indivisible
<1>9. /\ Given(q.price) => q.price \in Int
      /\ Given(q.stock) => q.stock \in Int
      /\ Given(q.lead) => q.lead \in Int
      /\ Given(q.multiple) => q.multiple \in Int
  BY <1>3, <1>4 DEF IsQuote
<1>10. IsFraction(Nil)
  BY FractionTyped DEF Nil
<1>11. IsFraction(PriceShare(q, list))
  <2>1. CASE Given(q.price) /\ prices # {}
    <3>1. Min(prices) \in Int
      BY <1>5, <2>1, MinAndMax
    <3> HIDE DEF prices
    <3>2. 3500 * Min(prices) \in Int /\ q.price \in Int /\ q.price # 0
      BY <1>8, <1>9, <2>1, <3>1
    <3>3. IsFraction(Fraction(3500 * Min(prices), q.price))
      BY <3>2, FractionTyped
    <3> QED BY <2>1, <3>3 DEF PriceShare, prices
  <2> QED BY <1>10, <2>1 DEF PriceShare
<1>12. IsFraction(StockShare(q, list))
  <2>1. CASE Given(q.stock) /\ stocks # {}
    <3>1. Max(stocks) \in stocks
      BY <1>6, <2>1, MinAndMax
    <3> HIDE DEF stocks
    <3>2. 2500 * q.stock \in Int /\ Max(stocks) \in Int /\ Max(stocks) # 0
      <4>1. Max(stocks) \in Int /\ Max(stocks) > 0
        BY <1>6, <3>1
      <4>2. q.stock \in Int
        BY <1>9, <2>1
      <4> QED BY <4>1, <4>2
    <3>3. IsFraction(Fraction(2500 * q.stock, Max(stocks)))
      BY <3>2, FractionTyped
    <3> QED BY <2>1, <3>3 DEF StockShare, stocks
  <2> QED BY <1>10, <2>1 DEF StockShare
<1>13. IsFraction(LeadShare(q, list))
  <2>1. CASE Given(q.lead) /\ leads # {}
    <3>1. Min(leads) \in Int
      BY <1>7, <2>1, MinAndMax
    <3> HIDE DEF leads
    <3>2. 2000 * Min(leads) \in Int /\ q.lead \in Int /\ q.lead # 0
      BY <1>8, <1>9, <2>1, <3>1
    <3>3. IsFraction(Fraction(2000 * Min(leads), q.lead))
      BY <3>2, FractionTyped
    <3> QED BY <2>1, <3>3 DEF LeadShare, leads
  <2> QED BY <1>10, <2>1 DEF LeadShare
<1>14. IsFraction(FitShare(q, quantity))
  BY FractionTyped DEF FitShare
<1> DEFINE total == Rounded(Plus(Plus(PriceShare(q, list), StockShare(q, list)),
                                 Plus(LeadShare(q, list), FitShare(q, quantity))))
<1>15. total \in Int
  BY <1>11, <1>12, <1>13, <1>14, PlusTyped, RoundedTyped
<1> HIDE DEF total
<1>16. SupplierScore(q, list, quantity) = IF total > 10000 THEN 10000 ELSE IF total < 0 THEN 0 ELSE total
  BY DEF SupplierScore, total
<1> QED BY <1>15, <1>16

(* The quotes that can deliver.                                            *)
Deliverable(list, quantity) == Where(list, LAMBDA q : Eligible(q, quantity))

(* Where some quote can deliver, the one selected is one that can.         *)
LEMMA BestCanDeliver ==
  ASSUME NEW list, IsList(list), NEW quantity \in Int,
         \A i \in 1..Len(list) :
           IsQuote(list[i], quantity) /\ list[i].supplier \in {"mouser", "arrow", "digikey"},
         ~Indivisible(Deliverable(list, quantity)),
         \E q \in Range(list) : Eligible(q, quantity)
  PROVE  Best(list, quantity) \in Range(list) /\ Eligible(Best(list, quantity), quantity)
<1> DEFINE kept == {i \in DOMAIN list : Eligible(list[i], quantity)}
           eligible == AtIndices(list, kept)
           n == Len(eligible)
           R == Range(eligible)
           score(q) == SupplierScore(q, eligible, quantity)
           rank(q) == NameRank(q.supplier)
           Wins(q, other) == \/ score(q) > score(other)
                             \/ score(q) = score(other) /\ rank(q) <= rank(other)
<1>1. Deliverable(list, quantity) = eligible
  BY Zenon DEF Deliverable, Where
<1>2. Best(list, quantity) = CHOOSE q \in R : \A other \in R : Wins(q, other)
  BY <1>1, Zenon DEF Best, Deliverable
<1>3. DOMAIN list = 1..Len(list) /\ Range(list) = {list[i] : i \in 1..Len(list)}
  BY ListRange
<1>4. kept \in SUBSET (1..Len(list)) /\ kept # {} /\ \A i \in kept : Eligible(list[i], quantity)
  <2>1. PICK i \in 1..Len(list) : Eligible(list[i], quantity)
    BY <1>3
  <2> QED BY <1>3, <2>1
<1> HIDE DEF kept
<1>5. IsList(eligible) /\ R = {list[i] : i \in kept} /\ eligible # <<>>
  BY <1>4, KeptElements
<1>6. ~Indivisible(eligible)
  BY <1>1
<1> HIDE DEF eligible
<1>7. n \in Nat /\ n >= 1 /\ R = {eligible[i] : i \in 1..n}
  BY <1>5, ListRange DEF IsList
<1>8. /\ \A q \in R : q \in Range(list) /\ Eligible(q, quantity)
      /\ \A q \in R : IsQuote(q, quantity) /\ q.supplier \in {"mouser", "arrow", "digikey"}
  BY <1>3, <1>4, <1>5
<1>9. \A i \in 1..n : IsQuote(eligible[i], quantity)
  BY <1>7, <1>8
<1>10. \A q \in R : score(q) \in Int
  BY <1>5, <1>6, <1>9, ScoreTyped
<1>11. \A q \in R : rank(q) \in 1..3
  <2>1. \A s \in {"mouser", "arrow", "digikey"} : \E i \in DOMAIN ByName : ByName[i] = s
    <3>1. DOMAIN ByName = {1, 2, 3} /\ ByName[1] = "arrow" /\ ByName[2] = "digikey"
          /\ ByName[3] = "mouser"
      BY DEF ByName
    <3> QED BY <3>1
  <2>2. DOMAIN ByName = 1..3
    BY DEF ByName
  <2>3. \A s \in {"mouser", "arrow", "digikey"} : NameRank(s) \in 1..3
    BY <2>1, <2>2 DEF NameRank
  <2> QED BY <1>8, <2>3
<1> HIDE DEF score, rank
<1> DEFINE key == [i \in 1..n |-> 4 * score(eligible[i]) - rank(eligible[i])]
           order == InOrder(1..n, Earlier(key))
<1>12. \A i \in 1..n : score(eligible[i]) \in Int /\ rank(eligible[i]) \in 1..3
  BY <1>7, <1>10, <1>11
<1>13. key \in [1..n -> Int]
  <2>1. ASSUME NEW i \in 1..n PROVE 4 * score(eligible[i]) - rank(eligible[i]) \in Int
    <3> DEFINE a == score(eligible[i])
               b == rank(eligible[i])
    <3>1. a \in Int /\ b \in Int
      BY <1>12
    <3> HIDE DEF a, b
    <3>2. 4 * a - b \in Int
      BY <3>1
    <3> QED BY <3>2 DEF a, b
  <2> QED BY <2>1
<1>14. SortedBy(ByKey(eligible, key), order, n, R, eligible, key)
  <2>1. eligible \in [1..n -> R]
    BY <1>5, <1>7 DEF IsList
  <2> HIDE DEF key, n, R
  <2> QED BY <1>7, <1>13, <2>1, ByKeySorts
<1> HIDE DEF order
<1>15. /\ order \in [1..n -> 1..n]
       /\ \A i \in 1..n : \E k \in 1..n : order[k] = i
       /\ \A j, k \in 1..n : j < k =>
            key[order[j]] > key[order[k]]
              \/ (key[order[j]] = key[order[k]] /\ order[j] < order[k])
  BY <1>14 DEF SortedBy
<1> DEFINE best == eligible[order[1]]
<1>16. order[1] \in 1..n /\ best \in R
  BY SMTT(20), <1>7, <1>15
<1>17. \A i \in 1..n : key[order[1]] >= key[i]
  <2> SUFFICES ASSUME NEW i \in 1..n PROVE key[order[1]] >= key[i]
    OBVIOUS
  <2>1. PICK k \in 1..n : order[k] = i
    BY <1>15
  <2>2. key[i] \in Int /\ key[order[1]] \in Int
    BY <1>13, <1>16
  <2>3. k = 1 \/ 1 < k
    OBVIOUS
  <2> HIDE DEF key
  <2>4. CASE k = 1
    BY <2>1, <2>2, <2>4
  <2>5. CASE 1 < k
    <3>1. 1 \in 1..n
      BY <1>7
    <3>2. key[order[1]] > key[order[k]] \/ key[order[1]] = key[order[k]]
      BY <1>15, <2>5, <3>1
    <3> QED BY <2>1, <2>2, <3>2
  <2> QED BY <2>3, <2>4, <2>5
<1>18. \A i \in 1..n : Wins(best, eligible[i])
  <2> SUFFICES ASSUME NEW i \in 1..n PROVE Wins(best, eligible[i])
    OBVIOUS
  <2>1. 4 * score(best) - rank(best) >= 4 * score(eligible[i]) - rank(eligible[i])
    BY <1>16, <1>17
  <2>2. /\ score(best) \in Int /\ rank(best) \in 1..3
        /\ score(eligible[i]) \in Int /\ rank(eligible[i]) \in 1..3
    BY <1>12, <1>16
  <2> HIDE DEF best
  <2> QED BY <2>1, <2>2
<1>19. \A other \in R : Wins(best, other)
  BY <1>7, <1>18
<1> HIDE DEF Wins, best
<1>20. (CHOOSE q \in R : \A other \in R : Wins(q, other)) \in R
  BY <1>16, <1>19
<1> QED BY <1>2, <1>8, <1>20

(* What is asked of a quote before it is selected is what the calculator   *)
(* asks of it.                                                             *)
LEMMA EligibleFulfils ==
  ASSUME NEW quantity \in Nat \ {0}, NEW q, IsQuote(q, quantity)
  PROVE  Eligible(q, quantity) <=> Fulfils(q, quantity)
<1>1. Given(q.moq) => q.moq \in Int
  BY DEF IsQuote, Numbers, Given
<1> QED BY <1>1 DEF Eligible, Fulfils, Positive

(* A decision comes from a quote that can deliver, or there is none.       *)
LEMMA DecisionFrom ==
  ASSUME NEW list, IsList(list), NEW quantity \in Int,
         \A i \in 1..Len(list) :
           IsQuote(list[i], quantity) /\ list[i].supplier \in {"mouser", "arrow", "digikey"},
         ~Indivisible(Deliverable(list, quantity)), NEW risk, NEW status
  PROVE  LET decision == Decision(list, risk, status, quantity)
         IN \/ /\ \A q \in Range(list) : ~Eligible(q, quantity)
               /\ decision.action = "SOURCE_ALTERNATIVE"
               /\ decision.supplier = Unreported /\ decision.stock = Unreported
            \/ /\ decision.action # "SOURCE_ALTERNATIVE"
               /\ \E q \in Range(list) :
                    /\ Eligible(q, quantity)
                    /\ decision.supplier = q.supplier /\ decision.stock = q.stock
                    /\ decision.price = q.price /\ decision.currency = q.currency
<1> DEFINE decision == Decision(list, risk, status, quantity)
           best == Best(list, quantity)
<1>1. CASE \A q \in Range(list) : ~Eligible(q, quantity)
  BY <1>1 DEF Decision
<1>2. CASE \E q \in Range(list) : Eligible(q, quantity)
  <2>1. best \in Range(list) /\ Eligible(best, quantity)
    BY <1>2, BestCanDeliver
  <2>2. /\ decision.action = Action(risk, status)
        /\ decision.supplier = best.supplier /\ decision.stock = best.stock
        /\ decision.price = best.price /\ decision.currency = best.currency
    BY <1>2 DEF Decision
  <2>3. Action(risk, status) # "SOURCE_ALTERNATIVE"
    BY DEF Action
  <2> HIDE DEF best, decision
  <2>4. decision.action # "SOURCE_ALTERNATIVE"
    BY <2>2, <2>3
  <2> QED BY <2>1, <2>2, <2>4 DEF decision
<1> QED BY <1>1, <1>2

-----------------------------------------------------------------------------
(* The quotes of a component, from the first to the decision.              *)

(* Every quote is in order, and each supplier has quoted at most once.     *)
EachOnce(list, quantity) ==
  /\ IsList(list)
  /\ \A i \in 1..Len(list) :
       IsQuote(list[i], quantity) /\ list[i].supplier \in {"mouser", "arrow", "digikey"}
  /\ \A i, j \in 1..Len(list) : list[i].supplier = list[j].supplier => i = j

(* They are of the first n providers.                                      *)
OfTheFirst(list, n) ==
  \A i \in 1..Len(list) : \E p \in 1..n : list[i].supplier = Providers[p]

QuotesInv ==
  /\ EachOnce(quotes, Item.quantity)
  /\ phase = "idle" => quotes = <<>>
  /\ phase \in {"idle", "decide"} => call = FirstCall
  /\ phase = "calling" =>
       IF call.purpose = "enrich" THEN quotes = <<>> ELSE OfTheFirst(quotes, call.provider - 1)

(* Without quotes nothing is wrong with them.                              *)
LEMMA NoQuotes == \A quantity, n : EachOnce(<<>>, quantity) /\ OfTheFirst(<<>>, n)
BY EmptyList DEF EachOnce, OfTheFirst

(* The next provider adds a quote of its own, or none.                     *)
LEMMA QuoteAdded ==
  ASSUME NEW list, NEW quantity, NEW n \in 1..3, EachOnce(list, quantity), OfTheFirst(list, n - 1),
         NEW more, OneQuote(more, Providers[n], quantity)
  PROVE  EachOnce(list \o more, quantity) /\ OfTheFirst(list \o more, n)
<1>1. IsList(list) /\ Len(list) \in Nat
  BY DEF EachOnce, IsList
<1>2. OfTheFirst(list, n)
  <2>1. \A p \in 1..(n - 1) : p \in 1..n
    OBVIOUS
  <2> QED BY <2>1 DEF OfTheFirst
<1>3. CASE more = <<>>
  <2>1. list \o <<>> = list
    <3> DEFINE S == {list[i] : i \in 1..Len(list)}
    <3>1. list \in Seq(S)
      BY <1>1 DEF IsList
    <3> HIDE DEF S
    <3> QED BY <3>1
  <2> QED BY <1>2, <1>3, <2>1
<1>4. ASSUME NEW q, more = <<q>>, IsQuote(q, quantity), q.supplier = Providers[n]
      PROVE  EachOnce(list \o more, quantity) /\ OfTheFirst(list \o more, n)
  <2> DEFINE longer == list \o <<q>>
             m == Len(list)
  <2>1. /\ IsList(longer) /\ Len(longer) = m + 1
        /\ \A i \in 1..m : longer[i] = list[i]
        /\ longer[m + 1] = q
    BY <1>1, JoinOne
  <2> HIDE DEF longer, m
  <2>2. m \in Nat
    BY <1>1 DEF m
  <2>3. \A i \in 1..Len(longer) : i \in 1..m \/ i = m + 1
    BY <2>1, <2>2
  <2>4. /\ \A p \in 1..(n - 1) : Providers[p] # Providers[n]
        /\ Providers[n] \in {"mouser", "arrow", "digikey"}
    BY DEF Providers
  <2>5. \A i \in 1..m : longer[i].supplier # q.supplier
    BY <1>4, <2>1, <2>4 DEF OfTheFirst, m
  <2>6. \A i \in 1..Len(longer) :
          IsQuote(longer[i], quantity) /\ longer[i].supplier \in {"mouser", "arrow", "digikey"}
    BY <1>4, <2>1, <2>3, <2>4 DEF EachOnce, m
  <2>7. \A i, j \in 1..Len(longer) : longer[i].supplier = longer[j].supplier => i = j
    <3> SUFFICES ASSUME NEW i \in 1..Len(longer), NEW j \in 1..Len(longer),
                        longer[i].supplier = longer[j].supplier
                 PROVE  i = j
      OBVIOUS
    <3>1. CASE i \in 1..m /\ j \in 1..m
      BY <2>1, <3>1 DEF EachOnce, m
    <3>2. CASE i = m + 1 \/ j = m + 1
      BY <2>1, <2>3, <2>5, <3>2
    <3> QED BY <2>3, <3>1, <3>2
  <2>8. \A i \in 1..Len(longer) : \E p \in 1..n : longer[i].supplier = Providers[p]
    <3>1. \A i \in 1..m : \E p \in 1..n : longer[i].supplier = Providers[p]
      BY <1>2, <2>1 DEF OfTheFirst, m
    <3>2. n \in 1..n /\ longer[m + 1].supplier = Providers[n]
      BY <1>4, <2>1
    <3> QED BY <2>3, <3>1, <3>2
  <2>9. EachOnce(longer, quantity) /\ OfTheFirst(longer, n)
    BY <2>1, <2>6, <2>7, <2>8 DEF EachOnce, OfTheFirst
  <2> QED BY <1>4, <2>9 DEF longer
<1> QED BY <1>3, <1>4 DEF OneQuote

(* Nothing is quoted at the start.                                         *)
LEMMA QuotesInit == SourcingInit => QuotesInv
BY NoQuotes DEF SourcingInit, QuotesInv

(* The step to the next provider.                                          *)
LEMMA QuotesNextProvider ==
  ASSUME CallTyped, QuotesInv, phase = "calling", NextProvider, UNCHANGED <<work, at>>,
         \/ quotes' = quotes
         \/ /\ call.purpose = "quote"
            /\ \E more : quotes' = quotes \o more /\ OneQuote(more, Provider, Item.quantity)
  PROVE  QuotesInv'
<1> DEFINE n == call.provider
<1>1. Item' = Item /\ n \in 1..3 /\ call.purpose \in {"enrich", "quote"} /\ Len(Providers) = 3
  BY DEF Item, CallTyped, Providers
<1>2. call.purpose = "quote" => OfTheFirst(quotes, n - 1)
  BY DEF QuotesInv
<1>3. /\ EachOnce(quotes', Item.quantity)
      /\ call.purpose = "quote" => OfTheFirst(quotes', n)
      /\ call.purpose = "enrich" => quotes' = <<>>
  <2>1. CASE quotes' = quotes
    <3>1. call.purpose = "quote" => OfTheFirst(quotes, n)
      <4>1. \A p \in 1..(n - 1) : p \in 1..n
        BY <1>1
      <4> QED BY <1>2, <4>1 DEF OfTheFirst
    <3> QED BY <2>1, <3>1 DEF QuotesInv
  <2>2. ASSUME call.purpose = "quote", NEW more, quotes' = quotes \o more,
               OneQuote(more, Provider, Item.quantity)
        PROVE  EachOnce(quotes', Item.quantity) /\ OfTheFirst(quotes', n)
    <3>1. EachOnce(quotes, Item.quantity) /\ Provider = Providers[n]
      BY DEF QuotesInv, Provider
    <3> HIDE DEF n
    <3> QED BY <1>1, <1>2, <2>2, <3>1, QuoteAdded
  <2> QED BY <2>1, <2>2
<1>4. CASE n < 3
  <2>1. /\ call' = [call EXCEPT !.provider = @ + 1, !.leg = 1] /\ phase' = "calling"
    BY <1>1, <1>4 DEF NextProvider
  <2>2. call'.provider = n + 1 /\ call'.purpose = call.purpose
    BY <2>1 DEF CallTyped
  <2>3. (n + 1) - 1 = n
    BY <1>1
  <2> QED BY <1>1, <1>3, <2>1, <2>2, <2>3 DEF QuotesInv
<1>5. CASE ~(n < 3) /\ call.purpose = "enrich"
  <2>1. call' = [FirstCall EXCEPT !.purpose = "quote"] /\ phase' = "calling"
    BY <1>1, <1>5 DEF NextProvider
  <2>2. call'.purpose = "quote"
    BY <2>1 DEF FirstCall
  <2> QED BY <1>1, <1>3, <1>5, <2>1, <2>2, NoQuotes DEF QuotesInv
<1>6. CASE ~(n < 3) /\ call.purpose = "quote"
  <2>1. call' = FirstCall /\ phase' = "decide"
    BY <1>1, <1>6 DEF NextProvider
  <2> QED BY <1>1, <1>3, <2>1 DEF QuotesInv, FirstCall
<1> QED BY <1>1, <1>4, <1>5, <1>6

(* Every step keeps QuotesInv.                                             *)
LEMMA QuotesStep ==
  ASSUME CallTyped, QuotesInv, [SourcingNext]_sourcingVars
  PROVE  QuotesInv'
<1>1. ASSUME phase = "calling", NextLeg, UNCHANGED <<quotes, work, at>> PROVE QuotesInv'
  <2>1. call' = [call EXCEPT !.leg = @ + 1] /\ phase' = "calling"
    BY <1>1 DEF NextLeg
  <2>2. call'.purpose = call.purpose /\ call'.provider = call.provider
    BY <2>1 DEF CallTyped
  <2> QED BY <1>1, <2>1, <2>2 DEF QuotesInv, Item
<1>2. ASSUME UNCHANGED <<quotes, work, at>>, phase' \notin {"idle", "calling", "decide"}
      PROVE  QuotesInv'
  BY <1>2 DEF QuotesInv, Item
<1>3. CASE \E r \in Requests : Begin(r)
  <2>1. phase = "idle" /\ UNCHANGED <<quotes, call>> /\ phase' \in {"calling", "finish"}
    BY <1>3 DEF Begin
  <2>2. quotes' = <<>> /\ call' = FirstCall
    BY <2>1 DEF QuotesInv
  <2> QED BY <2>1, <2>2, NoQuotes DEF QuotesInv, FirstCall
<1>4. CASE UseToken \/ SearchKeyword \/ GetDetails
  BY <1>1, <1>4 DEF UseToken, SearchKeyword, GetDetails
<1>5. CASE AskToken \/ Nothing
  <2>1. phase = "calling" /\ UNCHANGED <<quotes, work, at>> /\ (NextLeg \/ NextProvider)
    BY <1>5 DEF AskToken, Nothing
  <2> QED BY <1>1, <2>1, QuotesNextProvider
<1>6. CASE Answered
  <2>1. phase = "calling" /\ UNCHANGED <<work, at>> /\ NextProvider
    BY <1>6 DEF Answered
  <2>2. PICK parts \in Listings[Provider] :
          IF call.purpose = "enrich" THEN UNCHANGED quotes ELSE quotes' = quotes \o Quoted(parts)
    BY <1>6 DEF Answered
  <2>3. OneQuote(Quoted(parts), Provider, Item.quantity)
    BY QuotedOnce
  <2>4. call.purpose \in {"enrich", "quote"}
    BY DEF CallTyped
  <2> QED BY <2>1, <2>2, <2>3, <2>4, QuotesNextProvider
<1>7. ASSUME phase = "decide", NEW result, NextItem(result) PROVE QuotesInv'
  <2>1. quotes' = <<>> /\ call' = call /\ phase' \in {"calling", "finish"}
    BY <1>7 DEF NextItem
  <2>2. call = FirstCall
    BY <1>7 DEF QuotesInv
  <2> QED BY <2>1, <2>2, NoQuotes DEF QuotesInv, FirstCall
<1>8. CASE DecideLine \/ EndCandidate
  BY <1>7, <1>8 DEF DecideLine, EndCandidate
<1>9. CASE FailLine \/ FinishBom \/ FinishComponent \/ FinishLifecycle \/ FinishAlternatives
           \/ PersistAlternatives
  BY <1>2, <1>9 DEF FailLine, FinishBom, FinishComponent, FinishLifecycle, FinishAlternatives,
                    PersistAlternatives
<1>10. CASE UNCHANGED sourcingVars
  BY <1>10 DEF sourcingVars, QuotesInv, Item
<1> QED BY <1>3, <1>4, <1>5, <1>6, <1>8, <1>9, <1>10 DEF SourcingNext

-----------------------------------------------------------------------------
(* The cost of a decision, and why a request fails.                        *)

(* The quotes of the supplier of a decision are the one it was made of.    *)
LEMMA EstimateStep ==
  ASSUME ListsInv, QuotesInv, [SourcingNext]_sourcingVars, Decides, Item.quantity \in Nat \ {0}
  PROVE  LET decision == Decided.decision
         IN /\ \A q \in QuotesOf(decision.supplier) :
                 /\ Fulfils(q, Item.quantity)
                 /\ EffectivePrice(q, Item.quantity) = Priced(decision.price, decision.currency)
            /\ decision.action = "BUY" => QuotesOf(decision.supplier) # {}
            /\ decision.action = "SOURCE_ALTERNATIVE" =>
                 \A q \in Range(quotes) : ~Fulfils(q, Item.quantity)
<1> DEFINE quantity == Item.quantity
           decision == Decision(quotes, Risk, Status, quantity)
<1>1. Decided.decision = decision /\ ~Indivisible(EligibleQuotes)
  BY LineIsDecided DEF Line
<1>2. /\ quantity \in Nat \ {0} /\ IsList(quotes)
      /\ \A i \in 1..Len(quotes) :
           IsQuote(quotes[i], quantity) /\ quotes[i].supplier \in {"mouser", "arrow", "digikey"}
      /\ \A i, j \in 1..Len(quotes) : quotes[i].supplier = quotes[j].supplier => i = j
  BY DEF QuotesInv, EachOnce
<1>3. Range(quotes) = {quotes[i] : i \in 1..Len(quotes)}
  BY <1>2, ListRange
<1>4. ~Indivisible(Deliverable(quotes, quantity))
  BY <1>1, Zenon DEF EligibleQuotes, Deliverable
<1> HIDE DEF quantity
<1>5. \/ /\ \A q \in Range(quotes) : ~Eligible(q, quantity)
         /\ decision.action = "SOURCE_ALTERNATIVE" /\ decision.supplier = Unreported
      \/ /\ decision.action # "SOURCE_ALTERNATIVE"
         /\ \E q \in Range(quotes) :
              /\ Eligible(q, quantity)
              /\ decision.supplier = q.supplier /\ decision.stock = q.stock
              /\ decision.price = q.price /\ decision.currency = q.currency
  BY <1>2, <1>4, DecisionFrom
<1> HIDE DEF decision
<1>6. \A q \in Range(quotes) : /\ Eligible(q, quantity) <=> Fulfils(q, quantity)
                               /\ q.supplier # Unreported
                               /\ EffectivePrice(q, quantity) = Priced(q.price, q.currency)
  <2> SUFFICES ASSUME NEW i \in 1..Len(quotes)
               PROVE  /\ Eligible(quotes[i], quantity) <=> Fulfils(quotes[i], quantity)
                      /\ quotes[i].supplier # Unreported
                      /\ EffectivePrice(quotes[i], quantity)
                           = Priced(quotes[i].price, quotes[i].currency)
    BY <1>3
  <2>1. IsQuote(quotes[i], quantity) /\ quotes[i].supplier \in {"mouser", "arrow", "digikey"}
    BY <1>2
  <2>2. Unreported \notin {"mouser", "arrow", "digikey"}
    <3>1. Range(Providers) = {"mouser", "arrow", "digikey"}
      BY DEF Range, Providers
    <3> QED BY <3>1, ListingsAssumption
  <2>3. Eligible(quotes[i], quantity) <=> Fulfils(quotes[i], quantity)
    BY <1>2, <2>1, EligibleFulfils
  <2> QED BY <2>1, <2>2, <2>3 DEF IsQuote
<1>7. \A q, r \in Range(quotes) : q.supplier = r.supplier => q = r
  BY <1>2, <1>3
<1>8. \A q \in QuotesOf(decision.supplier) :
        Fulfils(q, quantity) /\ EffectivePrice(q, quantity) = Priced(decision.price, decision.currency)
  BY <1>5, <1>6, <1>7 DEF QuotesOf
<1>9. decision.action = "BUY" => QuotesOf(decision.supplier) # {}
  BY <1>5 DEF QuotesOf
<1>10. decision.action = "SOURCE_ALTERNATIVE" => \A q \in Range(quotes) : ~Fulfils(q, quantity)
  BY <1>5, <1>6
<1> QED BY <1>1, <1>8, <1>9, <1>10 DEF quantity

LinesInv ==
  /\ phase # "idle" /\ request.kind # "alternatives" =>
       /\ work = request.lines /\ at \in 1..Len(work) /\ IsList(results)
       /\ phase \in {"calling", "decide"} => Len(results) = at - 1
       /\ phase = "finish" => Len(results) = Len(work)
       /\ \A i \in 1..Len(results) :
            Fulfils(FromDecision(results[i].decision), results[i].quantity)
  /\ phase # "done" => recorded = <<>>
  /\ phase = "persist" => request.kind = "alternatives" /\ request.persist
  /\ FailureExplained

(* Nothing has failed at the start.                                        *)
LEMMA LinesInit == SourcingInit => LinesInv
BY DEF SourcingInit, LinesInv, FailureExplained

(* The lines of a request are finitely many.                               *)
LEMMA LinesCounted ==
  ASSUME AlternativesInv, phase # "idle", request.kind # "alternatives", work = request.lines
  PROVE  Len(work) \in Nat
<1> DEFINE T == [component : DOMAIN Catalogue, quantity : Nat \ {0}]
<1>1. work \in Seq(T)
  BY RequestsAssumption DEF AlternativesInv
<1> HIDE DEF T
<1> QED BY <1>1

(* The lines of a request are as RequestsAssumption has them.              *)
LEMMA QuantityOfLine ==
  ASSUME AlternativesInv, LinesInv, phase # "idle", request.kind # "alternatives"
  PROVE  Item.quantity \in Nat \ {0}
<1> DEFINE lines == request.lines
           T == [component : DOMAIN Catalogue, quantity : Nat \ {0}]
<1>1. lines \in Seq(T)
  BY RequestsAssumption DEF AlternativesInv
<1>2. work = lines /\ at \in 1..Len(lines)
  BY DEF LinesInv
<1> HIDE DEF lines
<1>3. lines[at] \in T
  <2> HIDE DEF T
  <2> QED BY <1>1, <1>2
<1> QED BY <1>2, <1>3 DEF Item

(* What a line is decided on can be costed: what does not deliver has not  *)
(* been selected.                                                          *)
LEMMA LineFulfils ==
  ASSUME AlternativesInv, LinesInv, QuotesInv, DecideLine
  PROVE  Fulfils(FromDecision(Line.decision), Line.quantity)
<1> DEFINE quantity == Item.quantity
           decision == Decision(quotes, Risk, Status, quantity)
<1>1. phase = "decide" /\ request.kind # "alternatives" /\ ~Indivisible(EligibleQuotes)
  BY DEF DecideLine
<1>2. /\ quantity \in Nat \ {0} /\ IsList(quotes)
      /\ \A i \in 1..Len(quotes) :
           IsQuote(quotes[i], quantity) /\ quotes[i].supplier \in {"mouser", "arrow", "digikey"}
  BY <1>1, QuantityOfLine DEF QuotesInv, EachOnce
<1>3. ~Indivisible(Deliverable(quotes, quantity))
  BY <1>1, Zenon DEF EligibleQuotes, Deliverable
<1>4. Line.decision = decision /\ Line.quantity = quantity
  BY DEF Line
<1> HIDE DEF quantity
<1>5. \/ decision.stock = Unreported
      \/ \E q \in Range(quotes) : Eligible(q, quantity) /\ decision.stock = q.stock
  BY <1>2, <1>3, DecisionFrom
<1> HIDE DEF decision
<1>6. Given(decision.stock) => decision.stock >= quantity
  BY <1>5 DEF Eligible, Given
<1> QED BY <1>4, <1>6 DEF Fulfils, FromDecision, Given, Positive

(* A line that cannot be scored: a quote of zero beside another one.       *)
LEMMA IndivisibleExplained ==
  ASSUME IsList(quotes), Indivisible(EligibleQuotes)
  PROVE  \E q \in Range(quotes) :
           /\ Eligible(q, Item.quantity)
           /\ \/ q.price = 0 /\ \E other \in Range(quotes) : Positive(other.price)
              \/ q.lead = 0 /\ \E other \in Range(quotes) : Positive(other.lead)
<1> DEFINE kept == {i \in DOMAIN quotes : Eligible(quotes[i], Item.quantity)}
           R == Range(EligibleQuotes)
<1>1. EligibleQuotes = AtIndices(quotes, kept)
  BY Zenon DEF EligibleQuotes, Where
<1>2. DOMAIN quotes = 1..Len(quotes) /\ Range(quotes) = {quotes[i] : i \in 1..Len(quotes)}
  BY ListRange
<1>3. kept \in SUBSET (1..Len(quotes)) /\ \A i \in kept : Eligible(quotes[i], Item.quantity)
  BY <1>2
<1> HIDE DEF kept
<1>4. R = {quotes[i] : i \in kept}
  BY <1>1, <1>3, KeptElements
<1>5. \A q \in R : q \in Range(quotes) /\ Eligible(q, Item.quantity)
  BY <1>2, <1>3, <1>4
<1>6. \E q \in R : \/ q.price = 0 /\ PositivePrices(EligibleQuotes) # {}
                   \/ q.lead = 0 /\ PositiveLeads(EligibleQuotes) # {}
  BY DEF Indivisible
<1>7. /\ PositivePrices(EligibleQuotes) # {} => \E other \in R : Positive(other.price)
      /\ PositiveLeads(EligibleQuotes) # {} => \E other \in R : Positive(other.lead)
  BY DEF PositivePrices, PositiveLeads
<1> HIDE DEF R
<1> QED BY <1>5, <1>6, <1>7

(* Lines that cannot be costed are in more than one currency.              *)
LEMMA CurrenciesExplained ==
  ASSUME IsList(results), ~CanBeCosted(results),
         \A i \in 1..Len(results) :
           Fulfils(FromDecision(results[i].decision), results[i].quantity)
  PROVE  Cardinality(Currencies(results)) > 1
<1> DEFINE kept == {i \in DOMAIN results :
                      Given(results[i].decision.supplier) /\ Given(results[i].decision.price)}
           costed == AtIndices(results, kept)
           R == Range(costed)
<1>1. Costed(results) = costed
  BY Zenon DEF Costed, Where
<1>2. DOMAIN results = 1..Len(results)
  BY ListRange
<1>3. kept \in SUBSET (1..Len(results))
  BY <1>2
<1> HIDE DEF kept
<1>4. IsList(costed) /\ R = {results[i] : i \in kept}
  BY <1>3, KeptElements
<1>5. IsFiniteSet(R)
  BY <1>4, RangeFinite
<1>6. \A l \in R : Fulfils(FromDecision(l.decision), l.quantity)
  BY <1>3, <1>4
<1> HIDE DEF R
<1>7. ~(Cardinality(Currencies(results)) <= 1)
  BY <1>1, <1>6 DEF CanBeCosted, R
<1> DEFINE g == [l \in R |-> l.decision.currency]
           all == {l.decision.currency : l \in R}
<1>8. DOMAIN g = R /\ g = [l \in R |-> g[l]] /\ {g[l] : l \in R} = all
  OBVIOUS
<1> HIDE DEF g
<1>9. IsFiniteSet({g[l] : l \in R})
  BY <1>5, <1>8, ImageFinite
<1>10. Currencies(results) = all \ {Unreported}
  BY <1>1 DEF Currencies, R
<1> HIDE DEF all
<1>11. IsFiniteSet(Currencies(results))
  BY <1>8, <1>9, <1>10, FS_Subset
<1>12. Cardinality(Currencies(results)) \in Nat
  BY <1>11, FS_CardinalityType
<1> QED BY <1>7, <1>12

(* Every step keeps LinesInv.                                              *)
LEMMA LinesStep ==
  ASSUME AlternativesInv, QuotesInv, LinesInv, [SourcingNext]_sourcingVars
  PROVE  LinesInv'
<1> DEFINE Progress ==
             /\ work = request.lines /\ at \in 1..Len(work) /\ IsList(results)
             /\ phase \in {"calling", "decide"} => Len(results) = at - 1
             /\ phase = "finish" => Len(results) = Len(work)
             /\ \A i \in 1..Len(results) :
                  Fulfils(FromDecision(results[i].decision), results[i].quantity)
<1>1. LinesInv <=> /\ phase # "idle" /\ request.kind # "alternatives" => Progress
                   /\ phase # "done" => recorded = <<>>
                   /\ phase = "persist" => request.kind = "alternatives" /\ request.persist
                   /\ FailureExplained
  BY DEF LinesInv
<1>2. ASSUME UNCHANGED <<request, work, at, results, recorded>>, phase = "calling",
             phase' \in {"calling", "decide"}
      PROVE  LinesInv'
  BY <1>1, <1>2 DEF LinesInv, IsList, FailureExplained
<1>3. ASSUME NextProvider, phase = "calling" PROVE phase' \in {"calling", "decide"}
  BY <1>3 DEF NextProvider
<1>4. CASE \E r \in Requests : Begin(r)
  <2>1. PICK r \in Requests : Begin(r)
    BY <1>4
  <2>2. /\ phase = "idle" /\ request' = r /\ phase' \in {"calling", "finish"}
        /\ at' = at /\ recorded' = recorded
        /\ r.kind # "alternatives" =>
             work' = r.lines /\ phase' = "calling" /\ results' = results
    BY <2>1 DEF Begin
  <2>3. at = 1 /\ results = <<>> /\ recorded = <<>>
    BY <2>2 DEF AlternativesInv
  <2>4. ASSUME r.kind # "alternatives" PROVE Progress'
    <3> DEFINE T == [component : DOMAIN Catalogue, quantity : Nat \ {0}]
    <3>1. r.lines \in Seq(T) /\ r.lines # <<>>
      BY <2>4, RequestsAssumption
    <3> HIDE DEF T
    <3>2. 1 \in 1..Len(r.lines)
      BY <3>1
    <3>3. Len(results') = 0 /\ IsList(results')
      BY <2>2, <2>3, <2>4, EmptyList
    <3>4. \A i \in 1..Len(results') :
            Fulfils(FromDecision(results'[i].decision), results'[i].quantity)
      BY <3>3
    <3> QED BY <2>2, <2>3, <2>4, <3>2, <3>3, <3>4
  <2>5. FailureExplained'
    BY <2>2 DEF FailureExplained
  <2> HIDE DEF Progress
  <2>6. (phase # "idle" /\ request.kind # "alternatives" => Progress)'
    BY <2>2, <2>4
  <2> QED BY <2>2, <2>3, <2>5, <2>6 DEF LinesInv, Progress
<1>5. CASE UseToken \/ SearchKeyword \/ GetDetails
  BY <1>2, <1>5 DEF UseToken, SearchKeyword, GetDetails, NextLeg
<1>6. CASE AskToken \/ Nothing \/ Answered
  <2>1. /\ phase = "calling"
        /\ NextProvider \/ NextLeg
        /\ UNCHANGED <<request, work, at, results, recorded>>
    BY <1>6 DEF AskToken, Nothing, Answered
  <2>2. phase' \in {"calling", "decide"}
    BY <1>3, <2>1 DEF NextLeg
  <2> QED BY <1>2, <2>1, <2>2
<1>7. CASE DecideLine
  <2>1. phase = "decide" /\ request.kind # "alternatives" /\ NextItem(Line)
    BY <1>7 DEF DecideLine
  <2>2. Fulfils(FromDecision(Line.decision), Line.quantity)
    BY <1>7, LineFulfils
  <2>3. /\ work = request.lines /\ at \in 1..Len(work) /\ IsList(results)
        /\ Len(results) = at - 1
        /\ \A i \in 1..Len(results) :
             Fulfils(FromDecision(results[i].decision), results[i].quantity)
        /\ recorded = <<>>
    BY <2>1 DEF LinesInv
  <2>4. /\ UNCHANGED <<request, work, recorded>>
        /\ results' = Append(results, Line)
        /\ IF at < Len(work) THEN at' = at + 1 /\ phase' = "calling"
           ELSE phase' = "finish" /\ at' = at
    BY <2>1 DEF NextItem
  <2>5. Len(work) \in Nat
    BY <2>3, LinesCounted
  <2> DEFINE longer == Append(results, Line)
             m == Len(results)
  <2>6. m \in Nat
    BY <2>3 DEF IsList
  <2>7. /\ IsList(longer) /\ Len(longer) = m + 1 /\ longer[m + 1] = Line
        /\ \A i \in 1..m : longer[i] = results[i]
    <3> DEFINE S == {results[i] : i \in 1..Len(results)} \cup {Line}
    <3>1. results \in Seq(S) /\ Line \in S
      BY <2>3 DEF IsList
    <3> HIDE DEF S
    <3>2. \A i \in 1..Len(results) : Append(results, Line)[i] = results[i]
      BY <3>1
    <3>3. /\ IsList(Append(results, Line)) /\ Len(Append(results, Line)) = Len(results) + 1
          /\ Append(results, Line)[Len(Append(results, Line))] = Line
      BY <2>3, AppendList
    <3> QED BY <3>2, <3>3
  <2>8. \A i \in 1..(m + 1) : i \in 1..m \/ i = m + 1
    BY <2>6
  <2>9. \A i \in 1..Len(longer) :
          Fulfils(FromDecision(longer[i].decision), longer[i].quantity)
    <3> HIDE DEF longer, m
    <3> SUFFICES ASSUME NEW i \in 1..(m + 1)
                 PROVE  Fulfils(FromDecision(longer[i].decision), longer[i].quantity)
      BY <2>7
    <3>1. CASE i = m + 1
      BY <2>2, <2>7, <3>1
    <3>2. CASE i \in 1..m
      BY <2>3, <2>7, <3>2 DEF m
    <3> QED BY <2>8, <3>1, <3>2
  <2> HIDE DEF longer
  <2>10. results' = longer /\ m = at - 1
    BY <2>3, <2>4 DEF longer
  <2>11. CASE at < Len(work)
    <3>1. at' = at + 1 /\ phase' = "calling" /\ at' \in 1..Len(work')
      BY <2>3, <2>4, <2>5, <2>11
    <3>2. Len(results') = at' - 1
      BY <2>3, <2>7, <2>10, <3>1
    <3> QED BY <2>3, <2>4, <2>7, <2>9, <2>10, <3>1, <3>2 DEF LinesInv, FailureExplained
  <2>12. CASE ~(at < Len(work))
    <3>1. at' = at /\ phase' = "finish" /\ at = Len(work)
      BY <2>3, <2>4, <2>5, <2>12
    <3>2. Len(results') = Len(work')
      BY <2>3, <2>4, <2>7, <2>10, <3>1
    <3> QED BY <2>3, <2>4, <2>7, <2>9, <2>10, <3>1, <3>2 DEF LinesInv, FailureExplained
  <2> QED BY <2>11, <2>12
<1>8. CASE FailLine
  <2>1. /\ phase = "decide" /\ phase' = "failed" /\ request.kind # "alternatives"
        /\ Indivisible(EligibleQuotes)
        /\ UNCHANGED <<request, work, at, quotes, results, recorded>>
    BY <1>8 DEF FailLine
  <2>2. \E q \in Range(quotes) :
          /\ Eligible(q, Item.quantity)
          /\ \/ q.price = 0 /\ \E other \in Range(quotes) : Positive(other.price)
             \/ q.lead = 0 /\ \E other \in Range(quotes) : Positive(other.lead)
    BY <2>1, IndivisibleExplained DEF QuotesInv, EachOnce
  <2>3. recorded = <<>> /\ Len(results) # Len(work)
    <3>1. recorded = <<>> /\ Len(results) = at - 1 /\ work = request.lines /\ at \in 1..Len(work)
      BY <2>1 DEF LinesInv
    <3>2. Len(work) \in Nat
      BY <2>1, <3>1, LinesCounted
    <3> QED BY <3>1, <3>2
  <2>4. FailureExplained'
    BY <2>1, <2>2, <2>3, Zenon DEF FailureExplained, Item
  <2> QED BY <2>1, <2>3, <2>4 DEF LinesInv, IsList
<1>9. CASE EndCandidate
  <2>1. /\ phase = "decide" /\ request.kind = "alternatives" /\ UNCHANGED <<request, recorded>>
        /\ phase' \in {"calling", "finish"}
    BY <1>9 DEF EndCandidate, NextItem
  <2> QED BY <2>1 DEF LinesInv, FailureExplained
<1>10. CASE FinishBom
  <2>1. /\ phase = "finish" /\ request.kind = "bom"
        /\ UNCHANGED <<request, work, at, results, recorded>>
        /\ phase' = IF CanBeCosted(results) THEN "done" ELSE "failed"
    BY <1>10 DEF FinishBom
  <2>2. /\ IsList(results) /\ Len(results) = Len(work) /\ recorded = <<>>
        /\ \A i \in 1..Len(results) :
             Fulfils(FromDecision(results[i].decision), results[i].quantity)
    BY <2>1 DEF LinesInv
  <2>3. ~CanBeCosted(results) => Cardinality(Currencies(results)) > 1
    BY <2>2, CurrenciesExplained
  <2>4. FailureExplained'
    BY <2>1, <2>2, <2>3 DEF FailureExplained
  <2> QED BY <2>1, <2>4 DEF LinesInv, IsList
<1>11. CASE FinishComponent
  <2>1. /\ phase = "finish" /\ request.kind = "component"
        /\ UNCHANGED <<request, work, at, results>>
        /\ \/ phase' = "done"
           \/ phase' = "failed" /\ recorded' = recorded
    BY <1>11 DEF FinishComponent
  <2>2. Len(results) = Len(work) /\ recorded = <<>>
    BY <2>1 DEF LinesInv
  <2>3. FailureExplained'
    BY <2>1, <2>2 DEF FailureExplained
  <2> QED BY <2>1, <2>2, <2>3 DEF LinesInv, IsList
<1>12. CASE FinishLifecycle
  <2>1. /\ phase = "finish" /\ request.kind = "lifecycle" /\ phase' = "done"
        /\ UNCHANGED <<request, work, at, results, recorded>>
    BY <1>12 DEF FinishLifecycle
  <2> QED BY <2>1 DEF LinesInv, IsList, FailureExplained
<1>13. CASE FinishAlternatives
  <2>1. /\ phase = "finish" /\ request.kind = "alternatives"
        /\ UNCHANGED <<request, recorded>>
        /\ phase' = IF request.persist THEN "persist" ELSE "done"
    BY <1>13 DEF FinishAlternatives
  <2> QED BY <2>1 DEF LinesInv, FailureExplained
<1>14. CASE PersistAlternatives
  <2>1. /\ phase = "persist" /\ UNCHANGED request
        /\ \/ phase' = "done"
           \/ phase' = "failed" /\ recorded' = recorded
    BY <1>14 DEF PersistAlternatives
  <2>2. request.kind = "alternatives" /\ request.persist /\ recorded = <<>>
    BY <2>1 DEF LinesInv
  <2> QED BY <2>1, <2>2 DEF LinesInv, FailureExplained
<1>15. CASE UNCHANGED sourcingVars
  BY <1>15 DEF sourcingVars, LinesInv, IsList, FailureExplained, Item
<1> QED BY <1>4, <1>5, <1>6, <1>7, <1>8, <1>9, <1>10, <1>11, <1>12, <1>13, <1>14, <1>15
        DEF SourcingNext

SourcingInv == TokenInv /\ ListsInv /\ AlternativesInv /\ QuotesInv /\ LinesInv

(* The inductive invariant of a request that asks the distributors.        *)
THEOREM SourcingInductive == SourcingSpec => []SourcingInv
<1>1. SourcingInit => SourcingInv
  BY TokenInit, ListsInit, AlternativesInit, QuotesInit, LinesInit DEF SourcingInv
<1>2. SourcingInv /\ [SourcingNext]_sourcingVars => SourcingInv'
  BY TokenStep, ListsStep, AlternativesStep, QuotesStep, LinesStep DEF SourcingInv, TokenInv
<1> QED BY <1>1, <1>2, PTL DEF SourcingSpec

(* No failure of a distributor fails a request: for any of its answers, a  *)
(* request fails only for a quote of zero beside another, for lines in two *)
(* currencies or for the database, and then has recorded nothing.          *)
THEOREM FailuresHaveReasons == SourcingSpec => []FailureExplained
<1>1. SourcingInv => FailureExplained
  BY DEF SourcingInv, LinesInv
<1> QED BY <1>1, SourcingInductive, PTL

(* For any quotes: the one a decision is made of is fulfilled in the eyes  *)
(* of the calculator and costs what the decision says, what is bought has  *)
(* one, and an alternative is asked for only when no quote could be        *)
(* fulfilled.                                                              *)
THEOREM DecisionsCostWhatTheySay == SourcingSpec => EstimateIsTheCost
<1>1. SourcingInv /\ [SourcingNext]_sourcingVars =>
        [Decides =>
         LET decision == Decided.decision
         IN /\ \A q \in QuotesOf(decision.supplier) :
                 /\ Fulfils(q, Item.quantity)
                 /\ EffectivePrice(q, Item.quantity) = Priced(decision.price, decision.currency)
            /\ decision.action = "BUY" => QuotesOf(decision.supplier) # {}
            /\ decision.action = "SOURCE_ALTERNATIVE" =>
                 \A q \in Range(quotes) : ~Fulfils(q, Item.quantity)]_sourcingVars
  <2> SUFFICES ASSUME SourcingInv, [SourcingNext]_sourcingVars, Decides
               PROVE  LET decision == Decided.decision
                      IN /\ \A q \in QuotesOf(decision.supplier) :
                              /\ Fulfils(q, Item.quantity)
                              /\ EffectivePrice(q, Item.quantity)
                                   = Priced(decision.price, decision.currency)
                         /\ decision.action = "BUY" => QuotesOf(decision.supplier) # {}
                         /\ decision.action = "SOURCE_ALTERNATIVE" =>
                              \A q \in Range(quotes) : ~Fulfils(q, Item.quantity)
    OBVIOUS
  <2>1. phase = "decide" /\ request.kind # "alternatives"
    BY DEF Decides
  <2>2. Item.quantity \in Nat \ {0}
    BY <2>1, QuantityOfLine DEF SourcingInv
  <2> QED BY <2>2, EstimateStep DEF SourcingInv
<1> QED BY <1>1, SourcingInductive, PTL DEF SourcingSpec, EstimateIsTheCost

=============================================================================

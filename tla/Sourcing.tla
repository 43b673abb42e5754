------------------------------ MODULE Sourcing ------------------------------
(***************************************************************************)
(* A request that asks the distributors about components one after         *)
(* another, and the HTTP calls it makes:                                   *)
(*                                                                         *)
(*  - "bom": the intelligence of a BOM; every line is enriched by each     *)
(*    provider, quoted by each provider and decided on, and the decisions  *)
(*    are costed together;                                                 *)
(*  - "component", "lifecycle": the same for one component; the decision   *)
(*    is answered and the lifecycle recorded, or the lifecycle answered;   *)
(*  - "alternatives": the alternatives of a component; the candidates of   *)
(*    the catalogue that pass the gates are analysed in the same way, when *)
(*    the request has an intelligence service, ranked, and recorded if the *)
(*    request asks for that.                                               *)
(*                                                                         *)
(* A provider that fails or finds nothing is left out.  DigiKey needs a    *)
(* token, which its provider caches for the requests' later calls; each    *)
(* call may take up to its timeout, the unit of time.  The distributors    *)
(* are external: every call may fail, and answers may change between calls. *)
(***************************************************************************)
EXTENDS Alternatives

CONSTANTS
  Requests,    \* what may be asked
  Listings,    \* per provider, the lists of parts it may answer with
  Lifetime,    \* of a token, in timeouts
  Buffer,      \* the margin of the cache, 30 seconds: two timeouts
  NoRequest

ASSUME SourcingAssumption ==
  /\ Lifetime \in Nat /\ Buffer \in Nat
  /\ Lifetime > Buffer + 1   \* 600 seconds unless DigiKey says otherwise
  /\ DOMAIN Listings = Range(Providers)

(* Lines have a quantity above zero; alternatives of a component that is    *)
(* not there, or a limit below one, are refused before anything is asked.  *)
ASSUME RequestsAssumption ==
  \A r \in Requests :
    IF r.kind = "alternatives"
    THEN r.source \in DOMAIN Catalogue /\ r.limit \in Nat \ {0}
    ELSE /\ r.lines # <<>>
         /\ r.lines \in Seq([component : DOMAIN Catalogue, quantity : Nat \ {0}])

(* What the providers read of a part has been parsed.                      *)
Numbers == Int \cup {Unreported}
IsBreak(b) ==
  /\ b = [from |-> b.from, to |-> b.to, price |-> b.price, currency |-> b.currency]
  /\ b.from \in Numbers /\ b.to \in Numbers /\ b.price \in Numbers
IsPart(part) ==
  /\ part.price \in Numbers /\ part.moq \in Numbers /\ part.multiple \in Numbers
  /\ IsList(part.stock) /\ Range(part.stock) \subseteq Numbers
  /\ IsList(part.lead) /\ Range(part.lead) \subseteq Numbers
  /\ IsList(part.breaks) /\ \A b \in Range(part.breaks) : IsBreak(b)
ArePartsWith(parts, stocks, leads) ==
  /\ IsList(parts)
  /\ \A part \in Range(parts) :
       IsPart(part) /\ Len(part.stock) >= stocks /\ Len(part.lead) >= leads
ASSUME ListingsAssumption ==
  /\ \A parts \in Listings["mouser"] : ArePartsWith(parts, 1, 1)
  /\ \A blocks \in Listings["arrow"] :
       IsList(blocks) /\ \A parts \in Range(blocks) : ArePartsWith(parts, 0, 0)
  /\ \A parts \in Listings["digikey"] : ArePartsWith(parts, 2, 1)
  /\ Unreported \notin Range(Providers)

VARIABLES
  request,    \* the request
  phase,      \* where it is
  work,       \* the components to ask about, with quantities
  at,         \* the one it is at
  call,       \* the next call: its purpose, provider and leg
  token,      \* how long DigiKey's cached token is still valid
  answers,    \* the enrichment results of the component, in order
  quotes,     \* its quotes, in order
  results,    \* what was found of the components before
  outcome,    \* the answer to the request
  recorded    \* what it has committed to the database

sourcingVars == <<request, phase, work, at, call, token, answers, quotes, results,
                  outcome, recorded>>

FirstCall == [purpose |-> "enrich", provider |-> 1, leg |-> 1]
Provider == Providers[call.provider]

DigiKeyEnrichCalls == <<"token", "search", "details">>
DigiKeyQuoteCalls == <<"token", "search", "details", "pricing">>

(* 30 seconds against timeouts of 15: the margin covers the calls between  *)
(* the token and the last one.                                             *)
ASSUME BufferAssumption == Buffer >= Len(DigiKeyQuoteCalls) - 2

(* The calls of one question to a provider, in order.                      *)
Legs(provider, purpose) ==
  IF provider # "digikey" THEN <<"search">>
  ELSE IF purpose = "enrich" THEN DigiKeyEnrichCalls ELSE DigiKeyQuoteCalls

Leg == Legs(Provider, call.purpose)[call.leg]
LastLeg == call.leg = Len(Legs(Provider, call.purpose))

Item == work[at]
Row(component) == Catalogue[component]

SourcingInit ==
  /\ request = NoRequest /\ phase = "idle"
  /\ work = <<>> /\ at = 1 /\ call = FirstCall /\ token = 0
  /\ answers = <<>> /\ quotes = <<>> /\ results = <<>> /\ outcome = <<>>
  /\ recorded = <<>>

(* The candidates of a component, in the order of their ids.               *)
Candidates(source) ==
  InOrder({c \in Discovered(source) : Compatible(Row(source), Row(c))}, Ascending)

Unknown(component) == [component |-> component, status |-> Unreported, stock |-> Unreported]

(* Candidates are asked for one piece.  Without a service nothing is asked. *)
Begin(r) ==
  /\ phase = "idle"
  /\ request' = r
  /\ IF r.kind # "alternatives"
     THEN /\ work' = r.lines /\ phase' = "calling"
          /\ UNCHANGED results
     ELSE LET found == Candidates(r.source)
          IN IF r.service /\ found # <<>>
             THEN /\ work' = [i \in DOMAIN found |-> [component |-> found[i], quantity |-> 1]]
                  /\ phase' = "calling"
                  /\ UNCHANGED results
             ELSE /\ results' = [i \in DOMAIN found |-> Unknown(found[i])]
                  /\ phase' = "finish"
                  /\ UNCHANGED work
  /\ UNCHANGED <<at, call, token, answers, quotes, outcome, recorded>>

-----------------------------------------------------------------------------
(* The calls.                                                              *)

Remaining(elapsed) == IF token > elapsed THEN token - elapsed ELSE 0

(* The next provider; after the last one the quotes, or the decision.      *)
NextProvider ==
  IF call.provider < Len(Providers)
  THEN call' = [call EXCEPT !.provider = @ + 1, !.leg = 1] /\ UNCHANGED phase
  ELSE IF call.purpose = "enrich"
  THEN call' = [FirstCall EXCEPT !.purpose = "quote"] /\ UNCHANGED phase
  ELSE call' = FirstCall /\ phase' = "decide"

NextLeg == call' = [call EXCEPT !.leg = @ + 1] /\ UNCHANGED phase

(* Faulty: the cached token serves until it expires.                       *)
CachedUntilExpiry == token > 0

(* The cached token serves while it is valid for longer than the buffer.   *)
Cached == token > Buffer

UseToken ==
  /\ phase = "calling" /\ Leg = "token" /\ Cached
  /\ NextLeg
  /\ UNCHANGED <<request, work, at, token, answers, quotes, results, outcome, recorded>>

(* The clock is read before the token is asked for; a refusal leaves the   *)
(* cache as it is.                                                         *)
AskToken ==
  /\ phase = "calling" /\ Leg = "token" /\ ~Cached
  /\ \E elapsed \in {0, 1} :
       \/ token' = Lifetime - elapsed /\ NextLeg
       \/ token' = Remaining(elapsed) /\ NextProvider
  /\ UNCHANGED <<request, work, at, answers, quotes, results, outcome, recorded>>

Name == Row(Item.component).name
Maker == LET maker == Row(Item.component).maker
         IN IF Given(maker) THEN maker.word ELSE Unreported

(* DigiKey finds a product by the name; else Nothing is found.             *)
SearchKeyword ==
  /\ phase = "calling" /\ Leg = "search" /\ ~LastLeg
  /\ \E parts \in Listings[Provider] : DigiKeyFound(parts, Name, Maker) # <<>>
  /\ \E elapsed \in {0, 1} : token' = Remaining(elapsed)
  /\ NextLeg
  /\ UNCHANGED <<request, work, at, answers, quotes, results, outcome, recorded>>

(* The details of the product, before its prices.                          *)
GetDetails ==
  /\ phase = "calling" /\ Leg = "details" /\ ~LastLeg
  /\ \E elapsed \in {0, 1} : token' = Remaining(elapsed)
  /\ NextLeg
  /\ UNCHANGED <<request, work, at, answers, quotes, results, outcome, recorded>>

(* Faulty: an exception of a provider is not caught.                       *)
NothingRaised ==
  /\ phase = "calling" /\ Leg # "token"
  /\ \E elapsed \in {0, 1} : token' = Remaining(elapsed)
  /\ \/ NextProvider
     \/ phase' = "failed" /\ UNCHANGED call
  /\ UNCHANGED <<request, work, at, answers, quotes, results, outcome, recorded>>

(* A call fails, or finds no product.                                      *)
Nothing ==
  /\ phase = "calling" /\ Leg # "token"
  /\ \E elapsed \in {0, 1} : token' = Remaining(elapsed)
  /\ NextProvider
  /\ UNCHANGED <<request, work, at, answers, quotes, results, outcome, recorded>>

Enriched(parts) ==
  CASE Provider = "mouser" -> MouserEnrich(parts, Name, Maker)
    [] Provider = "arrow"  -> ArrowEnrich(parts, Name, Maker)
    [] OTHER               -> DigiKeyEnrich(parts, Name, Maker)

Quoted(parts) ==
  CASE Provider = "mouser" -> MouserQuotes(parts, Name, Maker, Item.quantity)
    [] Provider = "arrow"  -> ArrowQuotes(parts, Name, Maker, Item.quantity)
    [] OTHER               -> DigiKeyQuotes(parts, Name, Maker, Item.quantity)

(* The last call is answered with a list of parts: DigiKey's details or    *)
(* its prices, the others' only call.                                      *)
Answered ==
  /\ phase = "calling" /\ Leg # "token" /\ LastLeg
  /\ \E elapsed \in {0, 1} : token' = Remaining(elapsed)
  /\ \E parts \in Listings[Provider] :
       IF call.purpose = "enrich"
       THEN answers' = answers \o Enriched(parts) /\ UNCHANGED quotes
       ELSE quotes' = quotes \o Quoted(parts) /\ UNCHANGED answers
  /\ NextProvider
  /\ UNCHANGED <<request, work, at, results, outcome, recorded>>

-----------------------------------------------------------------------------
(* The component is complete.                                              *)

Risk == ComponentRisk(answers)
Status == Lifecycle(answers)
EligibleQuotes == Where(quotes, LAMBDA q : Eligible(q, Item.quantity))

(* The largest stock any distributor reports.                              *)
BestStock ==
  LET stocks == {a.quantity : a \in {x \in Range(answers) : InStock(x)}}
  IN IF stocks = {} THEN Unreported ELSE Max(stocks)

NextItem(result) ==
  /\ results' = Append(results, result)
  /\ IF at < Len(work)
     THEN at' = at + 1 /\ phase' = "calling"
     ELSE phase' = "finish" /\ UNCHANGED at
  /\ answers' = <<>> /\ quotes' = <<>>
  /\ UNCHANGED <<request, work, call, token, outcome, recorded>>

(* What a line of a BOM contributes to the BOM; the rest is shown only.    *)
Line ==
  [ component |-> Item.component, quantity |-> Item.quantity, status |-> Status,
    decision |-> Decision(quotes, Risk, Status, Item.quantity),
    score |-> Risk.score, severity |-> Risk.severity,
    lifecycleRisk |-> Risk.life > 0, availabilityRisk |-> Risk.availability > 0 ]

DecideLine ==
  /\ phase = "decide" /\ request.kind # "alternatives" /\ ~Indivisible(EligibleQuotes)
  /\ NextItem(Line)

(* A line whose scores cannot be computed fails the whole request.         *)
FailLine ==
  /\ phase = "decide" /\ request.kind # "alternatives" /\ Indivisible(EligibleQuotes)
  /\ phase' = "failed"
  /\ UNCHANGED <<request, work, at, call, token, answers, quotes, results, outcome, recorded>>

(* A candidate is known by its status and its stock; one that cannot be    *)
(* analysed falls back to its row.                                         *)
EndCandidate ==
  /\ phase = "decide" /\ request.kind = "alternatives"
  /\ NextItem(IF Indivisible(EligibleQuotes) THEN Unknown(Item.component)
              ELSE [component |-> Item.component, status |-> Status, stock |-> BestStock])

(* The risk and the cost of the BOM; lines in two currencies fail it.      *)
FinishBom ==
  /\ phase = "finish" /\ request.kind = "bom"
  /\ IF CanBeCosted(results)
     THEN /\ phase' = "done"
          /\ outcome' = <<[cost |-> TotalCost(results),
                           explanation |-> Explanation(Assessment(results))]>>
     ELSE phase' = "failed" /\ UNCHANGED outcome
  /\ UNCHANGED <<request, work, at, call, token, answers, quotes, results, recorded>>

(* The lifecycle is recorded, and the decision answered.                   *)
FinishComponent ==
  /\ phase = "finish" /\ request.kind = "component"
  /\ \/ /\ phase' = "done"
        /\ outcome' = <<results[1].decision>>
        /\ recorded' = <<[component |-> results[1].component, status |-> results[1].status]>>
     \/ phase' = "failed" /\ UNCHANGED <<outcome, recorded>>
  /\ UNCHANGED <<request, work, at, call, token, answers, quotes, results>>

(* The lifecycle is answered only.                                         *)
FinishLifecycle ==
  /\ phase = "finish" /\ request.kind = "lifecycle"
  /\ phase' = "done"
  /\ outcome' = <<results[1].status>>
  /\ UNCHANGED <<request, work, at, call, token, answers, quotes, results, recorded>>

(* The ranked candidates, cut to the limit.                                *)
FinishAlternatives ==
  /\ phase = "finish" /\ request.kind = "alternatives"
  /\ outcome' = FirstOf(RankedAlternatives(request.source, results), request.limit)
  /\ phase' = IF request.persist THEN "persist" ELSE "done"
  /\ UNCHANGED <<request, work, at, call, token, answers, quotes, results, recorded>>

(* Each candidate is looked up again by its name.                          *)
RecordsOf(source, ranked) ==
  LET Named(name) == {c \in DOMAIN Catalogue : Catalogue[c].name = name}
      found == Where(ranked, LAMBDA a : Named(Row(a.component).name) # {})
  IN ForEach(found, LAMBDA a :
       [ source |-> source, score |-> a.score,
         component |-> CHOOSE c \in Named(Row(a.component).name) : TRUE ])

(* All of them are committed, or none is.                                  *)
PersistAlternatives ==
  /\ phase = "persist"
  /\ \/ phase' = "done" /\ recorded' = RecordsOf(request.source, outcome) /\ UNCHANGED outcome
     \/ phase' = "failed" /\ outcome' = <<>> /\ UNCHANGED recorded
  /\ UNCHANGED <<request, work, at, call, token, answers, quotes, results>>

(* What is recorded for a component, the newest first.                     *)
AlternativeHistory(source) == Reverse(Where(recorded, LAMBDA r : r.source = source))

-----------------------------------------------------------------------------
SourcingNext ==
  \/ \E r \in Requests : Begin(r)
  \/ UseToken \/ AskToken \/ SearchKeyword \/ GetDetails \/ Nothing \/ Answered
  \/ DecideLine \/ FailLine \/ EndCandidate
  \/ FinishBom \/ FinishComponent \/ FinishLifecycle
  \/ FinishAlternatives \/ PersistAlternatives

SourcingSpec == SourcingInit /\ [][SourcingNext]_sourcingVars

-----------------------------------------------------------------------------
(* Properties.                                                             *)

(* As long as every call returns within its timeout, DigiKey is never      *)
(* called with a token that has expired: the margin of the cache covers    *)
(* the calls of a whole question, also when the token was renewed long     *)
(* before, by another component of the request.                            *)
TokenLive ==
  phase = "calling" /\ Provider = "digikey" /\ Leg # "token" => token > 0

(* The line that is decided in a step.                                     *)
Decides == phase = "decide" /\ Len(results') > Len(results) /\ request.kind # "alternatives"
Decided == results'[Len(results')]
QuotesOf(supplier) == {q \in Range(quotes) : q.supplier = supplier}

(* The selection and the cost calculator each check whether a supplier can *)
(* deliver, and the provider and the calculator each choose a price break: *)
(* the quote a decision is made of is fulfilled in the eyes of the         *)
(* calculator and costs what the decision says, what is to be bought has   *)
(* such a quote, and an alternative is only asked for when no quote could  *)
(* be fulfilled.                                                           *)
EstimateIsTheCost ==
  [][Decides =>
       LET decision == Decided.decision
       IN /\ \A q \in QuotesOf(decision.supplier) :
               /\ Fulfils(q, Item.quantity)
               /\ EffectivePrice(q, Item.quantity) = Priced(decision.price, decision.currency)
          /\ decision.action = "BUY" => QuotesOf(decision.supplier) # {}
          /\ decision.action = "SOURCE_ALTERNATIVE" =>
               \A q \in Range(quotes) : ~Fulfils(q, Item.quantity)]_sourcingVars

(* The documented hierarchy (decide, intelligence/decision/engine.py) has  *)
(* critical risk first: a critical component is to be reviewed, before it  *)
(* is asked whether anybody can deliver it.                                *)
CriticalIsReviewed ==
  [][Decides /\ Risk.severity = "CRITICAL" => Decided.decision.action = "REVIEW"]_sourcingVars

(* The scores leave gaps, an EOL part in full stock is MEDIUM: all the     *)
(* same, what is to be bought is not at the end of its life by the first   *)
(* status that is recognised among the distributors' answers, and no part  *)
(* with two sources in stock and a living status is held back.             *)
BuyIsSafe ==
  [][Decides =>
       /\ Decided.decision.action = "BUY" =>
            /\ Status \notin {"EOL", "OBSOLETE"}
            /\ Status = "NRND" => CountOf(answers, InStock) >= 2
       /\ Decided.decision.action = "REVIEW" =>
            \/ Status \in {"EOL", "OBSOLETE"}
            \/ Status = "NRND" /\ CountOf(answers, InStock) < 2]_sourcingVars

(* No failure of a provider fails a request.  It is lost to a quote of     *)
(* zero beside another, a BOM to lines in two currencies, and what records *)
(* its result to the database; and then nothing of it is recorded.         *)
FailureExplained ==
  phase = "failed" =>
    /\ recorded = <<>>
    /\ IF Len(results) = Len(work) \/ request.kind = "alternatives"
       THEN \/ request.kind = "bom" /\ Cardinality(Currencies(results)) > 1
            \/ request.kind = "component"
            \/ request.kind = "alternatives" /\ request.persist
       ELSE \E q \in Range(quotes) :
              /\ Eligible(q, Item.quantity)
              /\ \/ q.price = 0 /\ \E other \in Range(quotes) : Positive(other.price)
                 \/ q.lead = 0 /\ \E other \in Range(quotes) : Positive(other.lead)

(* The gates are applied twice and the score has a threshold of its own:   *)
(* no candidate that passed the gates is lost to it, only to the limit and *)
(* to a better one; what the catalogue alone says never recommends; and    *)
(* the history, whose components are looked up by name, is what was        *)
(* answered.                                                               *)
AlternativesComplete ==
  phase = "done" /\ request.kind = "alternatives" =>
    LET listed == {a.component : a \in Range(outcome)}
        passed == {c \in Discovered(request.source) :
                     Compatible(Row(request.source), Row(c))}
        scoreOf(c) == LET known == CHOOSE k \in Range(results) : k.component = c
                      IN MatchScore(Row(request.source), Row(c), known)
    IN /\ listed \subseteq passed
       /\ Cardinality(listed) = Min({request.limit, Cardinality(passed)})
       /\ \A c \in passed \ listed, d \in listed : scoreOf(c) <= scoreOf(d)
       /\ \A a \in Range(outcome) :
            a.status = "RECOMMENDED" => StatusPoints(a.known.status) + StockPoints(a.known.stock) > 0
       /\ Reverse(ForEach(AlternativeHistory(request.source), LAMBDA r : r.component))
            = IF request.persist THEN ForEach(outcome, LAMBDA a : a.component) ELSE <<>>

(* A supplier that states it has none of a part is not selected.           *)
SelectedHasStock ==
  [][Decides =>
       \A q \in QuotesOf(Decided.decision.supplier) :
         LET stated == Where(q.part.stock, Given)
         IN stated = <<>> \/ \E amount \in Range(stated) : amount > 0]_sourcingVars

=============================================================================

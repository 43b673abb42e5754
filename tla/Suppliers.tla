----------------------------- MODULE Suppliers -----------------------------
(***************************************************************************)
(* The score of a quote, the procurement decision and its cost, without    *)
(* any state.  Scores are in hundredths.                                   *)
(***************************************************************************)
EXTENDS Distributors

Providers == <<"mouser", "arrow", "digikey">>   \* in the order they are asked
ByName == <<"arrow", "digikey", "mouser">>      \* in the order of their names

-----------------------------------------------------------------------------
(* The selection of a supplier.                                            *)

(* A supplier that can deliver; what it does not say is no obstacle.      *)
Eligible(quote, quantity) ==
  /\ Given(quote.stock) => quote.stock >= quantity
  /\ Given(quote.moq) => quote.moq <= quantity
  /\ Given(quote.multiple) => quote.multiple > 0 /\ quantity % quote.multiple = 0

PositivePrices(quotes) == {q.price : q \in {x \in Range(quotes) : Positive(x.price)}}
PositiveStocks(quotes) == {q.stock : q \in {x \in Range(quotes) : Positive(x.stock)}}
PositiveLeads(quotes) == {q.lead : q \in {x \in Range(quotes) : Positive(x.lead)}}

(* A price or a lead time of zero beside a positive one is divided by, and *)
(* nothing on the way catches that.                                        *)
Indivisible(quotes) ==
  \E q \in Range(quotes) :
    \/ q.price = 0 /\ PositivePrices(quotes) # {}
    \/ q.lead = 0 /\ PositiveLeads(quotes) # {}

(* A share of a weight as a fraction with a positive denominator; what is  *)
(* missing scores nothing.                                                 *)
Fraction(num, den) ==
  IF den < 0 THEN [num |-> -num, den |-> -den] ELSE [num |-> num, den |-> den]
Nil == Fraction(0, 1)

PriceShare(q, quotes) ==
  IF ~Given(q.price) \/ PositivePrices(quotes) = {} THEN Nil
  ELSE Fraction(3500 * Min(PositivePrices(quotes)), q.price)
StockShare(q, quotes) ==
  IF ~Given(q.stock) \/ PositiveStocks(quotes) = {} THEN Nil
  ELSE Fraction(2500 * q.stock, Max(PositiveStocks(quotes)))
LeadShare(q, quotes) ==
  IF ~Given(q.lead) \/ PositiveLeads(quotes) = {} THEN Nil
  ELSE Fraction(2000 * Min(PositiveLeads(quotes)), q.lead)
FitShare(q, quantity) ==
  Fraction((IF Positive(q.moq) /\ quantity >= q.moq THEN 1000 ELSE 0)
           + (IF Positive(q.multiple) /\ quantity % q.multiple = 0 THEN 1000 ELSE 0), 1)

Plus(x, y) == Fraction(x.num * y.den + y.num * x.den, x.den * y.den)
Rounded(x) == (2 * x.num + x.den) \div (2 * x.den)

SupplierScore(q, quotes, quantity) ==
  LET total == Rounded(Plus(Plus(PriceShare(q, quotes), StockShare(q, quotes)),
                            Plus(LeadShare(q, quotes), FitShare(q, quantity))))
  IN IF total > 10000 THEN 10000 ELSE IF total < 0 THEN 0 ELSE total

NameRank(supplier) == CHOOSE i \in DOMAIN ByName : ByName[i] = supplier

(* The best eligible quote: by score, then by the supplier's name.         *)
Best(quotes, quantity) ==
  LET eligible == Where(quotes, LAMBDA q : Eligible(q, quantity))
      score(q) == SupplierScore(q, eligible, quantity)
  IN CHOOSE q \in Range(eligible) : \A other \in Range(eligible) :
       \/ score(q) > score(other)
       \/ score(q) = score(other) /\ NameRank(q.supplier) <= NameRank(other.supplier)

-----------------------------------------------------------------------------
(* The decision.                                                           *)

(* The lifecycle risk of a status.                                         *)
LifecycleRisk(status) ==
  CASE status = "ACTIVE" -> "LOW" [] status = "NRND" -> "MEDIUM"
    [] status = "EOL" -> "HIGH" [] status = "OBSOLETE" -> "CRITICAL" [] OTHER -> "UNKNOWN"

(* Faulty: the lifecycle is left to the component's risk.                  *)
ActionByRisk(risk, status) == IF risk.severity \in Elevated THEN "REVIEW" ELSE "BUY"

(* With a supplier in hand.                                                *)
Action(risk, status) ==
  IF risk.severity \in Elevated \/ LifecycleRisk(status) \in Elevated THEN "REVIEW" ELSE "BUY"

(* Whether there is a supplier is asked first, whatever the risk.          *)
Decision(quotes, risk, status, quantity) ==
  IF \A q \in Range(quotes) : ~Eligible(q, quantity)
  THEN [ action |-> "SOURCE_ALTERNATIVE", supplier |-> Unreported, price |-> Unreported,
         currency |-> Unreported, stock |-> Unreported ]
  ELSE LET best == Best(quotes, quantity)
       IN [ action |-> Action(risk, status), supplier |-> best.supplier,
            price |-> best.price, currency |-> best.currency, stock |-> best.stock ]

-----------------------------------------------------------------------------
(* The cost, which checks the quote once more.                             *)

Fulfils(quote, quantity) ==
  /\ Given(quote.stock) => quote.stock >= quantity
  /\ Positive(quote.moq) => quantity >= quote.moq
  /\ Given(quote.multiple) => quote.multiple > 0 /\ quantity % quote.multiple = 0

(* Price breaks come before the quote's own price.                         *)
EffectivePrice(quote, quantity) ==
  LET chosen == BreakFor(quote.breaks, quantity)
  IN IF chosen # <<>> THEN Priced(chosen[1].price, chosen[1].currency)
     ELSE Priced(quote.price, quote.currency)

(* What the BOM's cost is computed from: a quote made of the decision,     *)
(* without breaks or constraints.                                          *)
FromDecision(decision) ==
  [ supplier |-> decision.supplier, price |-> decision.price, currency |-> decision.currency,
    stock |-> decision.stock, moq |-> Unreported, multiple |-> Unreported,
    lead |-> Unreported, breaks |-> <<>> ]

(* Lines [decision, quantity] with a supplier and a price are costed; they *)
(* must be of one currency, apart from those without any.                  *)
Costed(lines) == Where(lines, LAMBDA l : Given(l.decision.supplier) /\ Given(l.decision.price))
Currencies(lines) == {l.decision.currency : l \in Range(Costed(lines))} \ {Unreported}

CanBeCosted(lines) ==
  /\ \A l \in Range(Costed(lines)) : Fulfils(FromDecision(l.decision), l.quantity)
  /\ Cardinality(Currencies(lines)) <= 1

TotalCost(lines) ==
  IF Costed(lines) = <<>> THEN Unreported
  ELSE TotalOf(Costed(lines), LAMBDA l :
         EffectivePrice(FromDecision(l.decision), l.quantity).price * l.quantity)

=============================================================================

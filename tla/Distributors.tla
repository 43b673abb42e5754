---------------------------- MODULE Distributors ----------------------------
(***************************************************************************)
(* How each provider reads its distributor's response: the part it takes   *)
(* of those listed, the enrichment result and the quote it makes of it.    *)
(*                                                                         *)
(* A listed part is a record of the fields the providers read:             *)
(*   name, maker, status;                                                  *)
(*   numbers    the distributor's own, of the variations of the part;      *)
(*   stock      Mouser and DigiKey: one field after the other; Arrow: the  *)
(*              free quantity of each of its sources;                      *)
(*   breaks     [from, to, price, currency];                               *)
(*   price, currency, moq, multiple;                                       *)
(*   lead       Arrow: the maker's time and its own; else one field.       *)
(* A field may be Unreported: it is missing, or it cannot be parsed.       *)
(* Prices are integers in the smallest unit.                               *)
(***************************************************************************)
EXTENDS RiskScoring

Given(value) == value # Unreported
Positive(value) == Given(value) /\ value > 0

(* A number that must not be negative.                                     *)
Number(value) == IF Given(value) /\ value < 0 THEN Unreported ELSE value

(* A component without a maker is satisfied by any part; one with a maker  *)
(* never by a part without.                                                *)
MakersMatch(found, asked) == Given(asked) => found = asked

(* The first part of exactly this name, as a sequence of one or none.      *)
FirstMatch(parts, name, maker) ==
  LET matching == {i \in DOMAIN parts :
                     parts[i].name = name /\ MakersMatch(parts[i].maker, maker)}
  IN IF matching = {} THEN <<>> ELSE <<parts[Min(matching)]>>

Complete(breaks) ==
  Where(breaks, LAMBDA b : Given(b.from) /\ Given(b.price) /\ Given(b.currency))

(* Of the breaks whose range holds the quantity, the one that starts       *)
(* highest; of equal ones the first.                                       *)
BreakFor(breaks, quantity) ==
  LET applicable == Where(breaks, LAMBDA b :
        b.from <= quantity /\ (Given(b.to) => quantity <= b.to))
  IN Where(applicable, LAMBDA b : \A x \in Range(applicable) : x.from <= b.from)

Priced(amount, currency) == [price |-> amount, currency |-> currency]

(* Faulty: the first break, whatever the quantity.                         *)
QuotedPriceFirst(breaks, quantity, otherwise) ==
  IF breaks # <<>> THEN Priced(breaks[1].price, breaks[1].currency) ELSE otherwise

(* The break for the quantity; else the first one; else what there is      *)
(* without breaks.                                                         *)
QuotedPrice(breaks, quantity, otherwise) ==
  LET chosen == BreakFor(breaks, quantity)
  IN IF chosen # <<>> THEN Priced(chosen[1].price, chosen[1].currency)
     ELSE IF breaks # <<>> THEN Priced(breaks[1].price, breaks[1].currency)
     ELSE otherwise

NoPrice == Priced(Unreported, Unreported)

(* A quote; the part is kept beside it, to state properties.               *)
QuoteOf(provider, part, priced, breaks, stock, terms) ==
  [ supplier |-> provider, price |-> priced.price, currency |-> priced.currency,
    stock |-> stock, moq |-> terms.moq, multiple |-> terms.multiple, lead |-> terms.lead,
    breaks |-> breaks, part |-> part ]

AnswerOf(status, quantity) == [status |-> status, quantity |-> quantity]

(* One result for each part found.                                         *)
ForEach(found, Result(_)) == [i \in DOMAIN found |-> Result(found[i])]

-----------------------------------------------------------------------------
(* Mouser: a flat list; breaks without an end; a price of its own.         *)

MouserSelected(parts, name, maker) == FirstMatch(parts, name, maker)

MouserBreaks(part) ==
  ForEach(Complete(ForEach(part.breaks, LAMBDA b : [b EXCEPT !.from = Number(@)])),
          LAMBDA b : [b EXCEPT !.to = Unreported])

MouserStock(part) == part.stock[1]
MouserLead(part) == part.lead[1]
MouserPrice(part) == Priced(part.price, part.currency)

MouserAnswer(part) == AnswerOf(part.status, MouserStock(part))

MouserQuote(part, quantity) ==
  QuoteOf("mouser", part, QuotedPrice(MouserBreaks(part), quantity, MouserPrice(part)),
          MouserBreaks(part), MouserStock(part),
          [moq |-> Number(part.moq), multiple |-> Number(part.multiple), lead |-> MouserLead(part)])

MouserEnrich(parts, name, maker) == ForEach(MouserSelected(parts, name, maker), MouserAnswer)

MouserQuotes(parts, name, maker, quantity) ==
  ForEach(MouserSelected(parts, name, maker), LAMBDA p : MouserQuote(p, quantity))

-----------------------------------------------------------------------------
(* Arrow: blocks of parts, prefix matches among them; stock and lead time  *)
(* are sums; a lifecycle is not given.                                     *)

ArrowParts(blocks) == Flattened(blocks)

ArrowSelected(parts, name, maker) == FirstMatch(parts, name, maker)

ArrowBreaks(part) ==
  Complete(ForEach(part.breaks, LAMBDA b :
    [b EXCEPT !.from = Number(@), !.to = Number(@), !.price = Number(@)]))

SumGiven(values) ==
  LET given == Where(values, Given)
  IN IF given = <<>> THEN Unreported ELSE TotalOf(given, LAMBDA v : v)

ArrowStock(part) == SumGiven(part.stock)
ArrowLead(part) == SumGiven(ForEach(part.lead, Number))

ArrowAnswer(part) == AnswerOf(Unreported, ArrowStock(part))

ArrowQuote(part, quantity) ==
  QuoteOf("arrow", part, QuotedPrice(ArrowBreaks(part), quantity, NoPrice),
          ArrowBreaks(part), ArrowStock(part),
          [moq |-> Number(part.moq), multiple |-> Number(part.multiple), lead |-> ArrowLead(part)])

ArrowEnrich(blocks, name, maker) ==
  ForEach(ArrowSelected(ArrowParts(blocks), name, maker), ArrowAnswer)

ArrowQuotes(blocks, name, maker, quantity) ==
  ForEach(ArrowSelected(ArrowParts(blocks), name, maker), LAMBDA p : ArrowQuote(p, quantity))

-----------------------------------------------------------------------------
(* DigiKey: the product found by keyword is asked for by DigiKey's own     *)
(* number; negative numbers are taken, and a first stock field of zero     *)
(* gives way to the second (`or`).                                         *)

DigiKeySelected(parts, name, maker) == FirstMatch(parts, name, maker)

ProductNumber(part) ==
  LET numbers == Where(part.numbers, Given)
  IN IF numbers = <<>> THEN Unreported ELSE numbers[1]

DigiKeyFound(parts, name, maker) ==
  LET selected == DigiKeySelected(parts, name, maker)
  IN IF selected # <<>> /\ Given(ProductNumber(selected[1])) THEN selected ELSE <<>>

DigiKeyBreaks(part) ==
  ForEach(Complete(ForEach(part.breaks, LAMBDA b : [b EXCEPT !.price = Number(@)])),
          LAMBDA b : [b EXCEPT !.to = Unreported])

DigiKeyStock(part) ==
  IF Given(part.stock[1]) /\ part.stock[1] # 0 THEN part.stock[1] ELSE part.stock[2]

DigiKeyAnswer(part) == AnswerOf(part.status, DigiKeyStock(part))

DigiKeyQuote(part, quantity) ==
  QuoteOf("digikey", part, QuotedPrice(DigiKeyBreaks(part), quantity, NoPrice),
          DigiKeyBreaks(part), DigiKeyStock(part),
          [moq |-> part.moq, multiple |-> part.multiple, lead |-> part.lead[1]])

DigiKeyEnrich(parts, name, maker) == ForEach(DigiKeyFound(parts, name, maker), DigiKeyAnswer)

DigiKeyQuotes(parts, name, maker, quantity) ==
  ForEach(DigiKeyFound(parts, name, maker), LAMBDA p : DigiKeyQuote(p, quantity))

=============================================================================

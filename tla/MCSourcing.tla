----------------------------- MODULE MCSourcing -----------------------------
(***************************************************************************)
(* A BOM of two lines, a single component, and the alternatives of a       *)
(* microcontroller, with and without an intelligence service, and of a     *)
(* part nothing is known of.                                               *)
(***************************************************************************)
EXTENDS Sourcing

Text(word, form) == [word |-> word, form |-> form]
Entry(name, category, package, maker) ==
  [name |-> name, category |-> category, package |-> package, maker |-> maker]

(* 2 and 3 can replace 1, 2 in spite of its spelling; the others fail a    *)
(* gate.                                                                   *)
MCCatalogue ==
  << Entry("n1", Text("mcu", 1), Text("qfp", 1), Text("A", 1)),
     Entry("n2", Text("mcu", 2), Text("qfp", 1), Text("A", 2)),
     Entry("n3", Text("arm mcu", 1), Text("bga", 1), Text("A", 1)),
     Entry("n4", Text("mcu", 1), Text("bga", 1), Text("A", 1)),
     Entry("n5", Text("resistor", 1), Text("qfp", 1), Text("A", 1)),
     Entry("n6", Unreported, Unreported, Unreported) >>
MCFamilies == {{"mcu", "arm mcu"}, {"resistor", "resistors"}}

MCRequests ==
  { [kind |-> "bom", lines |-> << [component |-> 1, quantity |-> 10],
                                  [component |-> 6, quantity |-> 4] >>],
    [kind |-> "component", lines |-> <<[component |-> 3, quantity |-> 60]>>],
    [kind |-> "lifecycle", lines |-> <<[component |-> 3, quantity |-> 1]>>],
    [kind |-> "alternatives", source |-> 1, limit |-> 1, service |-> TRUE, persist |-> FALSE],
    [kind |-> "alternatives", source |-> 1, limit |-> 10, service |-> FALSE, persist |-> TRUE],
    [kind |-> "alternatives", source |-> 6, limit |-> 10, service |-> TRUE, persist |-> FALSE] }

Break(from, to, price, currency) == [from |-> from, to |-> to, price |-> price, currency |-> currency]
Part(status, stock, breaks, price, moq, multiple, lead) ==
  [ status |-> status, stock |-> stock, breaks |-> breaks, price |-> price,
    currency |-> Unreported, moq |-> moq, multiple |-> multiple, lead |-> lead,
    name |-> "n0", maker |-> "A", numbers |-> <<Unreported, "dk">> ]

(* The same part under every name, after one of another maker.             *)
Listed(part) ==
  << [part EXCEPT !.name = "n1", !.maker = "other", !.stock = <<1, 1>>] >>
    \o [c \in DOMAIN MCCatalogue |->
          [part EXCEPT !.name = "n" \o ToString(c)]]

Blocks(part) == << <<>>, Listed(part) >>

MCListings ==
  [ mouser |-> {
      Listed(Part("ACTIVE", <<1000>>, <<Break(1, Unreported, 10, "USD"),
                                        Break(10, 10, 8, "USD")>>, Unreported, 1, 1, <<1>>)),
      Listed(Part("NRND", <<50>>, <<>>, 0, -1, Unreported, <<Unreported>>)) },
    arrow |-> {
      Blocks(Part("OBSOLETE", <<3, Unreported, 9>>, <<Break(1, 9, 9, "USD"), Break(10, 99, 7, "USD"),
                  Break(Unreported, 9, 1, "USD")>>, Unreported, 5, 5, <<0, Unreported>>)) },
    digikey |-> {
      Listed(Part("END OF LIFE", <<40, Unreported>>, <<Break(100, Unreported, 5, "EUR")>>,
                  Unreported, 0, 4, <<2>>)),
      Listed(Part("ACTIVE", <<0, Unreported>>, <<>>, 7, Unreported, 10, <<Unreported>>)),
      Listed(Part("DISCONTINUED", <<Unreported, 3>>, <<>>, 7, Unreported, 1, <<Unreported>>)) } ]

=============================================================================

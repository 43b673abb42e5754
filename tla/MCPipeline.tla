----------------------------- MODULE MCPipeline -----------------------------
(***************************************************************************)
(* Files of up to two rows under layouts of columns that are accepted,     *)
(* ambiguous, missing, or found by one detector and not the other; and     *)
(* files that are refused unread.                                          *)
(***************************************************************************)
EXTENDS Pipeline

MCWords ==
  [ mpn |-> <<"mpn">>, partNo |-> <<"part", "number">>, ourPart |-> <<"our", "part", "number">>,
    maker |-> <<"manufacturer">>, partType |-> <<"part", "type">>,
    qty |-> <<"qty">>, orderQty |-> <<"order", "qty">>, refs |-> <<"refdes">>,
    ref |-> <<"reference">>, boardRef |-> <<"board", "refdes">>, product |-> <<"product">>, notes |-> <<"notes">> ]

MCLayouts ==
  { <<"mpn", "maker", "qty", "refs">>, <<"qty", "product", "partNo", "notes">>,
    <<"ourPart", "qty">>, <<"mpn", "partNo", "qty">>, <<"partType", "qty", "mpn">>,
    <<"mpn", "orderQty">>, <<"maker", "qty">>, <<"mpn", "ref", "qty", "refs">>,
    <<"mpn", "qty", "boardRef">> }

Cell(text, number, parts) == [text |-> text, number |-> number, parts |-> parts]
Text(text) == Cell(text, Unreported, <<text>>)

(* A row: its part number, its quantity, its references, its maker.        *)
MCRows ==
  { <<"p", 2, <<"R1", "R2">>, "">>, <<"p", 3, <<"R2", "R3", "R3">>, "M">>,
    <<"q", 1, <<>>, "N">>, <<"", 4, <<"R4">>, "M">>, <<"q", Unreported, <<>>, "M">> }

CellIn(header, row) ==
  CASE header \in {"mpn", "ourPart"} -> Text(row[1])
    [] header = "partNo" -> Text(IF row[1] = "p" THEN "q" ELSE row[1])
    [] header \in {"qty", "orderQty"} -> Cell("number", row[2], <<>>)
    [] header = "refs" -> IF row[3] = <<>> THEN Empty ELSE Cell("refs", Unreported, row[3])
    [] header \in {"ref", "boardRef"} -> Cell("refs", Unreported, <<"R5">>)
    [] header = "maker" -> Text(row[4])
    [] header = "product" -> Text(IF row[1] = "q" THEN "board" ELSE "")
    [] OTHER -> Empty

Upload(format, layout, rows) ==
  [ format |-> format, size |-> "fits", damaged |-> FALSE, headers |-> layout,
    rows |-> [i \in DOMAIN rows |-> [h \in ToSet(layout) |-> CellIn(h, rows[i])]],
    product |-> Unreported, revision |-> Unreported,
    named |-> [given |-> TRUE, product |-> "file", revision |-> Unreported] ]

Plain == Upload(".csv", <<"mpn", "qty">>, <<>>)

MCRowLists == {<<>>} \cup {<<r>> : r \in MCRows} \cup {<<r, s>> : r, s \in MCRows}

MCFiles ==
  {Upload(".csv", layout, rows) : layout \in MCLayouts, rows \in MCRowLists}
  \cup {Upload(".xml", layout, rows) :
          layout \in {l \in MCLayouts : "refs" \in Range(l)}, rows \in MCRowLists}
  \cup { [Plain EXCEPT !.named.given = FALSE], [Plain EXCEPT !.format = ".pdf"],
         [Plain EXCEPT !.size = "too large"], [Plain EXCEPT !.size = "empty"],
         [Plain EXCEPT !.damaged = TRUE] }

(* Files of one part, in which a component may lack an element.            *)
MCRowsOfPart ==
  {<<"p", 2, <<>>, "M">>, <<"p", 3, <<"R1">>, "">>, <<"p", 1, <<"R1", "R2">>, "M">>}
MCXmlFiles ==
  {Upload(".xml", <<"mpn", "maker", "qty", "refs">>, <<r, s>>) : r, s \in MCRowsOfPart}

=============================================================================

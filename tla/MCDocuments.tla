---------------------------- MODULE MCDocuments ----------------------------
(***************************************************************************)
(* Two processes that may start with different dimensions, three uploads   *)
(* of two documents, one of them twice under different names, and a query. *)
(***************************************************************************)
EXTENDS Documents

CONSTANTS p1, p2

MCProcesses == {p1, p2}
MCSymmetry == Permutations(MCProcesses)

MCUploads == {"u1", "u2", "u3"}
MCContent == [u \in MCUploads |-> IF u = "u3" THEN "short" ELSE "long"]
MCFileName == [u \in MCUploads |-> IF u = "u2" THEN "copy.pdf" ELSE "part.pdf"]

Ink(n) == [i \in 1..n |-> "ink"]
Blank(n) == [i \in 1..n |-> "blank"]

(* Windows of three characters that overlap by one: a page of three        *)
(* windows, an empty page, and one whose middle window is blank.           *)
MCPages ==
  [doc \in {"long", "short"} |->
     IF doc = "short" THEN <<Blank(1) \o Ink(3)>>
     ELSE <<Ink(6), Blank(2), Ink(2) \o Blank(4) \o Ink(1)>>]

MCQueries == {"q1"}
Known == {"long", "short"} \X (0..4)

(* The nearest chunks are nearly equal, so that coverage decides.          *)
MCSimilarity == [q \in MCQueries |-> [c \in Known |->
  IF c[1] = "short" THEN 6 ELSE <<10, 9, 9, -1, 3>>[c[2] + 1]]]
MCCoverage == [q \in MCQueries |-> [c \in Known |->
  IF c[1] = "short" THEN 10 ELSE <<9, 0, 1, 10, 5>>[c[2] + 1]]]

=============================================================================

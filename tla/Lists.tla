------------------------------- MODULE Lists -------------------------------
(***************************************************************************)
(* Python's lists as the services use them: the elements of a set or of a  *)
(* list in some order, and those that pass a test.  Defined by the place   *)
(* of each element, so that what the operators return can be proved.       *)
(***************************************************************************)
EXTENDS Integers, Sequences, FiniteSets

(* A list, whatever its elements are.                                      *)
IsList(s) == Len(s) \in Nat /\ s = [i \in 1..Len(s) |-> s[i]]

(* How many elements of S come before x; `before` is a set of pairs.       *)
Place(x, S, before) == Cardinality({y \in S : <<y, x>> \in before})

(* The finite set S as a list, in the strict total order `before`.         *)
InOrder(S, before) ==
  [n \in 1..Cardinality(S) |-> CHOOSE x \in S : Place(x, S, before) = n - 1]

Ascending == {p \in Int \X Int : p[1] < p[2]}

(* The lists of a list, one after another.                                 *)
Lexicographic ==
  {p \in (Int \X Int) \X (Int \X Int) :
     p[1][1] < p[2][1] \/ (p[1][1] = p[2][1] /\ p[1][2] < p[2][2])}

Flattened(lists) ==
  LET order == InOrder(UNION {{i} \X (DOMAIN lists[i]) : i \in DOMAIN lists}, Lexicographic)
  IN [n \in DOMAIN order |-> lists[order[n][1]][order[n][2]]]

(* The elements at some of the indices of a list, in the list's order.     *)
AtIndices(list, kept) ==
  LET order == InOrder(kept, Ascending)
  IN [n \in DOMAIN order |-> list[order[n]]]

Where(list, Test(_)) == AtIndices(list, {i \in DOMAIN list : Test(list[i])})

(* sorted(list, key, reverse=True): the largest key first, and elements of *)
(* equal keys as they were; key is a list beside it.                       *)
Earlier(key) ==
  {p \in (DOMAIN key) \X (DOMAIN key) :
     key[p[1]] > key[p[2]] \/ (key[p[1]] = key[p[2]] /\ p[1] < p[2])}

ByKey(list, key) ==
  LET order == InOrder(DOMAIN list, Earlier(key))
  IN [n \in DOMAIN order |-> list[order[n]]]

(* The sum of a list of numbers.                                           *)
Total(numbers) ==
  LET upTo[n \in 0..Len(numbers)] == IF n = 0 THEN 0 ELSE upTo[n - 1] + numbers[n]
  IN upTo[Len(numbers)]

(* The first elements of a list, at most n.                                *)
FirstOf(list, n) == [i \in 1..(IF Len(list) < n THEN Len(list) ELSE n) |-> list[i]]

=============================================================================

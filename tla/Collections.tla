----------------------------- MODULE Collections -----------------------------
(***************************************************************************)
(* Operations of the collections the components keep: a set in order, as   *)
(* a BTreeMap or BTreeSet iterates, the items of a list that retain or     *)
(* filter leaves, and the insertion into a map.  SortSeq, SelectSeq, :>    *)
(* and @@ say the same to TLC, but have no definition the provers can      *)
(* expand.                                                                 *)
(***************************************************************************)
EXTENDS Integers, Sequences, FiniteSets

\* How many numbers of S are not above t.
PlaceOf(S, t) == Cardinality({u \in S : u <= t})

InOrder(S) == [n \in 1 .. Cardinality(S) |-> CHOOSE t \in S : PlaceOf(S, t) = n]

\* A set by an order, the pairs of which the first does not come later.
InOrderBy(S, order) ==
  [n \in 1 .. Cardinality(S) |-> CHOOSE t \in S : Cardinality({u \in S : <<u, t>> \in order}) = n]

\* The items of a list at the places of S, in their order.
Picked(list, S) ==
  LET places == InOrder(S) IN [n \in 1 .. Len(places) |-> list[places[n]]]

Insert(map, key, value) ==
  [k \in DOMAIN map \cup {key} |-> IF k = key THEN value ELSE map[k]]
=============================================================================

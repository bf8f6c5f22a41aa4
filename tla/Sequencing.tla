----------------------------- MODULE Sequencing -----------------------------
(***************************************************************************)
(* Erasing from an ordered container: what is left of a sequence when only *)
(* some of its places are kept.  The n-th of them is the one that has n of *)
(* them up to itself.                                                      *)
(***************************************************************************)
EXTENDS Integers, Sequences, FiniteSets

Rank(places, i) == Cardinality({j \in places : j <= i})

Keep(q, places) ==
  [n \in 1..Cardinality(places) |-> q[CHOOSE i \in places : Rank(places, i) = n]]
=============================================================================

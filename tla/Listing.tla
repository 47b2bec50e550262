-------------------------------- MODULE Listing --------------------------------
(***************************************************************************)
(* What the views are made of: the elements of a set in an order, and what *)
(* of a list has some positions.                                           *)
(***************************************************************************)
EXTENDS Integers, Sequences, FiniteSets

\* The elements of S, each after those that R, a set of pairs, puts before it.
InOrder(S, R) ==
  [k \in 1..Cardinality(S) |-> CHOOSE x \in S : Cardinality({y \in S : <<y, x>> \in R}) = k - 1]

Ascending(S) == InOrder(S, {pair \in S \X S : pair[1] < pair[2]})

\* The elements of s at the positions in K, in their order.
Thinned(s, K) == LET at == Ascending(K) IN [k \in DOMAIN at |-> s[at[k]]]

\* f, computed once by TLC.
Table(f) == CHOOSE g \in {f} : g = f
================================================================================

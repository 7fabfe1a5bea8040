------------------------------- MODULE Lists -------------------------------
(***************************************************************************)
(* What Array.prototype.filter makes of a list. It is defined by the       *)
(* positions that are kept, and not with SelectSeq, because the            *)
(* definition of that operator is not one that can be reasoned about.      *)
(***************************************************************************)
EXTENDS Integers, Sequences, FiniteSets

\* The k-th of a finite set of numbers, in ascending order.
Nth(S, k) == CHOOSE i \in S : Cardinality({j \in S : j <= i}) = k

\* The entries of a list that are members of S, in their order.
Filter(list, S) ==
  LET kept == {i \in DOMAIN list : list[i] \in S} IN
  [k \in 1..Cardinality(kept) |-> list[Nth(kept, k)]]
=============================================================================

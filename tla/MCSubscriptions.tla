--------------------------- MODULE MCSubscriptions ---------------------------
(***************************************************************************)
(* A small instance of Subscriptions: two subscriptions, two tasks.      *)
(***************************************************************************)
EXTENDS Subscriptions, TLC

Symmetry == Permutations(Calls) \cup Permutations(Ids) \cup Permutations(RpcIds)
==============================================================================

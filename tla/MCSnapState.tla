----------------------------- MODULE MCSnapState -----------------------------
(***************************************************************************)
(* A small instance of SnapState: two update calls in flight, three paths  *)
(* (one of them legacy), one value.                                        *)
(***************************************************************************)
EXTENDS SnapState, TLC

CONSTANTS account, subscription, asset

MCKeys == {account, subscription, asset}
MCLegacyKeys == {asset}
Symmetry == Permutations(Calls)
              \cup Permutations({account, subscription})
==============================================================================

------------------------------ MODULE MCSendFlow -------------------------------
(* An instance of SendFlow for TLC. *)
EXTENDS SendFlow, TLC

MCSymmetry == Permutations(Jobs) \cup Permutations(Builds)
================================================================================

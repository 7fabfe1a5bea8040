-------------------------- MODULE MCKeyringAccounts --------------------------
(***************************************************************************)
(* Small instances of KeyringAccounts.                                     *)
(***************************************************************************)
EXTENDS KeyringAccounts, TLC

Symmetry == Permutations(Ids) \cup Permutations(OtherSlices)
==============================================================================

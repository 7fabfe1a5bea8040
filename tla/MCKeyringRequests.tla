--------------------------- MODULE MCKeyringRequests ---------------------------
EXTENDS KeyringRequests, TLC

\* Everything on, and what is scanned once but not refreshed.
MCPreferences == {{"simulation", "validation"}, {"validation"}}

MCSymmetry == Permutations(Requests)
================================================================================

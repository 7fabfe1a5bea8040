--------------------------- MODULE MCAccountData ----------------------------
EXTENDS AccountData, TLC
CONSTANTS solA, tokA, tokB

MCAssets == {solA, tokA, tokB}
\* Two accounts hold tokens of one mint.
MCOwner == (solA :> 1) @@ (tokA :> 1) @@ (tokB :> 2)
MCMint == (solA :> 1) @@ (tokA :> 2) @@ (tokB :> 2)
\* Transfers of either asset, one between the accounts, an airdrop with a little SOL.
MCShapes == {{tokA}, {solA}, {tokA, tokB}, {solA, tokA}}
MCSpam == {{solA, tokA}}

Symmetry == Permutations(Calls)
=============================================================================

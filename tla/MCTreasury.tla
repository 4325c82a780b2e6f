---------------------------- MODULE MCTreasury ------------------------------
(* Treasury for TLC.                                                       *)
EXTENDS Treasury, TLC

CONSTANTS sella, brom

MCOrders == {<<sella, brom>>}

Symmetry == Permutations(Requests)
=============================================================================

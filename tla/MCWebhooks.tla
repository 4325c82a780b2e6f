----------------------------- MODULE MCWebhooks -----------------------------
(* Webhooks for TLC: a person's hook, which hears every table she sits at, *)
(* and the channel of one of the tables.                                   *)
EXTENDS Webhooks, TLC

CONSTANTS alice, tavern, castle, hers, channel, d1, d2, d3, e1, e2

MCOwner == [h \in Hooks |-> IF h = channel THEN tavern ELSE alice]
MCAt == [h \in Hooks |-> IF h = channel THEN tavern ELSE None]
MCTableOf == [e \in Events |-> IF e = e1 THEN tavern ELSE castle]
MCWants == {<<h, e>> \in Hooks \X Events : h = channel => e = e1}

Symmetry == Permutations(Deliveries)
=============================================================================

------------------------------ MODULE MCSeats ------------------------------
(* Seats for TLC: each table has a founder of its own, or all have one.    *)
EXTENDS Seats, TLC

FirstFounds == [t \in Tables |-> CHOOSE u \in Users : TRUE]

Symmetry ==
    Permutations(Heroes) \cup Permutations({u \in Users : \A t \in Tables : FirstFounds[t] # u})
=============================================================================

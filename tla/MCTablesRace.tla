---------------------------- MODULE MCTablesRace ----------------------------
(* TablesRace for TLC: the operations that each run lets race.             *)
EXTENDS TablesRace, TLC

NoHandover == Operations \ {"transfer"}

Symmetry == Permutations(Users) \cup Permutations(Realms)
=============================================================================

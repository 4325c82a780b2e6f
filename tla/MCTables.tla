------------------------------ MODULE MCTables ------------------------------
(* Tables for TLC. Its run checks liveness, so no symmetry is declared.    *)
EXTENDS Tables, TLC
=============================================================================

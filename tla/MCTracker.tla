----------------------------- MODULE MCTracker -----------------------------
(* Tracker for TLC: hit points below, at and above 0, and a pair a level apart. *)
EXTENDS Tracker, TLC
MCPoints == {[cur |-> -1, max |-> 0], [cur |-> 0, max |-> 1], [cur |-> 1, max |-> 1]}
MCGrown == {[cur |-> 0, max |-> 1], [cur |-> 1, max |-> 1], [cur |-> 1, max |-> 2]}
Symmetry == Permutations(Rows) \cup Permutations(Encounters)
============================================================================

------------------------------- MODULE MCEntry -------------------------------
(* A small instance of Entry: one issue, two runs, three deliveries of every *)
(* combination of kinds, in five requests, two handlers at a time.           *)
EXTENDS Entry, TLC

CONSTANT i1

MCAbout == [d \in Deliveries |-> i1]
MCSymmetry == Permutations(Runs) \cup Permutations(Slots) \cup Permutations(Deliveries)
=============================================================================

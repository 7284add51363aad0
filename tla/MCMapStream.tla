---------------------------- MODULE MCMapStream ----------------------------
(* MapStream on small sets: vehicles of one kind are interchangeable. *)
EXTENDS MapStream, TLC

UamSymmetry == Permutations(Jamsil) \cup Permutations(Uam \ Jamsil)
=============================================================================

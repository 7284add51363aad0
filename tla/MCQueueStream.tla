--------------------------- MODULE MCQueueStream ---------------------------
(* An emergency that is far, and a vehicle at the vertiport that is none. *)
EXTENDS QueueStream, TLC

MCStatus == {[battery |-> 149, distance |-> 2000], [battery |-> 150, distance |-> 0]}
Symmetry == Permutations(Poll) \cup Permutations(Uam)
=============================================================================

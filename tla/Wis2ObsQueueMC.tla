--------------------------- MODULE Wis2ObsQueueMC ---------------------------
(* Two pool workers and the ticker share a queue of at most three.  The     *)
(* workers are interchangeable in every safety property.                    *)
EXTENDS Wis2ObsQueue, TLC

CONSTANTS w1, w2

Symmetry == Permutations({w1, w2})

=============================================================================

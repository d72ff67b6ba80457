---------------------------- MODULE JmaAdapterMC ----------------------------
(* Instances of JmaAdapter for TLC. *)
EXTENDS JmaAdapter

CONSTANTS a, b

\* a's spool file comes first in the directory, b is the more recent telegram.
MCRank == [i \in Items |-> IF i = a THEN 1 ELSE 2]

=============================================================================

----------------------------- MODULE NoaaFeedMC -----------------------------
(* Two alerts in chunks of one, so that a list of both is two transactions. *)
EXTENDS NoaaFeed, TLC

Symmetry == Permutations(Alerts) \cup Permutations(Handlers)

=============================================================================

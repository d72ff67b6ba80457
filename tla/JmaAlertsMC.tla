---------------------------- MODULE JmaAlertsMC ----------------------------
(* Instances of JmaAlerts for TLC.                                         *)
EXTENDS JmaAlerts, TLC

CONSTANTS a1, a2

Symmetry == Permutations({a1, a2})

=============================================================================

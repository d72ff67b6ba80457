--------------------------- MODULE EmscAdapterMC ---------------------------
(* EmscAdapter as TLC checks it: all of its constants are numbers.           *)
EXTENDS EmscAdapter

=============================================================================

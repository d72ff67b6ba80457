--------------------------- MODULE AlertStreamMC ---------------------------
(* One alert, which a handler of the adapter's posts and the expiry job     *)
(* both change, and one page that reads it.                                 *)
EXTENDS AlertStream

=============================================================================

--------------------------- MODULE GdacsAdapterMC ---------------------------
(***************************************************************************)
(* Two events and a tsunami. The geometry of the tsunami may never be      *)
(* answered, and the core cannot take it together with that of e2.         *)
(***************************************************************************)
EXTENDS GdacsAdapter

CONSTANTS e1, e2, t1

MCEvents == {e1, e2, t1}
MCQueryOf == [e \in MCEvents |-> IF e = t1 THEN "tsunami" ELSE "primary"]
MCRefused == {S \in SUBSET MCEvents : {e2, t1} \subseteq S}
MCRank == [e \in MCEvents |-> CASE e = e1 -> 1 [] e = e2 -> 2 [] e = t1 -> 3]
=============================================================================

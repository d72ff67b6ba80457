---------------------------- MODULE Wis2AdapterMC ---------------------------
(***************************************************************************)
(* Two copies of one warning under different notification ids, and a third *)
(* message; the first broker cannot be connected to.                       *)
(***************************************************************************)
EXTENDS Wis2Adapter, TLC

CONSTANTS n1, n2, n3, w1, w2

MCWorkers == {w1, w2}
WorkerSymmetry == Permutations(MCWorkers)

MCNotifications == {n1, n2, n3}
MCNotificationId == [n \in MCNotifications |-> n]
MCDataId == [n \in MCNotifications |-> IF n = n3 THEN NoId ELSE "data"]
MCKindsOf == [n \in MCNotifications |->
                IF n = n3 THEN Kinds ELSE {"warnings"}]
=============================================================================

---------------------------- MODULE CapAdapterMC ----------------------------
EXTENDS CapAdapter
CONSTANTS f1, f2, i1, i2, m1
\* Two documents that carry the same message.
MCMessageOf == [i \in Items |-> m1]
MCFirstList == [f \in Feeds |-> IF f = f1 THEN {i1} ELSE {i2}]
=============================================================================

------------------------- MODULE MCModelContextView -------------------------
(* The unit of work of one context on small sets.                          *)
EXTENDS ModelContextView, TLC

CONSTANTS c1, o1, o2, o3, v1, v2, Note, Tag

OneType == [o \in Obj |-> Note]
TwoTypes == [o \in Obj |-> IF o = o2 THEN Tag ELSE Note]
SameObjects == Permutations(Obj)
=============================================================================

--------------------------- MODULE MCModelContext ---------------------------
(* The unit of work on small sets: several contexts, any schema.           *)
EXTENDS ModelContext, TLC

CONSTANTS c1, c2, o1, o2, o3, v1, v2, Note, Tag

OneType == [o \in Obj |-> Note]
TwoTypes == [o \in Obj |-> IF o = o2 THEN Tag ELSE Note]

SameObjects == Permutations(Obj)
SameObjectsAndContexts == Permutations(Obj) \cup Permutations(Ctx)
=============================================================================

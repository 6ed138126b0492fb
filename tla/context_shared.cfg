\* Two contexts on one connection, every client behaviour, every host fault.
SPECIFICATION Spec
CONSTANTS
    c1 = c1  c2 = c2  o1 = o1  o2 = o2  o3 = o3  v1 = v1  v2 = v2
    Note = Note  Tag = Tag  Bad = Bad  None = None
    Ctx = {c1, c2}
    Type = {Note}
    Obj = {o1, o2}
    Val = {v1}
    TypeOf <- OneType
    MaxRowid = 2
    InMemory = FALSE
    Client = {"reinsert", "dirtyDelete"}
    Faults = {"rollback", "deleteAll"}
SYMMETRY SameObjectsAndContexts
INVARIANTS TypeOK RolesExclusive
PROPERTY SaveLeavesClean

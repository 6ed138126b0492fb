\* One context, any client, ROLLBACK may fail: the identity map, and the unit of work a careful program gets.
SPECIFICATION WatchedSpec
CONSTANTS
    c1 = c1  o1 = o1  o2 = o2  o3 = o3  v1 = v1  v2 = v2
    Note = Note  Tag = Tag  Bad = Bad  None = None
    Ctx = {c1}
    Type = {Note}
    Obj = {o1, o2, o3}
    Val = {v1, v2}
    TypeOf <- OneType
    MaxRowid = 2
    InMemory = FALSE
    Client = {"reinsert", "dirtyDelete"}
    Faults = {"rollback"}
SYMMETRY SameObjects
INVARIANTS IdentityUnique PersistedRowsExist SnapshotsMatchStore
 

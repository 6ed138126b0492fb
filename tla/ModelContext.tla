---------------------------- MODULE ModelContext ----------------------------
(***************************************************************************)
(* SwiftData's unit of work: the ModelContexts of one ModelContainer, the  *)
(* model objects a Swift program holds, and the SQLite database behind the *)
(* container's one connection (crates/tswift-swiftdata/src/model.rs).      *)
(*                                                                         *)
(* The interpreter is single-threaded, so each context method is one step: *)
(* nothing runs between the statements of a save.  What a test would       *)
(* hardly reach is the long sequence of legal calls, a host call that      *)
(* fails in the middle of one, and two contexts over the same rows.        *)
(***************************************************************************)
EXTENDS Naturals, Sequences

CONSTANTS
    Ctx,        \* the contexts of the container (its mainContext and others)
    Type,       \* the @Model classes of its schema, one table each
    Obj,        \* the pool of model objects (bounds how many ever exist)
    TypeOf,     \* the class of each object
    Val,        \* the column values a row can hold
    Bad,        \* a field value row_values cannot encode (nil, out of range)
    None,       \* no row, no object, no value
    MaxRowid,   \* the largest rowid SQLite hands out
    InMemory,   \* TRUE for ModelConfiguration(isStoredInMemoryOnly: true)
    Client,     \* what the Swift program may do, see ClientActs
    Faults      \* what the database host may do, see HostFaults

\* "reinsert": insert(_:) an object whose delete is pending;
\* "dirtyDelete": delete(_:) an object with unsaved edits, or edit one whose
\* delete is pending.
ClientActs == {"reinsert", "dirtyDelete"}

\* "rollback": tswift.db.rollback fails, leaving the transaction open;
\* "deleteAll": one of the DELETEs of deleteAllData() fails.
HostFaults == {"rollback", "deleteAll"}

ASSUME ConstantsOK ==
    /\ TypeOf \in [Obj -> Type]
    /\ MaxRowid \in Nat
    /\ InMemory \in BOOLEAN
    /\ Client \subseteq ClientActs
    /\ Faults \subseteq HostFaults

ASSUME SentinelsDiffer ==
    /\ Bad \notin Val
    /\ None \notin Val \cup Obj \cup Ctx \cup {Bad}

Rowid == 1..MaxRowid
Key == Type \X Rowid                \* a row: its table and its rowid
Table == [Key -> Val \cup {None}]
Contents == Val \cup {Bad}          \* what an object's fields can be

VARIABLES
    heap,      \* the fields of each object, None while it is not allocated
    rows,      \* the tables as the connection sees them
    durable,   \* the tables as last committed
    wedged,    \* the connection is stuck in a transaction it could not end
    inserted,  \* ContextState.inserted, in insertion order
    tracked,   \* ContextState.tracked: object, row, snapshot
    deleted,   \* ContextState.deleted: object, row
    identity,  \* ContextState.by_identity: the object that stands for a row
    block      \* the context whose transaction(_:) call is open

vars == <<heap, rows, durable, wedged, inserted, tracked, deleted, identity, block>>
ctxVars == <<inserted, tracked, deleted, identity>>
dbVars == <<rows, durable, wedged>>

EmptyTable == [k \in Key |-> None]
NoIdentity == [k \in Key |-> None]

Tracked == [obj : Obj, key : Key, snap : Val \cup {None}]
Deletion == [obj : Obj, key : Key]

\* The objects in each of a context's three change sets.
InsertedObjs(c) == {inserted[c][i] : i \in DOMAIN inserted[c]}
TrackedObjs(c) == {t.obj : t \in tracked[c]}
DeletedObjs(c) == {d.obj : d \in deleted[c]}
DeletedKeys(c) == {d.key : d \in deleted[c]}

Allocated(o) == heap[o] # None
Encodes(o) == heap[o] # Bad
Dirty(c) == {t \in tracked[c] : heap[t.obj] # t.snap}

\* flush's update plan visits every tracked object, and fails on the first
\* one that does not encode, before BEGIN.
PlanFails(c) == \E t \in tracked[c] : ~Encodes(t.obj)
Pending(c) == inserted[c] # <<>> \/ Dirty(c) # {} \/ deleted[c] # {}

\* ModelContext.hasChanges; a value that does not encode counts as clean.
HasChanges(c) ==
    \/ inserted[c] # <<>>
    \/ deleted[c] # {}
    \/ \E t \in Dirty(c) : Encodes(t.obj)

Init ==
    /\ heap = [o \in Obj |-> None]
    /\ rows = EmptyTable
    /\ durable = EmptyTable
    /\ wedged = FALSE
    /\ inserted = [c \in Ctx |-> <<>>]
    /\ tracked = [c \in Ctx |-> {}]
    /\ deleted = [c \in Ctx |-> {}]
    /\ identity = [c \in Ctx |-> NoIdentity]
    /\ block = None
-----------------------------------------------------------------------------
(* The Swift program: it makes model objects and assigns their fields.     *)

Create(o, v) ==
    /\ ~Allocated(o)
    /\ heap' = [heap EXCEPT ![o] = v]
    /\ UNCHANGED <<ctxVars, dbVars, block>>

Edit(o, v) ==
    /\ Allocated(o)
    /\ heap[o] # v
    /\ (\E c \in Ctx : o \in DeletedObjs(c)) => "dirtyDelete" \in Client
    /\ heap' = [heap EXCEPT ![o] = v]
    /\ UNCHANGED <<ctxVars, dbVars, block>>
-----------------------------------------------------------------------------
(* insert(_:) and delete(_:)                                               *)

\* The sequence s without o, which occurs in it once (Vec::retain).
Without(s, o) ==
    LET i == CHOOSE i \in DOMAIN s : s[i] = o
    IN  [j \in 1..(Len(s) - 1) |-> IF j < i THEN s[j] ELSE s[j + 1]]

\* Mutant: insert(_:) looks for the object in the insert queue only.
KnownIfQueued(c) == InsertedObjs(c)

\* `known` looks in the inserted and the tracked set only: an object whose
\* delete is pending leaves the delete set and is queued as a new insert.
Known(c) == InsertedObjs(c) \cup TrackedObjs(c)

Insert(c, o) ==
    /\ Allocated(o)
    /\ o \in DeletedObjs(c) => "reinsert" \in Client
    /\ deleted' = [deleted EXCEPT ![c] = {d \in @ : d.obj # o}]
    /\ inserted' = IF o \in Known(c)
                   THEN inserted
                   ELSE [inserted EXCEPT ![c] = Append(@, o)]
    /\ UNCHANGED <<heap, tracked, identity, dbVars, block>>

DropInsert(c, o) ==
    /\ o \in InsertedObjs(c)
    /\ inserted' = [inserted EXCEPT ![c] = Without(@, o)]
    /\ UNCHANGED <<tracked, deleted>>

MarkDeleted(c, o) ==
    /\ o \notin InsertedObjs(c)
    /\ \E t \in tracked[c] :
          /\ t.obj = o
          /\ heap[o] # t.snap => "dirtyDelete" \in Client
          /\ tracked' = [tracked EXCEPT ![c] = @ \ {t}]
          /\ deleted' = [deleted EXCEPT ![c] =
                            IF o \in DeletedObjs(c) THEN @
                            ELSE @ \cup {[obj |-> o, key |-> t.key]}]
    /\ UNCHANGED inserted

\* An object the context does not know is ignored (no step).
Delete(c, o) ==
    /\ DropInsert(c, o) \/ MarkDeleted(c, o)
    /\ UNCHANGED <<heap, identity, dbVars, block>>
-----------------------------------------------------------------------------
(* save()                                                                  *)

\* Mutant: the DELETEs of a flush run before its INSERTs.
StoredBesidesDeleted(c, type) ==
    {r \in Rowid : rows[<<type, r>>] # None /\ <<type, r>> \notin DeletedKeys(c)}

\* The rowids in the table when the INSERTs of a flush run, before its DELETEs.
StoredRowids(c, type) == {r \in Rowid : rows[<<type, r>>] # None}

\* SQLite picks one more than the largest rowid the table holds, statement
\* after statement: ids[i] is the rowid of the i-th pending insert.
TakenBy(c, ids, i) ==
    LET type == TypeOf[inserted[c][i]]
    IN  StoredRowids(c, type)
          \cup {ids[j] : j \in {k \in 1..(i - 1) : TypeOf[inserted[c][k]] = type}}

Rowids(c) ==
    {ids \in [DOMAIN inserted[c] -> Rowid] :
        \A i \in DOMAIN inserted[c] :
            LET taken == TakenBy(c, ids, i)
            IN  /\ \A r \in taken : r < ids[i]
                /\ ids[i] = 1 \/ ids[i] - 1 \in taken}

NewKey(c, ids, i) == <<TypeOf[inserted[c][i]], ids[i]>>

\* The UPDATEs of ups: the entry whose statement runs last on each row.
LastWriters(ups) ==
    {w \in [{t.key : t \in ups} -> ups] : \A k \in DOMAIN w : w[k].key = k}

\* The tables once the first n INSERTs, the UPDATEs w and the DELETEs dels
\* of a flush have run, in that order.  An UPDATE or a DELETE of a row that
\* is gone touches nothing, and is not an error.
Flushed(c, ids, n, w, dels) ==
    LET new(k) == {i \in 1..n : NewKey(c, ids, i) = k}
        present(k) == rows[k] # None \/ new(k) # {}
    IN  [k \in Key |->
            IF k \in {d.key : d \in dels} \/ ~present(k) THEN None
            ELSE IF k \in DOMAIN w THEN heap[w[k].obj]
            ELSE IF new(k) # {} THEN heap[inserted[c][CHOOSE i \in new(k) : TRUE]]
            ELSE rows[k]]

\* Mutant: the snapshots of updated rows are not refreshed.
SnapshotsKept(c) == tracked[c]

\* The tracked set once the snapshots of the updated rows follow the values
\* written (the other snapshots equal their object's values already).
Refreshed(c) == {[t EXCEPT !.snap = heap[t.obj]] : t \in tracked[c]}

\* Mutant: the delete set survives the commit.
DeletesKept(c) == deleted[c]

\* Every pending delete has been executed.
DeletesLeft(c) == {}

\* apply_after_commit: snapshots follow the values written, inserts become
\* tracked under their rowids, deleted objects leave the identity map.
ApplyAfterCommit(c, ids) ==
    LET new == {[obj |-> inserted[c][i], key |-> NewKey(c, ids, i),
                 snap |-> heap[inserted[c][i]]] : i \in DOMAIN inserted[c]}
    IN  /\ tracked' = [tracked EXCEPT ![c] = Refreshed(c) \cup new]
        /\ inserted' = [inserted EXCEPT ![c] = <<>>]
        /\ deleted' = [deleted EXCEPT ![c] = DeletesLeft(c)]
        /\ identity' = [identity EXCEPT ![c] = [k \in Key |->
              IF k \in DeletedKeys(c) THEN None
              ELSE IF \E t \in new : t.key = k THEN (CHOOSE t \in new : t.key = k).obj
              ELSE @[k]]]

SaveCommits(c) ==
    /\ ~PlanFails(c) /\ Pending(c) /\ ~wedged
    /\ \A o \in InsertedObjs(c) : Encodes(o)
    /\ \E ids \in Rowids(c), w \in LastWriters(Dirty(c)) :
          /\ rows' = Flushed(c, ids, Len(inserted[c]), w, deleted[c])
          /\ durable' = rows'
          /\ ApplyAfterCommit(c, ids)
    /\ UNCHANGED <<heap, wedged>>

\* Mutant: a flush takes the insert queue and does not put it back on error.
FailedSaveDropsInserts(c) ==
    /\ inserted' = [inserted EXCEPT ![c] = <<>>]
    /\ UNCHANGED <<heap, tracked, deleted, identity, dbVars>>

\* Nothing pending; or the plan, BEGIN, a statement or COMMIT fails and the
\* transaction, if one was begun, is rolled back: nothing changes.
SaveChangesNothing(c) ==
    UNCHANGED <<heap, ctxVars, dbVars>>

\* A statement or COMMIT fails and then ROLLBACK does too (its error is
\* dropped): the statements that ran stay in the open transaction, and every
\* later BEGIN on the connection is refused.
SaveWedges(c) ==
    /\ "rollback" \in Faults
    /\ ~PlanFails(c) /\ Pending(c) /\ ~wedged
    /\ \E ids \in Rowids(c), n \in 0..Len(inserted[c]) :
       \E ups \in SUBSET Dirty(c), dels \in SUBSET deleted[c] :
       \E w \in LastWriters(ups) :
          /\ \A i \in 1..n : Encodes(inserted[c][i])
          /\ n < Len(inserted[c]) => ups = {} /\ dels = {}
          /\ ups # Dirty(c) => dels = {}
          /\ rows' = Flushed(c, ids, n, w, dels)
    /\ wedged' = TRUE
    /\ UNCHANGED <<heap, durable, ctxVars>>

SaveBody(c) == SaveCommits(c) \/ SaveChangesNothing(c) \/ SaveWedges(c)
Save(c) == SaveBody(c) /\ UNCHANGED block
-----------------------------------------------------------------------------
(* rollback() and transaction(_:)                                          *)

\* Mutant: a value that does not encode is taken into the snapshot.
SnapshotUnchecked(o) == heap[o]

\* The snapshot of an object's fields, empty when they do not encode.
SnapshotNow(o) == IF Encodes(o) THEN heap[o] ELSE None

\* Pending deletes return to the tracked set with a snapshot taken now, then
\* every tracked object is set back to its snapshot.
RollbackBody(c) ==
    LET back == {[obj |-> d.obj, key |-> d.key,
                  snap |-> SnapshotNow(d.obj)] : d \in deleted[c]}
        kept == tracked[c] \cup back
        snapOf(o) == {t.snap : t \in {u \in kept : u.obj = o}} \ {None}
    IN  /\ inserted' = [inserted EXCEPT ![c] = <<>>]
        /\ deleted' = [deleted EXCEPT ![c] = {}]
        /\ tracked' = [tracked EXCEPT ![c] = kept]
        /\ identity' = [identity EXCEPT ![c] = [k \in Key |->
              IF k \in DeletedKeys(c) THEN (CHOOSE d \in deleted[c] : d.key = k).obj
              ELSE @[k]]]
        /\ heap' = [o \in Obj |-> IF snapOf(o) = {} THEN heap[o]
                                  ELSE CHOOSE v \in snapOf(o) : TRUE]
        /\ UNCHANGED dbVars

Rollback(c) == RollbackBody(c) /\ UNCHANGED block

\* The block of a transaction(_:) call runs between these steps: it may use
\* any context, save included, and it may throw.
TransactionBegin(c) ==
    /\ block = None
    /\ block' = c
    /\ UNCHANGED <<heap, ctxVars, dbVars>>

TransactionReturns(c) ==
    /\ block = c
    /\ SaveBody(c)
    /\ block' = None

TransactionThrows(c) ==
    /\ block = c
    /\ RollbackBody(c)
    /\ block' = None
-----------------------------------------------------------------------------
(* fetch(_:) and fetchCount(_:)                                            *)

\* S is what the SELECT returns: any rows of the type, by predicate, order
\* and limit.  Rows pending delete are skipped, rows in the identity map are
\* answered by their object, the others become new tracked objects.
Fetch(c, type, S) ==
    LET missing == {k \in S : k \notin DeletedKeys(c) /\ identity[c][k] = None}
    IN  /\ S \subseteq {k \in Key : k[1] = type /\ rows[k] # None}
        /\ missing # {}
        /\ \E new \in [missing -> {o \in Obj : ~Allocated(o) /\ TypeOf[o] = type}] :
              /\ \A j, k \in missing : new[j] = new[k] => j = k
              /\ heap' = [o \in Obj |-> IF \E k \in missing : new[k] = o
                                        THEN rows[CHOOSE k \in missing : new[k] = o]
                                        ELSE heap[o]]
              /\ tracked' = [tracked EXCEPT ![c] = @ \cup
                    {[obj |-> new[k], key |-> k, snap |-> rows[k]] : k \in missing}]
              /\ identity' = [identity EXCEPT ![c] = [k \in Key |->
                    IF k \in missing THEN new[k] ELSE @[k]]]
        /\ UNCHANGED <<inserted, deleted, dbVars, block>>
-----------------------------------------------------------------------------
(* deleteAllData(), and the interpreter torn down and started again        *)

\* Each DELETE commits by itself, unless the connection is wedged.
ClearTables(types) ==
    /\ rows' = [k \in Key |-> IF k[1] \in types THEN None ELSE rows[k]]
    /\ durable' = IF wedged THEN durable ELSE rows'
    /\ UNCHANGED wedged

\* Mutant: only the pending changes are discarded.
ForgetQueuesOnly ==
    /\ inserted' = [c \in Ctx |-> <<>>]
    /\ deleted' = [c \in Ctx |-> {}]
    /\ UNCHANGED <<tracked, identity>>

\* Nothing pending, nothing tracked, an empty identity map, in every context.
ForgetContexts ==
    /\ inserted' = [c \in Ctx |-> <<>>]
    /\ tracked' = [c \in Ctx |-> {}]
    /\ deleted' = [c \in Ctx |-> {}]
    /\ identity' = [c \in Ctx |-> NoIdentity]

DeleteAllData ==
    /\ ClearTables(Type)
    /\ ForgetContexts
    /\ UNCHANGED <<heap, block>>

\* The error leaves before the tracking sets are reset.
DeleteAllDataFails(types) ==
    /\ "deleteAll" \in Faults
    /\ types # Type
    /\ ClearTables(types)
    /\ UNCHANGED <<heap, ctxVars, block>>

\* Teardown closes the handle, which ends an open transaction; the next
\* program opens the store again and starts with nothing tracked.
Restart ==
    /\ rows' = IF InMemory THEN EmptyTable ELSE durable
    /\ durable' = rows'
    /\ wedged' = FALSE
    /\ heap' = [o \in Obj |-> None]
    /\ block' = None
    /\ ForgetContexts
-----------------------------------------------------------------------------
Next ==
    \/ \E o \in Obj, v \in Contents : Create(o, v) \/ Edit(o, v)
    \/ \E c \in Ctx, o \in Obj : Insert(c, o) \/ Delete(c, o)
    \/ \E c \in Ctx : Save(c) \/ Rollback(c)
    \/ \E c \in Ctx : TransactionBegin(c) \/ TransactionReturns(c) \/ TransactionThrows(c)
    \/ \E c \in Ctx, type \in Type, S \in SUBSET Key : Fetch(c, type, S)
    \/ DeleteAllData
    \/ \E types \in SUBSET Type : DeleteAllDataFails(types)
    \/ Restart

Spec == Init /\ [][Next]_vars
-----------------------------------------------------------------------------
(* Properties                                                              *)

\* Every field of the native state has its type.
TypeOK ==
    /\ heap \in [Obj -> Contents \cup {None}]
    /\ rows \in Table
    /\ durable \in Table
    /\ wedged \in BOOLEAN
    /\ inserted \in [Ctx -> Seq(Obj)]
    /\ tracked \in [Ctx -> SUBSET Tracked]
    /\ deleted \in [Ctx -> SUBSET Deletion]
    /\ identity \in [Ctx -> [Key -> Obj \cup {None}]]
    /\ block \in Ctx \cup {None}

\* In one context an object is pending insert, tracked or pending delete,
\* one of them and once: no save writes one object twice, whatever sequence
\* of insert, delete, save, rollback and fetch came before.
RolesExclusive ==
    \A c \in Ctx :
        /\ InsertedObjs(c) \cap TrackedObjs(c) = {}
        /\ InsertedObjs(c) \cap DeletedObjs(c) = {}
        /\ TrackedObjs(c) \cap DeletedObjs(c) = {}
        /\ \A i, j \in DOMAIN inserted[c] : inserted[c][i] = inserted[c][j] => i = j
        /\ \A t, u \in tracked[c] : t.obj = u.obj => t = u
        /\ \A d, e \in deleted[c] : d.obj = e.obj => d = e

\* The entries of a context that name a row it believes to be in the store.
Persisted(c) == {<<t.obj, t.key>> : t \in tracked[c] \cup deleted[c]}

\* A container with one context: each row has at most one tracked or
\* pending-delete object, the one the identity map answers with, so a fetch
\* never makes a second instance of a row that an UPDATE or DELETE of this
\* context is addressed to.
IdentityUnique ==
    \A c \in Ctx : \A p \in Persisted(c) : identity[c][p[2]] = p[1]

\* A container with one context: the rows its UPDATEs and DELETEs will name,
\* and the rows the identity map knows, are in the store (SQLite reports
\* no error for a row that is not).
PersistedRowsExist ==
    ~wedged => \A c \in Ctx :
        /\ \A p \in Persisted(c) : rows[p[2]] # None
        /\ \A k \in Key : identity[c][k] # None => rows[k] # None

\* A save that commits leaves its context with nothing to save: repeating
\* it cannot write anything twice.
SaveLeavesClean == [][\A c \in Ctx : SaveCommits(c) => ~Pending(c)']_vars
=============================================================================

----------------------------- MODULE UnitOfWork -----------------------------
(***************************************************************************)
(* What a SwiftData context promises its user, free of snapshots, dirty    *)
(* checks and identity maps: a working copy of the tables next to the      *)
(* committed ones.  save() makes the two equal in one step, rollback()     *)
(* throws the working copy away, and a save that fails changes neither.    *)
(***************************************************************************)
CONSTANTS
    Key,      \* rows
    Obj,      \* objects that have no row yet
    Val,      \* what a row can hold
    Contents, \* what an object can hold, Val and more
    None

VARIABLES
    table,    \* the committed rows
    view,     \* the rows as this context's user sees them
    added     \* the values of the objects a save will insert

vars == <<table, view, added>>

Nothing == [o \in Obj |-> None]

Init ==
    /\ table = [k \in Key |-> None]
    /\ view = table
    /\ added = Nothing

Change(k, v) ==
    /\ view[k] # None
    /\ view' = [view EXCEPT ![k] = v]
    /\ UNCHANGED <<table, added>>

Remove(k) ==
    /\ view[k] # None
    /\ view' = [view EXCEPT ![k] = None]
    /\ UNCHANGED <<table, added>>

\* An object is queued, changed while it waits, or dropped again.
Queue(o, v) ==
    /\ added' = [added EXCEPT ![o] = v]
    /\ UNCHANGED <<table, view>>

Waiting == {o \in Obj : added[o] # None}

\* Each waiting object gets a row of its own that the table does not hold.
Commit ==
    /\ \E row \in [Waiting -> {k \in Key : table[k] = None}] :
          /\ \A o, p \in Waiting : row[o] = row[p] => o = p
          /\ table' = [k \in Key |->
                IF \E o \in Waiting : row[o] = k
                THEN added[CHOOSE o \in Waiting : row[o] = k]
                ELSE view[k]]
    /\ table' \in [Key -> Val \cup {None}]
    /\ view' = table'
    /\ added' = Nothing

Discard ==
    /\ view' = table
    /\ added' = Nothing
    /\ UNCHANGED table

Clear ==
    /\ table' = [k \in Key |-> None]
    /\ view' = table'
    /\ added' = Nothing

Next ==
    \/ \E k \in Key : Remove(k) \/ \E v \in Contents : Change(k, v)
    \/ \E o \in Obj, v \in Contents \cup {None} : Queue(o, v)
    \/ Commit
    \/ Discard
    \/ Clear

Spec == Init /\ [][Next]_vars
=============================================================================

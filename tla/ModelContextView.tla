------------------------- MODULE ModelContextView -------------------------
(***************************************************************************)
(* The unit of work a container with one context implements: what its user *)
(* sees is the committed tables, without the rows pending delete, with the *)
(* fields of the tracked objects in place of the rows they stand for.  It  *)
(* holds until the program does one of the things the snapshots do not     *)
(* survive (see Strays), or the host fails to roll back.                   *)
(***************************************************************************)
EXTENDS ModelContext

ASSUME OneContext == \E c \in Ctx : Ctx = {c}

VARIABLE careful   \* history: nothing of the kind has happened

Main == CHOOSE c \in Ctx : TRUE

\* An object pending delete is inserted or edited, one with unsaved edits is
\* deleted, or a ROLLBACK fails.
Strays ==
    \/ DeletedObjs(Main) \cap InsertedObjs(Main)' # {}
    \/ \E o \in DeletedObjs(Main) \cap DeletedObjs(Main)' : heap'[o] # heap[o]
    \/ \E t \in tracked[Main] : t.obj \in DeletedObjs(Main)' /\ heap[t.obj] # t.snap
    \/ wedged' /\ ~wedged

WatchedInit == Init /\ careful = TRUE
WatchedNext == Next /\ careful' = (careful /\ ~Strays)
WatchedSpec == WatchedInit /\ [][WatchedNext]_<<vars, careful>>
-----------------------------------------------------------------------------
\* Of a careful program every snapshot is what the store holds, so the dirty
\* check of a save finds every difference between an object and its row.
SnapshotsMatchStore ==
    careful => \A t \in tracked[Main] : rows[t.key] = t.snap

StandsFor(k) == {t \in tracked[Main] : t.key = k}

ViewOfRows ==
    [k \in Key |-> IF k \in DeletedKeys(Main) THEN None
                   ELSE IF StandsFor(k) = {} THEN rows[k]
                   ELSE heap[(CHOOSE t \in StandsFor(k) : TRUE).obj]]

WaitingInserts ==
    [o \in Obj |-> IF o \in InsertedObjs(Main) THEN heap[o] ELSE None]

Promise == INSTANCE UnitOfWork WITH
              table <- rows, view <- ViewOfRows, added <- WaitingInserts

\* Every step of a careful program is a step of the unit of work: save()
\* stores exactly the view its user had, at once, a save that fails keeps
\* every pending change for the next one, rollback() returns to the store.
ImplementsUnitOfWork ==
    Promise!Init /\ [][careful' => [Promise!Next]_(Promise!vars)]_<<vars, careful>>
=============================================================================

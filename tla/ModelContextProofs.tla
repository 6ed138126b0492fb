------------------------- MODULE ModelContextProofs -------------------------
(***************************************************************************)
(* The native state of the contexts is well typed, and no object ever has  *)
(* two roles in one context, for any sets of contexts, objects, rows and   *)
(* values, any client and any host failures.                               *)
(***************************************************************************)
EXTENDS ModelContext, TLAPS

USE ConstantsOK DEF ConstantsOK

-----------------------------------------------------------------------------
(* The insert queue as a sequence                                          *)

\* Appending an object that is not queued adds it to the queued objects and
\* keeps every object queued once.
LEMMA AppendQueue ==
    ASSUME NEW s \in Seq(Obj), NEW o \in Obj,
           \A i, j \in DOMAIN s : s[i] = s[j] => i = j,
           \A i \in DOMAIN s : s[i] # o
    PROVE  /\ Append(s, o) \in Seq(Obj)
           /\ \A i \in DOMAIN Append(s, o) :
                 Append(s, o)[i] = o \/ \E j \in DOMAIN s : s[j] = Append(s, o)[i]
           /\ \A i, j \in DOMAIN Append(s, o) :
                 Append(s, o)[i] = Append(s, o)[j] => i = j
<1>1. /\ DOMAIN s = 1..Len(s)
      /\ DOMAIN Append(s, o) = 1..(Len(s) + 1)
      /\ Len(s) \in Nat
  OBVIOUS
<1>2. \A i \in 1..(Len(s) + 1) :
         Append(s, o)[i] = IF i = Len(s) + 1 THEN o ELSE s[i]
  OBVIOUS
<1> QED BY <1>1, <1>2

\* Removing a queued object leaves the others, each queued once.
LEMMA WithoutQueue ==
    ASSUME NEW s \in Seq(Obj), NEW o \in Obj,
           \A i, j \in DOMAIN s : s[i] = s[j] => i = j,
           \E i \in DOMAIN s : s[i] = o
    PROVE  /\ Without(s, o) \in Seq(Obj)
           /\ \A i \in DOMAIN Without(s, o) :
                 /\ Without(s, o)[i] # o
                 /\ \E j \in DOMAIN s : s[j] = Without(s, o)[i]
           /\ \A i, j \in DOMAIN Without(s, o) :
                 Without(s, o)[i] = Without(s, o)[j] => i = j
<1> DEFINE p == CHOOSE i \in DOMAIN s : s[i] = o
           w == [j \in 1..(Len(s) - 1) |-> IF j < p THEN s[j] ELSE s[j + 1]]
<1>1. /\ DOMAIN s = 1..Len(s)
      /\ Len(s) \in Nat
      /\ \A i \in 1..Len(s) : s[i] \in Obj
  OBVIOUS
<1>2. p \in 1..Len(s) /\ s[p] = o
  BY <1>1
<1>3. Without(s, o) = w
  BY DEF Without
<1> HIDE DEF p
<1>4. /\ Len(s) - 1 \in Nat
      /\ DOMAIN w = 1..(Len(s) - 1)
      /\ \A j \in 1..(Len(s) - 1) :
            /\ w[j] = s[IF j < p THEN j ELSE j + 1]
            /\ (IF j < p THEN j ELSE j + 1) \in 1..Len(s)
            /\ (IF j < p THEN j ELSE j + 1) # p
  BY <1>1, <1>2
<1>5. w \in Seq(Obj)
  BY <1>1, <1>4
<1>6. \A j \in DOMAIN w : w[j] # o /\ \E k \in DOMAIN s : s[k] = w[j]
  BY <1>1, <1>2, <1>4
<1>7. \A i, j \in DOMAIN w : w[i] = w[j] => i = j
  <2> SUFFICES ASSUME NEW i \in 1..(Len(s) - 1), NEW j \in 1..(Len(s) - 1), w[i] = w[j]
               PROVE  i = j
    BY <1>4
  <2>1. (IF i < p THEN i ELSE i + 1) = (IF j < p THEN j ELSE j + 1)
    BY <1>1, <1>4
  <2> QED BY <2>1, <1>1, <1>2
<1> HIDE DEF w
<1> QED BY <1>3, <1>5, <1>6, <1>7
-----------------------------------------------------------------------------
(* Types and roles are preserved together: removing an object from the     *)
(* insert queue needs it to occur there once.                              *)

Sound == TypeOK /\ RolesExclusive

\* The roles of one context, for the steps that change only that context.
RolesOf(c) ==
    /\ InsertedObjs(c) \cap TrackedObjs(c) = {}
    /\ InsertedObjs(c) \cap DeletedObjs(c) = {}
    /\ TrackedObjs(c) \cap DeletedObjs(c) = {}
    /\ \A i, j \in DOMAIN inserted[c] : inserted[c][i] = inserted[c][j] => i = j
    /\ \A t, u \in tracked[c] : t.obj = u.obj => t = u
    /\ \A d, e \in deleted[c] : d.obj = e.obj => d = e

LEMMA SoundInit == Init => Sound
<1> SUFFICES ASSUME Init PROVE TypeOK /\ RolesExclusive
  BY DEF Sound
<1>1. EmptyTable \in Table /\ NoIdentity \in [Key -> Obj \cup {None}]
  BY DEF EmptyTable, Table, NoIdentity
<1>2. block \in Ctx \cup {None}
  BY DEF Init
<1>3. TypeOK
  <2>1. heap \in [Obj -> Contents \cup {None}] /\ wedged \in BOOLEAN
    BY DEF Init
  <2>2. /\ inserted \in [Ctx -> Seq(Obj)]
        /\ tracked \in [Ctx -> SUBSET Tracked]
        /\ deleted \in [Ctx -> SUBSET Deletion]
        /\ identity \in [Ctx -> [Key -> Obj \cup {None}]]
    BY <1>1 DEF Init
  <2> QED BY <1>1, <1>2, <2>1, <2>2 DEF Init, TypeOK
<1>4. RolesExclusive
  <2> SUFFICES ASSUME NEW c \in Ctx PROVE RolesOf(c)
    BY DEF RolesExclusive, RolesOf
  <2>1. inserted[c] = <<>> /\ tracked[c] = {} /\ deleted[c] = {}
    BY DEF Init
  <2>2. DOMAIN inserted[c] = {}
    BY <2>1
  <2> QED BY <2>1, <2>2 DEF RolesOf, InsertedObjs, TrackedObjs, DeletedObjs
<1> QED BY <1>3, <1>4

\* A step that leaves the queues of every context but c alone has only the
\* roles of c to preserve.
LEMMA OtherContexts ==
    ASSUME RolesExclusive, NEW c \in Ctx, RolesOf(c)',
           \A e \in Ctx \ {c} : /\ inserted'[e] = inserted[e]
                                /\ tracked'[e] = tracked[e]
                                /\ deleted'[e] = deleted[e]
    PROVE  RolesExclusive'
<1> SUFFICES ASSUME NEW e \in Ctx PROVE RolesOf(e)'
  BY DEF RolesExclusive, RolesOf
<1>1. CASE e = c
  BY <1>1
<1>2. CASE e # c
  <2>1. inserted'[e] = inserted[e] /\ tracked'[e] = tracked[e] /\ deleted'[e] = deleted[e]
    BY <1>2
  <2>2. /\ InsertedObjs(e)' = InsertedObjs(e)
        /\ TrackedObjs(e)' = TrackedObjs(e)
        /\ DeletedObjs(e)' = DeletedObjs(e)
    BY <2>1 DEF InsertedObjs, TrackedObjs, DeletedObjs
  <2>3. RolesOf(e)
    BY DEF RolesExclusive, RolesOf
  <2> QED BY <2>1, <2>2, <2>3 DEF RolesOf
<1> QED BY <1>1, <1>2

LEMMA SoundQuiet ==
    ASSUME Sound, UNCHANGED <<inserted, tracked, deleted>>
    PROVE  RolesExclusive'
<1>1. /\ inserted' = inserted /\ tracked' = tracked /\ deleted' = deleted
      /\ RolesExclusive
  BY DEF Sound
<1>2. \A c \in Ctx : /\ InsertedObjs(c)' = InsertedObjs(c)
                     /\ TrackedObjs(c)' = TrackedObjs(c)
                     /\ DeletedObjs(c)' = DeletedObjs(c)
  BY <1>1 DEF InsertedObjs, TrackedObjs, DeletedObjs
<1> QED BY <1>1, <1>2 DEF RolesExclusive

LEMMA SoundProgram ==
    ASSUME Sound, NEW o \in Obj, NEW v \in Contents, Create(o, v) \/ Edit(o, v)
    PROVE  Sound'
<1>1. UNCHANGED <<ctxVars, dbVars, block>> /\ heap' = [heap EXCEPT ![o] = v]
  BY DEF Create, Edit
<1>2. TypeOK'
  BY <1>1 DEF Sound, TypeOK, ctxVars, dbVars
<1>3. RolesExclusive'
  BY <1>1, SoundQuiet DEF ctxVars
<1> QED BY <1>2, <1>3 DEF Sound

LEMMA SoundInsert ==
    ASSUME Sound, NEW c \in Ctx, NEW o \in Obj, Insert(c, o)
    PROVE  Sound'
<1> USE DEF Sound
<1>1. /\ inserted \in [Ctx -> Seq(Obj)]
      /\ inserted[c] \in Seq(Obj)
      /\ tracked' = tracked
      /\ deleted \in [Ctx -> SUBSET Deletion]
      /\ deleted' = [deleted EXCEPT ![c] = {d \in deleted[c] : d.obj # o}]
  BY DEF Insert, TypeOK
<1>2. CASE o \in Known(c)
  <2>1. inserted' = inserted
    BY <1>2 DEF Insert
  <2>2. TypeOK'
    BY <1>1, <2>1 DEF Insert, TypeOK, dbVars
  <2>3. /\ deleted'[c] \subseteq deleted[c]
        /\ InsertedObjs(c)' = InsertedObjs(c)
        /\ TrackedObjs(c)' = TrackedObjs(c)
        /\ DeletedObjs(c)' \subseteq DeletedObjs(c)
    BY <1>1, <2>1 DEF InsertedObjs, TrackedObjs, DeletedObjs
  <2>4. RolesOf(c)'
    BY <1>1, <2>1, <2>3 DEF RolesExclusive, RolesOf
  <2> QED BY <1>1, <2>1, <2>2, <2>4, OtherContexts
<1>3. CASE o \notin Known(c)
  <2> DEFINE s == inserted[c]
  <2>1. inserted' = [inserted EXCEPT ![c] = Append(s, o)]
    BY <1>3 DEF Insert
  <2>2. /\ \A i, j \in DOMAIN s : s[i] = s[j] => i = j
        /\ \A i \in DOMAIN s : s[i] # o
        /\ o \notin TrackedObjs(c)
    BY <1>3 DEF Known, InsertedObjs, RolesExclusive
  <2>3. /\ Append(s, o) \in Seq(Obj)
        /\ \A i \in DOMAIN Append(s, o) :
              Append(s, o)[i] = o \/ \E j \in DOMAIN s : s[j] = Append(s, o)[i]
        /\ \A i, j \in DOMAIN Append(s, o) :
              Append(s, o)[i] = Append(s, o)[j] => i = j
    BY <1>1, <2>2, AppendQueue
  <2>4. TypeOK'
    BY <1>1, <2>1, <2>3 DEF Insert, TypeOK, dbVars
  <2>5. /\ inserted'[c] = Append(s, o)
        /\ InsertedObjs(c)' \subseteq InsertedObjs(c) \cup {o}
        /\ DeletedObjs(c)' \subseteq DeletedObjs(c) \ {o}
        /\ TrackedObjs(c)' = TrackedObjs(c)
    BY <1>1, <2>1, <2>3 DEF InsertedObjs, DeletedObjs, TrackedObjs
  <2>6. RolesOf(c)'
    BY <1>1, <2>2, <2>3, <2>5 DEF RolesExclusive, RolesOf
  <2> QED BY <1>1, <2>1, <2>4, <2>6, OtherContexts
<1> QED BY <1>2, <1>3

LEMMA SoundDelete ==
    ASSUME Sound, NEW c \in Ctx, NEW o \in Obj, Delete(c, o)
    PROVE  Sound'
<1> USE DEF Sound
<1>1. CASE DropInsert(c, o)
  <2> DEFINE s == inserted[c]
             w == Without(s, o)
  <2>1. /\ s \in Seq(Obj)
        /\ inserted' = [inserted EXCEPT ![c] = w]
        /\ UNCHANGED <<tracked, deleted>>
        /\ \E i \in DOMAIN s : s[i] = o
        /\ \A i, j \in DOMAIN s : s[i] = s[j] => i = j
    BY <1>1 DEF DropInsert, InsertedObjs, TypeOK, RolesExclusive
  <2> HIDE DEF w
  <2>2. /\ w \in Seq(Obj)
        /\ \A i \in DOMAIN w : w[i] # o /\ \E j \in DOMAIN s : s[j] = w[i]
        /\ \A i, j \in DOMAIN w : w[i] = w[j] => i = j
    BY <2>1, WithoutQueue DEF w
  <2>3. TypeOK'
    BY <2>1, <2>2 DEF Delete, TypeOK, dbVars
  <2>4. /\ inserted'[c] = w
        /\ InsertedObjs(c)' \subseteq InsertedObjs(c)
        /\ DeletedObjs(c)' = DeletedObjs(c)
        /\ TrackedObjs(c)' = TrackedObjs(c)
    BY <2>1, <2>2 DEF InsertedObjs, DeletedObjs, TrackedObjs, TypeOK
  <2>5. RolesOf(c)'
    BY <2>1, <2>2, <2>4 DEF RolesExclusive, RolesOf
  <2> QED BY <2>1, <2>3, <2>5, OtherContexts DEF TypeOK
<1>2. CASE MarkDeleted(c, o)
  <2>1. PICK t \in tracked[c] :
           /\ t.obj = o
           /\ tracked' = [tracked EXCEPT ![c] = @ \ {t}]
           /\ deleted' = [deleted EXCEPT ![c] =
                 IF o \in DeletedObjs(c) THEN @ ELSE @ \cup {[obj |-> o, key |-> t.key]}]
    BY <1>2 DEF MarkDeleted
  <2>2. inserted' = inserted /\ o \notin InsertedObjs(c)
    BY <1>2 DEF MarkDeleted
  <2>3. t \in Tracked /\ o \notin DeletedObjs(c)
    BY <2>1 DEF TypeOK, RolesExclusive, TrackedObjs
  <2>4. /\ tracked'[c] = tracked[c] \ {t}
        /\ deleted'[c] = deleted[c] \cup {[obj |-> o, key |-> t.key]}
        /\ \A e \in Ctx \ {c} : tracked'[e] = tracked[e] /\ deleted'[e] = deleted[e]
    BY <2>1, <2>3 DEF TypeOK
  <2>5. TypeOK'
    BY <2>1, <2>2, <2>3 DEF Delete, TypeOK, dbVars, Tracked, Deletion
  <2>6. /\ InsertedObjs(c)' = InsertedObjs(c)
        /\ DeletedObjs(c)' = DeletedObjs(c) \cup {o}
        /\ TrackedObjs(c)' = TrackedObjs(c) \ {o}
    <3>1. InsertedObjs(c)' = InsertedObjs(c)
      BY <2>2 DEF InsertedObjs
    <3>2. DeletedObjs(c)' = DeletedObjs(c) \cup {o}
      <4> DEFINE new == [obj |-> o, key |-> t.key]
      <4>1. new.obj = o /\ deleted'[c] = deleted[c] \cup {new}
        BY <2>4
      <4> HIDE DEF new
      <4> QED BY <4>1 DEF DeletedObjs
    <3>3. TrackedObjs(c)' = TrackedObjs(c) \ {o}
      BY <2>1, <2>4 DEF TrackedObjs, RolesExclusive
    <3> QED BY <3>1, <3>2, <3>3
  <2>7. \A d, e \in deleted'[c] : d.obj = e.obj => d = e
    BY <2>3, <2>4 DEF RolesExclusive, DeletedObjs
  <2>8. RolesOf(c)'
    BY <2>2, <2>4, <2>6, <2>7 DEF RolesExclusive, RolesOf
  <2> QED BY <2>2, <2>4, <2>5, <2>8, OtherContexts
<1> QED BY <1>1, <1>2 DEF Delete
-----------------------------------------------------------------------------
(* save()                                                                  *)

LEMMA QueueType ==
    ASSUME TypeOK, NEW c \in Ctx
    PROVE  /\ DOMAIN inserted[c] = 1..Len(inserted[c])
           /\ Len(inserted[c]) \in Nat
           /\ \A i \in DOMAIN inserted[c] : inserted[c][i] \in Obj
           /\ tracked[c] \subseteq Tracked
           /\ deleted[c] \subseteq Deletion
<1>1. inserted[c] \in Seq(Obj)
  BY DEF TypeOK
<1>2. tracked[c] \subseteq Tracked /\ deleted[c] \subseteq Deletion
  BY DEF TypeOK
<1> QED BY <1>1, <1>2

\* What the statements of a flush leave in the tables is storable.
LEMMA FlushedType ==
    ASSUME TypeOK, NEW c \in Ctx, NEW ids \in Rowids(c), NEW n \in 0..Len(inserted[c]),
           NEW ups \in SUBSET Dirty(c), NEW w \in LastWriters(ups),
           NEW dels \in SUBSET deleted[c],
           ~PlanFails(c), \A i \in 1..n : Encodes(inserted[c][i])
    PROVE  Flushed(c, ids, n, w, dels) \in Table
<1> DEFINE new(k) == {i \in 1..n : NewKey(c, ids, i) = k}
<1>1. \A k \in Key : rows[k] \in Val \cup {None}
  BY DEF TypeOK, Table
<1>2. \A o \in Obj : heap[o] # Bad => heap[o] \in Val \cup {None}
  BY DEF TypeOK, Contents
<1>3. \A k \in DOMAIN w : heap[w[k].obj] \in Val \cup {None}
  <2> SUFFICES ASSUME NEW k \in DOMAIN w PROVE heap[w[k].obj] \in Val \cup {None}
    OBVIOUS
  <2>1. w[k] \in tracked[c]
    BY DEF LastWriters, Dirty
  <2>2. w[k].obj \in Obj
    BY <2>1, QueueType DEF Tracked
  <2> QED BY <1>2, <2>1, <2>2 DEF PlanFails, Encodes
<1>4. \A i \in 1..n : heap[inserted[c][i]] \in Val \cup {None}
  BY <1>2, QueueType DEF Encodes
<1>5. \A k \in Key : new(k) # {} => (CHOOSE i \in new(k) : TRUE) \in 1..n
  OBVIOUS
<1> QED BY <1>1, <1>3, <1>4, <1>5, QueueType DEF Flushed, Table

LEMMA SoundSaveCommits ==
    ASSUME Sound, NEW c \in Ctx, SaveCommits(c), block' \in Ctx \cup {None}
    PROVE  Sound'
<1> USE DEF Sound
<1>1. PICK ids \in Rowids(c), w \in LastWriters(Dirty(c)) :
         /\ rows' = Flushed(c, ids, Len(inserted[c]), w, deleted[c])
         /\ durable' = rows'
         /\ ApplyAfterCommit(c, ids)
  BY DEF SaveCommits
<1>2. /\ ~PlanFails(c)
      /\ \A o \in InsertedObjs(c) : Encodes(o)
      /\ UNCHANGED <<heap, wedged>>
  BY DEF SaveCommits
<1> DEFINE q == inserted[c]
           entry(i) == [obj |-> q[i], key |-> NewKey(c, ids, i), snap |-> heap[q[i]]]
           new == {entry(i) : i \in DOMAIN q}
<1>3. rows' \in Table
  BY <1>1, <1>2, QueueType, FlushedType DEF InsertedObjs
<1>4. \A i \in DOMAIN q : entry(i) \in Tracked /\ entry(i).obj = q[i]
  <2> SUFFICES ASSUME NEW i \in DOMAIN q PROVE entry(i) \in Tracked
    OBVIOUS
  <2>1. q[i] \in Obj /\ TypeOf[q[i]] \in Type
    BY QueueType
  <2>2. ids[i] \in Rowid
    BY DEF Rowids
  <2>3. heap[q[i]] \in Val \cup {None}
    BY <1>2, <2>1 DEF InsertedObjs, Encodes, TypeOK, Contents
  <2> QED BY <2>1, <2>2, <2>3 DEF Tracked, NewKey, Key
<1>5. /\ Refreshed(c) \subseteq Tracked
      /\ \A t \in Refreshed(c) : \E u \in tracked[c] : t = [u EXCEPT !.snap = heap[u.obj]] /\ t.obj = u.obj
  <2> SUFFICES ASSUME NEW u \in tracked[c]
               PROVE  /\ [u EXCEPT !.snap = heap[u.obj]] \in Tracked
                      /\ [u EXCEPT !.snap = heap[u.obj]].obj = u.obj
    BY DEF Refreshed
  <2>1. u \in Tracked /\ heap[u.obj] # Bad
    BY <1>2, QueueType DEF PlanFails, Encodes
  <2>2. heap[u.obj] \in Val \cup {None}
    BY <2>1 DEF TypeOK, Contents, Tracked
  <2> QED BY <2>1, <2>2 DEF Tracked
<1>6. /\ tracked' = [tracked EXCEPT ![c] = Refreshed(c) \cup new]
      /\ inserted' = [inserted EXCEPT ![c] = <<>>]
      /\ deleted' = [deleted EXCEPT ![c] = {}]
      /\ identity' = [identity EXCEPT ![c] = [k \in Key |->
            IF k \in DeletedKeys(c) THEN None
            ELSE IF \E t \in new : t.key = k THEN (CHOOSE t \in new : t.key = k).obj
            ELSE identity[c][k]]]
  BY <1>1 DEF ApplyAfterCommit, DeletesLeft, TypeOK
<1>7. new \subseteq Tracked
  BY <1>4
<1>8. identity' \in [Ctx -> [Key -> Obj \cup {None}]]
  <2>1. \A k \in Key : (\E t \in new : t.key = k) => (CHOOSE t \in new : t.key = k) \in new
    OBVIOUS
  <2>2. \A t \in new : t.obj \in Obj
    BY <1>7 DEF Tracked
  <2>3. \A k \in Key : identity[c][k] \in Obj \cup {None}
    BY DEF TypeOK
  <2> HIDE DEF new
  <2> QED BY <1>6, <2>1, <2>2, <2>3 DEF TypeOK
<1> HIDE DEF new
<1>9. TypeOK'
  BY <1>1, <1>2, <1>3, <1>5, <1>6, <1>7, <1>8 DEF TypeOK
<1>10. RolesOf(c)'
  <2>1. inserted'[c] = <<>> /\ deleted'[c] = {} /\ tracked'[c] = Refreshed(c) \cup new
    BY <1>6 DEF TypeOK
  <2>2. \A t, u \in tracked'[c] : t.obj = u.obj => t = u
    <3>1. \A t, u \in Refreshed(c) : t.obj = u.obj => t = u
      BY <1>5 DEF RolesExclusive
    <3>2. \A t, u \in new : t.obj = u.obj => t = u
      BY <1>4 DEF new, RolesExclusive
    <3>3. \A t \in Refreshed(c), u \in new : t.obj # u.obj
      <4>1. \A t \in Refreshed(c) : t.obj \in TrackedObjs(c)
        BY <1>5 DEF TrackedObjs
      <4>2. \A u \in new : u.obj \in InsertedObjs(c)
        BY <1>4 DEF new, InsertedObjs
      <4> QED BY <4>1, <4>2 DEF RolesExclusive
    <3> QED BY <2>1, <3>1, <3>2, <3>3
  <2>3. DOMAIN inserted'[c] = {}
    BY <2>1
  <2> QED BY <2>1, <2>2, <2>3 DEF RolesOf, InsertedObjs, DeletedObjs
<1>11. \A e \in Ctx \ {c} : inserted'[e] = inserted[e] /\ tracked'[e] = tracked[e] /\ deleted'[e] = deleted[e]
  BY <1>6 DEF TypeOK
<1> QED BY <1>9, <1>10, <1>11, OtherContexts

BlockType == Ctx \cup {None}

LEMMA SoundSaveBody ==
    ASSUME Sound, NEW c \in Ctx, SaveBody(c), block' \in BlockType
    PROVE  Sound'
<1> USE DEF Sound
<1>1. CASE SaveCommits(c)
  BY <1>1, SoundSaveCommits DEF BlockType
<1>2. CASE SaveChangesNothing(c)
  <2>1. TypeOK'
    BY <1>2 DEF SaveChangesNothing, TypeOK, ctxVars, dbVars, BlockType
  <2> QED BY <1>2, <2>1, SoundQuiet DEF SaveChangesNothing, ctxVars
<1>3. CASE SaveWedges(c)
  <2>1. PICK ids \in Rowids(c), n \in 0..Len(inserted[c]),
             ups \in SUBSET Dirty(c), dels \in SUBSET deleted[c] :
           /\ \A i \in 1..n : Encodes(inserted[c][i])
           /\ \E w \in LastWriters(ups) : rows' = Flushed(c, ids, n, w, dels)
    BY <1>3 DEF SaveWedges
  <2>2. ~PlanFails(c) /\ wedged' = TRUE /\ UNCHANGED <<heap, durable, ctxVars>>
    BY <1>3 DEF SaveWedges
  <2>3. rows' \in Table
    BY <2>1, <2>2, FlushedType
  <2>4. TypeOK'
    BY <2>2, <2>3 DEF TypeOK, ctxVars, BlockType
  <2> QED BY <2>2, <2>4, SoundQuiet DEF ctxVars
<1> QED BY <1>1, <1>2, <1>3 DEF SaveBody
-----------------------------------------------------------------------------
(* rollback() and transaction(_:)                                          *)

LEMMA SoundRollbackBody ==
    ASSUME Sound, NEW c \in Ctx, RollbackBody(c), block' \in BlockType
    PROVE  Sound'
<1> USE DEF Sound
<1> DEFINE entry(d) == [obj |-> d.obj, key |-> d.key, snap |-> SnapshotNow(d.obj)]
           back == {entry(d) : d \in deleted[c]}
           kept == tracked[c] \cup back
           snapOf(o) == {t.snap : t \in {u \in kept : u.obj = o}} \ {None}
<1>1. /\ inserted' = [inserted EXCEPT ![c] = <<>>]
      /\ deleted' = [deleted EXCEPT ![c] = {}]
      /\ tracked' = [tracked EXCEPT ![c] = kept]
      /\ identity' = [identity EXCEPT ![c] = [k \in Key |->
            IF k \in DeletedKeys(c) THEN (CHOOSE d \in deleted[c] : d.key = k).obj
            ELSE identity[c][k]]]
      /\ heap' = [o \in Obj |-> IF snapOf(o) = {} THEN heap[o]
                                ELSE CHOOSE v \in snapOf(o) : TRUE]
      /\ UNCHANGED dbVars
  BY DEF RollbackBody, TypeOK
<1>2. \A d \in deleted[c] : entry(d) \in Tracked /\ entry(d).obj = d.obj
  <2> SUFFICES ASSUME NEW d \in deleted[c] PROVE entry(d) \in Tracked
    OBVIOUS
  <2>1. d \in Deletion
    BY QueueType
  <2>2. SnapshotNow(d.obj) \in Val \cup {None}
    BY <2>1 DEF Deletion, SnapshotNow, Encodes, TypeOK, Contents
  <2> QED BY <2>1, <2>2 DEF Deletion, Tracked
<1>3. kept \subseteq Tracked
  BY <1>2, QueueType
<1>4. \A o \in Obj : snapOf(o) \subseteq Val
  BY <1>3 DEF Tracked
<1>5. heap' \in [Obj -> Contents \cup {None}]
  <2>1. \A o \in Obj : snapOf(o) # {} => (CHOOSE v \in snapOf(o) : TRUE) \in snapOf(o)
    OBVIOUS
  <2>2. \A o \in Obj : heap[o] \in Contents \cup {None}
    BY DEF TypeOK
  <2> HIDE DEF snapOf
  <2> QED BY <1>1, <1>4, <2>1, <2>2 DEF Contents
<1>6. identity' \in [Ctx -> [Key -> Obj \cup {None}]]
  <2>1. \A k \in DeletedKeys(c) : (CHOOSE d \in deleted[c] : d.key = k) \in deleted[c]
    BY DEF DeletedKeys
  <2>2. \A d \in deleted[c] : d.obj \in Obj
    BY QueueType DEF Deletion
  <2> QED BY <1>1, <2>1, <2>2 DEF TypeOK
<1> HIDE DEF kept, snapOf
<1>7. TypeOK'
  BY <1>1, <1>3, <1>5, <1>6 DEF TypeOK, dbVars, BlockType
<1>8. RolesOf(c)'
  <2>1. inserted'[c] = <<>> /\ deleted'[c] = {} /\ tracked'[c] = kept
    BY <1>1 DEF TypeOK
  <2>2. \A t, u \in kept : t.obj = u.obj => t = u
    <3>1. \A t, u \in tracked[c] : t.obj = u.obj => t = u
      BY DEF RolesExclusive
    <3>2. \A t, u \in back : t.obj = u.obj => t = u
      BY <1>2 DEF RolesExclusive
    <3>3. \A t \in tracked[c], u \in back : t.obj # u.obj
      <4>1. \A t \in tracked[c] : t.obj \in TrackedObjs(c)
        BY DEF TrackedObjs
      <4>2. \A u \in back : u.obj \in DeletedObjs(c)
        BY <1>2 DEF DeletedObjs
      <4> QED BY <4>1, <4>2 DEF RolesExclusive
    <3> HIDE DEF back
    <3> QED BY <3>1, <3>2, <3>3 DEF kept
  <2>3. DOMAIN inserted'[c] = {}
    BY <2>1
  <2> QED BY <2>1, <2>2, <2>3 DEF RolesOf, InsertedObjs, DeletedObjs
<1>9. \A e \in Ctx \ {c} : inserted'[e] = inserted[e] /\ tracked'[e] = tracked[e] /\ deleted'[e] = deleted[e]
  BY <1>1 DEF TypeOK
<1> QED BY <1>7, <1>8, <1>9, OtherContexts

LEMMA SoundTransaction ==
    ASSUME Sound, NEW c \in Ctx,
           TransactionBegin(c) \/ TransactionReturns(c) \/ TransactionThrows(c)
    PROVE  Sound'
<1> USE DEF Sound
<1>1. CASE TransactionBegin(c)
  <2>1. block' \in BlockType
    BY <1>1 DEF TransactionBegin, BlockType, TypeOK
  <2>2. TypeOK'
    BY <1>1, <2>1 DEF TransactionBegin, TypeOK, ctxVars, dbVars, BlockType
  <2> QED BY <1>1, <2>2, SoundQuiet DEF TransactionBegin, ctxVars
<1>2. None \in BlockType
  BY DEF BlockType
<1>3. CASE TransactionReturns(c)
  BY <1>2, <1>3, SoundSaveBody DEF TransactionReturns
<1>4. CASE TransactionThrows(c)
  BY <1>2, <1>4, SoundRollbackBody DEF TransactionThrows
<1> QED BY <1>1, <1>3, <1>4
-----------------------------------------------------------------------------
(* fetch(_:), deleteAllData(), teardown                                    *)

\* The objects that have a role in a context.
RoleObjs(c) == InsertedObjs(c) \cup TrackedObjs(c) \cup DeletedObjs(c)

\* They are all allocated: the objects a fetch makes are therefore new to
\* every context.  This is what makes RolesExclusive inductive.
RolesLive == \A c \in Ctx : \A o \in RoleObjs(c) : Allocated(o)

LEMMA SoundFetch ==
    ASSUME Sound, RolesLive, NEW c \in Ctx, NEW type \in Type, NEW S \in SUBSET Key,
           Fetch(c, type, S)
    PROVE  Sound' /\ RolesLive'
<1> USE DEF Sound
<1> DEFINE missing == {k \in S : k \notin DeletedKeys(c) /\ identity[c][k] = None}
           free == {o \in Obj : ~Allocated(o) /\ TypeOf[o] = type}
<1>1. PICK new \in [missing -> free] :
         /\ \A j, k \in missing : new[j] = new[k] => j = k
         /\ heap' = [o \in Obj |-> IF \E k \in missing : new[k] = o
                                   THEN rows[CHOOSE k \in missing : new[k] = o]
                                   ELSE heap[o]]
         /\ tracked' = [tracked EXCEPT ![c] = @ \cup
               {[obj |-> new[k], key |-> k, snap |-> rows[k]] : k \in missing}]
         /\ identity' = [identity EXCEPT ![c] = [k \in Key |->
               IF k \in missing THEN new[k] ELSE @[k]]]
  BY DEF Fetch
<1>2. UNCHANGED <<inserted, deleted, dbVars, block>>
  BY DEF Fetch
<1>3. \A k \in missing : /\ k \in Key /\ new[k] \in free
                         /\ rows[k] \in Val \cup {None} /\ rows[k] # None
  BY DEF TypeOK, Table, Fetch
<1> DEFINE entry(k) == [obj |-> new[k], key |-> k, snap |-> rows[k]]
           fresh == {entry(k) : k \in missing}
<1>4. fresh \subseteq Tracked
  BY <1>3 DEF Tracked
<1>5. tracked' = [tracked EXCEPT ![c] = tracked[c] \cup fresh]
  BY <1>1 DEF TypeOK
<1>6. /\ \A t \in fresh : t.obj \in free
      /\ \A t, u \in fresh : t.obj = u.obj => t = u
      /\ \A t \in fresh : \E k \in missing : t.obj = new[k]
  BY <1>1, <1>3
<1> HIDE DEF missing, fresh
<1>7. /\ heap' \in [Obj -> Contents \cup {None}]
      /\ \A o \in Obj : Allocated(o) => Allocated(o)'
      /\ \A k \in missing : Allocated(new[k])'
  <2>1. \A o \in Obj : (\E k \in missing : new[k] = o) =>
           (CHOOSE k \in missing : new[k] = o) \in missing
    OBVIOUS
  <2> QED BY <1>1, <1>3, <2>1 DEF TypeOK, Contents, Allocated
<1>8. identity' \in [Ctx -> [Key -> Obj \cup {None}]]
  BY <1>1, <1>3 DEF TypeOK
<1>9. TypeOK'
  BY <1>2, <1>4, <1>5, <1>7, <1>8 DEF TypeOK, dbVars
<1>10. \A t \in fresh : t.obj \notin RoleObjs(c)
  BY <1>6 DEF RolesLive
<1>11. /\ tracked'[c] = tracked[c] \cup fresh
       /\ InsertedObjs(c)' = InsertedObjs(c)
       /\ DeletedObjs(c)' = DeletedObjs(c)
       /\ TrackedObjs(c)' = TrackedObjs(c) \cup {t.obj : t \in fresh}
  <2>1. tracked'[c] = tracked[c] \cup fresh
    BY <1>5 DEF TypeOK
  <2> QED BY <1>2, <2>1 DEF InsertedObjs, DeletedObjs, TrackedObjs
<1>12. RolesOf(c)'
  <2>1. \A t \in tracked[c], u \in fresh : t.obj # u.obj
    BY <1>10 DEF RoleObjs, TrackedObjs
  <2>2. \A t, u \in tracked'[c] : t.obj = u.obj => t = u
    BY <1>6, <1>11, <2>1 DEF RolesExclusive
  <2>3. inserted' = inserted /\ deleted' = deleted
    BY <1>2
  <2> QED BY <1>10, <1>11, <2>2, <2>3 DEF RolesExclusive, RolesOf, RoleObjs
<1>13. \A e \in Ctx \ {c} : inserted'[e] = inserted[e] /\ tracked'[e] = tracked[e] /\ deleted'[e] = deleted[e]
  BY <1>2, <1>5 DEF TypeOK
<1>14. RolesLive'
  <2> SUFFICES ASSUME NEW e \in Ctx, NEW o \in RoleObjs(e)' PROVE Allocated(o)'
    BY DEF RolesLive
  <2>1. CASE o \in RoleObjs(e)
    BY <1>7, <2>1 DEF RolesLive, RoleObjs, InsertedObjs, TrackedObjs, DeletedObjs, TypeOK, Tracked, Deletion, Allocated
  <2>2. CASE o \notin RoleObjs(e)
    <3>1. e = c
      BY <1>13, <2>2 DEF RoleObjs, InsertedObjs, TrackedObjs, DeletedObjs
    <3>2. \E t \in fresh : t.obj = o
      BY <1>11, <2>2, <3>1 DEF RoleObjs
    <3> QED BY <1>6, <1>7, <3>2
  <2> QED BY <2>1, <2>2
<1> QED BY <1>9, <1>12, <1>13, <1>14, OtherContexts

\* A step after which every role is held by an object that held one before,
\* in the same context, and which frees no object.
LEMMA LiveKept ==
    ASSUME TypeOK, RolesLive,
           \A o \in Obj : Allocated(o) => Allocated(o)',
           \A c \in Ctx : RoleObjs(c)' \subseteq RoleObjs(c)
    PROVE  RolesLive'
<1>1. \A c \in Ctx : RoleObjs(c) \subseteq Obj
  BY DEF TypeOK, RoleObjs, InsertedObjs, TrackedObjs, DeletedObjs, Tracked, Deletion
<1> QED BY <1>1 DEF RolesLive

LEMMA LiveSaveBody ==
    ASSUME Sound, RolesLive, NEW c \in Ctx, SaveBody(c)
    PROVE  RolesLive'
<1> USE DEF Sound
<1>1. heap' = heap
  BY DEF SaveBody, SaveCommits, SaveChangesNothing, SaveWedges
<1>2. CASE SaveCommits(c)
  <2>1. PICK ids \in Rowids(c), w \in LastWriters(Dirty(c)) : ApplyAfterCommit(c, ids)
    BY <1>2 DEF SaveCommits
  <2> DEFINE new == {[obj |-> inserted[c][i], key |-> NewKey(c, ids, i),
                      snap |-> heap[inserted[c][i]]] : i \in DOMAIN inserted[c]}
  <2>2. /\ inserted' = [inserted EXCEPT ![c] = <<>>]
        /\ deleted' = [deleted EXCEPT ![c] = {}]
        /\ tracked' = [tracked EXCEPT ![c] = Refreshed(c) \cup new]
    BY <2>1 DEF ApplyAfterCommit, DeletesLeft
  <2>3. \A t \in new : t.obj \in InsertedObjs(c)
    BY DEF InsertedObjs
  <2>4. \A t \in Refreshed(c) : t.obj \in TrackedObjs(c)
    <3> SUFFICES ASSUME NEW u \in tracked[c]
                 PROVE  [u EXCEPT !.snap = heap[u.obj]].obj \in TrackedObjs(c)
      BY DEF Refreshed
    <3>1. u \in Tracked
      BY QueueType
    <3> QED BY <3>1 DEF Tracked, TrackedObjs
  <2> HIDE DEF new
  <2>5. /\ inserted'[c] = <<>> /\ deleted'[c] = {} /\ tracked'[c] = Refreshed(c) \cup new
        /\ \A e \in Ctx \ {c} : inserted'[e] = inserted[e] /\ tracked'[e] = tracked[e] /\ deleted'[e] = deleted[e]
    BY <2>2 DEF TypeOK
  <2>6. DOMAIN inserted'[c] = {}
    BY <2>5
  <2>7. RoleObjs(c)' \subseteq RoleObjs(c)
    BY <2>3, <2>4, <2>5, <2>6 DEF RoleObjs, InsertedObjs, TrackedObjs, DeletedObjs
  <2>8. \A e \in Ctx \ {c} : RoleObjs(e)' = RoleObjs(e)
    BY <2>5 DEF RoleObjs, InsertedObjs, TrackedObjs, DeletedObjs
  <2> QED BY <1>1, <2>7, <2>8, LiveKept DEF Allocated
<1>3. CASE UNCHANGED ctxVars
  <2>1. \A e \in Ctx : RoleObjs(e)' = RoleObjs(e)
    BY <1>3 DEF ctxVars, RoleObjs, InsertedObjs, TrackedObjs, DeletedObjs
  <2> QED BY <1>1, <2>1, LiveKept DEF Allocated
<1> QED BY <1>2, <1>3 DEF SaveBody, SaveChangesNothing, SaveWedges

LEMMA LiveRollbackBody ==
    ASSUME Sound, RolesLive, NEW c \in Ctx, RollbackBody(c)
    PROVE  RolesLive'
<1> USE DEF Sound
<1> DEFINE entry(d) == [obj |-> d.obj, key |-> d.key, snap |-> SnapshotNow(d.obj)]
           back == {entry(d) : d \in deleted[c]}
           kept == tracked[c] \cup back
           snapOf(o) == {t.snap : t \in {u \in kept : u.obj = o}} \ {None}
<1>1. /\ inserted' = [inserted EXCEPT ![c] = <<>>]
      /\ deleted' = [deleted EXCEPT ![c] = {}]
      /\ tracked' = [tracked EXCEPT ![c] = kept]
      /\ heap' = [o \in Obj |-> IF snapOf(o) = {} THEN heap[o]
                                ELSE CHOOSE v \in snapOf(o) : TRUE]
  BY DEF RollbackBody
<1>2. \A o \in Obj : snapOf(o) # {} => (CHOOSE v \in snapOf(o) : TRUE) # None
  OBVIOUS
<1>3. \A t \in back : t.obj \in DeletedObjs(c)
  BY DEF DeletedObjs
<1> HIDE DEF back, snapOf
<1>4. /\ inserted'[c] = <<>> /\ deleted'[c] = {} /\ tracked'[c] = tracked[c] \cup back
      /\ \A e \in Ctx \ {c} : inserted'[e] = inserted[e] /\ tracked'[e] = tracked[e] /\ deleted'[e] = deleted[e]
  BY <1>1 DEF TypeOK
<1>5. DOMAIN inserted'[c] = {}
  BY <1>4
<1>6. RoleObjs(c)' \subseteq RoleObjs(c)
  BY <1>3, <1>4, <1>5 DEF RoleObjs, InsertedObjs, TrackedObjs, DeletedObjs
<1>7. \A e \in Ctx \ {c} : RoleObjs(e)' = RoleObjs(e)
  BY <1>4 DEF RoleObjs, InsertedObjs, TrackedObjs, DeletedObjs
<1>8. \A o \in Obj : Allocated(o) => Allocated(o)'
  BY <1>1, <1>2 DEF Allocated
<1> QED BY <1>6, <1>7, <1>8, LiveKept

LEMMA LiveQueues ==
    ASSUME Sound, RolesLive, NEW c \in Ctx, NEW o \in Obj, Insert(c, o) \/ Delete(c, o)
    PROVE  RolesLive'
<1> USE DEF Sound
<1>1. heap' = heap
  BY DEF Insert, Delete
<1>2. CASE Insert(c, o)
  <2>1. /\ Allocated(o)
        /\ tracked' = tracked
        /\ deleted'[c] \subseteq deleted[c]
        /\ \A e \in Ctx \ {c} : inserted'[e] = inserted[e] /\ deleted'[e] = deleted[e]
    BY <1>2 DEF Insert, TypeOK
  <2>2. InsertedObjs(c)' \subseteq InsertedObjs(c) \cup {o}
    <3>1. CASE inserted' = inserted
      BY <3>1 DEF InsertedObjs
    <3>2. CASE inserted' = [inserted EXCEPT ![c] = Append(@, o)]
      <4>1. inserted'[c] = Append(inserted[c], o) /\ inserted[c] \in Seq(Obj)
        BY <3>2 DEF TypeOK
      <4>2. \A i \in DOMAIN Append(inserted[c], o) :
               \/ Append(inserted[c], o)[i] = o
               \/ i \in DOMAIN inserted[c] /\ Append(inserted[c], o)[i] = inserted[c][i]
        BY <4>1
      <4> QED BY <4>1, <4>2 DEF InsertedObjs
    <3> QED BY <1>2, <3>1, <3>2 DEF Insert
  <2>3. RoleObjs(c)' \subseteq RoleObjs(c) \cup {o}
    BY <2>1, <2>2 DEF RoleObjs, TrackedObjs, DeletedObjs
  <2>4. \A e \in Ctx \ {c} : RoleObjs(e)' = RoleObjs(e)
    BY <2>1 DEF RoleObjs, InsertedObjs, TrackedObjs, DeletedObjs
  <2> QED BY <1>1, <2>1, <2>3, <2>4 DEF RolesLive, Allocated
<1>3. CASE Delete(c, o)
  <2>1. CASE DropInsert(c, o)
    <3> DEFINE s == inserted[c]
               w == Without(s, o)
    <3>1. /\ s \in Seq(Obj)
          /\ inserted' = [inserted EXCEPT ![c] = w]
          /\ UNCHANGED <<tracked, deleted>>
          /\ \E i \in DOMAIN s : s[i] = o
          /\ \A i, j \in DOMAIN s : s[i] = s[j] => i = j
      BY <2>1 DEF DropInsert, InsertedObjs, TypeOK, RolesExclusive
    <3> HIDE DEF w
    <3>2. \A i \in DOMAIN w : \E j \in DOMAIN s : s[j] = w[i]
      BY <3>1, WithoutQueue DEF w
    <3>3. \A e \in Ctx : InsertedObjs(e)' \subseteq InsertedObjs(e)
      BY <3>1, <3>2 DEF InsertedObjs, TypeOK
    <3> QED BY <1>1, <3>1, <3>3, LiveKept DEF RoleObjs, TrackedObjs, DeletedObjs, Allocated
  <2>2. CASE MarkDeleted(c, o)
    <3>1. /\ inserted' = inserted
          /\ tracked'[c] \subseteq tracked[c]
          /\ o \in TrackedObjs(c)
          /\ \A d \in deleted'[c] : d \in deleted[c] \/ d.obj = o
          /\ \A e \in Ctx \ {c} : tracked'[e] = tracked[e] /\ deleted'[e] = deleted[e]
      BY <2>2 DEF MarkDeleted, TypeOK, TrackedObjs
    <3>2. \A e \in Ctx : RoleObjs(e)' \subseteq RoleObjs(e)
      BY <3>1 DEF RoleObjs, InsertedObjs, TrackedObjs, DeletedObjs
    <3> QED BY <1>1, <3>2, LiveKept DEF Allocated
  <2> QED BY <1>3, <2>1, <2>2 DEF Delete
<1> QED BY <1>2, <1>3

LEMMA SoundForget ==
    ASSUME Sound, ForgetContexts
    PROVE  /\ RolesExclusive' /\ RolesLive'
           /\ inserted' \in [Ctx -> Seq(Obj)]
           /\ tracked' \in [Ctx -> SUBSET Tracked]
           /\ deleted' \in [Ctx -> SUBSET Deletion]
           /\ identity' \in [Ctx -> [Key -> Obj \cup {None}]]
<1>1. \A c \in Ctx : inserted'[c] = <<>> /\ tracked'[c] = {} /\ deleted'[c] = {}
  BY DEF ForgetContexts
<1>2. \A c \in Ctx : DOMAIN inserted'[c] = {}
  BY <1>1
<1>3. RolesExclusive' /\ RolesLive'
  BY <1>1, <1>2 DEF RolesExclusive, RolesLive, RoleObjs, InsertedObjs, TrackedObjs, DeletedObjs
<1>4. NoIdentity \in [Key -> Obj \cup {None}]
  BY DEF NoIdentity
<1>5. /\ inserted' \in [Ctx -> Seq(Obj)]
      /\ tracked' \in [Ctx -> SUBSET Tracked]
      /\ deleted' \in [Ctx -> SUBSET Deletion]
  BY DEF ForgetContexts
<1>6. identity' \in [Ctx -> [Key -> Obj \cup {None}]]
  BY <1>4 DEF ForgetContexts
<1> QED BY <1>3, <1>5, <1>6

LEMMA SoundStore ==
    ASSUME Sound, RolesLive,
           DeleteAllData \/ Restart \/ \E types \in SUBSET Type : DeleteAllDataFails(types)
    PROVE  Sound' /\ RolesLive'
<1> USE DEF Sound
<1>1. EmptyTable \in Table /\ None \in BlockType
  BY DEF EmptyTable, Table, BlockType
<1>2. ASSUME NEW types \in SUBSET Type, ClearTables(types)
      PROVE  rows' \in Table /\ durable' \in Table /\ wedged' \in BOOLEAN
  BY <1>2 DEF ClearTables, TypeOK, Table
<1>3. CASE DeleteAllData
  <2>1. TypeOK'
    BY <1>2, <1>3, SoundForget DEF DeleteAllData, TypeOK
  <2> QED BY <1>3, <2>1, SoundForget DEF DeleteAllData
<1>4. CASE Restart
  <2>1. rows' \in Table /\ durable' \in Table /\ wedged' \in BOOLEAN /\ block' \in BlockType
    BY <1>1, <1>4 DEF Restart, TypeOK
  <2>2. heap' \in [Obj -> Contents \cup {None}]
    BY <1>4 DEF Restart
  <2>3. ForgetContexts
    BY <1>4 DEF Restart
  <2>4. TypeOK'
    BY <2>1, <2>2, <2>3, SoundForget DEF TypeOK, BlockType
  <2> QED BY <2>3, <2>4, SoundForget
<1>5. ASSUME NEW types \in SUBSET Type, DeleteAllDataFails(types)
      PROVE  Sound' /\ RolesLive'
  <2>1. UNCHANGED <<heap, ctxVars, block>> /\ ClearTables(types)
    BY <1>5 DEF DeleteAllDataFails
  <2>2. TypeOK'
    BY <1>2, <2>1 DEF TypeOK, ctxVars
  <2>3. \A c \in Ctx : RoleObjs(c)' = RoleObjs(c)
    BY <2>1 DEF ctxVars, RoleObjs, InsertedObjs, TrackedObjs, DeletedObjs
  <2> QED BY <2>1, <2>2, <2>3, SoundQuiet, LiveKept DEF ctxVars, Allocated
<1> QED BY <1>3, <1>4, <1>5

LEMMA LiveQuiet ==
    ASSUME Sound, RolesLive, UNCHANGED ctxVars,
           \A o \in Obj : Allocated(o) => Allocated(o)'
    PROVE  RolesLive'
<1>1. \A c \in Ctx : RoleObjs(c)' = RoleObjs(c)
  BY DEF ctxVars, RoleObjs, InsertedObjs, TrackedObjs, DeletedObjs
<1> QED BY <1>1, LiveKept DEF Sound
-----------------------------------------------------------------------------
(* The theorems                                                            *)

\* The inductive invariant of the unit of work, for any constants.
UnitInv == Sound /\ RolesLive

LEMMA UnitInit == Init => UnitInv
<1> SUFFICES ASSUME Init PROVE RolesLive
  BY SoundInit DEF UnitInv
<1> SUFFICES ASSUME NEW c \in Ctx PROVE RoleObjs(c) = {}
  BY DEF RolesLive
<1>1. inserted[c] = <<>> /\ tracked[c] = {} /\ deleted[c] = {}
  BY DEF Init
<1>2. DOMAIN inserted[c] = {}
  BY <1>1
<1> QED BY <1>1, <1>2 DEF RoleObjs, InsertedObjs, TrackedObjs, DeletedObjs

LEMMA UnitNext == UnitInv /\ [Next]_vars => UnitInv'
<1> SUFFICES ASSUME Sound, RolesLive, [Next]_vars PROVE Sound' /\ RolesLive'
  BY DEF UnitInv
<1>1. ASSUME NEW o \in Obj, NEW v \in Contents, Create(o, v) \/ Edit(o, v)
      PROVE  Sound' /\ RolesLive'
  <2>1. UNCHANGED ctxVars /\ heap' = [heap EXCEPT ![o] = v]
    BY <1>1 DEF Create, Edit
  <2>2. \A p \in Obj : Allocated(p) => Allocated(p)'
    BY <2>1, SentinelsDiffer DEF Allocated, Contents, Sound, TypeOK
  <2> QED BY <1>1, <2>1, <2>2, SoundProgram, LiveQuiet
<1>2. ASSUME NEW c \in Ctx, NEW o \in Obj, Insert(c, o) \/ Delete(c, o)
      PROVE  Sound' /\ RolesLive'
  BY <1>2, SoundInsert, SoundDelete, LiveQueues
<1>3. ASSUME NEW c \in Ctx, Save(c) \/ Rollback(c)
      PROVE  Sound' /\ RolesLive'
  <2>1. block' \in BlockType
    BY <1>3 DEF Save, Rollback, Sound, TypeOK, BlockType
  <2> QED BY <1>3, <2>1, SoundSaveBody, SoundRollbackBody, LiveSaveBody, LiveRollbackBody
          DEF Save, Rollback
<1>4. ASSUME NEW c \in Ctx,
             TransactionBegin(c) \/ TransactionReturns(c) \/ TransactionThrows(c)
      PROVE  Sound' /\ RolesLive'
  <2>1. CASE TransactionBegin(c)
    BY <2>1, SoundTransaction, LiveQuiet DEF TransactionBegin, Allocated
  <2>2. CASE TransactionReturns(c)
    BY <2>2, SoundTransaction, LiveSaveBody DEF TransactionReturns
  <2>3. CASE TransactionThrows(c)
    BY <2>3, SoundTransaction, LiveRollbackBody DEF TransactionThrows
  <2> QED BY <1>4, <2>1, <2>2, <2>3
<1>5. ASSUME NEW c \in Ctx, NEW type \in Type, NEW S \in SUBSET Key, Fetch(c, type, S)
      PROVE  Sound' /\ RolesLive'
  BY <1>5, SoundFetch
<1>6. ASSUME DeleteAllData \/ Restart \/ \E types \in SUBSET Type : DeleteAllDataFails(types)
      PROVE  Sound' /\ RolesLive'
  BY <1>6, SoundStore
<1>7. CASE UNCHANGED vars
  <2>1. UNCHANGED <<heap, ctxVars, dbVars, block>>
    BY <1>7 DEF vars, ctxVars, dbVars
  <2>2. TypeOK'
    BY <2>1 DEF Sound, TypeOK, ctxVars, dbVars
  <2>3. RolesExclusive'
    BY <2>1, SoundQuiet DEF ctxVars
  <2> QED BY <2>1, <2>2, <2>3, LiveQuiet DEF Sound, Allocated
<1> QED BY <1>1, <1>2, <1>3, <1>4, <1>5, <1>6, <1>7 DEF Next

\* The native state keeps its types through every sequence of calls.
THEOREM Types == Spec => []TypeOK
<1>1. UnitInv => TypeOK
  BY DEF UnitInv, Sound
<1> QED BY UnitInit, UnitNext, <1>1, PTL DEF Spec

\* No object is ever in two of a context's change sets, or twice in one:
\* context_insert, context_delete, flush, rollback_state and fetch_rows keep
\* the sets apart whatever the order of the calls, the number of contexts
\* and the failures of the host.
THEOREM Roles == Spec => []RolesExclusive
<1>1. UnitInv => RolesExclusive
  BY DEF UnitInv, Sound
<1> QED BY UnitInit, UnitNext, <1>1, PTL DEF Spec

\* A save that commits leaves its context clean: the queues are emptied, and
\* the snapshots of what was updated and inserted follow the values written
\* (flush, apply_after_commit).
LEMMA CommitCleans ==
    ASSUME TypeOK, NEW c \in Ctx, SaveCommits(c)
    PROVE  ~Pending(c)'
<1>1. PICK ids \in Rowids(c) : ApplyAfterCommit(c, ids)
  BY DEF SaveCommits
<1>2. heap' = heap
  BY DEF SaveCommits
<1> DEFINE entry(i) == [obj |-> inserted[c][i], key |-> NewKey(c, ids, i),
                        snap |-> heap[inserted[c][i]]]
           new == {entry(i) : i \in DOMAIN inserted[c]}
<1>3. inserted'[c] = <<>> /\ deleted'[c] = {} /\ tracked'[c] = Refreshed(c) \cup new
  BY <1>1 DEF ApplyAfterCommit, DeletesLeft, TypeOK
<1>4. \A t \in new : heap[t.obj] = t.snap
  OBVIOUS
<1>5. \A t \in Refreshed(c) : heap[t.obj] = t.snap
  <2> SUFFICES ASSUME NEW u \in tracked[c]
               PROVE  LET t == [u EXCEPT !.snap = heap[u.obj]] IN heap[t.obj] = t.snap
    BY DEF Refreshed
  <2>1. u \in Tracked
    BY QueueType
  <2> QED BY <2>1 DEF Tracked
<1> HIDE DEF new
<1>6. Dirty(c)' = {}
  BY <1>2, <1>3, <1>4, <1>5 DEF Dirty
<1> QED BY <1>3, <1>6 DEF Pending

\* Saving twice writes nothing twice, in any of the contexts of a container.
THEOREM SavedIsClean == Spec => SaveLeavesClean
<1>1. UnitInv => TypeOK
  BY DEF UnitInv, Sound
<1>2. TypeOK /\ [Next]_vars => [\A c \in Ctx : SaveCommits(c) => ~Pending(c)']_vars
  BY CommitCleans
<1> QED BY UnitInit, UnitNext, <1>1, <1>2, PTL DEF Spec, SaveLeavesClean
=============================================================================

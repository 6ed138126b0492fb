------------------------ MODULE ModelContextViewProofs ------------------------
(***************************************************************************)
(* A container with one context: no row ever has two instances, the rows a *)
(* save will name are in the store, and a careful program gets the unit of *)
(* work, for any schema, any objects, rows and values, whatever the order  *)
(* of the calls.  A deleteAllData() that fails is left out: it empties     *)
(* tables behind the tracked objects.                                      *)
(***************************************************************************)
EXTENDS ModelContextView, ModelContextProofs

DeleteAllSucceeds == "deleteAll" \notin Faults

\* The entries that name a row are the ones the identity map answers with.
Named == \A t \in tracked[Main] \cup deleted[Main] : identity[Main][t.key] = t.obj

\* The connection sees what is committed, and the identity map knows only
\* rows it sees, unless it is stuck in a transaction.
Stored ==
    ~wedged =>
        /\ durable = rows
        /\ \A k \in Key : identity[Main][k] # None => rows[k] # None

\* Of a careful program the snapshots are the rows, and so are the objects
\* that wait for their delete.
Careful ==
    careful =>
        /\ ~wedged
        /\ \A t \in tracked[Main] : rows[t.key] = t.snap
        /\ \A d \in deleted[Main] : rows[d.key] = heap[d.obj]

\* The inductive invariant of a container with one context.
ViewInv == UnitInv /\ Named /\ Stored /\ Careful
-----------------------------------------------------------------------------
(* Rows and the entries that name them                                     *)

LEMMA MainIs == Main \in Ctx /\ \A c \in Ctx : c = Main
BY OneContext DEF OneContext, Main

LEMMA MainTypes ==
    ASSUME UnitInv
    PROVE  /\ heap \in [Obj -> Contents \cup {None}] /\ rows \in Table /\ durable \in Table
           /\ wedged \in BOOLEAN
           /\ inserted[Main] \in Seq(Obj) /\ inserted \in [Ctx -> Seq(Obj)]
           /\ tracked[Main] \subseteq Tracked /\ tracked \in [Ctx -> SUBSET Tracked]
           /\ deleted[Main] \subseteq Deletion /\ deleted \in [Ctx -> SUBSET Deletion]
           /\ identity[Main] \in [Key -> Obj \cup {None}]
           /\ identity \in [Ctx -> [Key -> Obj \cup {None}]]
BY MainIs DEF UnitInv, Sound, TypeOK

\* Entries of one object are one entry, and the objects of entries live.
LEMMA MainRoles ==
    ASSUME UnitInv
    PROVE  /\ \A t, u \in tracked[Main] : t.obj = u.obj => t = u
           /\ \A d, e \in deleted[Main] : d.obj = e.obj => d = e
           /\ \A t \in tracked[Main], d \in deleted[Main] : t.obj # d.obj
           /\ \A t \in tracked[Main] : t.obj \in Obj /\ t.key \in Key /\ heap[t.obj] # None
           /\ \A d \in deleted[Main] : d.obj \in Obj /\ d.key \in Key /\ heap[d.obj] # None
           /\ \A i \in DOMAIN inserted[Main] :
                 /\ inserted[Main][i] \in Obj /\ heap[inserted[Main][i]] # None
                 /\ \A t \in tracked[Main] \cup deleted[Main] : t.obj # inserted[Main][i]
           /\ \A i, j \in DOMAIN inserted[Main] : inserted[Main][i] = inserted[Main][j] => i = j
<1>1. RolesOf(Main) /\ \A o \in RoleObjs(Main) : Allocated(o)
  BY MainIs DEF UnitInv, Sound, RolesExclusive, RolesOf, RolesLive
<1>2. tracked[Main] \subseteq Tracked /\ deleted[Main] \subseteq Deletion
      /\ inserted[Main] \in Seq(Obj)
  BY MainTypes
<1>3. \A t \in tracked[Main], d \in deleted[Main] : t.obj # d.obj
  BY <1>1 DEF RolesOf, TrackedObjs, DeletedObjs
<1>4. \A t \in tracked[Main] : t.obj \in Obj /\ t.key \in Key /\ heap[t.obj] # None
  BY <1>1, <1>2 DEF Tracked, RoleObjs, TrackedObjs, Allocated
<1>5. \A d \in deleted[Main] : d.obj \in Obj /\ d.key \in Key /\ heap[d.obj] # None
  BY <1>1, <1>2 DEF Deletion, RoleObjs, DeletedObjs, Allocated
<1>6. \A i \in DOMAIN inserted[Main] :
         /\ inserted[Main][i] \in Obj /\ heap[inserted[Main][i]] # None
         /\ \A t \in tracked[Main] \cup deleted[Main] : t.obj # inserted[Main][i]
  <2> SUFFICES ASSUME NEW i \in DOMAIN inserted[Main]
               PROVE  /\ inserted[Main][i] \in Obj /\ heap[inserted[Main][i]] # None
                      /\ \A t \in tracked[Main] \cup deleted[Main] : t.obj # inserted[Main][i]
    OBVIOUS
  <2>1. inserted[Main][i] \in InsertedObjs(Main) /\ inserted[Main][i] \in Obj
    BY <1>2 DEF InsertedObjs
  <2> QED BY <1>1, <2>1 DEF RolesOf, RoleObjs, TrackedObjs, DeletedObjs, Allocated
<1> QED BY <1>1, <1>3, <1>4, <1>5, <1>6 DEF RolesOf

\* No row has two entries, and the rows of entries are known.
LEMMA OneEntry ==
    ASSUME UnitInv, Named
    PROVE  /\ \A t, u \in tracked[Main] : t.key = u.key => t = u
           /\ \A d, e \in deleted[Main] : d.key = e.key => d = e
           /\ \A t \in tracked[Main], d \in deleted[Main] : t.key # d.key
           /\ \A t \in tracked[Main] \cup deleted[Main] : identity[Main][t.key] # None
<1>1. \A t \in tracked[Main] \cup deleted[Main] : t.obj # None
  BY MainRoles, SentinelsDiffer
<1> QED BY <1>1, MainRoles DEF Named

LEMMA EntriesStored ==
    ASSUME UnitInv, Named, Stored, ~wedged
    PROVE  \A t \in tracked[Main] \cup deleted[Main] : t.key \in Key /\ rows[t.key] # None
BY OneEntry, MainRoles DEF Stored

\* Which entry a row has is all the properties say of it.
LEMMA InvMeans ==
    ASSUME ViewInv
    PROVE  IdentityUnique /\ PersistedRowsExist /\ SnapshotsMatchStore
<1> USE DEF ViewInv
<1>1. \A p \in Persisted(Main) :
         \E t \in tracked[Main] \cup deleted[Main] : p[1] = t.obj /\ p[2] = t.key
  BY DEF Persisted
<1>2. IdentityUnique
  BY <1>1, MainIs DEF IdentityUnique, Named
<1>3. PersistedRowsExist
  <2> SUFFICES ASSUME ~wedged
               PROVE  /\ \A p \in Persisted(Main) : rows[p[2]] # None
                      /\ \A k \in Key : identity[Main][k] # None => rows[k] # None
    BY MainIs DEF PersistedRowsExist
  <2> QED BY <1>1, EntriesStored DEF Stored
<1>4. SnapshotsMatchStore
  BY DEF SnapshotsMatchStore, Careful
<1> QED BY <1>2, <1>3, <1>4
-----------------------------------------------------------------------------
(* What a save that commits does to the rows                               *)

\* An INSERT gets a row that was not there, and no two get the same.
LEMMA FreshRows ==
    ASSUME UnitInv, NEW ids \in Rowids(Main)
    PROVE  /\ \A i \in DOMAIN inserted[Main] :
                 NewKey(Main, ids, i) \in Key /\ rows[NewKey(Main, ids, i)] = None
           /\ \A i, j \in DOMAIN inserted[Main] :
                 NewKey(Main, ids, i) = NewKey(Main, ids, j) => i = j
<1> DEFINE q == inserted[Main]
<1>1. /\ DOMAIN q = 1..Len(q) /\ Len(q) \in Nat /\ \A i \in DOMAIN q : q[i] \in Obj
      /\ \A i \in DOMAIN q : TypeOf[q[i]] \in Type
  <2>1. q \in Seq(Obj) /\ TypeOf \in [Obj -> Type]
    BY MainTypes, ConstantsOK DEF ConstantsOK
  <2> HIDE DEF q
  <2> QED BY <2>1
<1>2. /\ ids \in [DOMAIN q -> Rowid]
      /\ \A i \in DOMAIN q : \A r \in TakenBy(Main, ids, i) : r < ids[i]
  BY DEF Rowids
<1>3. Rowid \subseteq Nat
  BY DEF Rowid
<1>4. ASSUME NEW i \in DOMAIN q
      PROVE  NewKey(Main, ids, i) \in Key /\ rows[NewKey(Main, ids, i)] = None
  <2>1. NewKey(Main, ids, i) = <<TypeOf[q[i]], ids[i]>> /\ ids[i] \in Rowid
    BY <1>2 DEF NewKey
  <2>2. ASSUME rows[<<TypeOf[q[i]], ids[i]>>] # None PROVE FALSE
    <3>1. ids[i] \in TakenBy(Main, ids, i)
      BY <2>1, <2>2 DEF TakenBy, StoredRowids
    <3>2. ids[i] < ids[i]
      BY <1>2, <3>1
    <3>3. ids[i] \in Nat
      BY <1>3, <2>1
    <3> HIDE DEF q
    <3> QED BY <3>2, <3>3
  <2> QED BY <1>1, <2>1, <2>2 DEF Key
<1>5. ASSUME NEW i \in DOMAIN q, NEW j \in DOMAIN q, i < j,
             NewKey(Main, ids, i) = NewKey(Main, ids, j)
      PROVE  FALSE
  <2>1. TypeOf[q[i]] = TypeOf[q[j]] /\ ids[i] = ids[j]
    BY <1>5 DEF NewKey
  <2>2. i \in 1..(j - 1)
    BY <1>1, <1>5
  <2>3. ids[i] \in TakenBy(Main, ids, j)
    BY <2>1, <2>2 DEF TakenBy
  <2>4. ids[i] < ids[j] /\ ids[j] \in Rowid
    BY <1>2, <2>3
  <2>5. ids[i] \in Nat
    BY <1>3, <2>1, <2>4
  <2> HIDE DEF q
  <2> QED BY <2>1, <2>4, <2>5
<1> QED BY <1>1, <1>4, <1>5

Written(ids) ==
    /\ rows' \in [Key -> Val \cup {None}]
    /\ \A d \in deleted[Main] : rows'[d.key] = None
    /\ \A t \in tracked[Main] :
          rows'[t.key] = IF heap[t.obj] # t.snap THEN heap[t.obj] ELSE rows[t.key]
    /\ \A i \in DOMAIN inserted[Main] : rows'[NewKey(Main, ids, i)] = heap[inserted[Main][i]]
    /\ \A k \in Key :
          \/ rows'[k] = rows[k]
          \/ \E t \in tracked[Main] \cup deleted[Main] : t.key = k
          \/ \E i \in DOMAIN inserted[Main] : NewKey(Main, ids, i) = k

LEMMA WrittenRows ==
    ASSUME UnitInv, Named, Stored, ~wedged, ~PlanFails(Main),
           \A o \in InsertedObjs(Main) : Encodes(o),
           NEW ids \in Rowids(Main), NEW w \in LastWriters(Dirty(Main)),
           rows' = Flushed(Main, ids, Len(inserted[Main]), w, deleted[Main])
    PROVE  Written(ids)
<1> DEFINE q == inserted[Main]
           n == Len(q)
           new(k) == {i \in 1..n : NewKey(Main, ids, i) = k}
           present(k) == rows[k] # None \/ new(k) # {}
<1>1. DOMAIN q = 1..n /\ n \in 0..Len(q)
  <2>1. q \in Seq(Obj)
    BY MainTypes
  <2> HIDE DEF q
  <2> QED BY <2>1
<1>2. rows' = [k \in Key |->
            IF k \in {d.key : d \in deleted[Main]} \/ ~present(k) THEN None
            ELSE IF k \in DOMAIN w THEN heap[w[k].obj]
            ELSE IF new(k) # {} THEN heap[q[CHOOSE i \in new(k) : TRUE]]
            ELSE rows[k]]
  BY DEF Flushed
<1>3. /\ DOMAIN w = {t.key : t \in Dirty(Main)}
      /\ \A k \in DOMAIN w : w[k] \in Dirty(Main) /\ w[k].key = k
  BY DEF LastWriters
<1>4. Dirty(Main) = {t \in tracked[Main] : heap[t.obj] # t.snap}
  BY DEF Dirty
<1>5. /\ \A i \in DOMAIN q : NewKey(Main, ids, i) \in Key /\ rows[NewKey(Main, ids, i)] = None
      /\ \A i, j \in DOMAIN q : NewKey(Main, ids, i) = NewKey(Main, ids, j) => i = j
  BY FreshRows
<1>6. \A t \in tracked[Main] \cup deleted[Main] : t.key \in Key /\ rows[t.key] # None
  BY EntriesStored
<1>7. rows' \in Table
  <2>1. \A i \in 1..n : Encodes(q[i])
    BY <1>1 DEF InsertedObjs
  <2>2. TypeOK /\ Dirty(Main) \in SUBSET Dirty(Main) /\ deleted[Main] \in SUBSET deleted[Main]
    BY DEF UnitInv, Sound
  <2> QED BY <1>1, <2>1, <2>2, MainIs, FlushedType
<1> HIDE DEF q, n
<1>8. \A d \in deleted[Main] : rows'[d.key] = None
  BY <1>2, <1>6
<1>9. ASSUME NEW t \in tracked[Main]
      PROVE  rows'[t.key] = IF heap[t.obj] # t.snap THEN heap[t.obj] ELSE rows[t.key]
  <2>1. t.key \in Key /\ present(t.key) /\ t.key \notin {d.key : d \in deleted[Main]}
    BY <1>6, OneEntry
  <2>2. new(t.key) = {}
    BY <1>1, <1>5, <1>6
  <2>3. t.key \in DOMAIN w => w[t.key] = t /\ heap[t.obj] # t.snap
    BY <1>3, <1>4, OneEntry
  <2>4. heap[t.obj] # t.snap => t.key \in DOMAIN w
    BY <1>3, <1>4
  <2> HIDE DEF new, present
  <2> QED BY <1>2, <2>1, <2>2, <2>3, <2>4
<1>10. ASSUME NEW i \in DOMAIN q
       PROVE  rows'[NewKey(Main, ids, i)] = heap[q[i]]
  <2> DEFINE k == NewKey(Main, ids, i)
  <2>1. k \in Key /\ new(k) = {i}
    BY <1>1, <1>5, <1>10
  <2>2. k \notin {d.key : d \in deleted[Main]} /\ k \notin DOMAIN w
    BY <1>3, <1>4, <1>5, <1>6
  <2>3. (CHOOSE j \in new(k) : TRUE) = i /\ new(k) # {} /\ present(k)
    BY <2>1
  <2> HIDE DEF new, present, k
  <2>4. rows'[k] = heap[q[i]]
    BY <1>2, <2>1, <2>2, <2>3
  <2> QED BY <2>4 DEF k
<1>11. ASSUME NEW k \in Key,
              \A t \in tracked[Main] \cup deleted[Main] : t.key # k,
              \A i \in DOMAIN q : NewKey(Main, ids, i) # k
       PROVE  rows'[k] = rows[k]
  <2>1. k \notin {d.key : d \in deleted[Main]} /\ k \notin DOMAIN w /\ new(k) = {}
    BY <1>1, <1>3, <1>4, <1>11
  <2> QED BY <1>2, <2>1
<1> QED BY <1>7, <1>8, <1>9, <1>10, <1>11 DEF Written, q, Table

\* What it does to the entries.
Applied(ids) ==
    /\ heap' = heap /\ inserted'[Main] = <<>> /\ deleted'[Main] = {}
    /\ \A t \in tracked'[Main] :
          \/ \E u \in tracked[Main] : t.obj = u.obj /\ t.key = u.key /\ t.snap = heap[t.obj]
          \/ \E i \in DOMAIN inserted[Main] :
                /\ t.obj = inserted[Main][i] /\ t.key = NewKey(Main, ids, i)
                /\ t.snap = heap[t.obj]
    /\ \A u \in tracked[Main] : \E t \in tracked'[Main] : t.obj = u.obj /\ t.key = u.key
    /\ \A i \in DOMAIN inserted[Main] : \E t \in tracked'[Main] :
          t.obj = inserted[Main][i] /\ t.key = NewKey(Main, ids, i)
    /\ \A u \in tracked[Main] : identity'[Main][u.key] = u.obj
    /\ \A d \in deleted[Main] : identity'[Main][d.key] = None
    /\ \A i \in DOMAIN inserted[Main] :
          identity'[Main][NewKey(Main, ids, i)] = inserted[Main][i]
    /\ \A k \in Key :
          \/ identity'[Main][k] = identity[Main][k]
          \/ identity'[Main][k] = None
          \/ \E i \in DOMAIN inserted[Main] : NewKey(Main, ids, i) = k

LEMMA AppliedEntries ==
    ASSUME UnitInv, Named, Stored, ~wedged, NEW ids \in Rowids(Main),
           ApplyAfterCommit(Main, ids), heap' = heap
    PROVE  Applied(ids)
<1> DEFINE q == inserted[Main]
           entry(i) == [obj |-> q[i], key |-> NewKey(Main, ids, i), snap |-> heap[q[i]]]
           new == {entry(i) : i \in DOMAIN q}
<1>1. /\ inserted'[Main] = <<>> /\ deleted'[Main] = {}
      /\ tracked'[Main] = Refreshed(Main) \cup new
      /\ identity'[Main] = [k \in Key |->
              IF k \in DeletedKeys(Main) THEN None
              ELSE IF \E t \in new : t.key = k THEN (CHOOSE t \in new : t.key = k).obj
              ELSE identity[Main][k]]
  BY MainTypes, MainIs DEF ApplyAfterCommit, DeletesLeft
<1>2. /\ \A i \in DOMAIN q : NewKey(Main, ids, i) \in Key /\ rows[NewKey(Main, ids, i)] = None
      /\ \A i, j \in DOMAIN q : NewKey(Main, ids, i) = NewKey(Main, ids, j) => i = j
      /\ \A t \in tracked[Main] \cup deleted[Main] : t.key \in Key /\ rows[t.key] # None
  BY FreshRows, EntriesStored
<1>3. /\ \A i \in DOMAIN q : /\ entry(i) \in new /\ entry(i).obj = q[i]
                            /\ entry(i).key = NewKey(Main, ids, i) /\ entry(i).snap = heap[q[i]]
      /\ \A t \in new : \E i \in DOMAIN q : t = entry(i)
  OBVIOUS
<1> DEFINE fresh(u) == [u EXCEPT !.snap = heap[u.obj]]
<1>4. \A u \in tracked[Main] : /\ fresh(u).obj = u.obj /\ fresh(u).key = u.key
                               /\ fresh(u).snap = heap[u.obj] /\ fresh(u) \in Refreshed(Main)
  <2> SUFFICES ASSUME NEW u \in tracked[Main]
               PROVE  /\ fresh(u).obj = u.obj /\ fresh(u).key = u.key
                      /\ fresh(u).snap = heap[u.obj] /\ fresh(u) \in Refreshed(Main)
    OBVIOUS
  <2>1. u \in Tracked
    BY MainTypes
  <2> QED BY <2>1 DEF Refreshed, Tracked
<1>5. \A t \in Refreshed(Main) : \E u \in tracked[Main] : t = fresh(u)
  BY DEF Refreshed
<1> HIDE DEF entry, new, fresh
<1>6. ASSUME NEW t \in tracked'[Main]
      PROVE  \/ \E u \in tracked[Main] : t.obj = u.obj /\ t.key = u.key /\ t.snap = heap[t.obj]
             \/ \E i \in DOMAIN q :
                   t.obj = q[i] /\ t.key = NewKey(Main, ids, i) /\ t.snap = heap[t.obj]
  <2>1. CASE t \in new
    <3>1. PICK i \in DOMAIN q : t = entry(i)
      BY <1>3, <2>1
    <3> QED BY <1>3, <3>1
  <2>2. CASE t \in Refreshed(Main)
    <3>1. PICK u \in tracked[Main] : t = fresh(u)
      BY <1>5, <2>2
    <3> QED BY <1>4, <3>1
  <2> QED BY <1>1, <1>6, <2>1, <2>2
<1>7. \A u \in tracked[Main] : \E t \in tracked'[Main] : t.obj = u.obj /\ t.key = u.key
  BY <1>1, <1>4
<1>8. \A i \in DOMAIN q : \E t \in tracked'[Main] : t.obj = q[i] /\ t.key = NewKey(Main, ids, i)
  BY <1>1, <1>3
<1>9. \A k \in Key : (\E t \in new : t.key = k) =>
         \E i \in DOMAIN q : NewKey(Main, ids, i) = k
  BY <1>3
<1>10. \A i \in DOMAIN q : (CHOOSE t \in new : t.key = NewKey(Main, ids, i)).obj = q[i]
  <2> SUFFICES ASSUME NEW i \in DOMAIN q
               PROVE  (CHOOSE t \in new : t.key = NewKey(Main, ids, i)).obj = q[i]
    OBVIOUS
  <2> DEFINE t == CHOOSE t \in new : t.key = NewKey(Main, ids, i)
  <2>1. t \in new /\ t.key = NewKey(Main, ids, i)
    BY <1>3
  <2>2. PICK j \in DOMAIN q : t = entry(j)
    BY <1>3, <2>1
  <2>3. NewKey(Main, ids, j) = NewKey(Main, ids, i)
    BY <1>3, <2>1, <2>2
  <2>4. j = i
    BY <1>2, <2>3
  <2> QED BY <1>3, <2>2, <2>4
<1>11. \A d \in deleted[Main] : d.key \in DeletedKeys(Main)
  BY DEF DeletedKeys
<1>12. \A k \in DeletedKeys(Main) : \E d \in deleted[Main] : d.key = k
  BY DEF DeletedKeys
<1>13. \A u \in tracked[Main] : identity'[Main][u.key] = u.obj
  <2> SUFFICES ASSUME NEW u \in tracked[Main] PROVE identity'[Main][u.key] = u.obj
    OBVIOUS
  <2>1. u.key \in Key /\ u.key \notin DeletedKeys(Main) /\ ~\E t \in new : t.key = u.key
    BY <1>2, <1>9, <1>12, OneEntry
  <2> QED BY <1>1, <2>1 DEF Named
<1>14. \A d \in deleted[Main] : identity'[Main][d.key] = None
  BY <1>1, <1>2, <1>11
<1>15. \A i \in DOMAIN q : identity'[Main][NewKey(Main, ids, i)] = q[i]
  <2> SUFFICES ASSUME NEW i \in DOMAIN q PROVE identity'[Main][NewKey(Main, ids, i)] = q[i]
    OBVIOUS
  <2> DEFINE k == NewKey(Main, ids, i)
  <2>1. k \in Key /\ k \notin DeletedKeys(Main)
    BY <1>2, <1>12
  <2>2. \E t \in new : t.key = k
    BY <1>3
  <2>3. (CHOOSE t \in new : t.key = k).obj = q[i]
    BY <1>10
  <2> HIDE DEF k
  <2>4. identity'[Main][k] = q[i]
    BY <1>1, <2>1, <2>2, <2>3
  <2> QED BY <2>4 DEF k
<1>16. \A k \in Key : \/ identity'[Main][k] = identity[Main][k]
                      \/ identity'[Main][k] = None
                      \/ \E i \in DOMAIN q : NewKey(Main, ids, i) = k
  BY <1>1, <1>9
<1> QED BY <1>1, <1>6, <1>7, <1>8, <1>13, <1>14, <1>15, <1>16 DEF Applied, q

-----------------------------------------------------------------------------
(* Every step keeps the entries and the rows together                      *)

Watched == careful' = (careful /\ ~Strays)

Kept == Named' /\ Stored' /\ Careful'

LEMMA SameStep ==
    ASSUME ViewInv, Watched, UNCHANGED <<heap, ctxVars, dbVars>>
    PROVE  Kept
<1>1. /\ heap' = heap /\ tracked' = tracked /\ deleted' = deleted /\ identity' = identity
      /\ rows' = rows /\ durable' = durable /\ wedged' = wedged /\ (careful' => careful)
  BY DEF ctxVars, dbVars, Watched
<1> QED BY <1>1 DEF Kept, ViewInv, Named, Stored, Careful

LEMMA ProgramKeeps ==
    ASSUME ViewInv, Watched, NEW o \in Obj, NEW v \in Contents, Create(o, v) \/ Edit(o, v)
    PROVE  Kept
<1>1. /\ heap' = [heap EXCEPT ![o] = v] /\ tracked' = tracked /\ deleted' = deleted
      /\ identity' = identity /\ rows' = rows /\ durable' = durable /\ wedged' = wedged
      /\ (careful' => careful)
  BY DEF Create, Edit, ctxVars, dbVars, Watched
<1>2. Named' /\ Stored'
  BY <1>1 DEF ViewInv, Named, Stored
<1>3. ASSUME careful', NEW d \in deleted[Main] PROVE heap'[d.obj] = heap[d.obj]
  <2>1. d.obj \in Obj /\ heap[d.obj] # None
    BY MainRoles DEF ViewInv
  <2>2. CASE d.obj # o
    BY <1>1, <2>1, <2>2, MainTypes DEF ViewInv
  <2>3. CASE d.obj = o
    <3>1. d.obj \in DeletedObjs(Main) /\ d.obj \in DeletedObjs(Main)'
      BY <1>1 DEF DeletedObjs
    <3> QED BY <1>3, <3>1 DEF Watched, Strays
  <2> QED BY <2>2, <2>3
<1>4. Careful'
  BY <1>1, <1>3 DEF ViewInv, Careful
<1> QED BY <1>2, <1>4 DEF Kept

LEMMA QueuesKeep ==
    ASSUME ViewInv, Watched, NEW o \in Obj, Insert(Main, o) \/ Delete(Main, o)
    PROVE  Kept
<1>1. /\ heap' = heap /\ identity' = identity /\ rows' = rows /\ durable' = durable
      /\ wedged' = wedged /\ (careful' => careful)
  BY DEF Insert, Delete, dbVars, Watched
<1>2. Stored'
  BY <1>1 DEF ViewInv, Stored
<1>3. CASE tracked'[Main] = tracked[Main] /\ deleted'[Main] \subseteq deleted[Main]
  <2>1. Named' /\ Careful'
    BY <1>1, <1>3 DEF ViewInv, Named, Careful
  <2> QED BY <1>2, <2>1 DEF Kept
<1>4. CASE Insert(Main, o) \/ DropInsert(Main, o)
  <2>1. tracked'[Main] = tracked[Main] /\ deleted'[Main] \subseteq deleted[Main]
    BY <1>4, MainIs, MainTypes DEF Insert, DropInsert, ViewInv
  <2> QED BY <1>3, <2>1
<1>5. CASE MarkDeleted(Main, o)
  <2>1. PICK t \in tracked[Main] :
           /\ t.obj = o
           /\ tracked' = [tracked EXCEPT ![Main] = @ \ {t}]
           /\ deleted' = [deleted EXCEPT ![Main] =
                             IF o \in DeletedObjs(Main) THEN @
                             ELSE @ \cup {[obj |-> o, key |-> t.key]}]
    BY <1>5 DEF MarkDeleted
  <2>2. o \notin DeletedObjs(Main)
    BY <2>1, MainRoles DEF ViewInv, DeletedObjs
  <2> DEFINE new == [obj |-> o, key |-> t.key]
  <2>3. new.obj = o /\ new.key = t.key
    OBVIOUS
  <2> HIDE DEF new
  <2>4. tracked'[Main] \subseteq tracked[Main] /\ deleted'[Main] = deleted[Main] \cup {new}
    BY <2>1, <2>2, MainIs, MainTypes DEF ViewInv, new
  <2>5. Named'
    BY <1>1, <2>1, <2>3, <2>4 DEF ViewInv, Named
  <2>6. ASSUME careful' PROVE rows[new.key] = heap[new.obj]
    <3>1. t.obj \in DeletedObjs(Main)'
      BY <2>1, <2>3, <2>4 DEF DeletedObjs
    <3>2. heap[t.obj] = t.snap
      BY <2>6, <3>1 DEF Watched, Strays
    <3> QED BY <1>1, <2>1, <2>3, <2>6, <3>2 DEF ViewInv, Careful
  <2>7. Careful'
    BY <1>1, <2>4, <2>6 DEF ViewInv, Careful
  <2> QED BY <1>2, <2>5, <2>7 DEF Kept
<1> QED BY <1>4, <1>5 DEF Delete

LEMMA CommitIs ==
    ASSUME ViewInv, SaveCommits(Main)
    PROVE  /\ ~wedged /\ ~wedged' /\ durable' = rows'
           /\ \E ids \in Rowids(Main) : Written(ids) /\ Applied(ids)
<1>1. PICK ids \in Rowids(Main), w \in LastWriters(Dirty(Main)) :
         /\ rows' = Flushed(Main, ids, Len(inserted[Main]), w, deleted[Main])
         /\ durable' = rows'
         /\ ApplyAfterCommit(Main, ids)
  BY DEF SaveCommits
<1>2. /\ ~wedged /\ wedged' = wedged /\ heap' = heap /\ ~PlanFails(Main)
      /\ \A o \in InsertedObjs(Main) : Encodes(o)
  BY DEF SaveCommits
<1>3. Written(ids)
  BY <1>1, <1>2, WrittenRows DEF ViewInv
<1>4. Applied(ids)
  BY <1>1, <1>2, AppliedEntries DEF ViewInv
<1> QED BY <1>1, <1>2, <1>3, <1>4

LEMMA SaveKeeps ==
    ASSUME ViewInv, Watched, SaveBody(Main)
    PROVE  Kept
<1>1. CASE SaveCommits(Main)
  <2>1. PICK ids \in Rowids(Main) : Written(ids) /\ Applied(ids)
    BY <1>1, CommitIs
  <2>2. ~wedged /\ ~wedged' /\ durable' = rows' /\ heap' = heap /\ deleted'[Main] = {}
        /\ (careful' => careful)
    BY <1>1, <2>1, CommitIs DEF Applied, Watched
  <2>3. ASSUME NEW t \in tracked'[Main] PROVE identity'[Main][t.key] = t.obj
    BY <2>1 DEF Applied
  <2>4. Named'
    BY <2>2, <2>3 DEF Named
  <2>5. ASSUME NEW k \in Key, identity'[Main][k] # None PROVE rows'[k] # None
    <3>1. \A i \in DOMAIN inserted[Main] : rows'[NewKey(Main, ids, i)] # None
      BY <2>1, MainRoles DEF Written, ViewInv
    <3>2. \A t \in tracked[Main] : rows'[t.key] # None
      BY <2>1, <2>2, MainRoles, EntriesStored DEF Written, ViewInv
    <3>3. \A d \in deleted[Main] : d.key # k
      BY <2>1, <2>5 DEF Applied
    <3>4. CASE identity'[Main][k] = identity[Main][k]
      <4>1. rows[k] # None
        BY <2>2, <2>5, <3>4 DEF ViewInv, Stored
      <4> QED BY <2>1, <3>1, <3>2, <3>3, <4>1 DEF Written
    <3>5. CASE \E i \in DOMAIN inserted[Main] : NewKey(Main, ids, i) = k
      BY <3>1, <3>5
    <3> QED BY <2>1, <2>5, <3>4, <3>5 DEF Applied
  <2>6. Stored'
    BY <2>2, <2>5 DEF Stored
  <2>7. ASSUME careful', NEW t \in tracked'[Main] PROVE rows'[t.key] = t.snap
    <3>1. CASE \E u \in tracked[Main] : t.obj = u.obj /\ t.key = u.key /\ t.snap = heap[t.obj]
      <4>1. PICK u \in tracked[Main] : t.obj = u.obj /\ t.key = u.key /\ t.snap = heap[t.obj]
        BY <3>1
      <4>2. rows[u.key] = u.snap
        BY <2>2, <2>7 DEF ViewInv, Careful
      <4>3. rows'[u.key] = IF heap[u.obj] # u.snap THEN heap[u.obj] ELSE rows[u.key]
        BY <2>1 DEF Written
      <4> QED BY <4>1, <4>2, <4>3
    <3>2. CASE \E i \in DOMAIN inserted[Main] :
                 /\ t.obj = inserted[Main][i] /\ t.key = NewKey(Main, ids, i)
                 /\ t.snap = heap[t.obj]
      BY <2>1, <3>2 DEF Written
    <3> QED BY <2>1, <3>1, <3>2 DEF Applied
  <2>8. Careful'
    BY <2>2, <2>7 DEF Careful
  <2> QED BY <2>4, <2>6, <2>8 DEF Kept
<1>2. CASE SaveChangesNothing(Main)
  BY <1>2, SameStep DEF SaveChangesNothing
<1>3. CASE SaveWedges(Main)
  <2>1. /\ wedged' = TRUE /\ ~wedged /\ tracked' = tracked /\ deleted' = deleted
        /\ identity' = identity
    BY <1>3 DEF SaveWedges, ctxVars
  <2>2. ~careful'
    BY <2>1 DEF Watched, Strays
  <2> QED BY <2>1, <2>2 DEF Kept, ViewInv, Named, Stored, Careful
<1> QED BY <1>1, <1>2, <1>3 DEF SaveBody

\* The objects a rollback takes back are the rows they stand for.
LEMMA RollbackKeeps ==
    ASSUME ViewInv, Watched, RollbackBody(Main)
    PROVE  Kept
<1> DEFINE entry(d) == [obj |-> d.obj, key |-> d.key, snap |-> SnapshotNow(d.obj)]
           back == {entry(d) : d \in deleted[Main]}
<1>1. UnitInv /\ Named /\ Stored /\ Careful
  BY DEF ViewInv
<1>2. /\ tracked'[Main] = tracked[Main] \cup back /\ deleted'[Main] = {}
      /\ identity'[Main] = [k \in Key |->
            IF k \in DeletedKeys(Main) THEN (CHOOSE d \in deleted[Main] : d.key = k).obj
            ELSE identity[Main][k]]
      /\ rows' = rows /\ durable' = durable /\ wedged' = wedged
      /\ (careful' => careful)
  BY <1>1, MainIs, MainTypes DEF RollbackBody, dbVars, Watched
<1>3. \A t \in back : \E d \in deleted[Main] :
         t.obj = d.obj /\ t.key = d.key /\ t.snap = SnapshotNow(d.obj)
  OBVIOUS
<1> HIDE DEF entry, back
<1>4. \A d \in deleted[Main] : d.key \in Key /\ identity'[Main][d.key] = d.obj
  <2> SUFFICES ASSUME NEW d \in deleted[Main]
               PROVE  d.key \in Key /\ identity'[Main][d.key] = d.obj
    OBVIOUS
  <2>1. d.key \in Key /\ d.key \in DeletedKeys(Main)
    BY <1>1, MainRoles DEF DeletedKeys
  <2>2. (CHOOSE e \in deleted[Main] : e.key = d.key) = d
    BY <1>1, OneEntry
  <2> QED BY <1>2, <2>1, <2>2
<1>5. \A k \in Key : k \notin DeletedKeys(Main) => identity'[Main][k] = identity[Main][k]
  BY <1>2
<1>6. \A k \in DeletedKeys(Main) : \E d \in deleted[Main] : d.key = k
  BY DEF DeletedKeys
<1>7. Named'
  <2>1. ASSUME NEW t \in tracked[Main] PROVE identity'[Main][t.key] = t.obj
    <3>1. t.key \in Key /\ t.key \notin DeletedKeys(Main)
      BY <1>1, <1>6, MainRoles, OneEntry
    <3> QED BY <1>1, <1>5, <3>1 DEF Named
  <2>2. ASSUME NEW t \in back PROVE identity'[Main][t.key] = t.obj
    BY <1>3, <1>4
  <2> QED BY <1>2, <2>1, <2>2 DEF Named
<1>8. Stored'
  <2>1. ASSUME ~wedged, NEW k \in Key, identity'[Main][k] # None PROVE rows[k] # None
    <3>1. CASE k \in DeletedKeys(Main)
      BY <1>1, <1>6, <2>1, <3>1, EntriesStored
    <3>2. CASE k \notin DeletedKeys(Main)
      BY <1>1, <1>5, <2>1, <3>2 DEF Stored
    <3> QED BY <3>1, <3>2
  <2> QED BY <1>1, <1>2, <2>1 DEF Stored
<1>9. Careful'
  <2>1. ASSUME careful, NEW d \in deleted[Main] PROVE rows[d.key] = SnapshotNow(d.obj)
    <3>1. ~wedged /\ rows[d.key] = heap[d.obj]
      BY <1>1, <2>1 DEF Careful
    <3>2. d.key \in Key /\ rows[d.key] # None
      BY <1>1, <3>1, EntriesStored
    <3>3. rows \in [Key -> Val \cup {None}]
      BY <1>1, MainTypes DEF Table
    <3>4. heap[d.obj] # Bad
      BY <3>1, <3>2, <3>3, SentinelsDiffer
    <3> QED BY <3>1, <3>4 DEF SnapshotNow, Encodes
  <2>2. ASSUME careful, NEW t \in tracked'[Main] PROVE rows[t.key] = t.snap
    BY <1>1, <1>2, <1>3, <2>1, <2>2 DEF Careful
  <2> QED BY <1>1, <1>2, <2>2 DEF Careful
<1> QED BY <1>7, <1>8, <1>9 DEF Kept

\* A fetch tracks only rows that no object stands for, as the rows are.
LEMMA FetchKeeps ==
    ASSUME ViewInv, Watched, NEW type \in Type, NEW S \in SUBSET Key, Fetch(Main, type, S)
    PROVE  Kept
<1> DEFINE missing == {k \in S : k \notin DeletedKeys(Main) /\ identity[Main][k] = None}
<1>1. UnitInv /\ Named /\ Stored /\ Careful
  BY DEF ViewInv
<1>2. PICK new \in [missing -> {o \in Obj : ~Allocated(o) /\ TypeOf[o] = type}] :
         /\ heap' = [o \in Obj |-> IF \E k \in missing : new[k] = o
                                   THEN rows[CHOOSE k \in missing : new[k] = o]
                                   ELSE heap[o]]
         /\ tracked' = [tracked EXCEPT ![Main] = @ \cup
               {[obj |-> new[k], key |-> k, snap |-> rows[k]] : k \in missing}]
         /\ identity' = [identity EXCEPT ![Main] = [k \in Key |->
               IF k \in missing THEN new[k] ELSE @[k]]]
  BY DEF Fetch
<1>3. /\ S \subseteq {k \in Key : k[1] = type /\ rows[k] # None}
      /\ deleted' = deleted /\ rows' = rows /\ durable' = durable /\ wedged' = wedged
      /\ (careful' => careful)
  BY DEF Fetch, dbVars, Watched
<1>4. \A k \in missing : /\ k \in Key /\ rows[k] # None /\ identity[Main][k] = None
                         /\ new[k] \in Obj /\ heap[new[k]] = None
  BY <1>2, <1>3 DEF Allocated
<1> DEFINE entry(k) == [obj |-> new[k], key |-> k, snap |-> rows[k]]
<1>5. /\ tracked'[Main] = tracked[Main] \cup {entry(k) : k \in missing}
      /\ \A k \in Key : identity'[Main][k] = IF k \in missing THEN new[k] ELSE identity[Main][k]
  BY <1>1, <1>2, MainIs, MainTypes
<1>6. \A t \in {entry(k) : k \in missing} :
         t.key \in missing /\ t.obj = new[t.key] /\ t.snap = rows[t.key]
  OBVIOUS
<1> HIDE DEF missing, entry
<1>7. \A t \in tracked[Main] \cup deleted[Main] :
         t.key \in Key /\ t.key \notin missing /\ identity[Main][t.key] = t.obj
  BY <1>1, <1>4, MainRoles, OneEntry DEF Named
<1>8. Named'
  <2>1. ASSUME NEW t \in tracked[Main] \cup deleted[Main]
        PROVE  identity'[Main][t.key] = t.obj
    BY <1>5, <1>7
  <2>2. ASSUME NEW t \in {entry(k) : k \in missing}
        PROVE  identity'[Main][t.key] = t.obj
    BY <1>4, <1>5, <1>6
  <2> QED BY <1>3, <1>5, <2>1, <2>2 DEF Named
<1>9. Stored'
  <2>1. ASSUME ~wedged, NEW k \in Key, identity'[Main][k] # None PROVE rows[k] # None
    BY <1>1, <1>4, <1>5, <2>1 DEF Stored
  <2> QED BY <1>1, <1>3, <2>1 DEF Stored
<1>10. Careful'
  <2>1. ASSUME careful, NEW t \in tracked'[Main] PROVE rows[t.key] = t.snap
    BY <1>1, <1>5, <1>6, <2>1 DEF Careful
  <2>2. ASSUME NEW d \in deleted[Main] PROVE heap'[d.obj] = heap[d.obj]
    <3>1. d.obj \in Obj /\ heap[d.obj] # None
      BY <1>1, MainRoles
    <3>2. ~\E k \in missing : new[k] = d.obj
      BY <1>4, <3>1
    <3> QED BY <1>2, <3>1, <3>2
  <2> QED BY <1>1, <1>3, <2>1, <2>2 DEF Careful
<1> QED BY <1>8, <1>9, <1>10 DEF Kept

LEMMA ForgetKeeps ==
    ASSUME ViewInv, Watched, DeleteAllData \/ Restart
    PROVE  Kept
<1>1. UnitInv /\ Named /\ Stored /\ Careful
  BY DEF ViewInv
<1>2. /\ tracked'[Main] = {} /\ deleted'[Main] = {} /\ identity'[Main] = NoIdentity
      /\ (wedged' => wedged) /\ (careful' => careful)
  <2>1. ForgetContexts
    BY DEF DeleteAllData, Restart
  <2>2. wedged' => wedged
    BY DEF DeleteAllData, ClearTables, Restart
  <2> QED BY <2>1, <2>2, MainIs DEF ForgetContexts, Watched
<1>3. ~wedged' => durable' = rows'
  BY DEF DeleteAllData, ClearTables, Restart
<1>4. \A k \in Key : identity'[Main][k] = None
  BY <1>2 DEF NoIdentity
<1>5. Named' /\ Stored' /\ Careful'
  BY <1>1, <1>2, <1>3, <1>4 DEF Named, Stored, Careful
<1> QED BY <1>5 DEF Kept
-----------------------------------------------------------------------------
(* The theorems                                                            *)

LEMMA ViewInit == WatchedInit => ViewInv
<1> SUFFICES ASSUME WatchedInit PROVE ViewInv
  OBVIOUS
<1>1. /\ tracked[Main] = {} /\ deleted[Main] = {} /\ identity[Main] = NoIdentity
      /\ durable = rows /\ wedged = FALSE
  BY MainIs DEF WatchedInit, Init
<1>2. \A k \in Key : identity[Main][k] = None
  BY <1>1 DEF NoIdentity
<1> QED BY <1>1, <1>2, UnitInit DEF WatchedInit, ViewInv, Named, Stored, Careful

LEMMA ViewNext ==
    ASSUME DeleteAllSucceeds, ViewInv, [WatchedNext]_<<vars, careful>>
    PROVE  ViewInv'
<1>1. UnitInv'
  BY UnitNext DEF ViewInv, WatchedNext
<1>2. Kept
  <2>1. CASE UNCHANGED <<vars, careful>>
    BY <2>1 DEF vars, ctxVars, Kept, ViewInv, Named, Stored, Careful
  <2>2. CASE WatchedNext
    <3>1. Watched /\ Next
      BY <2>2 DEF WatchedNext, Watched
    <3>2. ASSUME NEW c \in Ctx PROVE c = Main
      BY MainIs
    <3>3. CASE \E o \in Obj, v \in Contents : Create(o, v) \/ Edit(o, v)
      BY <3>1, <3>3, ProgramKeeps
    <3>4. CASE \E c \in Ctx, o \in Obj : Insert(c, o) \/ Delete(c, o)
      BY <3>1, <3>2, <3>4, QueuesKeep
    <3>5. CASE \E c \in Ctx : Save(c) \/ Rollback(c)
      BY <3>1, <3>2, <3>5, SaveKeeps, RollbackKeeps DEF Save, Rollback
    <3>6. CASE \E c \in Ctx :
                 TransactionBegin(c) \/ TransactionReturns(c) \/ TransactionThrows(c)
      BY <3>1, <3>2, <3>6, SameStep, SaveKeeps, RollbackKeeps
         DEF TransactionBegin, TransactionReturns, TransactionThrows
    <3>7. CASE \E c \in Ctx, type \in Type, S \in SUBSET Key : Fetch(c, type, S)
      BY <3>1, <3>2, <3>7, FetchKeeps
    <3>8. CASE DeleteAllData \/ Restart
      BY <3>1, <3>8, ForgetKeeps
    <3>9. ASSUME NEW types \in SUBSET Type, DeleteAllDataFails(types) PROVE FALSE
      BY <3>9 DEF DeleteAllDataFails, DeleteAllSucceeds
    <3> QED BY <3>1, <3>3, <3>4, <3>5, <3>6, <3>7, <3>8, <3>9 DEF Next
  <2> QED BY <2>1, <2>2
<1> QED BY <1>1, <1>2 DEF Kept, ViewInv

LEMMA ViewHolds == ASSUME DeleteAllSucceeds PROVE WatchedSpec => []ViewInv
<1>1. ViewInv /\ [WatchedNext]_<<vars, careful>> => ViewInv'
  BY ViewNext
<1> QED BY ViewInit, <1>1, PTL DEF WatchedSpec

\* Whatever the sequence of inserts, deletes, saves, rollbacks and fetches,
\* and whether or not the host could roll back, every row a tracked or
\* pending-delete entry names is the identity map's for that entry's object:
\* fetch_rows never makes a second instance of it.
THEOREM OneInstancePerRow ==
    ASSUME DeleteAllSucceeds PROVE WatchedSpec => []IdentityUnique
<1>1. ViewInv => IdentityUnique
  BY InvMeans
<1> QED BY ViewHolds, <1>1, PTL

\* The UPDATEs and DELETEs of a flush name rows that are there, and the
\* identity map knows only such rows, unless the connection is wedged: no
\* change of the program is lost on a row that is gone.
THEOREM NamedRowsExist ==
    ASSUME DeleteAllSucceeds PROVE WatchedSpec => []PersistedRowsExist
<1>1. ViewInv => PersistedRowsExist
  BY InvMeans
<1> QED BY ViewHolds, <1>1, PTL

\* Of a program that neither re-inserts nor edits an object pending delete,
\* nor deletes one with unsaved edits, every snapshot is the row: the dirty
\* check of the update plan misses no difference.
THEOREM SnapshotsAreRows ==
    ASSUME DeleteAllSucceeds PROVE WatchedSpec => []SnapshotsMatchStore
<1>1. ViewInv => SnapshotsMatchStore
  BY InvMeans
<1> QED BY ViewHolds, <1>1, PTL
-----------------------------------------------------------------------------
(* The unit of work: what the view holds                                   *)

\* The view by kind of row, and the objects that wait.
ViewShape ==
    /\ ViewOfRows = [k \in Key |-> ViewOfRows[k]]
    /\ \A d \in deleted[Main] : d.key \in Key /\ ViewOfRows[d.key] = None
    /\ \A t \in tracked[Main] : t.key \in Key /\ ViewOfRows[t.key] = heap[t.obj]
    /\ \A k \in Key : \/ ViewOfRows[k] = rows[k]
                      \/ \E t \in tracked[Main] \cup deleted[Main] : t.key = k
    /\ WaitingInserts = [o \in Obj |-> WaitingInserts[o]]
    /\ \A o \in Obj :
          WaitingInserts[o] = IF o \in InsertedObjs(Main) THEN heap[o] ELSE None

LEMMA ViewIs == UnitInv /\ Named => ViewShape
<1> SUFFICES ASSUME UnitInv, Named PROVE ViewShape
  OBVIOUS
<1>1. ViewOfRows = [k \in Key |-> ViewOfRows[k]]
  BY DEF ViewOfRows
<1>2. WaitingInserts = [o \in Obj |-> WaitingInserts[o]]
  BY DEF WaitingInserts
<1>3. \A o \in Obj :
         WaitingInserts[o] = IF o \in InsertedObjs(Main) THEN heap[o] ELSE None
  BY DEF WaitingInserts
<1>4. \A k \in Key : ViewOfRows[k] = IF k \in DeletedKeys(Main) THEN None
                                    ELSE IF StandsFor(k) = {} THEN rows[k]
                                    ELSE heap[(CHOOSE t \in StandsFor(k) : TRUE).obj]
  BY DEF ViewOfRows
<1>5. \A d \in deleted[Main] : d.key \in Key /\ ViewOfRows[d.key] = None
  BY <1>4, MainRoles DEF DeletedKeys
<1>6. ASSUME NEW t \in tracked[Main]
      PROVE  t.key \in Key /\ ViewOfRows[t.key] = heap[t.obj]
  <2>1. t.key \in Key /\ t.key \notin DeletedKeys(Main)
    BY MainRoles, OneEntry DEF DeletedKeys
  <2>2. StandsFor(t.key) = {t}
    BY OneEntry DEF StandsFor
  <2>3. (CHOOSE u \in StandsFor(t.key) : TRUE) = t /\ StandsFor(t.key) # {}
    BY <2>2
  <2> QED BY <1>4, <2>1, <2>3
<1>7. \A k \in Key : \/ ViewOfRows[k] = rows[k]
                     \/ \E t \in tracked[Main] \cup deleted[Main] : t.key = k
  BY <1>4 DEF DeletedKeys, StandsFor
<1> QED BY <1>1, <1>2, <1>3, <1>5, <1>6, <1>7 DEF ViewShape

\* Between two states of the invariant, of a program that stays careful.
CarefulStep ==
    /\ ViewInv /\ ViewInv' /\ Kept
    /\ careful' /\ careful /\ ~Strays

LEMMA Shapes ==
    ASSUME CarefulStep
    PROVE  /\ UnitInv /\ Named /\ Stored /\ Careful /\ ~wedged
           /\ UnitInv' /\ Named' /\ Stored' /\ Careful' /\ ~wedged'
           /\ ViewShape /\ ViewShape'
<1>1. /\ UnitInv /\ Named /\ Stored /\ Careful
      /\ UnitInv' /\ Named' /\ Stored' /\ Careful'
  BY DEF CarefulStep, Kept, ViewInv
<1>2. ViewShape
  BY <1>1, ViewIs
<1>3. UnitInv' /\ Named' => ViewShape'
  BY ViewIs, PTL
<1>4. ~wedged /\ ~wedged'
  BY <1>1 DEF CarefulStep, Careful
<1> QED BY <1>1, <1>2, <1>3, <1>4

\* The steps of the unit of work are told from each other by the table, the
\* view and the waiting objects.
Implements == [Promise!Next]_(Promise!vars)

LEMMA Unseen ==
    ASSUME CarefulStep, UNCHANGED <<heap, ctxVars, dbVars>>
    PROVE  Implements
<1>1. /\ heap' = heap /\ tracked' = tracked /\ deleted' = deleted /\ rows' = rows
      /\ inserted' = inserted
  BY DEF ctxVars, dbVars
<1>2. ViewOfRows' = ViewOfRows /\ WaitingInserts' = WaitingInserts
  BY <1>1 DEF ViewOfRows, WaitingInserts, StandsFor, DeletedKeys, InsertedObjs
<1> QED BY <1>1, <1>2 DEF Implements, Promise!vars

\* An object's fields are one row of the view, or one that waits, or neither.
LEMMA ProgramImplements ==
    ASSUME CarefulStep, NEW o \in Obj, NEW v \in Contents, Create(o, v) \/ Edit(o, v)
    PROVE  Implements
<1>1. /\ heap' = [heap EXCEPT ![o] = v] /\ tracked' = tracked /\ deleted' = deleted
      /\ inserted' = inserted /\ rows' = rows
  BY DEF Create, Edit, ctxVars, dbVars
<1>2. UnitInv /\ ViewShape /\ ViewShape'
  BY Shapes
<1>3. heap'[o] = v /\ \A p \in Obj : p # o => heap'[p] = heap[p]
  BY <1>1, <1>2, MainTypes
<1>4. InsertedObjs(Main)' = InsertedObjs(Main)
  BY <1>1 DEF InsertedObjs
<1>5. \A p \in Obj : p # o => WaitingInserts'[p] = WaitingInserts[p]
  BY <1>2, <1>3, <1>4 DEF ViewShape
<1>6. \A t \in tracked[Main] : t.key \in Key /\ t.obj \in Obj /\ heap[t.obj] # None
  BY <1>2, MainRoles
<1>7. ASSUME NEW k \in Key, ~\E t \in tracked[Main] : t.key = k /\ t.obj = o
      PROVE  ViewOfRows'[k] = ViewOfRows[k]
  <2>1. CASE \E t \in tracked[Main] : t.key = k
    <3>1. PICK t \in tracked[Main] : t.key = k
      BY <2>1
    <3>2. t.obj # o
      BY <1>7, <3>1
    <3> QED BY <1>1, <1>2, <1>3, <1>6, <3>1, <3>2 DEF ViewShape
  <2>2. CASE \E d \in deleted[Main] : d.key = k
    BY <1>1, <1>2, <2>2 DEF ViewShape
  <2>3. CASE ~\E t \in tracked[Main] \cup deleted[Main] : t.key = k
    BY <1>1, <1>2, <2>3 DEF ViewShape
  <2> QED BY <2>1, <2>2, <2>3
<1>8. CASE \E t \in tracked[Main] : t.obj = o
  <2>1. PICK t \in tracked[Main] : t.obj = o
    BY <1>8
  <2>2. o \notin InsertedObjs(Main)
    BY <1>2, <2>1, MainRoles DEF InsertedObjs
  <2>3. WaitingInserts' = WaitingInserts
    BY <1>2, <1>4, <1>5, <2>2 DEF ViewShape
  <2>4. \A k \in Key : k # t.key => ViewOfRows'[k] = ViewOfRows[k]
    BY <1>2, <1>7, <2>1, MainRoles
  <2>5. ViewOfRows'[t.key] = v /\ t.key \in Key /\ ViewOfRows[t.key] # None
    BY <1>1, <1>2, <1>3, <1>6, <2>1 DEF ViewShape
  <2>6. ViewOfRows' = [ViewOfRows EXCEPT ![t.key] = v]
    BY <1>2, <2>4, <2>5 DEF ViewShape
  <2>7. Promise!Change(t.key, v)
    BY <1>1, <2>3, <2>5, <2>6 DEF Promise!Change
  <2> QED BY <2>5, <2>7 DEF Implements, Promise!Next
<1>9. CASE ~\E t \in tracked[Main] : t.obj = o
  <2>1. \A k \in Key : ViewOfRows'[k] = ViewOfRows[k]
    BY <1>7, <1>9
  <2>2. ViewOfRows' = ViewOfRows
    BY <1>2, <2>1 DEF ViewShape
  <2>3. CASE o \in InsertedObjs(Main)
    <3>1. WaitingInserts'[o] = v
      BY <1>2, <1>3, <1>4, <2>3 DEF ViewShape
    <3>2. WaitingInserts' = [WaitingInserts EXCEPT ![o] = v]
      BY <1>2, <1>5, <3>1 DEF ViewShape
    <3>3. Promise!Queue(o, v)
      BY <1>1, <2>2, <3>2 DEF Promise!Queue
    <3> QED BY <3>3 DEF Implements, Promise!Next
  <2>4. CASE o \notin InsertedObjs(Main)
    <3>1. WaitingInserts' = WaitingInserts
      BY <1>2, <1>4, <1>5, <2>4 DEF ViewShape
    <3> QED BY <1>1, <2>2, <3>1 DEF Implements, Promise!vars
  <2> QED BY <2>3, <2>4
<1> QED BY <1>8, <1>9

\* Queueing and unqueueing touch one object.
LEMMA QueuedObjects ==
    ASSUME NEW s \in Seq(Obj), NEW o \in Obj,
           \A i, j \in DOMAIN s : s[i] = s[j] => i = j
    PROVE  LET objs(q) == {q[i] : i \in DOMAIN q}
           IN  /\ o \notin objs(s) => objs(Append(s, o)) = objs(s) \cup {o}
               /\ o \in objs(s) => objs(Without(s, o)) = objs(s) \ {o}
<1> DEFINE objs(q) == {q[i] : i \in DOMAIN q}
           p == CHOOSE i \in DOMAIN s : s[i] = o
<1>1. DOMAIN s = 1..Len(s) /\ Len(s) \in Nat
  OBVIOUS
<1>2. ASSUME o \notin objs(s) PROVE objs(Append(s, o)) = objs(s) \cup {o}
  <2> DEFINE a == Append(s, o)
  <2>1. /\ DOMAIN a = 1..(Len(s) + 1) /\ a[Len(s) + 1] = o
        /\ \A i \in 1..Len(s) : a[i] = s[i]
    OBVIOUS
  <2>2. \A i \in 1..(Len(s) + 1) : i \in 1..Len(s) \/ i = Len(s) + 1
    BY <1>1
  <2>3. Len(s) + 1 \in 1..(Len(s) + 1) /\ \A i \in 1..Len(s) : i \in 1..(Len(s) + 1)
    BY <1>1
  <2> HIDE DEF a
  <2> QED BY <1>1, <2>1, <2>2, <2>3 DEF a
<1>3. ASSUME o \in objs(s) PROVE objs(Without(s, o)) = objs(s) \ {o}
  <2> DEFINE w == Without(s, o)
  <2>1. \A i \in DOMAIN w : w[i] # o /\ \E j \in DOMAIN s : s[j] = w[i]
    BY <1>3, WithoutQueue
  <2>2. p \in 1..Len(s) /\ s[p] = o
    BY <1>1, <1>3
  <2>3. w = [j \in 1..(Len(s) - 1) |-> IF j < p THEN s[j] ELSE s[j + 1]]
    BY DEF Without
  <2> HIDE DEF p, w
  <2>4. ASSUME NEW j \in 1..Len(s), s[j] # o PROVE \E i \in DOMAIN w : w[i] = s[j]
    <3>1. CASE j < p
      <4>1. j \in 1..(Len(s) - 1)
        BY <1>1, <2>2, <3>1
      <4> QED BY <2>3, <3>1, <4>1
    <3>2. CASE p < j
      <4>1. /\ j - 1 \in 1..(Len(s) - 1) /\ ~(j - 1 < p) /\ (j - 1) + 1 = j
        BY <1>1, <2>2, <3>2
      <4>2. w[j - 1] = s[(j - 1) + 1] /\ j - 1 \in DOMAIN w
        BY <2>3, <4>1
      <4> QED BY <4>1, <4>2
    <3>3. j # p
      BY <2>2, <2>4
    <3> QED BY <1>1, <2>2, <3>1, <3>2, <3>3
  <2>5. \A x \in objs(w) : x \in objs(s) /\ x # o
    BY <2>1
  <2>6. \A x \in objs(s) \ {o} : x \in objs(w)
    BY <1>1, <2>4
  <2> QED BY <2>5, <2>6 DEF w
<1> QED BY <1>2, <1>3

\* insert(_:) and the delete(_:) of an insert change what waits, delete(_:)
\* of a tracked object removes its row from the view.
LEMMA QueuesImplement ==
    ASSUME CarefulStep, NEW o \in Obj, Insert(Main, o) \/ Delete(Main, o)
    PROVE  Implements
<1>1. heap' = heap /\ rows' = rows
  BY DEF Insert, Delete, dbVars
<1>2. UnitInv /\ ViewShape /\ ViewShape'
  BY Shapes
<1> DEFINE q == inserted[Main]
<1>3. q \in Seq(Obj) /\ \A i, j \in DOMAIN q : q[i] = q[j] => i = j
  BY <1>2, MainTypes, MainRoles
<1>4. ASSUME tracked'[Main] = tracked[Main], deleted'[Main] = deleted[Main]
      PROVE  ViewOfRows' = ViewOfRows
  <2>1. \A k \in Key : ViewOfRows'[k] = ViewOfRows[k]
    BY <1>1, <1>2, <1>4 DEF ViewShape
  <2> QED BY <1>2, <2>1 DEF ViewShape
<1>5. CASE Insert(Main, o)
  <2>1. /\ heap[o] # None /\ tracked'[Main] = tracked[Main]
        /\ deleted'[Main] = {d \in deleted[Main] : d.obj # o}
        /\ inserted'[Main] = IF o \in Known(Main) THEN q ELSE Append(q, o)
    BY <1>2, <1>5, MainIs, MainTypes DEF Insert, Allocated
  <2>2. CASE o \in Known(Main)
    <3>1. \A d \in deleted[Main] : d.obj # o
      BY <1>2, <2>2, MainRoles DEF Known, InsertedObjs, TrackedObjs
    <3>2. deleted'[Main] = deleted[Main]
      BY <2>1, <3>1
    <3>3. ViewOfRows' = ViewOfRows
      BY <1>4, <2>1, <3>2
    <3>4. InsertedObjs(Main)' = InsertedObjs(Main)
      BY <2>1, <2>2 DEF InsertedObjs
    <3>5. WaitingInserts' = WaitingInserts
      BY <1>1, <1>2, <3>4 DEF ViewShape
    <3> QED BY <1>1, <3>3, <3>5 DEF Implements, Promise!vars
  <2>3. CASE o \notin Known(Main)
    <3>1. o \notin InsertedObjs(Main)
      BY <2>3 DEF Known
    <3>2. InsertedObjs(Main)' = InsertedObjs(Main) \cup {o}
      <4> HIDE DEF q
      <4>1. o \notin {q[i] : i \in DOMAIN q}
        BY <3>1 DEF InsertedObjs, q
      <4>2. {Append(q, o)[i] : i \in DOMAIN Append(q, o)} = {q[i] : i \in DOMAIN q} \cup {o}
        BY <1>3, <4>1, QueuedObjects
      <4> QED BY <2>1, <2>3, <4>2 DEF InsertedObjs, q
    <3>3. o \notin DeletedObjs(Main)
      BY <3>2 DEF CarefulStep, Strays
    <3>4. deleted'[Main] = deleted[Main]
      BY <2>1, <3>3 DEF DeletedObjs
    <3>5. ViewOfRows' = ViewOfRows
      BY <1>4, <2>1, <3>4
    <3>6. \A p \in Obj : WaitingInserts'[p] = IF p = o THEN heap[o] ELSE WaitingInserts[p]
      BY <1>1, <1>2, <3>2 DEF ViewShape
    <3>7. WaitingInserts' = [WaitingInserts EXCEPT ![o] = heap[o]]
      BY <1>2, <3>6 DEF ViewShape
    <3>8. Promise!Queue(o, heap[o])
      BY <1>1, <3>5, <3>7 DEF Promise!Queue
    <3>9. heap[o] \in Contents \cup {None}
      BY <1>2, MainTypes
    <3> QED BY <3>8, <3>9 DEF Implements, Promise!Next
  <2> QED BY <2>2, <2>3
<1>6. CASE DropInsert(Main, o)
  <2>1. /\ tracked' = tracked /\ deleted' = deleted /\ o \in InsertedObjs(Main)
        /\ inserted'[Main] = Without(q, o)
    BY <1>2, <1>6, MainIs, MainTypes DEF DropInsert
  <2>2. InsertedObjs(Main)' = InsertedObjs(Main) \ {o}
    <3> HIDE DEF q
    <3>1. o \in {q[i] : i \in DOMAIN q}
      BY <2>1 DEF InsertedObjs, q
    <3>2. {Without(q, o)[i] : i \in DOMAIN Without(q, o)} = {q[i] : i \in DOMAIN q} \ {o}
      BY <1>3, <3>1, QueuedObjects
    <3> QED BY <2>1, <3>2 DEF InsertedObjs, q
  <2>3. ViewOfRows' = ViewOfRows
    BY <1>4, <2>1
  <2>4. \A p \in Obj : WaitingInserts'[p] = IF p = o THEN None ELSE WaitingInserts[p]
    BY <1>1, <1>2, <2>2 DEF ViewShape
  <2>5. WaitingInserts' = [WaitingInserts EXCEPT ![o] = None]
    BY <1>2, <2>4 DEF ViewShape
  <2>6. Promise!Queue(o, None)
    BY <1>1, <2>3, <2>5 DEF Promise!Queue
  <2> QED BY <2>6 DEF Implements, Promise!Next
<1>7. CASE MarkDeleted(Main, o)
  <2>1. PICK t \in tracked[Main] :
           /\ t.obj = o
           /\ tracked' = [tracked EXCEPT ![Main] = @ \ {t}]
           /\ deleted' = [deleted EXCEPT ![Main] =
                             IF o \in DeletedObjs(Main) THEN @
                             ELSE @ \cup {[obj |-> o, key |-> t.key]}]
    BY <1>7 DEF MarkDeleted
  <2>2. o \notin DeletedObjs(Main)
    BY <1>2, <2>1, MainRoles DEF DeletedObjs
  <2> DEFINE new == [obj |-> o, key |-> t.key]
  <2>3. new.key = t.key
    OBVIOUS
  <2> HIDE DEF new
  <2>4. tracked'[Main] = tracked[Main] \ {t} /\ deleted'[Main] = deleted[Main] \cup {new}
    BY <1>2, <2>1, <2>2, MainIs, MainTypes DEF new
  <2>5. inserted' = inserted
    BY <1>7 DEF MarkDeleted
  <2>6. t.key \in Key /\ ViewOfRows[t.key] # None
    BY <1>2, <2>1, MainRoles DEF ViewShape
  <2>7. ViewOfRows'[t.key] = None
    BY <1>2, <2>3, <2>4 DEF ViewShape
  <2>8. ASSUME NEW k \in Key, k # t.key PROVE ViewOfRows'[k] = ViewOfRows[k]
    BY <1>1, <1>2, <2>3, <2>4, <2>8 DEF ViewShape
  <2>9. ViewOfRows' = [ViewOfRows EXCEPT ![t.key] = None]
    BY <1>2, <2>6, <2>7, <2>8 DEF ViewShape
  <2>10. WaitingInserts' = WaitingInserts
    BY <1>1, <2>5 DEF WaitingInserts, InsertedObjs
  <2>11. Promise!Remove(t.key)
    BY <1>1, <2>6, <2>9, <2>10 DEF Promise!Remove
  <2> QED BY <2>6, <2>11 DEF Implements, Promise!Next
<1> QED BY <1>5, <1>6, <1>7 DEF Delete

\* A save that commits stores the view, and every waiting object in a row of
\* its own.
LEMMA CommitImplements ==
    ASSUME CarefulStep, SaveCommits(Main)
    PROVE  Promise!Commit
<1>1. PICK ids \in Rowids(Main) : Written(ids) /\ Applied(ids)
  BY CommitIs DEF CarefulStep
<1>2. /\ UnitInv /\ Named /\ Stored /\ Careful /\ ~wedged /\ Careful'
      /\ ViewShape /\ ViewShape' /\ careful /\ careful'
  BY Shapes DEF CarefulStep
<1> DEFINE q == inserted[Main]
           key(i) == NewKey(Main, ids, i)
           at(o) == CHOOSE i \in DOMAIN q : q[i] = o
           row == [o \in Promise!Waiting |-> key(at(o))]
<1>3. /\ \A i \in DOMAIN q : key(i) \in Key /\ rows[key(i)] = None
      /\ \A i, j \in DOMAIN q : key(i) = key(j) => i = j
  BY <1>2, FreshRows
<1>4. /\ \A i \in DOMAIN q : q[i] \in Obj /\ heap[q[i]] # None
      /\ \A i, j \in DOMAIN q : q[i] = q[j] => i = j
  BY <1>2, MainRoles
<1>5. \A i \in DOMAIN q : q[i] \in Promise!Waiting /\ WaitingInserts[q[i]] = heap[q[i]]
  BY <1>2, <1>4 DEF ViewShape, InsertedObjs, Promise!Waiting
<1>6. \A o \in Promise!Waiting : \E i \in DOMAIN q : q[i] = o
  BY <1>2 DEF ViewShape, InsertedObjs, Promise!Waiting
<1>7. \A o \in Promise!Waiting : at(o) \in DOMAIN q /\ q[at(o)] = o
  BY <1>6
<1>8. /\ rows' = [k \in Key |-> rows'[k]] /\ rows' \in [Key -> Val \cup {None}]
      /\ \A d \in deleted[Main] : rows'[d.key] = None
      /\ \A t \in tracked[Main] :
            rows'[t.key] = IF heap[t.obj] # t.snap THEN heap[t.obj] ELSE rows[t.key]
      /\ \A i \in DOMAIN q : rows'[key(i)] = heap[q[i]]
      /\ \A k \in Key : \/ rows'[k] = rows[k]
                        \/ \E t \in tracked[Main] \cup deleted[Main] : t.key = k
                        \/ \E i \in DOMAIN q : key(i) = k
  BY <1>1 DEF Written
<1> HIDE DEF q, key, at
<1>9. /\ DOMAIN row = Promise!Waiting /\ row \in [Promise!Waiting -> {k \in Key : rows[k] = None}]
      /\ \A o, p \in Promise!Waiting : row[o] = row[p] => o = p
      /\ \A o \in Promise!Waiting : row[o] = key(at(o))
  BY <1>3, <1>7
<1> HIDE DEF row
<1>10. ASSUME NEW o \in Promise!Waiting PROVE rows'[row[o]] = WaitingInserts[o]
  BY <1>5, <1>7, <1>8, <1>9
<1>11. ASSUME NEW k \in Key, ~\E o \in Promise!Waiting : row[o] = k
       PROVE  rows'[k] = ViewOfRows[k]
  <2>1. ~\E i \in DOMAIN q : key(i) = k
    <3> SUFFICES ASSUME NEW i \in DOMAIN q, key(i) = k PROVE FALSE
      OBVIOUS
    <3>1. q[i] \in Promise!Waiting /\ at(q[i]) = i
      BY <1>4, <1>5, <1>7
    <3> QED BY <1>9, <1>11, <3>1
  <2>2. CASE \E d \in deleted[Main] : d.key = k
    BY <1>2, <1>8, <2>2 DEF ViewShape
  <2>3. CASE \E t \in tracked[Main] : t.key = k
    <3>1. PICK t \in tracked[Main] : t.key = k
      BY <2>3
    <3>2. rows[t.key] = t.snap
      BY <1>2 DEF Careful
    <3>3. ViewOfRows[t.key] = heap[t.obj]
      BY <1>2 DEF ViewShape
    <3> QED BY <1>8, <3>1, <3>2, <3>3
  <2>4. CASE ~\E t \in tracked[Main] \cup deleted[Main] : t.key = k
    BY <1>2, <1>8, <2>1, <2>4 DEF ViewShape
  <2> QED BY <2>2, <2>3, <2>4
<1>12. rows' = [k \in Key |->
          IF \E o \in Promise!Waiting : row[o] = k
          THEN WaitingInserts[CHOOSE o \in Promise!Waiting : row[o] = k]
          ELSE ViewOfRows[k]]
  <2>1. ASSUME NEW k \in Key, \E o \in Promise!Waiting : row[o] = k
        PROVE  rows'[k] = WaitingInserts[CHOOSE o \in Promise!Waiting : row[o] = k]
    <3> DEFINE o == CHOOSE o \in Promise!Waiting : row[o] = k
    <3>1. o \in Promise!Waiting /\ row[o] = k
      BY <2>1
    <3> HIDE DEF o
    <3>2. rows'[k] = WaitingInserts[o]
      BY <1>10, <3>1
    <3> QED BY <3>2 DEF o
  <2> QED BY <1>8, <1>11, <2>1
<1>13. ViewOfRows' = rows'
  <2>1. /\ deleted'[Main] = {} /\ heap' = heap
        /\ \A t \in tracked'[Main] : t.snap = heap[t.obj]
    BY <1>1 DEF Applied
  <2>2. \A t \in tracked'[Main] : rows'[t.key] = t.snap
    BY <1>2 DEF Careful
  <2>3. \A k \in Key : ViewOfRows'[k] = rows'[k]
    BY <1>2, <2>1, <2>2 DEF ViewShape
  <2> QED BY <1>2, <1>8, <2>3 DEF ViewShape
<1>14. WaitingInserts' = Promise!Nothing
  <2>1. InsertedObjs(Main)' = {}
    BY <1>1 DEF Applied, InsertedObjs
  <2> QED BY <1>2, <2>1 DEF ViewShape, Promise!Nothing
<1> QED BY <1>8, <1>9, <1>12, <1>13, <1>14 DEF Promise!Commit

LEMMA SaveImplements ==
    ASSUME CarefulStep, SaveBody(Main)
    PROVE  Implements
<1>1. CASE SaveCommits(Main)
  BY <1>1, CommitImplements DEF Implements, Promise!Next
<1>2. CASE SaveChangesNothing(Main)
  BY <1>2, Unseen DEF SaveChangesNothing
<1>3. ~SaveWedges(Main)
  BY DEF CarefulStep, Strays, SaveWedges
<1> QED BY <1>1, <1>2, <1>3 DEF SaveBody

\* A tracked object of a careful program: its one entry, whose snapshot is a row.
EntriesAre ==
    \A t \in tracked[Main] :
        /\ t.obj \in Obj /\ t.snap # None /\ rows[t.key] = t.snap
        /\ \A u \in tracked[Main] : t.obj = u.obj => t = u

LEMMA TrackedIs == UnitInv /\ Named /\ Stored /\ Careful /\ careful => EntriesAre
<1> SUFFICES ASSUME UnitInv, Named, Stored, Careful, careful PROVE EntriesAre
  OBVIOUS
<1>1. ~wedged /\ \A t \in tracked[Main] : rows[t.key] = t.snap
  BY DEF Careful
<1> QED BY <1>1, MainRoles, EntriesStored DEF EntriesAre

\* A rollback shows the table again, and nothing waits.
LEMMA RollbackImplements ==
    ASSUME CarefulStep, RollbackBody(Main)
    PROVE  Implements
<1>1. /\ UnitInv /\ UnitInv' /\ Named' /\ Stored' /\ Careful' /\ ~wedged'
      /\ ViewShape' /\ careful'
  BY Shapes DEF CarefulStep
<1>2. inserted'[Main] = <<>> /\ deleted'[Main] = {} /\ rows' = rows /\ rows \in Table
  BY <1>1, MainIs, MainTypes DEF RollbackBody, dbVars
<1> DEFINE snapOf(o) == {t.snap : t \in {u \in tracked'[Main] : u.obj = o}} \ {None}
<1>3. heap' = [o \in Obj |-> IF snapOf(o) = {} THEN heap[o] ELSE CHOOSE v \in snapOf(o) : TRUE]
  <2> DEFINE kept == tracked[Main] \cup
                       {[obj |-> d.obj, key |-> d.key, snap |-> SnapshotNow(d.obj)]
                          : d \in deleted[Main]}
             of(o) == {t.snap : t \in {u \in kept : u.obj = o}} \ {None}
  <2>1. tracked' = [tracked EXCEPT ![Main] = kept]
    BY DEF RollbackBody
  <2>2. heap' = [o \in Obj |-> IF of(o) = {} THEN heap[o] ELSE CHOOSE v \in of(o) : TRUE]
    BY DEF RollbackBody
  <2> HIDE DEF kept
  <2>3. tracked'[Main] = kept
    BY <1>1, <2>1, MainIs, MainTypes
  <2> QED BY <2>2, <2>3
<1>4. \A t \in tracked'[Main] :
         /\ t.obj \in Obj /\ t.snap # None /\ rows'[t.key] = t.snap
         /\ \A u \in tracked'[Main] : t.obj = u.obj => t = u
  <2>1. (UnitInv /\ Named /\ Stored /\ Careful /\ careful)' => EntriesAre'
    BY TrackedIs, PTL
  <2> QED BY <1>1, <2>1 DEF EntriesAre
<1>5. ASSUME NEW t \in tracked'[Main] PROVE heap'[t.obj] = rows'[t.key]
  <2>1. snapOf(t.obj) = {t.snap}
    BY <1>4
  <2>2. snapOf(t.obj) # {} /\ (CHOOSE v \in snapOf(t.obj) : TRUE) = t.snap
    BY <2>1
  <2> HIDE DEF snapOf
  <2> QED BY <1>3, <1>4, <2>2
<1>6. ViewOfRows' = rows
  <2>1. \A k \in Key : ViewOfRows'[k] = rows'[k]
    BY <1>1, <1>2, <1>5 DEF ViewShape
  <2>2. rows = [k \in Key |-> rows[k]]
    BY <1>2 DEF Table
  <2> QED BY <1>1, <1>2, <2>1, <2>2 DEF ViewShape
<1>7. WaitingInserts' = Promise!Nothing
  <2>1. InsertedObjs(Main)' = {}
    BY <1>2 DEF InsertedObjs
  <2> QED BY <1>1, <2>1 DEF ViewShape, Promise!Nothing
<1>8. Promise!Discard
  BY <1>2, <1>6, <1>7 DEF Promise!Discard
<1> QED BY <1>8 DEF Implements, Promise!Next

\* A fetch makes objects that show what the rows show.
LEMMA FetchImplements ==
    ASSUME CarefulStep, NEW type \in Type, NEW S \in SUBSET Key, Fetch(Main, type, S)
    PROVE  Implements
<1>1. /\ UnitInv /\ Named /\ ViewShape /\ ViewShape' /\ UnitInv' /\ Careful' /\ careful'
  BY Shapes DEF CarefulStep
<1> DEFINE missing == {k \in S : k \notin DeletedKeys(Main) /\ identity[Main][k] = None}
<1>2. PICK new \in [missing -> {o \in Obj : ~Allocated(o) /\ TypeOf[o] = type}] :
         /\ \A j, k \in missing : new[j] = new[k] => j = k
         /\ heap' = [o \in Obj |-> IF \E k \in missing : new[k] = o
                                   THEN rows[CHOOSE k \in missing : new[k] = o]
                                   ELSE heap[o]]
         /\ tracked' = [tracked EXCEPT ![Main] = @ \cup
               {[obj |-> new[k], key |-> k, snap |-> rows[k]] : k \in missing}]
  BY DEF Fetch
<1>3. /\ S \subseteq Key /\ deleted' = deleted /\ rows' = rows /\ inserted' = inserted
  BY DEF Fetch, dbVars
<1>4. \A k \in missing : /\ k \in Key /\ identity[Main][k] = None
                         /\ new[k] \in Obj /\ heap[new[k]] = None
  BY <1>2, <1>3 DEF Allocated
<1> DEFINE entry(k) == [obj |-> new[k], key |-> k, snap |-> rows[k]]
<1>5. tracked'[Main] = tracked[Main] \cup {entry(k) : k \in missing}
  BY <1>1, <1>2, MainIs, MainTypes
<1>6. \A t \in {entry(k) : k \in missing} : t.key \in missing /\ t.obj = new[t.key]
  OBVIOUS
<1> HIDE DEF missing, entry
<1>7. \A o \in Obj : heap[o] # None => heap'[o] = heap[o]
  BY <1>2, <1>4
<1>8. ASSUME NEW k \in missing PROVE heap'[new[k]] = rows[k]
  <2>1. (CHOOSE j \in missing : new[j] = new[k]) = k
    BY <1>2
  <2> QED BY <1>2, <1>4, <2>1
<1>9. ASSUME NEW k \in Key PROVE ViewOfRows'[k] = ViewOfRows[k]
  <2>1. CASE \E d \in deleted[Main] : d.key = k
    BY <1>1, <1>3, <2>1 DEF ViewShape
  <2>2. CASE \E t \in tracked[Main] : t.key = k
    <3>1. PICK t \in tracked[Main] : t.key = k
      BY <2>2
    <3>2. heap'[t.obj] = heap[t.obj]
      BY <1>1, <1>7, MainRoles
    <3>3. t \in tracked'[Main]
      BY <1>5
    <3> QED BY <1>1, <3>1, <3>2, <3>3 DEF ViewShape
  <2>3. CASE ~\E t \in tracked[Main] \cup deleted[Main] : t.key = k
    <3>1. ViewOfRows[k] = rows[k]
      BY <1>1, <2>3 DEF ViewShape
    <3>2. CASE \E t \in tracked'[Main] : t.key = k
      <4>1. PICK t \in tracked'[Main] : t.key = k
        BY <3>2
      <4>2. k \in missing /\ t.obj = new[k]
        BY <1>5, <1>6, <2>3, <4>1
      <4>3. ViewOfRows'[k] = heap'[new[k]]
        BY <1>1, <4>1, <4>2 DEF ViewShape
      <4> QED BY <1>8, <3>1, <4>2, <4>3
    <3>3. CASE ~\E t \in tracked'[Main] : t.key = k
      BY <1>1, <1>3, <2>3, <3>1, <3>3 DEF ViewShape
    <3> QED BY <3>2, <3>3
  <2> QED BY <2>1, <2>2, <2>3
<1>10. ViewOfRows' = ViewOfRows
  BY <1>1, <1>9 DEF ViewShape
<1>11. WaitingInserts' = WaitingInserts
  <2>1. InsertedObjs(Main)' = InsertedObjs(Main)
    BY <1>3 DEF InsertedObjs
  <2>2. \A o \in InsertedObjs(Main) : o \in Obj /\ heap[o] # None
    BY <1>1, MainRoles DEF InsertedObjs
  <2>3. \A o \in Obj : WaitingInserts'[o] = WaitingInserts[o]
    BY <1>1, <1>7, <2>1, <2>2 DEF ViewShape
  <2> QED BY <1>1, <2>3 DEF ViewShape
<1> QED BY <1>3, <1>10, <1>11 DEF Implements, Promise!vars

\* A container that forgets its contexts shows the tables as it leaves them.
LEMMA ForgetImplements ==
    ASSUME CarefulStep, DeleteAllData \/ Restart
    PROVE  Implements
<1>1. /\ UnitInv /\ UnitInv' /\ Stored /\ ~wedged /\ ViewShape'
  BY Shapes
<1>2. ForgetContexts
  BY DEF DeleteAllData, Restart
<1>3. tracked'[Main] = {} /\ deleted'[Main] = {} /\ inserted'[Main] = <<>>
  BY <1>2, MainIs DEF ForgetContexts
<1>4. rows \in Table /\ rows' \in Table
  <2>1. rows' \in Table
    BY <1>1 DEF UnitInv, Sound, TypeOK, Table
  <2> QED BY <1>1, <2>1, MainTypes
<1>5. ViewOfRows' = rows'
  <2>1. \A k \in Key : ViewOfRows'[k] = rows'[k]
    BY <1>1, <1>3 DEF ViewShape
  <2> QED BY <1>1, <1>4, <2>1 DEF ViewShape, Table
<1>6. WaitingInserts' = Promise!Nothing
  <2>1. InsertedObjs(Main)' = {}
    BY <1>3 DEF InsertedObjs
  <2> QED BY <1>1, <2>1 DEF ViewShape, Promise!Nothing
<1>7. CASE rows' = [k \in Key |-> None]
  <2>1. Promise!Clear
    BY <1>5, <1>6, <1>7 DEF Promise!Clear
  <2> QED BY <2>1 DEF Implements, Promise!Next
<1>8. CASE rows' = rows
  <2>1. Promise!Discard
    BY <1>5, <1>6, <1>8 DEF Promise!Discard
  <2> QED BY <2>1 DEF Implements, Promise!Next
<1>9. CASE DeleteAllData
  <2>1. rows' = [k \in Key |-> IF k[1] \in Type THEN None ELSE rows[k]]
    BY <1>9 DEF DeleteAllData, ClearTables
  <2>2. \A k \in Key : k[1] \in Type
    BY DEF Key
  <2> QED BY <1>7, <2>1, <2>2
<1>10. CASE Restart
  <2>1. rows' = IF InMemory THEN EmptyTable ELSE durable
    BY <1>10 DEF Restart
  <2>2. durable = rows
    BY <1>1 DEF Stored
  <2> QED BY <1>7, <1>8, <2>1, <2>2 DEF EmptyTable
<1> QED BY <1>9, <1>10

\* Nothing but a stray step, or a deleteAllData() that fails, lets the code
\* do what the unit of work does not: save() stores exactly what its user
\* sees and all of it at once, a save that fails changes nothing, rollback()
\* shows the store, and a fetch shows nothing new (flush,
\* apply_after_commit, rollback_state, fetch_rows).
THEOREM UnitOfWorkImplemented ==
    ASSUME DeleteAllSucceeds PROVE WatchedSpec => ImplementsUnitOfWork
<1>1. WatchedInit => Promise!Init
  <2> SUFFICES ASSUME WatchedInit PROVE Promise!Init
    OBVIOUS
  <2>1. UnitInv /\ Named
    BY ViewInit DEF ViewInv
  <2>2. /\ ViewShape /\ rows = [k \in Key |-> None]
        /\ tracked[Main] = {} /\ deleted[Main] = {} /\ inserted[Main] = <<>>
    BY <2>1, ViewIs, MainIs DEF WatchedInit, Init, EmptyTable
  <2>3. \A k \in Key : ViewOfRows[k] = rows[k]
    BY <2>2 DEF ViewShape
  <2>4. InsertedObjs(Main) = {}
    BY <2>2 DEF InsertedObjs
  <2>5. \A o \in Obj : WaitingInserts[o] = None
    BY <2>2, <2>4 DEF ViewShape
  <2> QED BY <2>2, <2>3, <2>5 DEF ViewShape, Promise!Init, Promise!Nothing
<1>2. ASSUME ViewInv, ViewInv', [WatchedNext]_<<vars, careful>>
      PROVE  [careful' => [Promise!Next]_(Promise!vars)]_<<vars, careful>>
  <2> SUFFICES ASSUME WatchedNext, careful' PROVE Implements
    BY <1>2 DEF Implements
  <2>1. Next /\ careful /\ ~Strays
    BY DEF WatchedNext
  <2>2. CarefulStep
    BY <1>2, <2>1 DEF CarefulStep, Kept, ViewInv
  <2>3. \A c \in Ctx : c = Main
    BY MainIs
  <2>4. CASE \E o \in Obj, v \in Contents : Create(o, v) \/ Edit(o, v)
    BY <2>2, <2>4, ProgramImplements
  <2>5. CASE \E c \in Ctx, o \in Obj : Insert(c, o) \/ Delete(c, o)
    BY <2>2, <2>3, <2>5, QueuesImplement
  <2>6. CASE \E c \in Ctx : Save(c) \/ Rollback(c)
    BY <2>2, <2>3, <2>6, SaveImplements, RollbackImplements DEF Save, Rollback
  <2>7. CASE \E c \in Ctx :
               TransactionBegin(c) \/ TransactionReturns(c) \/ TransactionThrows(c)
    BY <2>2, <2>3, <2>7, Unseen, SaveImplements, RollbackImplements
       DEF TransactionBegin, TransactionReturns, TransactionThrows
  <2>8. CASE \E c \in Ctx, type \in Type, S \in SUBSET Key : Fetch(c, type, S)
    BY <2>2, <2>3, <2>8, FetchImplements
  <2>9. CASE DeleteAllData \/ Restart
    BY <2>2, <2>9, ForgetImplements
  <2>10. ASSUME NEW types \in SUBSET Type, DeleteAllDataFails(types) PROVE FALSE
    BY <2>10 DEF DeleteAllDataFails, DeleteAllSucceeds
  <2> QED BY <2>1, <2>4, <2>5, <2>6, <2>7, <2>8, <2>9, <2>10 DEF Next
<1>3. ViewInv /\ ViewInv' /\ [WatchedNext]_<<vars, careful>>
        => [careful' => [Promise!Next]_(Promise!vars)]_<<vars, careful>>
  BY <1>2
<1> QED BY ViewHolds, <1>1, <1>3, PTL DEF WatchedSpec, ImplementsUnitOfWork
=============================================================================

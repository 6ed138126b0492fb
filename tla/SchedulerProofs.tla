--------------------------- MODULE SchedulerProofs ---------------------------
(***************************************************************************)
(* Structured concurrency for any number of tasks, groups, continuations   *)
(* and streams: the running tasks are those on the stack, groups finish,   *)
(* cancellation reaches every child, and a clean end leaves nothing to run.*)
(***************************************************************************)
EXTENDS Scheduler, FiniteSetTheorems, SequenceTheorems, TLAPS

Kinds == {"main", "task", "loop", "group", "cont", "stream"}
Ats == {"script", "drive", "drain", "collect"}

FrameType ==
    [kind : Kinds, id : Nat, at : Ats, todo : Seq(Nat), result : Outcome, loop : Nat]

TaskType ==
    [state : {"pending", "running", "done"}, cancelled : BOOLEAN, outcome : Outcome, parent : Nat]
-----------------------------------------------------------------------------
(* Stacks                                                                  *)

\* A frame of a state with nt tasks, ng groups and nc continuations: which
\* loops a kind of frame can be at, and what it works on.
FrameOK(f, nt, ng, nc) ==
    /\ f \in FrameType
    /\ f.kind = "task" => f.at = "script" /\ f.id \in 1..nt
    /\ f.kind = "loop" => f.at # "script"
    /\ f.kind = "cont" => f.id \in 1..nc
    /\ f.kind = "group" => f.id \in 1..ng /\ f.at \in {"script", "drain"}
    /\ f.kind \in {"cont", "stream"} => f.at \in {"script", "drive"} /\ f.todo # <<>>
    /\ f.kind = "main" => f.at = "script" \/ (f.at = "drive" /\ f.todo = <<1>>)
    /\ f.at = "drive" => f.todo # <<>>
    /\ f.at \in {"drain", "collect"} =>
          f.id \in 1..ng /\ \A i \in DOMAIN f.todo : f.todo[i] \in 1..nt
    /\ f.result # "value" => f.kind = "group" /\ f.at = "drain"

\* The program is the outermost frame, and a loop has nothing above it but a
\* task it runs.
StackOK(s, nt, ng, nc) ==
    /\ s \in Seq(FrameType)
    /\ \A i \in 1..Len(s) : FrameOK(s[i], nt, ng, nc)
    /\ \A i \in 1..Len(s) : s[i].kind = "main" <=> i = 1
    /\ \A i \in 1..(Len(s) - 1) : s[i].at # "script" => s[i + 1].kind = "task"

LEMMA SeqFacts ==
    ASSUME NEW T, NEW s \in Seq(T), NEW f \in T
    PROVE  /\ Len(s) \in Nat /\ DOMAIN s = 1..Len(s)
           /\ s = <<>> <=> Len(s) = 0
           /\ s # <<>> => Len(s) \in 1..Len(s) /\ Len(s) - 1 \in Nat /\ s[Len(s)] \in T
           /\ Append(s, f) \in Seq(T) /\ Len(Append(s, f)) = Len(s) + 1
           /\ Append(s, f) # <<>>
           /\ \A i \in 1..Len(s) : Append(s, f)[i] = s[i]
           /\ Append(s, f)[Len(s) + 1] = f
<1>1. /\ Len(s) \in Nat /\ DOMAIN s = 1..Len(s)
      /\ \A i \in 1..Len(s) : s[i] \in T
  OBVIOUS
<1>2. s = <<>> <=> Len(s) = 0
  OBVIOUS
<1>3. s # <<>> => Len(s) \in 1..Len(s) /\ Len(s) - 1 \in Nat
  BY <1>1, <1>2
<1> QED BY <1>1, <1>2, <1>3, AppendProperties

LEMMA PopFacts ==
    ASSUME NEW T, NEW s \in Seq(T), s # <<>>
    PROVE  /\ SubSeq(s, 1, Len(s) - 1) \in Seq(T)
           /\ Len(SubSeq(s, 1, Len(s) - 1)) = Len(s) - 1
           /\ \A i \in 1..(Len(s) - 1) : SubSeq(s, 1, Len(s) - 1)[i] = s[i]
<1>1. /\ Len(s) \in Nat \ {0} /\ Len(s) - 1 \in Int
      /\ \A i \in 1..(Len(s) - 1) : s[i] \in T
  BY EmptySeq
<1> DEFINE n == Len(s) - 1
<1>2. n \in Nat /\ n \in Int /\ 1 \in Int /\ \A i \in 1..n : s[i] \in T
  BY <1>1
<1> HIDE DEF n
<1>3. /\ SubSeq(s, 1, n) \in Seq(T) /\ Len(SubSeq(s, 1, n)) = IF 1 <= n THEN n - 1 + 1 ELSE 0
      /\ \A i \in 1..(n - 1 + 1) : SubSeq(s, 1, n)[i] = s[1 + i - 1]
  BY <1>2, SubSeqProperties
<1>4. n - 1 + 1 = n /\ \A i \in 1..n : 1 + i - 1 = i
  BY <1>2
<1>5. Len(SubSeq(s, 1, n)) = n
  BY <1>2, <1>3, <1>4
<1>6. \A i \in 1..n : SubSeq(s, 1, n)[i] = s[i]
  BY <1>3, <1>4, Zenon
<1> QED BY <1>3, <1>5, <1>6 DEF n

LEMMA GrowOK ==
    ASSUME NEW s, NEW nt \in Nat, NEW ng \in Nat, NEW nc \in Nat, StackOK(s, nt, ng, nc),
           NEW mt \in Nat, NEW mg \in Nat, NEW mc \in Nat, nt <= mt, ng <= mg, nc <= mc
    PROVE  StackOK(s, mt, mg, mc)
<1>1. ASSUME NEW f, FrameOK(f, nt, ng, nc) PROVE FrameOK(f, mt, mg, mc)
  <2>1. 1..nt \subseteq 1..mt /\ 1..ng \subseteq 1..mg /\ 1..nc \subseteq 1..mc
    OBVIOUS
  <2> QED BY <1>1, <2>1 DEF FrameOK
<1> QED BY <1>1 DEF StackOK

LEMMA PushOK ==
    ASSUME NEW s, NEW nt, NEW ng, NEW nc, StackOK(s, nt, ng, nc),
           NEW f, FrameOK(f, nt, ng, nc), f.kind # "main", s # <<>>,
           s[Len(s)].at # "script" => f.kind = "task"
    PROVE  StackOK(Append(s, f), nt, ng, nc)
<1> DEFINE a == Append(s, f)
<1>1. s \in Seq(FrameType) /\ f \in FrameType
  BY DEF StackOK, FrameOK
<1>2. /\ Len(s) \in Nat \ {0} /\ a \in Seq(FrameType) /\ Len(a) = Len(s) + 1
      /\ \A i \in 1..Len(s) : a[i] = s[i]
      /\ a[Len(s) + 1] = f
  BY <1>1, SeqFacts
<1> HIDE DEF a
<1>3. ASSUME NEW i \in 1..Len(a)
      PROVE  FrameOK(a[i], nt, ng, nc) /\ (a[i].kind = "main" <=> i = 1)
  <2>1. CASE i \in 1..Len(s)
    BY <1>2, <2>1 DEF StackOK
  <2>2. CASE i = Len(s) + 1
    BY <1>2, <2>2
  <2> QED BY <1>2, <2>1, <2>2
<1>4. ASSUME NEW i \in 1..(Len(a) - 1), a[i].at # "script" PROVE a[i + 1].kind = "task"
  <2>1. CASE i \in 1..(Len(s) - 1)
    <3>1. i \in 1..Len(s) /\ i + 1 \in 1..Len(s)
      BY <1>2, <2>1
    <3> QED BY <1>2, <1>4, <2>1, <3>1 DEF StackOK
  <2>2. CASE i = Len(s)
    BY <1>2, <1>4, <2>2
  <2> QED BY <1>2, <2>1, <2>2
<1> QED BY <1>2, <1>3, <1>4 DEF StackOK, a

LEMMA PopOK ==
    ASSUME NEW s, NEW nt, NEW ng, NEW nc, StackOK(s, nt, ng, nc), s # <<>>
    PROVE  StackOK(SubSeq(s, 1, Len(s) - 1), nt, ng, nc)
<1> DEFINE b == SubSeq(s, 1, Len(s) - 1)
<1>1. s \in Seq(FrameType)
  BY DEF StackOK
<1>2. /\ Len(s) \in Nat \ {0} /\ b \in Seq(FrameType) /\ Len(b) = Len(s) - 1
      /\ \A i \in 1..(Len(s) - 1) : b[i] = s[i]
  BY <1>1, PopFacts
<1> HIDE DEF b
<1>3. \A i \in 1..Len(b) : i \in 1..Len(s) /\ b[i] = s[i]
  BY <1>2
<1>4. \A i \in 1..(Len(b) - 1) : /\ i \in 1..(Len(s) - 1) /\ b[i] = s[i]
                                 /\ i + 1 \in 1..Len(s) /\ b[i + 1] = s[i + 1]
  BY <1>2
<1> QED BY <1>2, <1>3, <1>4 DEF StackOK, b

\* Something other changes in the innermost frame only.
LEMMA RetopOK ==
    ASSUME NEW s, NEW nt, NEW ng, NEW nc, StackOK(s, nt, ng, nc), s # <<>>,
           NEW f, FrameOK(f, nt, ng, nc), f.kind = s[Len(s)].kind
    PROVE  LET r == Append(SubSeq(s, 1, Len(s) - 1), f)
           IN  /\ StackOK(r, nt, ng, nc) /\ Len(r) = Len(s) /\ r # <<>> /\ r[Len(s)] = f
               /\ \A i \in 1..(Len(s) - 1) : r[i] = s[i]
<1> DEFINE b == SubSeq(s, 1, Len(s) - 1)
           r == Append(b, f)
<1>1. s \in Seq(FrameType) /\ f \in FrameType
  BY DEF StackOK, FrameOK
<1>2. /\ Len(s) \in Nat \ {0} /\ b \in Seq(FrameType) /\ Len(b) = Len(s) - 1
      /\ \A i \in 1..(Len(s) - 1) : b[i] = s[i]
  BY <1>1, PopFacts
<1> HIDE DEF b
<1>3. /\ r \in Seq(FrameType) /\ Len(r) = Len(b) + 1 /\ r # <<>>
      /\ \A i \in 1..Len(b) : r[i] = b[i]
      /\ r[Len(b) + 1] = f
  BY <1>1, <1>2, SeqFacts
<1> HIDE DEF r
<1>4. /\ Len(r) = Len(s) /\ r[Len(s)] = f
      /\ \A i \in 1..(Len(s) - 1) : r[i] = s[i]
  BY <1>2, <1>3
<1>5. ASSUME NEW i \in 1..Len(r)
      PROVE  FrameOK(r[i], nt, ng, nc) /\ (r[i].kind = "main" <=> i = 1)
  <2>1. i \in 1..Len(s) /\ Len(s) \in 1..Len(s)
    BY <1>2, <1>4
  <2>2. CASE i \in 1..(Len(s) - 1)
    BY <1>4, <2>1, <2>2 DEF StackOK
  <2>3. CASE i = Len(s)
    BY <1>4, <2>1, <2>3 DEF StackOK
  <2> QED BY <1>2, <2>1, <2>2, <2>3
<1>6. ASSUME NEW i \in 1..(Len(r) - 1), r[i].at # "script" PROVE r[i + 1].kind = "task"
  <2>1. i \in 1..(Len(s) - 1) /\ s[i + 1].kind = "task" /\ i + 1 \in 1..Len(s)
    BY <1>2, <1>4, <1>6 DEF StackOK
  <2>2. CASE i + 1 \in 1..(Len(s) - 1)
    BY <1>4, <2>1, <2>2
  <2>3. CASE i + 1 = Len(s)
    BY <1>4, <2>1, <2>3
  <2> QED BY <1>2, <2>1, <2>2, <2>3
<1> QED BY <1>3, <1>4, <1>5, <1>6 DEF StackOK, r, b
-----------------------------------------------------------------------------
(* The running tasks on a stack                                            *)

TasksOf(s) == {i \in 1..Len(s) : s[i].kind = "task"}
DepthIn(s, i) == Cardinality({j \in TasksOf(s) : j <= i})

\* cur is the tasks of the stack s in their order, no task twice, and these
\* are the running ones of the table ts.
OnStack(s, cur, ts) ==
    /\ Len(cur) = Cardinality(TasksOf(s))
    /\ \A i \in TasksOf(s) : cur[DepthIn(s, i)] = s[i].id
    /\ \A p \in 1..Len(cur) : cur[p] \in 1..Len(ts) /\ \E i \in TasksOf(s) : s[i].id = cur[p]
    /\ \A p, q \in 1..Len(cur) : cur[p] = cur[q] => p = q
    /\ \A t \in 1..Len(ts) : ts[t].state = "running" <=> \E p \in 1..Len(cur) : cur[p] = t

LEMMA DepthFacts ==
    ASSUME NEW s \in Seq(FrameType)
    PROVE  /\ IsFiniteSet(TasksOf(s)) /\ Cardinality(TasksOf(s)) \in Nat
           /\ \A i \in TasksOf(s) : i \in Nat /\ DepthIn(s, i) \in 1..Cardinality(TasksOf(s))
<1>1. IsFiniteSet(TasksOf(s)) /\ TasksOf(s) \subseteq Nat
  <2>1. Len(s) \in Nat
    OBVIOUS
  <2>2. IsFiniteSet(1..Len(s))
    BY <2>1, FS_Interval
  <2> QED BY <2>1, <2>2, FS_Subset DEF TasksOf
<1>2. Cardinality(TasksOf(s)) \in Nat
  BY <1>1, FS_CardinalityType
<1>3. ASSUME NEW i \in TasksOf(s) PROVE DepthIn(s, i) \in 1..Cardinality(TasksOf(s))
  <2> DEFINE upTo == {j \in TasksOf(s) : j <= i}
  <2>1. upTo \subseteq TasksOf(s) /\ i \in upTo
    BY <1>1
  <2>2. IsFiniteSet(upTo) /\ Cardinality(upTo) <= Cardinality(TasksOf(s))
    BY <1>1, <2>1, FS_Subset
  <2>3. Cardinality(upTo) \in Nat /\ (Cardinality(upTo) = 0 <=> upTo = {})
    BY <2>2, FS_CardinalityType, FS_EmptySet
  <2> QED BY <1>2, <2>1, <2>2, <2>3 DEF DepthIn
<1> QED BY <1>1, <1>2, <1>3

\* Frames of tasks neither come nor go.
LEMMA OnSame ==
    ASSUME NEW s, NEW cur, NEW ts, OnStack(s, cur, ts),
           NEW r, TasksOf(r) = TasksOf(s), \A i \in TasksOf(s) : r[i].id = s[i].id,
           NEW ts2, Len(ts) \in Nat, Len(ts2) \in Nat, Len(ts) <= Len(ts2),
           \A t \in 1..Len(ts2) :
              ts2[t].state = "running" <=> t \in 1..Len(ts) /\ ts[t].state = "running"
    PROVE  OnStack(r, cur, ts2)
<1>1. \A i \in TasksOf(s) : DepthIn(r, i) = DepthIn(s, i)
  BY DEF DepthIn
<1>2. 1..Len(ts) \subseteq 1..Len(ts2)
  OBVIOUS
<1>3. /\ Len(cur) = Cardinality(TasksOf(r))
      /\ \A i \in TasksOf(r) : cur[DepthIn(r, i)] = r[i].id
  BY <1>1 DEF OnStack
<1>4. \A p \in 1..Len(cur) :
         cur[p] \in 1..Len(ts2) /\ \E i \in TasksOf(r) : r[i].id = cur[p]
  <2>1. \A p \in 1..Len(cur) :
           cur[p] \in 1..Len(ts) /\ \E i \in TasksOf(s) : s[i].id = cur[p]
    BY DEF OnStack
  <2> QED BY <1>2, <2>1
<1>5. \A t \in 1..Len(ts2) : ts2[t].state = "running" <=> \E p \in 1..Len(cur) : cur[p] = t
  BY DEF OnStack
<1> QED BY <1>3, <1>4, <1>5 DEF OnStack

\* A task that is not running begins on top of the stack.
LEMMA OnBegin ==
    ASSUME NEW s \in Seq(FrameType), NEW cur \in Seq(Nat), NEW ts, OnStack(s, cur, ts),
           NEW t \in Nat, t \in 1..Len(ts), ts[t].state # "running",
           NEW f \in FrameType, f.kind = "task", f.id = t,
           NEW ts2, Len(ts2) = Len(ts), ts2[t].state = "running",
           \A u \in 1..Len(ts) : u # t => ts2[u].state = ts[u].state
    PROVE  OnStack(Append(s, f), Append(cur, t), ts2)
<1> DEFINE r == Append(s, f)
           cur2 == Append(cur, t)
           top == Len(s) + 1
<1>1. /\ r \in Seq(FrameType) /\ Len(s) \in Nat /\ Len(r) = top /\ r[top] = f
      /\ \A i \in 1..Len(s) : r[i] = s[i]
  BY SeqFacts
<1>2. /\ Len(cur) \in Nat /\ Len(cur2) = Len(cur) + 1 /\ cur2[Len(cur) + 1] = t
      /\ \A p \in 1..Len(cur) : cur2[p] = cur[p]
  BY SeqFacts
<1> HIDE DEF r, cur2
<1>3. TasksOf(r) = TasksOf(s) \cup {top} /\ top \notin TasksOf(s) /\ \A i \in TasksOf(s) : i \in 1..Len(s)
  BY <1>1 DEF TasksOf
<1>4. IsFiniteSet(TasksOf(s)) /\ \A i \in TasksOf(s) : DepthIn(s, i) \in 1..Len(cur)
  BY DepthFacts DEF OnStack
<1>5. Cardinality(TasksOf(r)) = Len(cur) + 1
  <2>1. Cardinality(TasksOf(s) \cup {top}) = Cardinality(TasksOf(s)) + 1
    BY <1>3, <1>4, FS_AddElement
  <2> QED BY <1>3, <2>1 DEF OnStack
<1>6. \A i \in TasksOf(s) : DepthIn(r, i) = DepthIn(s, i)
  <2> SUFFICES ASSUME NEW i \in TasksOf(s)
               PROVE  {j \in TasksOf(r) : j <= i} = {j \in TasksOf(s) : j <= i}
    BY DEF DepthIn
  <2>1. i \in Nat /\ ~(top <= i)
    BY <1>1, <1>3
  <2> QED BY <1>3, <2>1
<1>7. DepthIn(r, top) = Len(cur) + 1
  <2>1. \A j \in TasksOf(r) : j <= top
    BY <1>1, <1>3
  <2>2. {j \in TasksOf(r) : j <= top} = TasksOf(r)
    BY <2>1
  <2> QED BY <1>5, <2>2 DEF DepthIn
<1>8. \A i \in TasksOf(r) : cur2[DepthIn(r, i)] = r[i].id
  <2> SUFFICES ASSUME NEW i \in TasksOf(r) PROVE cur2[DepthIn(r, i)] = r[i].id
    OBVIOUS
  <2>1. CASE i = top
    BY <1>1, <1>2, <1>7, <2>1
  <2>2. CASE i \in TasksOf(s)
    <3>1. cur[DepthIn(s, i)] = s[i].id
      BY <2>2 DEF OnStack
    <3> QED BY <1>1, <1>2, <1>3, <1>4, <1>6, <2>2, <3>1
  <2> QED BY <1>3, <2>1, <2>2
<1>9. \A p \in 1..Len(cur) : cur[p] # t /\ cur[p] \in 1..Len(ts)
  BY DEF OnStack
<1>10. \A p \in 1..Len(cur2) :
          cur2[p] \in 1..Len(ts2) /\ \E i \in TasksOf(r) : r[i].id = cur2[p]
  <2> SUFFICES ASSUME NEW p \in 1..Len(cur2)
               PROVE  cur2[p] \in 1..Len(ts2) /\ \E i \in TasksOf(r) : r[i].id = cur2[p]
    OBVIOUS
  <2>1. CASE p \in 1..Len(cur)
    <3>1. PICK i \in TasksOf(s) : s[i].id = cur[p]
      BY <2>1 DEF OnStack
    <3>2. i \in TasksOf(r) /\ r[i].id = cur2[p]
      BY <1>1, <1>2, <1>3, <2>1, <3>1
    <3> QED BY <1>2, <1>9, <2>1, <3>2
  <2>2. CASE p = Len(cur) + 1
    BY <1>1, <1>2, <1>3, <2>2
  <2> QED BY <1>2, <2>1, <2>2
<1>11. \A p, q \in 1..Len(cur2) : cur2[p] = cur2[q] => p = q
  <2>1. \A p, q \in 1..Len(cur) : cur[p] = cur[q] => p = q
    BY DEF OnStack
  <2>2. \A p \in 1..Len(cur2) : p \in 1..Len(cur) \/ p = Len(cur) + 1
    BY <1>2
  <2> QED BY <1>2, <1>9, <2>1, <2>2
<1>12. \A u \in 1..Len(ts2) : ts2[u].state = "running" <=> \E p \in 1..Len(cur2) : cur2[p] = u
  <2> SUFFICES ASSUME NEW u \in 1..Len(ts2)
               PROVE  ts2[u].state = "running" <=> \E p \in 1..Len(cur2) : cur2[p] = u
    OBVIOUS
  <2>1. /\ Len(cur) + 1 \in 1..Len(cur2) /\ \A p \in 1..Len(cur) : p \in 1..Len(cur2)
        /\ \A p \in 1..Len(cur2) : p \in 1..Len(cur) \/ p = Len(cur) + 1
    BY <1>2
  <2>2. CASE u = t
    BY <1>2, <2>1, <2>2
  <2>3. CASE u # t
    <3>1. ts[u].state = "running" <=> \E p \in 1..Len(cur) : cur[p] = u
      BY DEF OnStack
    <3>2. (\E p \in 1..Len(cur2) : cur2[p] = u) <=> (\E p \in 1..Len(cur) : cur[p] = u)
      BY <1>2, <2>1, <2>3
    <3> QED BY <2>3, <3>1, <3>2
  <2> QED BY <2>2, <2>3
<1>13. OnStack(r, cur2, ts2)
  BY <1>2, <1>5, <1>8, <1>10, <1>11, <1>12 DEF OnStack
<1> QED BY <1>13 DEF r, cur2

\* The task on top of the stack ends.
LEMMA OnEnd ==
    ASSUME NEW s \in Seq(FrameType), NEW cur \in Seq(Nat), NEW ts, OnStack(s, cur, ts),
           s # <<>>, s[Len(s)].kind = "task",
           NEW ts2, Len(ts2) = Len(ts), ts2[s[Len(s)].id].state = "done",
           \A u \in 1..Len(ts) : u # s[Len(s)].id => ts2[u].state = ts[u].state
    PROVE  /\ OnStack(SubSeq(s, 1, Len(s) - 1), Front(cur), ts2)
           /\ cur # <<>> /\ Last(cur) = s[Len(s)].id
<1> DEFINE r == SubSeq(s, 1, Len(s) - 1)
           cur2 == Front(cur)
           top == Len(s)
<1>1. /\ r \in Seq(FrameType) /\ top \in Nat \ {0} /\ Len(r) = top - 1
      /\ \A i \in 1..(top - 1) : r[i] = s[i]
  BY SeqFacts, PopFacts
<1> HIDE DEF r
<1>2. TasksOf(r) = TasksOf(s) \ {top} /\ top \in TasksOf(s) /\ \A i \in TasksOf(s) : i \in 1..top
  <2>1. /\ \A i \in TasksOf(r) : i \in 1..top /\ i # top /\ s[i].kind = "task"
        /\ \A i \in 1..top : i # top => i \in 1..(top - 1)
    BY <1>1 DEF TasksOf
  <2>2. top \in 1..top
    BY <1>1
  <2>3. \A i \in TasksOf(s) : i # top => i \in TasksOf(r)
    BY <1>1, <2>1 DEF TasksOf
  <2> QED BY <2>1, <2>2, <2>3 DEF TasksOf
<1>3. /\ IsFiniteSet(TasksOf(s)) /\ \A i \in TasksOf(s) : DepthIn(s, i) \in 1..Len(cur)
      /\ Len(cur) = Cardinality(TasksOf(s))
  BY DepthFacts DEF OnStack
<1>4. Len(cur) \in Nat \ {0} /\ cur # <<>>
  BY <1>2, <1>3
<1>5. /\ Len(cur2) = Len(cur) - 1
      /\ \A p \in 1..(Len(cur) - 1) : cur2[p] = cur[p] /\ p \in 1..Len(cur)
  BY <1>4, PopFacts DEF Front
<1> HIDE DEF cur2
<1>6. Cardinality(TasksOf(r)) = Len(cur2)
  BY <1>2, <1>3, <1>5, FS_RemoveElement
<1>7. DepthIn(s, top) = Len(cur)
  <2>1. \A j \in TasksOf(s) : j <= top
    BY <1>1, <1>2
  <2>2. {j \in TasksOf(s) : j <= top} = TasksOf(s)
    BY <2>1
  <2> QED BY <1>3, <2>2 DEF DepthIn
<1>8. cur[Len(cur)] = s[top].id
  BY <1>2, <1>7 DEF OnStack
<1>9. \A i \in TasksOf(r) : DepthIn(r, i) = DepthIn(s, i) /\ DepthIn(r, i) \in 1..Len(cur2)
  <2> SUFFICES ASSUME NEW i \in TasksOf(r)
               PROVE  DepthIn(r, i) = DepthIn(s, i) /\ DepthIn(r, i) \in 1..Len(cur2)
    OBVIOUS
  <2>1. i \in 1..top /\ i # top
    BY <1>2
  <2>2. {j \in TasksOf(r) : j <= i} = {j \in TasksOf(s) : j <= i}
    BY <1>1, <1>2, <2>1
  <2>3. DepthIn(r, i) = DepthIn(s, i)
    BY <2>2 DEF DepthIn
  <2>4. DepthIn(r, i) \in 1..Cardinality(TasksOf(r))
    BY <1>1, DepthFacts
  <2> QED BY <1>6, <2>3, <2>4
<1>10. \A i \in TasksOf(r) : cur2[DepthIn(r, i)] = r[i].id
  <2> SUFFICES ASSUME NEW i \in TasksOf(r) PROVE cur2[DepthIn(r, i)] = r[i].id
    OBVIOUS
  <2>1. i \in TasksOf(s) /\ i \in 1..(top - 1)
    BY <1>1, <1>2
  <2>2. cur[DepthIn(s, i)] = s[i].id
    BY <2>1 DEF OnStack
  <2>3. cur2[DepthIn(r, i)] = cur[DepthIn(r, i)]
    BY <1>5, <1>9
  <2> QED BY <1>1, <1>9, <2>1, <2>2, <2>3
<1>11. \A p, q \in 1..Len(cur) : cur[p] = cur[q] => p = q
  BY DEF OnStack
<1>12. \A p \in 1..Len(cur2) : p \in 1..Len(cur) /\ p # Len(cur) /\ cur2[p] = cur[p] /\ cur[p] # s[top].id
  BY <1>4, <1>5, <1>8, <1>11
<1>13. \A p \in 1..Len(cur2) :
          cur2[p] \in 1..Len(ts2) /\ \E i \in TasksOf(r) : r[i].id = cur2[p]
  <2> SUFFICES ASSUME NEW p \in 1..Len(cur2)
               PROVE  cur2[p] \in 1..Len(ts2) /\ \E i \in TasksOf(r) : r[i].id = cur2[p]
    OBVIOUS
  <2>1. PICK i \in TasksOf(s) : s[i].id = cur[p]
    BY <1>12 DEF OnStack
  <2>2. i \in TasksOf(r) /\ i \in 1..(top - 1)
    BY <1>1, <1>2, <1>12, <2>1
  <2>3. cur[p] \in 1..Len(ts)
    BY <1>12 DEF OnStack
  <2>4. r[i].id = cur2[p]
    BY <1>1, <1>12, <2>1, <2>2
  <2> QED BY <1>12, <2>2, <2>3, <2>4
<1>14. \A p, q \in 1..Len(cur2) : cur2[p] = cur2[q] => p = q
  BY <1>11, <1>12
<1>15. \A u \in 1..Len(ts2) : ts2[u].state = "running" <=> \E p \in 1..Len(cur2) : cur2[p] = u
  <2> SUFFICES ASSUME NEW u \in 1..Len(ts2)
               PROVE  ts2[u].state = "running" <=> \E p \in 1..Len(cur2) : cur2[p] = u
    OBVIOUS
  <2>1. CASE u = s[top].id
    BY <1>12, <2>1
  <2>2. CASE u # s[top].id
    <3>1. ts[u].state = "running" <=> \E p \in 1..Len(cur) : cur[p] = u
      BY DEF OnStack
    <3>2. \A p \in 1..Len(cur) : p \in 1..Len(cur2) \/ p = Len(cur)
      BY <1>4, <1>5
    <3>3. (\E p \in 1..Len(cur2) : cur2[p] = u) <=> (\E p \in 1..Len(cur) : cur[p] = u)
      BY <1>8, <1>12, <2>2, <3>2
    <3> QED BY <2>2, <3>1, <3>3
  <2> QED BY <2>1, <2>2
<1>16. OnStack(r, cur2, ts2)
  BY <1>6, <1>10, <1>13, <1>14, <1>15 DEF OnStack
<1> QED BY <1>4, <1>8, <1>16 DEF r, cur2, Last
-----------------------------------------------------------------------------
(* The tables and the stack                                                *)

TablesOK ==
    /\ tasks \in Seq(TaskType)
    /\ current \in Seq(Nat)
    /\ groups \in Seq(Seq(Nat))
    /\ \A g \in 1..Len(groups) : \A i \in DOMAIN groups[g] : groups[g][i] \in 1..Len(tasks)
    /\ children \in Seq(SUBSET Nat) /\ Len(children) = Len(groups)
    /\ \A g \in 1..Len(groups) : children[g] \subseteq 1..Len(tasks)
    /\ cancelled \in Seq(BOOLEAN) /\ Len(cancelled) = Len(groups)
    /\ conts \in Seq({"pending", "resumed", "consumed"})
    /\ failing \in BOOLEAN
    /\ ended \in {"no", "done", "failed"}
    /\ ended = "no" <=> stack # <<>>
    /\ failing => stack # <<>>

Base ==
    /\ TablesOK
    /\ StackOK(stack, Len(tasks), Len(groups), Len(conts))
    /\ OnStack(stack, current, tasks)

\* No task begins or ends, and nothing leaves a table.
Quiet ==
    /\ current' = current
    /\ Len(tasks) <= Len(tasks') /\ Len(groups) <= Len(groups') /\ Len(conts) <= Len(conts')
    /\ \A t \in 1..Len(tasks') :
          tasks'[t].state = "running" <=> t \in 1..Len(tasks) /\ tasks[t].state = "running"

LEMMA Lengths ==
    ASSUME TablesOK
    PROVE  /\ Len(tasks) \in Nat /\ Len(groups) \in Nat /\ Len(conts) \in Nat
           /\ DOMAIN tasks = 1..Len(tasks) /\ DOMAIN groups = 1..Len(groups)
           /\ DOMAIN conts = 1..Len(conts) /\ DOMAIN cancelled = 1..Len(groups)
           /\ DOMAIN children = 1..Len(groups)
           /\ \A t \in 1..Len(tasks) : tasks[t] \in TaskType
BY DEF TablesOK

LEMMA TopFacts ==
    ASSUME Base, stack # <<>>
    PROVE  /\ Len(stack) \in Nat \ {0} /\ stack \in Seq(FrameType) /\ Top = stack[Len(stack)]
           /\ FrameOK(Top, Len(tasks), Len(groups), Len(conts)) /\ Top \in FrameType
           /\ Top.kind = "main" <=> Len(stack) = 1
           /\ Below \in Seq(FrameType) /\ Len(Below) = Len(stack) - 1
           /\ \A i \in 1..(Len(stack) - 1) : Below[i] = stack[i] /\ i \in 1..Len(stack)
<1>1. stack \in Seq(FrameType) /\ Len(stack) \in 1..Len(stack)
  BY SeqFacts DEF Base, StackOK
<1>2. FrameOK(Top, Len(tasks), Len(groups), Len(conts)) /\ (Top.kind = "main" <=> Len(stack) = 1)
  BY <1>1 DEF Base, StackOK, Top
<1>3. Len(stack) \in Nat \ {0}
  BY <1>1
<1>4. Below \in Seq(FrameType) /\ Len(Below) = Len(stack) - 1
      /\ \A i \in 1..(Len(stack) - 1) : Below[i] = stack[i]
  BY <1>1, PopFacts DEF Below
<1> QED BY <1>1, <1>2, <1>3, <1>4 DEF Top, FrameOK

LEMMA StackSame ==
    ASSUME Base, TablesOK', Quiet, stack' = stack
    PROVE  Base'
<1>1. /\ Len(tasks') \in Nat /\ Len(groups') \in Nat /\ Len(conts') \in Nat
  BY DEF TablesOK
<1>2. StackOK(stack, Len(tasks'), Len(groups'), Len(conts'))
  BY <1>1, GrowOK, Lengths DEF Base, Quiet
<1>3. OnStack(stack, current, tasks')
  BY <1>1, OnSame, Lengths DEF Base, Quiet
<1> QED BY <1>2, <1>3 DEF Base, Quiet

\* A call, a loop or a group begins on top of a body.
LEMMA StackPush ==
    ASSUME Base, TablesOK', Quiet, stack # <<>>, Top.at = "script",
           NEW f, FrameOK(f, Len(tasks'), Len(groups'), Len(conts')),
           f.kind \notin {"main", "task"}, stack' = Append(stack, f)
    PROVE  Base'
<1>1. /\ Len(tasks') \in Nat /\ Len(groups') \in Nat /\ Len(conts') \in Nat
  BY DEF TablesOK
<1>2. StackOK(stack, Len(tasks'), Len(groups'), Len(conts'))
  BY <1>1, GrowOK, Lengths DEF Base, Quiet
<1>3. StackOK(stack', Len(tasks'), Len(groups'), Len(conts'))
  BY <1>2, PushOK DEF Top
<1>4. f \in FrameType /\ stack \in Seq(FrameType) /\ Len(stack) \in Nat
  BY TopFacts DEF FrameOK
<1>5. /\ Len(stack') = Len(stack) + 1 /\ stack'[Len(stack) + 1] = f
      /\ \A i \in 1..Len(stack) : stack'[i] = stack[i]
  BY <1>4, SeqFacts
<1>6. TasksOf(stack') = TasksOf(stack) /\ \A i \in TasksOf(stack) : stack'[i].id = stack[i].id
  BY <1>4, <1>5 DEF TasksOf
<1>7. OnStack(stack', current, tasks')
  BY <1>1, <1>6, OnSame, Lengths DEF Base, Quiet
<1> QED BY <1>3, <1>7 DEF Base, Quiet

\* The innermost call goes on to something else.
LEMMA StackRetop ==
    ASSUME Base, TablesOK', Quiet, stack # <<>>,
           NEW f, FrameOK(f, Len(tasks'), Len(groups'), Len(conts')),
           f.kind = Top.kind, f.id = Top.id, stack' = Replace(f)
    PROVE  Base'
<1>1. /\ Len(tasks') \in Nat /\ Len(groups') \in Nat /\ Len(conts') \in Nat
  BY DEF TablesOK
<1>2. StackOK(stack, Len(tasks'), Len(groups'), Len(conts'))
  BY <1>1, GrowOK, Lengths DEF Base, Quiet
<1>3. /\ StackOK(stack', Len(tasks'), Len(groups'), Len(conts')) /\ Len(stack') = Len(stack)
      /\ stack'[Len(stack)] = f /\ \A i \in 1..(Len(stack) - 1) : stack'[i] = stack[i]
  BY <1>2, RetopOK DEF Top, Replace, Below
<1>4. \A i \in 1..Len(stack) : i \in 1..(Len(stack) - 1) \/ i = Len(stack)
  BY TopFacts
<1>5. \A i \in 1..Len(stack) : stack'[i].kind = stack[i].kind /\ stack'[i].id = stack[i].id
  BY <1>3, <1>4 DEF Top
<1>6. TasksOf(stack') = TasksOf(stack) /\ \A i \in TasksOf(stack) : stack'[i].id = stack[i].id
  BY <1>3, <1>5 DEF TasksOf
<1>7. OnStack(stack', current, tasks')
  BY <1>1, <1>6, OnSame, Lengths DEF Base, Quiet
<1> QED BY <1>3, <1>7 DEF Base, Quiet

\* The innermost call returns, and it is not a task.
LEMMA StackPop ==
    ASSUME Base, TablesOK', Quiet, stack # <<>>, Top.kind # "task", stack' = Below
    PROVE  Base'
<1>1. /\ Len(tasks') \in Nat /\ Len(groups') \in Nat /\ Len(conts') \in Nat
  BY DEF TablesOK
<1>2. StackOK(stack, Len(tasks'), Len(groups'), Len(conts'))
  BY <1>1, GrowOK, Lengths DEF Base, Quiet
<1>3. StackOK(stack', Len(tasks'), Len(groups'), Len(conts'))
  BY <1>2, PopOK DEF Below
<1>4. /\ Len(stack) \in Nat \ {0} /\ Len(stack') = Len(stack) - 1
      /\ \A i \in 1..(Len(stack) - 1) : stack'[i] = stack[i]
  BY TopFacts
<1>5. \A i \in TasksOf(stack) : i \in 1..(Len(stack) - 1)
  BY <1>4 DEF TasksOf, Top
<1>6. TasksOf(stack') = TasksOf(stack) /\ \A i \in TasksOf(stack) : stack'[i].id = stack[i].id
  BY <1>4, <1>5 DEF TasksOf
<1>7. OnStack(stack', current, tasks')
  BY <1>1, <1>6, OnSame, Lengths DEF Base, Quiet
<1> QED BY <1>3, <1>7 DEF Base, Quiet

\* What a task that is run on top of the stack rest does to it.
Begins(t, rest) ==
    /\ tasks[t].state # "running"
    /\ tasks' = Begun(t)
    /\ current' = Append(current, t)
    /\ stack' = Append(rest, Frame("task", t, "script", <<>>))

LEMMA TaskFrame ==
    ASSUME NEW nt, NEW ng, NEW nc, NEW t \in Nat, t \in 1..nt
    PROVE  LET f == Frame("task", t, "script", <<>>)
           IN  /\ FrameOK(f, nt, ng, nc) /\ f \in FrameType
               /\ f.kind = "task" /\ f.id = t /\ f.at = "script" /\ f.result = "value"
BY DEF Frame, FrameOK, FrameType, Kinds, Ats, Outcome

LEMMA BegunFacts ==
    ASSUME TablesOK, NEW t \in 1..Len(tasks)
    PROVE  /\ Begun(t) \in Seq(TaskType) /\ Len(Begun(t)) = Len(tasks)
           /\ Begun(t)[t].state = "running"
           /\ \A u \in 1..Len(tasks) : u # t => Begun(t)[u] = tasks[u]
           /\ \A u \in 1..Len(tasks) : /\ Begun(t)[u].outcome = tasks[u].outcome
                                        /\ Begun(t)[u].cancelled = tasks[u].cancelled
<1> DEFINE e == [tasks[t] EXCEPT !.state = "running"]
<1>1. tasks \in Seq(TaskType) /\ tasks[t] \in TaskType
  BY Lengths DEF TablesOK
<1>2. /\ e \in TaskType /\ e.state = "running" /\ e.outcome = tasks[t].outcome
      /\ e.cancelled = tasks[t].cancelled
  BY <1>1 DEF TaskType
<1>3. Begun(t) = [tasks EXCEPT ![t] = e]
  BY DEF Begun
<1> HIDE DEF e
<1> QED BY <1>1, <1>2, <1>3, ExceptSeq

LEMMA StackBegin ==
    ASSUME Base, NEW t \in 1..Len(tasks), NEW rest,
           StackOK(rest, Len(tasks), Len(groups), Len(conts)), rest # <<>>,
           OnStack(rest, current, tasks), Begins(t, rest)
    PROVE  /\ StackOK(stack', Len(tasks'), Len(groups), Len(conts))
           /\ OnStack(stack', current', tasks')
           /\ tasks' \in Seq(TaskType) /\ Len(tasks') = Len(tasks) /\ current' \in Seq(Nat)
           /\ stack' # <<>>
<1> DEFINE f == Frame("task", t, "script", <<>>)
<1>1. t \in Nat /\ rest \in Seq(FrameType) /\ current \in Seq(Nat)
  BY Lengths DEF Base, StackOK, TablesOK
<1>2. /\ FrameOK(f, Len(tasks), Len(groups), Len(conts)) /\ f \in FrameType
      /\ f.kind = "task" /\ f.id = t
  BY <1>1, TaskFrame
<1> HIDE DEF f
<1>3. stack' = Append(rest, f) /\ stack' # <<>>
  <2>1. Append(rest, f) # <<>>
    BY <1>1, <1>2, SeqFacts
  <2>2. stack' = Append(rest, f)
    BY DEF Begins, f
  <2> QED BY <2>1, <2>2
<1>4. /\ tasks' \in Seq(TaskType) /\ Len(tasks') = Len(tasks) /\ tasks'[t].state = "running"
      /\ \A u \in 1..Len(tasks) : u # t => tasks'[u] = tasks[u]
  BY BegunFacts DEF Begins, Base
<1>5. StackOK(stack', Len(tasks), Len(groups), Len(conts))
  BY <1>2, <1>3, PushOK
<1>6. OnStack(Append(rest, f), Append(current, t), tasks')
  BY <1>1, <1>2, <1>4, OnBegin DEF Begins
<1>7. current' = Append(current, t) /\ current' \in Seq(Nat)
  BY <1>1 DEF Begins
<1> QED BY <1>3, <1>4, <1>5, <1>6, <1>7
-----------------------------------------------------------------------------
(* Calls that leave the stack as it is                                     *)

\* The tables with more tasks, or other flags of theirs.
LEMMA TablesGrow ==
    ASSUME TablesOK, tasks' \in Seq(TaskType), Len(tasks) <= Len(tasks'),
           UNCHANGED <<current, groups, children, stack, ended>>,
           cancelled' \in Seq(BOOLEAN), Len(cancelled') = Len(groups),
           conts' \in Seq({"pending", "resumed", "consumed"}),
           failing' \in BOOLEAN, failing' => stack # <<>>
    PROVE  TablesOK'
<1>1. 1..Len(tasks) \subseteq 1..Len(tasks')
  <2>1. Len(tasks) \in Nat /\ Len(tasks') \in Nat
    BY Lengths
  <2> QED BY <2>1
<1> QED BY <1>1 DEF TablesOK

\* The program spawned a task.
LEMMA Appended ==
    ASSUME Base, NEW flag \in BOOLEAN, tasks' = Append(tasks, NewTask(flag))
    PROVE  /\ tasks' \in Seq(TaskType) /\ Len(tasks') = Len(tasks) + 1
           /\ \A t \in 1..Len(tasks) : tasks'[t] = tasks[t]
           /\ tasks'[Len(tasks) + 1].state = "pending"
           /\ tasks'[Len(tasks) + 1].cancelled = flag
           /\ tasks'[Len(tasks) + 1].outcome = "value"
           /\ \A t \in 1..Len(tasks') :
                 tasks'[t].state = "running" <=> t \in 1..Len(tasks) /\ tasks[t].state = "running"
<1>1. tasks \in Seq(TaskType) /\ Len(tasks) \in Nat /\ current \in Seq(Nat)
  BY Lengths DEF Base, TablesOK
<1>2. (IF current = <<>> THEN 0 ELSE Last(current)) \in Nat
  BY <1>1 DEF Last
<1> DEFINE n == NewTask(flag)
<1>3. n \in TaskType /\ n.state = "pending" /\ n.cancelled = flag /\ n.outcome = "value"
  BY <1>2 DEF NewTask, TaskType, Outcome
<1> HIDE DEF n
<1>4. /\ tasks' \in Seq(TaskType) /\ Len(tasks') = Len(tasks) + 1
      /\ tasks'[Len(tasks) + 1] = n /\ \A t \in 1..Len(tasks) : tasks'[t] = tasks[t]
  <2>1. tasks' = Append(tasks, n)
    BY DEF n
  <2> QED BY <1>1, <1>3, <2>1, SeqFacts
<1>5. \A t \in 1..Len(tasks') : t \in 1..Len(tasks) \/ t = Len(tasks) + 1
  BY <1>1, <1>4
<1>6. Len(tasks) + 1 \notin 1..Len(tasks)
  BY <1>1
<1> QED BY <1>1, <1>3, <1>4, <1>5, <1>6

LEMMA CurrentFlag ==
    ASSUME Base
    PROVE  CurrentCancelled \in BOOLEAN /\ \A g \in DOMAIN groups : BornCancelled(g) \in BOOLEAN
<1>1. current \in Seq(Nat) /\ \A p \in 1..Len(current) : current[p] \in 1..Len(tasks)
  BY DEF Base, TablesOK, OnStack
<1>2. \A t \in 1..Len(tasks) : tasks[t].cancelled \in BOOLEAN
  BY Lengths DEF Base, TaskType
<1>3. current # <<>> => Last(current) \in 1..Len(tasks)
  BY <1>1 DEF Last
<1>4. \A g \in DOMAIN groups : BornCancelled(g) \in BOOLEAN
  BY Lengths DEF Base, TablesOK, BornCancelled
<1> QED BY <1>2, <1>3, <1>4 DEF CurrentCancelled

LEMMA BaseSpawn == ASSUME Base, NEW inherit \in BOOLEAN, Spawn(inherit) PROVE Base'
<1>1. /\ stack' = stack /\ stack # <<>>
      /\ UNCHANGED <<current, groups, cancelled, conts, failing, ended, children>>
      /\ tasks' = Append(tasks, NewTask(inherit /\ CurrentCancelled))
  BY DEF Spawn, InScript
<1>2. (inherit /\ CurrentCancelled) \in BOOLEAN /\ Len(tasks) \in Nat
  BY CurrentFlag, Lengths DEF Base
<1>3. /\ tasks' \in Seq(TaskType) /\ Len(tasks') = Len(tasks) + 1
      /\ \A t \in 1..Len(tasks') :
            tasks'[t].state = "running" <=> t \in 1..Len(tasks) /\ tasks[t].state = "running"
  BY <1>1, <1>2, Appended
<1>4. TablesOK'
  BY <1>1, <1>2, <1>3, TablesGrow DEF Base, TablesOK
<1>5. Quiet
  BY <1>1, <1>2, <1>3, Lengths DEF Quiet, Base
<1> QED BY <1>1, <1>4, <1>5, StackSame

LEMMA BaseAddTask == ASSUME Base, NEW g \in DOMAIN groups, AddTask(g) PROVE Base'
<1>1. /\ stack' = stack /\ stack # <<>>
      /\ UNCHANGED <<current, cancelled, conts, failing, ended>>
      /\ tasks' = Append(tasks, NewTask(BornCancelled(g)))
      /\ groups' = [groups EXCEPT ![g] = Append(@, NewId)]
      /\ children' = [children EXCEPT ![g] = @ \cup {NewId}]
  BY DEF AddTask, InScript
<1>2. /\ BornCancelled(g) \in BOOLEAN /\ Len(tasks) \in Nat /\ Len(groups) \in Nat
      /\ g \in 1..Len(groups) /\ groups \in Seq(Seq(Nat)) /\ children \in Seq(SUBSET Nat)
      /\ Len(children) = Len(groups)
  BY CurrentFlag, Lengths DEF Base, TablesOK
<1>3. /\ tasks' \in Seq(TaskType) /\ Len(tasks') = Len(tasks) + 1
      /\ \A t \in 1..Len(tasks') :
            tasks'[t].state = "running" <=> t \in 1..Len(tasks) /\ tasks[t].state = "running"
  BY <1>1, <1>2, Appended
<1> DEFINE q == Append(groups[g], NewId)
<1>4. /\ q \in Seq(Nat) /\ groups[g] \in Seq(Nat) /\ DOMAIN q = 1..(Len(groups[g]) + 1)
      /\ \A i \in 1..Len(groups[g]) : q[i] = groups[g][i]
      /\ q[Len(groups[g]) + 1] = NewId /\ NewId = Len(tasks) + 1
      /\ DOMAIN groups[g] = 1..Len(groups[g]) /\ Len(groups[g]) \in Nat
  <2>1. groups[g] \in Seq(Nat) /\ NewId \in Nat
    BY <1>2 DEF NewId
  <2> QED BY <2>1, SeqFacts DEF NewId
<1> HIDE DEF q
<1>5. /\ groups' \in Seq(Seq(Nat)) /\ Len(groups') = Len(groups)
      /\ \A h \in 1..Len(groups) : groups'[h] = IF h = g THEN q ELSE groups[h]
  BY <1>1, <1>2, <1>4, ExceptSeq DEF q
<1>6. /\ children' \in Seq(SUBSET Nat) /\ Len(children') = Len(children)
      /\ \A h \in 1..Len(groups) :
            children'[h] = IF h = g THEN children[g] \cup {NewId} ELSE children[h]
  <2>1. children[g] \cup {NewId} \in SUBSET Nat
    BY <1>2, <1>4
  <2> QED BY <1>1, <1>2, <2>1, ExceptSeq
<1>7. \A h \in 1..Len(groups) : \A i \in DOMAIN groups'[h] : groups'[h][i] \in 1..Len(tasks')
  <2> SUFFICES ASSUME NEW h \in 1..Len(groups), NEW i \in DOMAIN groups'[h]
               PROVE  groups'[h][i] \in 1..Len(tasks')
    OBVIOUS
  <2>1. 1..Len(tasks) \subseteq 1..Len(tasks') /\ Len(tasks) + 1 \in 1..Len(tasks')
    BY <1>2, <1>3
  <2>2. \A k \in 1..Len(groups) : \A j \in DOMAIN groups[k] : groups[k][j] \in 1..Len(tasks)
    BY DEF Base, TablesOK
  <2>3. CASE h # g
    BY <1>5, <2>1, <2>2, <2>3
  <2>4. CASE h = g /\ i \in 1..Len(groups[g])
    BY <1>2, <1>4, <1>5, <2>1, <2>2, <2>4
  <2>5. CASE h = g /\ i = Len(groups[g]) + 1
    BY <1>2, <1>4, <1>5, <2>1, <2>5
  <2>6. h = g => i \in 1..(Len(groups[g]) + 1)
    BY <1>4, <1>5
  <2> QED BY <1>4, <2>3, <2>4, <2>5, <2>6
<1>8. \A h \in 1..Len(groups) : children'[h] \subseteq 1..Len(tasks')
  <2>1. 1..Len(tasks) \subseteq 1..Len(tasks') /\ NewId \in 1..Len(tasks')
    BY <1>2, <1>3, <1>4
  <2>2. \A h \in 1..Len(groups) : children[h] \subseteq 1..Len(tasks)
    BY DEF Base, TablesOK
  <2> QED BY <1>2, <1>6, <2>1, <2>2
<1>9. TablesOK'
  BY <1>1, <1>2, <1>3, <1>5, <1>6, <1>7, <1>8 DEF Base, TablesOK
<1>10. Quiet
  BY <1>1, <1>2, <1>3, <1>5, Lengths DEF Quiet, Base
<1> QED BY <1>1, <1>9, <1>10, StackSame

\* A flag of tasks, and nothing else of them, is set.
LEMMA Flagged ==
    ASSUME Base, NEW S, tasks' = [t \in Tasks |-> IF t \in S THEN [tasks[t] EXCEPT !.cancelled = TRUE]
                                                 ELSE tasks[t]]
    PROVE  /\ tasks' \in Seq(TaskType) /\ Len(tasks') = Len(tasks) /\ Len(tasks) \in Nat
           /\ DOMAIN tasks = 1..Len(tasks)
           /\ \A t \in 1..Len(tasks) : /\ tasks'[t].state = tasks[t].state
                                        /\ tasks'[t].outcome = tasks[t].outcome
                                        /\ tasks'[t].cancelled = (tasks[t].cancelled \/ t \in S)
<1>1. /\ DOMAIN tasks = 1..Len(tasks) /\ Len(tasks) \in Nat
      /\ \A t \in 1..Len(tasks) : tasks[t] \in TaskType
  BY Lengths DEF Base
<1> DEFINE e(t) == IF t \in S THEN [tasks[t] EXCEPT !.cancelled = TRUE] ELSE tasks[t]
<1>2. \A t \in 1..Len(tasks) :
         /\ e(t) \in TaskType /\ e(t).state = tasks[t].state /\ e(t).outcome = tasks[t].outcome
         /\ e(t).cancelled = (tasks[t].cancelled \/ t \in S)
  BY <1>1 DEF TaskType
<1>3. tasks' = [t \in 1..Len(tasks) |-> e(t)]
  BY <1>1 DEF Tasks
<1>4. \A t \in 1..Len(tasks) : tasks'[t] = e(t)
  BY <1>3
<1> HIDE DEF e
<1>5. tasks' \in Seq(TaskType) /\ Len(tasks') = Len(tasks)
  <2> DEFINE n == Len(tasks)
             f == [t \in 1..n |-> e(t)]
  <2>1. n \in Nat /\ \A t \in 1..n : f[t] \in TaskType
    BY <1>1, <1>2
  <2>2. DOMAIN f = 1..n /\ tasks' = f
    BY <1>3
  <2> HIDE DEF n
  <2>3. f \in Seq(TaskType) /\ Len(f) = n
    BY <2>1
  <2> QED BY <2>2, <2>3 DEF n
<1> QED BY <1>1, <1>2, <1>4, <1>5

LEMMA BaseFlags ==
    ASSUME Base, \/ \E t \in Tasks : Cancel(t)
                 \/ \E g \in DOMAIN groups : CancelAll(g)
    PROVE  Base'
<1>1. \E S : tasks' = [t \in Tasks |-> IF t \in S THEN [tasks[t] EXCEPT !.cancelled = TRUE] ELSE tasks[t]]
  <2>1. CASE \E g \in DOMAIN groups : CancelAll(g)
    BY <2>1 DEF CancelAll
  <2>2. ASSUME NEW u \in Tasks, Cancel(u)
        PROVE  tasks' = [t \in Tasks |-> IF t \in {u} THEN [tasks[t] EXCEPT !.cancelled = TRUE]
                                        ELSE tasks[t]]
    <3>1. tasks' = [tasks EXCEPT ![u].cancelled = TRUE]
      BY <2>2 DEF Cancel
    <3> QED BY <3>1 DEF Tasks
  <2> QED BY <2>1, <2>2
<1>2. /\ tasks' \in Seq(TaskType) /\ Len(tasks') = Len(tasks) /\ Len(tasks) \in Nat
      /\ \A t \in 1..Len(tasks) : tasks'[t].state = tasks[t].state
  BY <1>1, Flagged
<1>3. /\ stack' = stack /\ stack # <<>> /\ UNCHANGED <<current, groups, conts, failing, ended, children>>
      /\ cancelled' \in Seq(BOOLEAN) /\ Len(cancelled') = Len(groups)
  <2>1. cancelled \in Seq(BOOLEAN) /\ Len(cancelled) = Len(groups) /\ DOMAIN groups = 1..Len(groups)
    BY Lengths DEF Base, TablesOK
  <2>2. CASE \E t \in Tasks : Cancel(t)
    BY <2>1, <2>2 DEF Cancel, InScript
  <2>3. CASE \E g \in DOMAIN groups : CancelAll(g)
    <3>1. PICK g \in DOMAIN groups : CancelAll(g)
      BY <2>3
    <3>2. cancelled' = [cancelled EXCEPT ![g] = TRUE] /\ g \in 1..Len(cancelled)
      BY <2>1, <3>1 DEF CancelAll
    <3>3. cancelled' \in Seq(BOOLEAN) /\ Len(cancelled') = Len(cancelled)
      BY <2>1, <3>2, ExceptSeq
    <3> QED BY <2>1, <3>1, <3>3 DEF CancelAll, InScript
  <2> QED BY <2>2, <2>3
<1>4. TablesOK'
  BY <1>2, <1>3, TablesGrow DEF Base, TablesOK
<1>5. Quiet
  BY <1>2, <1>3, Lengths DEF Quiet, Base
<1> QED BY <1>3, <1>4, <1>5, StackSame

LEMMA SlotTable ==
    ASSUME TablesOK, NEW c \in DOMAIN conts, NEW state \in {"pending", "resumed", "consumed"}
    PROVE  /\ [conts EXCEPT ![c] = state] \in Seq({"pending", "resumed", "consumed"})
           /\ Len([conts EXCEPT ![c] = state]) = Len(conts)
           /\ \A d \in 1..Len(conts) : [conts EXCEPT ![c] = state][d] = IF d = c THEN state ELSE conts[d]
<1>1. c \in 1..Len(conts) /\ conts \in Seq({"pending", "resumed", "consumed"})
  BY Lengths DEF TablesOK
<1> QED BY <1>1, ExceptSeq

LEMMA BaseResume ==
    ASSUME Base, (\E c \in DOMAIN conts : Resume(c)) \/ (\E t \in Tasks : AwaitFailed(t))
    PROVE  Base'
<1>1. /\ stack' = stack /\ stack # <<>> /\ UNCHANGED <<tasks, current, groups, cancelled, ended, children>>
      /\ conts' \in Seq({"pending", "resumed", "consumed"}) /\ Len(conts') = Len(conts)
      /\ failing' \in BOOLEAN
  <2>1. TablesOK /\ conts \in Seq({"pending", "resumed", "consumed"}) /\ failing \in BOOLEAN
    BY DEF Base, TablesOK
  <2>2. ASSUME NEW c \in DOMAIN conts, Resume(c)
        PROVE  /\ conts' \in Seq({"pending", "resumed", "consumed"}) /\ Len(conts') = Len(conts)
               /\ failing' \in BOOLEAN
    <3>1. CASE conts[c] = "pending"
      BY <2>1, <2>2, <3>1, SlotTable DEF Resume
    <3>2. CASE conts[c] # "pending"
      BY <2>1, <2>2, <3>2 DEF Resume
    <3> QED BY <3>1, <3>2
  <2>3. CASE \E c \in DOMAIN conts : Resume(c)
    BY <2>2, <2>3 DEF Resume, InScript
  <2>4. CASE \E t \in Tasks : AwaitFailed(t)
    BY <2>1, <2>4 DEF AwaitFailed, MayAwait, InScript, tables
  <2> QED BY <2>3, <2>4
<1>2. TablesOK'
  BY <1>1, Lengths, TablesGrow DEF Base, TablesOK
<1>3. Quiet
  BY <1>1, Lengths DEF Quiet, Base
<1> QED BY <1>1, <1>2, <1>3, StackSame
-----------------------------------------------------------------------------
(* Calls that run a task or begin a loop or a body                         *)

LEMMA NewFrame ==
    ASSUME NEW kind \in Kinds, NEW id \in Nat, NEW at \in Ats, NEW todo \in Seq(Nat)
    PROVE  LET f == Frame(kind, id, at, todo)
           IN  /\ f \in FrameType /\ f.kind = kind /\ f.id = id /\ f.at = at /\ f.todo = todo
               /\ f.result = "value" /\ f.loop = 0
BY DEF Frame, FrameType, Outcome

LEMMA Replaced ==
    ASSUME Base, stack # <<>>, NEW f, FrameOK(f, Len(tasks), Len(groups), Len(conts)),
           f.kind = Top.kind, f.id = Top.id
    PROVE  /\ StackOK(Replace(f), Len(tasks), Len(groups), Len(conts))
           /\ OnStack(Replace(f), current, tasks)
           /\ Len(Replace(f)) = Len(stack) /\ Replace(f) # <<>> /\ Replace(f)[Len(stack)] = f
           /\ \A i \in 1..(Len(stack) - 1) : Replace(f)[i] = stack[i]
<1> DEFINE r == Replace(f)
<1>1. /\ StackOK(r, Len(tasks), Len(groups), Len(conts)) /\ Len(r) = Len(stack) /\ r # <<>>
      /\ r[Len(stack)] = f /\ \A i \in 1..(Len(stack) - 1) : r[i] = stack[i]
  BY RetopOK DEF Base, Top, Replace, Below
<1> HIDE DEF r
<1>2. \A i \in 1..Len(stack) : i \in 1..(Len(stack) - 1) \/ i = Len(stack)
  BY TopFacts
<1>3. \A i \in 1..Len(stack) : r[i].kind = stack[i].kind /\ r[i].id = stack[i].id
  BY <1>1, <1>2 DEF Top
<1>4. TasksOf(r) = TasksOf(stack) /\ \A i \in TasksOf(stack) : r[i].id = stack[i].id
  BY <1>1, <1>3 DEF TasksOf
<1>5. OnStack(r, current, tasks)
  <2>1. /\ OnStack(stack, current, tasks) /\ Len(tasks) \in Nat
        /\ \A t \in 1..Len(tasks) :
              tasks[t].state = "running" <=> t \in 1..Len(tasks) /\ tasks[t].state = "running"
    BY Lengths DEF Base
  <2>2. Len(tasks) <= Len(tasks)
    BY <2>1
  <2> QED BY <1>4, <2>1, <2>2, OnSame
<1> QED BY <1>1, <1>5 DEF r

LEMMA GroupTable ==
    ASSUME TablesOK, NEW g \in DOMAIN groups, NEW q \in Seq(Nat),
           \A i \in DOMAIN q : q[i] \in 1..Len(tasks),
           groups' = [groups EXCEPT ![g] = q], Len(tasks') = Len(tasks)
    PROVE  /\ groups' \in Seq(Seq(Nat)) /\ Len(groups') = Len(groups)
           /\ groups'[g] = q /\ \A h \in 1..Len(groups) : h # g => groups'[h] = groups[h]
           /\ \A h \in 1..Len(groups') : \A i \in DOMAIN groups'[h] : groups'[h][i] \in 1..Len(tasks')
<1>1. g \in 1..Len(groups) /\ groups \in Seq(Seq(Nat))
  BY Lengths DEF TablesOK
<1>2. /\ groups' \in Seq(Seq(Nat)) /\ Len(groups') = Len(groups)
      /\ \A h \in 1..Len(groups) : groups'[h] = IF h = g THEN q ELSE groups[h]
  BY <1>1, ExceptSeq
<1> QED BY <1>1, <1>2 DEF TablesOK

\* The children of a group are tasks.
LEMMA GroupFacts ==
    ASSUME Base, NEW g \in DOMAIN groups
    PROVE  /\ g \in Nat /\ g \in 1..Len(groups) /\ groups[g] \in Seq(Nat)
           /\ \A i \in DOMAIN groups[g] : groups[g][i] \in 1..Len(tasks)
           /\ groups[g] # <<>> =>
                 /\ Head(groups[g]) \in 1..Len(tasks) /\ Head(groups[g]) = groups[g][1]
                 /\ Tail(groups[g]) \in Seq(Nat)
                 /\ \A i \in DOMAIN Tail(groups[g]) :
                       Tail(groups[g])[i] \in 1..Len(tasks) /\ Tail(groups[g])[i] = groups[g][i + 1]
                 /\ \A i \in DOMAIN groups[g] :
                       i = 1 \/ \E j \in DOMAIN Tail(groups[g]) : Tail(groups[g])[j] = groups[g][i]
<1> DEFINE q == groups[g]
<1>1. g \in Nat /\ g \in 1..Len(groups) /\ q \in Seq(Nat)
  BY Lengths DEF Base, TablesOK
<1>2. \A i \in DOMAIN q : q[i] \in 1..Len(tasks)
  BY <1>1 DEF Base, TablesOK
<1> HIDE DEF q
<1>3. ASSUME q # <<>>
      PROVE  /\ Head(q) \in 1..Len(tasks) /\ Head(q) = q[1] /\ Tail(q) \in Seq(Nat)
             /\ \A i \in DOMAIN Tail(q) : Tail(q)[i] \in 1..Len(tasks) /\ Tail(q)[i] = q[i + 1]
             /\ \A i \in DOMAIN q : i = 1 \/ \E j \in DOMAIN Tail(q) : Tail(q)[j] = q[i]
  <2>1. Len(q) \in Nat \ {0} /\ DOMAIN q = 1..Len(q)
    BY <1>1, <1>3, EmptySeq
  <2>2. /\ Tail(q) \in Seq(Nat) /\ Len(Tail(q)) = Len(q) - 1
        /\ \A i \in 1..Len(Tail(q)) : Tail(q)[i] = q[i + 1]
    BY <1>1, <1>3, HeadTailProperties
  <2>3. DOMAIN Tail(q) = 1..(Len(q) - 1)
    BY <2>2
  <2>4. Head(q) = q[1] /\ 1 \in DOMAIN q
    BY <1>1, <2>1
  <2>5. \A i \in DOMAIN Tail(q) : i + 1 \in DOMAIN q
    BY <2>1, <2>3
  <2>6. ASSUME NEW i \in DOMAIN q, i # 1 PROVE \E j \in DOMAIN Tail(q) : Tail(q)[j] = q[i]
    <3>1. i - 1 \in 1..(Len(q) - 1) /\ (i - 1) + 1 = i
      BY <2>1, <2>6
    <3>2. Tail(q)[i - 1] = q[i]
      BY <2>2, <3>1
    <3> QED BY <2>3, <3>1, <3>2
  <2> QED BY <1>2, <2>2, <2>3, <2>4, <2>5, <2>6
<1> QED BY <1>1, <1>2, <1>3 DEF q

\* A task is run on top of the stack rest, or the run traps.
LEMMA RunStep ==
    ASSUME Base, NEW t \in 1..Len(tasks), NEW rest,
           StackOK(rest, Len(tasks), Len(groups), Len(conts)), rest # <<>>,
           OnStack(rest, current, tasks), RunTask(t, rest)
    PROVE  /\ StackOK(stack', Len(tasks'), Len(groups), Len(conts))
           /\ OnStack(stack', current', tasks')
           /\ tasks' \in Seq(TaskType) /\ Len(tasks') = Len(tasks) /\ current' \in Seq(Nat)
           /\ stack' # <<>> /\ failing' \in BOOLEAN
<1>1. failing \in BOOLEAN /\ tasks \in Seq(TaskType) /\ current \in Seq(Nat)
  BY DEF Base, TablesOK
<1>2. CASE tasks[t].state = "running"
  BY <1>1, <1>2 DEF RunTask
<1>3. CASE tasks[t].state # "running"
  <2>1. Begins(t, rest) /\ failing' = failing
    BY <1>3 DEF RunTask, Begins
  <2> QED BY <1>1, <2>1, StackBegin
<1> QED BY <1>2, <1>3

LEMMA BaseRun ==
    ASSUME Base, NEW t \in 1..Len(tasks), NEW rest,
           StackOK(rest, Len(tasks), Len(groups), Len(conts)), rest # <<>>,
           OnStack(rest, current, tasks), RunTask(t, rest), stack # <<>>,
           UNCHANGED <<groups, cancelled, conts, ended, children>>
    PROVE  Base'
<1>1. /\ StackOK(stack', Len(tasks'), Len(groups), Len(conts))
      /\ OnStack(stack', current', tasks')
      /\ tasks' \in Seq(TaskType) /\ Len(tasks') = Len(tasks) /\ current' \in Seq(Nat)
      /\ stack' # <<>> /\ failing' \in BOOLEAN
  BY RunStep
<1>2. TablesOK'
  BY <1>1 DEF Base, TablesOK
<1> QED BY <1>1, <1>2 DEF Base

LEMMA BaseAwait == ASSUME Base, NEW t \in Tasks, Await(t) PROVE Base'
<1>1. RunTask(t, stack) /\ stack # <<>> /\ UNCHANGED <<groups, cancelled, conts, ended, children>>
  BY DEF Await, MayAwait, InScript
<1>2. t \in 1..Len(tasks)
  BY Lengths DEF Base, Tasks
<1> QED BY <1>1, <1>2, BaseRun DEF Base

LEMMA BaseNextChild == ASSUME Base, NEW g \in DOMAIN groups, NextChild(g) PROVE Base'
<1> DEFINE t == Head(groups[g])
<1>1. /\ groups[g] # <<>> /\ stack # <<>> /\ groups' = [groups EXCEPT ![g] = Tail(@)]
      /\ UNCHANGED <<cancelled, conts, ended, children>>
  BY DEF NextChild, MayAwait, InScript
<1>2. t \in 1..Len(tasks) /\ Tail(groups[g]) \in Seq(Nat)
      /\ \A i \in DOMAIN Tail(groups[g]) : Tail(groups[g])[i] \in 1..Len(tasks)
  BY <1>1, GroupFacts
<1>3. CASE tasks[t].state = "done"
  <2>1. /\ failing' = (tasks[t].outcome = "error") /\ UNCHANGED <<tasks, current, stack, cycle>>
    BY <1>3 DEF NextChild
  <2>2. /\ groups' \in Seq(Seq(Nat)) /\ Len(groups') = Len(groups)
        /\ \A h \in 1..Len(groups') : \A i \in DOMAIN groups'[h] : groups'[h][i] \in 1..Len(tasks')
    BY <1>1, <1>2, <2>1, GroupTable DEF Base
  <2>3. TablesOK'
    BY <1>1, <2>1, <2>2 DEF Base, TablesOK
  <2>4. Quiet
    BY <1>1, <2>1, <2>2, Lengths DEF Quiet, Base
  <2> QED BY <2>1, <2>3, <2>4, StackSame
<1>4. CASE tasks[t].state # "done"
  <2>1. RunTask(t, stack)
    BY <1>4 DEF NextChild
  <2>2. /\ StackOK(stack', Len(tasks'), Len(groups), Len(conts))
        /\ OnStack(stack', current', tasks')
        /\ tasks' \in Seq(TaskType) /\ Len(tasks') = Len(tasks) /\ current' \in Seq(Nat)
        /\ stack' # <<>> /\ failing' \in BOOLEAN
    BY <1>1, <1>2, <2>1, RunStep DEF Base
  <2>3. /\ groups' \in Seq(Seq(Nat)) /\ Len(groups') = Len(groups)
        /\ \A h \in 1..Len(groups') : \A i \in DOMAIN groups'[h] : groups'[h][i] \in 1..Len(tasks')
    BY <1>1, <1>2, <2>2, GroupTable DEF Base
  <2>4. TablesOK'
    BY <1>1, <2>2, <2>3 DEF Base, TablesOK
  <2> QED BY <2>2, <2>3, <2>4, <1>1 DEF Base
<1> QED BY <1>3, <1>4

LEMMA BelowEmpty ==
    ASSUME Base, stack # <<>>
    PROVE  Below = <<>> <=> Top.kind = "main"
<1>1. Below \in Seq(FrameType) /\ Len(Below) = Len(stack) - 1 /\ (Top.kind = "main" <=> Len(stack) = 1)
      /\ Len(stack) \in Nat
  BY TopFacts
<1>2. Below = <<>> <=> Len(Below) = 0
  BY <1>1, SeqFacts, EmptySeq
<1> QED BY <1>1, <1>2

LEMMA BaseTakeGroup ==
    ASSUME Base, NEW g \in DOMAIN groups, NEW at \in {"drain", "collect"}, TakeGroup(g, at)
    PROVE  Base'
<1> DEFINE f == Frame("loop", g, at, groups[g])
<1>1. /\ stack # <<>> /\ Top.at = "script" /\ stack' = Append(stack, f)
      /\ groups' = [groups EXCEPT ![g] = <<>>]
      /\ UNCHANGED <<tasks, current, cancelled, conts, failing, ended, children>>
  BY DEF TakeGroup, MayAwait, InScript
<1>2. /\ g \in Nat /\ g \in 1..Len(groups) /\ groups[g] \in Seq(Nat)
      /\ \A i \in DOMAIN groups[g] : groups[g][i] \in 1..Len(tasks)
  BY GroupFacts
<1>3. <<>> \in Seq(Nat) /\ \A i \in DOMAIN <<>> : <<>>[i] \in 1..Len(tasks)
  OBVIOUS
<1>4. /\ groups' \in Seq(Seq(Nat)) /\ Len(groups') = Len(groups)
      /\ \A h \in 1..Len(groups') : \A i \in DOMAIN groups'[h] : groups'[h][i] \in 1..Len(tasks')
  BY <1>1, <1>3, GroupTable DEF Base
<1>5. /\ f \in FrameType /\ f.kind = "loop" /\ f.id = g /\ f.at = at /\ f.todo = groups[g]
      /\ f.result = "value"
  BY <1>2, NewFrame DEF Kinds, Ats
<1> HIDE DEF f
<1>6. FrameOK(f, Len(tasks'), Len(groups'), Len(conts'))
  BY <1>1, <1>2, <1>4, <1>5 DEF FrameOK
<1>7. stack' # <<>>
  BY <1>1, <1>5, SeqFacts DEF Base, StackOK
<1>8. TablesOK'
  BY <1>1, <1>4, <1>7 DEF Base, TablesOK
<1>9. Quiet
  BY <1>1, <1>4, Lengths DEF Quiet, Base
<1> QED BY <1>1, <1>5, <1>6, <1>8, <1>9, StackPush

LEMMA BaseOpenGroup == ASSUME Base, OpenGroup PROVE Base'
<1> DEFINE n == Len(groups) + 1
           none == <<>>
           f == Frame("group", n, "script", none)
<1>1. /\ stack # <<>> /\ Top.at = "script" /\ stack' = Append(stack, f)
      /\ groups' = Append(groups, <<>>) /\ cancelled' = Append(cancelled, FALSE)
      /\ children' = Append(children, {})
      /\ UNCHANGED <<tasks, current, conts, failing, ended>>
  BY DEF OpenGroup, MayAwait, InScript
<1>2. /\ Len(groups) \in Nat /\ groups \in Seq(Seq(Nat)) /\ cancelled \in Seq(BOOLEAN)
      /\ children \in Seq(SUBSET Nat) /\ Len(children) = Len(groups) /\ Len(cancelled) = Len(groups)
      /\ n \in Nat /\ Len(tasks) \in Nat
  BY Lengths DEF Base, TablesOK
<1>3. /\ groups' \in Seq(Seq(Nat)) /\ Len(groups') = n /\ groups'[n] = <<>>
      /\ \A h \in 1..Len(groups) : groups'[h] = groups[h]
  <2>1. <<>> \in Seq(Nat)
    OBVIOUS
  <2> QED BY <1>1, <1>2, <2>1, SeqFacts
<1>4. /\ children' \in Seq(SUBSET Nat) /\ Len(children') = n /\ children'[n] = {}
      /\ \A h \in 1..Len(groups) : children'[h] = children[h]
  <2>1. {} \in SUBSET Nat
    OBVIOUS
  <2> QED BY <1>1, <1>2, <2>1, SeqFacts
<1>5. cancelled' \in Seq(BOOLEAN) /\ Len(cancelled') = n
  BY <1>1, <1>2, SeqFacts
<1>6. \A h \in 1..n : h \in 1..Len(groups) \/ h = n
  BY <1>2
<1>7. /\ \A h \in 1..Len(groups') : \A i \in DOMAIN groups'[h] : groups'[h][i] \in 1..Len(tasks')
      /\ \A h \in 1..Len(groups') : children'[h] \subseteq 1..Len(tasks')
  <2>1. /\ \A h \in 1..Len(groups) : \A i \in DOMAIN groups[h] : groups[h][i] \in 1..Len(tasks)
        /\ \A h \in 1..Len(groups) : children[h] \subseteq 1..Len(tasks)
    BY DEF Base, TablesOK
  <2>2. ASSUME NEW h \in 1..Len(groups'), NEW i \in DOMAIN groups'[h]
        PROVE  groups'[h][i] \in 1..Len(tasks')
    <3>1. h \in 1..Len(groups) \/ h = n
      BY <1>3, <1>6
    <3>2. h = n => DOMAIN groups'[h] = {}
      BY <1>3
    <3> QED BY <1>1, <1>3, <2>1, <2>2, <3>1, <3>2
  <2>3. ASSUME NEW h \in 1..Len(groups') PROVE children'[h] \subseteq 1..Len(tasks')
    <3>1. h \in 1..Len(groups) \/ h = n
      BY <1>3, <1>6
    <3>2. CASE h \in 1..Len(groups)
      <4>1. children'[h] = children[h]
        BY <1>4, <3>2
      <4>2. children[h] \subseteq 1..Len(tasks)
        BY <2>1, <3>2
      <4> QED BY <1>1, <4>1, <4>2
    <3>3. CASE h = n
      BY <1>4, <3>3
    <3> QED BY <3>1, <3>2, <3>3
  <2> QED BY <2>2, <2>3
<1>8. f \in FrameType /\ f.kind = "group" /\ f.id = n /\ f.at = "script" /\ f.result = "value"
  <2>1. none \in Seq(Nat)
    OBVIOUS
  <2> HIDE DEF none
  <2> QED BY <1>2, <2>1, NewFrame DEF Kinds, Ats
<1>9. n \in 1..n
  BY <1>2
<1> HIDE DEF f, n
<1>10. FrameOK(f, Len(tasks'), Len(groups'), Len(conts'))
  BY <1>3, <1>8, <1>9 DEF FrameOK
<1>11. stack' # <<>>
  BY <1>1, <1>8, SeqFacts DEF Base, StackOK
<1>12. TablesOK'
  BY <1>1, <1>3, <1>4, <1>5, <1>7, <1>11 DEF Base, TablesOK
<1>13. Quiet
  BY <1>1, <1>2, <1>3, Lengths DEF Quiet, Base, n
<1> QED BY <1>1, <1>8, <1>10, <1>12, <1>13, StackPush

LEMMA BaseOpenContinuation == ASSUME Base, OpenContinuation PROVE Base'
<1> DEFINE n == Len(conts) + 1
           todo == <<Len(tasks) + 1>>
           f == Frame("cont", n, "script", todo)
<1>1. /\ stack # <<>> /\ Top.at = "script" /\ stack' = Append(stack, f)
      /\ conts' = Append(conts, "pending")
      /\ UNCHANGED <<tasks, current, groups, cancelled, children, failing, ended>>
  BY DEF OpenContinuation, MayAwait, InScript
<1>2. /\ conts \in Seq({"pending", "resumed", "consumed"}) /\ n \in Nat /\ Len(conts) \in Nat
      /\ todo \in Seq(Nat) /\ todo # <<>>
  BY Lengths DEF Base, TablesOK
<1>3. conts' \in Seq({"pending", "resumed", "consumed"}) /\ Len(conts') = n
  BY <1>1, <1>2, SeqFacts
<1>4. /\ f \in FrameType /\ f.kind = "cont" /\ f.id = n /\ f.at = "script" /\ f.todo # <<>>
      /\ f.result = "value"
  <2> HIDE DEF todo
  <2> QED BY <1>2, NewFrame DEF Kinds, Ats
<1>5. n \in 1..n
  BY <1>2
<1> HIDE DEF f, n
<1>6. FrameOK(f, Len(tasks'), Len(groups'), Len(conts'))
  BY <1>3, <1>4, <1>5 DEF FrameOK
<1>7. stack' # <<>>
  BY <1>1, <1>4, SeqFacts DEF Base, StackOK
<1>8. TablesOK'
  BY <1>1, <1>3, <1>7 DEF Base, TablesOK
<1>9. Quiet
  BY <1>1, <1>2, <1>3, Lengths DEF Quiet, Base, n
<1> QED BY <1>1, <1>4, <1>6, <1>8, <1>9, StackPush

LEMMA BaseStreamCalls == ASSUME Base, OpenStream \/ ReadStream PROVE Base'
<1>1. /\ stack # <<>> /\ Top.at = "script"
      /\ UNCHANGED <<tasks, current, groups, cancelled, conts, children, failing, ended>>
      /\ \/ stack' = Append(stack, Frame("stream", 0, "script", <<Len(tasks) + 1>>))
         \/ stack' = Append(stack, Frame("loop", 0, "drive", <<1>>))
  BY DEF OpenStream, ReadStream, MayAwait, InScript, tables
<1>2. PICK f \in FrameType : /\ stack' = Append(stack, f) /\ f.kind \notin {"main", "task"}
                              /\ FrameOK(f, Len(tasks), Len(groups), Len(conts))
  <2>1. Len(tasks) \in Nat
    BY Lengths DEF Base
  <2>2. CASE stack' = Append(stack, Frame("stream", 0, "script", <<Len(tasks) + 1>>))
    <3> DEFINE todo == <<Len(tasks) + 1>>
               f == Frame("stream", 0, "script", todo)
    <3>1. todo \in Seq(Nat) /\ todo # <<>>
      BY <2>1
    <3>2. /\ f \in FrameType /\ f.kind = "stream" /\ f.at = "script" /\ f.todo # <<>>
          /\ f.result = "value"
      <4> HIDE DEF todo
      <4> QED BY <3>1, NewFrame DEF Kinds, Ats
    <3>3. stack' = Append(stack, f)
      BY <2>2
    <3> HIDE DEF f
    <3> QED BY <3>2, <3>3 DEF FrameOK
  <2>3. CASE stack' = Append(stack, Frame("loop", 0, "drive", <<1>>))
    <3> DEFINE todo == <<1>>
               f == Frame("loop", 0, "drive", todo)
    <3>1. todo \in Seq(Nat) /\ todo # <<>>
      OBVIOUS
    <3>2. /\ f \in FrameType /\ f.kind = "loop" /\ f.at = "drive" /\ f.todo # <<>>
          /\ f.result = "value"
      <4> HIDE DEF todo
      <4> QED BY <3>1, NewFrame DEF Kinds, Ats
    <3>3. stack' = Append(stack, f)
      BY <2>3
    <3> HIDE DEF f
    <3> QED BY <3>2, <3>3 DEF FrameOK
  <2> QED BY <1>1, <2>2, <2>3
<1>3. stack' # <<>>
  BY <1>2, SeqFacts DEF Base, StackOK
<1>4. TablesOK'
  BY <1>1, <1>3 DEF Base, TablesOK
<1>5. Quiet
  BY <1>1, Lengths DEF Quiet, Base
<1> QED BY <1>1, <1>2, <1>4, <1>5, StackPush
-----------------------------------------------------------------------------
(* The loops                                                               *)

LEMMA BaseDriveNext == ASSUME Base, DriveNext PROVE Base'
<1>1. PICK t \in Ahead(Head(Top.todo)) : RunTask(t, stack)
  BY DEF DriveNext
<1>2. stack # <<>> /\ UNCHANGED <<groups, cancelled, conts, ended, children>>
  BY DEF DriveNext, Driving
<1>3. t \in 1..Len(tasks)
  BY Lengths DEF Base, Ahead, Tasks
<1> QED BY <1>1, <1>2, <1>3, BaseRun DEF Base

LEMMA BaseDriveEnds == ASSUME Base, DriveEnds PROVE Base'
<1>1. /\ stack # <<>> /\ Top.at = "drive" /\ ~failing /\ stack' = Below
      /\ failing' = (Top.kind = "cont" /\ conts[Top.id] = "pending")
      /\ conts' = IF Top.kind = "cont" THEN [conts EXCEPT ![Top.id] = "consumed"] ELSE conts
      /\ ended' = IF Top.kind = "main" THEN "done" ELSE ended
      /\ UNCHANGED <<tasks, current, groups, cancelled, children>>
  BY DEF DriveEnds, Driving
<1>2. FrameOK(Top, Len(tasks), Len(groups), Len(conts)) /\ (Below = <<>> <=> Top.kind = "main")
  BY <1>1, TopFacts, BelowEmpty
<1>3. conts' \in Seq({"pending", "resumed", "consumed"}) /\ Len(conts') = Len(conts)
  <2>1. Top.kind = "cont" => Top.id \in DOMAIN conts
    BY <1>2, Lengths DEF Base, FrameOK
  <2> QED BY <1>1, <2>1, SlotTable DEF Base, TablesOK
<1>4. TablesOK'
  BY <1>1, <1>2, <1>3 DEF Base, TablesOK
<1>5. Quiet
  BY <1>1, <1>3, Lengths DEF Quiet, Base
<1>6. Top.kind # "task"
  BY <1>1, <1>2 DEF FrameOK
<1> QED BY <1>1, <1>4, <1>5, <1>6, StackPop

\* The frame of a loop over children, and the one it goes on as.
LEMMA ChildFrame ==
    ASSUME Base, TakingChildren
    PROVE  /\ stack # <<>> /\ ~failing /\ Top.at \in {"drain", "collect"} /\ Top.kind \in {"loop", "group"}
           /\ Top.id \in 1..Len(groups)
           /\ Top.todo \in Seq(Nat) /\ \A i \in DOMAIN Top.todo : Top.todo[i] \in 1..Len(tasks)
           /\ Top.todo # <<>> =>
                 LET f == [Top EXCEPT !.todo = Tail(@)]
                 IN  /\ Head(Top.todo) \in 1..Len(tasks) /\ Head(Top.todo) = Top.todo[1]
                     /\ FrameOK(f, Len(tasks), Len(groups), Len(conts))
                     /\ f.kind = Top.kind /\ f.id = Top.id /\ f.at = Top.at /\ f.result = Top.result
                     /\ f.todo = Tail(Top.todo)
                     /\ \A i \in DOMAIN Top.todo :
                           i = 1 \/ \E j \in DOMAIN f.todo : f.todo[j] = Top.todo[i]
<1>1. stack # <<>> /\ ~failing /\ Top.at \in {"drain", "collect"}
  BY DEF TakingChildren
<1>2. FrameOK(Top, Len(tasks), Len(groups), Len(conts)) /\ Top \in FrameType
  BY <1>1, TopFacts
<1> DEFINE q == Top.todo
           f == [Top EXCEPT !.todo = Tail(@)]
<1>3. /\ Top.kind \in {"loop", "group"} /\ q \in Seq(Nat) /\ Top.id \in 1..Len(groups)
      /\ \A i \in DOMAIN q : q[i] \in 1..Len(tasks)
  BY <1>1, <1>2 DEF FrameOK, FrameType, Kinds
<1>4. ASSUME q # <<>>
      PROVE  /\ Head(q) \in 1..Len(tasks) /\ Head(q) = q[1] /\ Tail(q) \in Seq(Nat)
             /\ \A i \in DOMAIN Tail(q) : Tail(q)[i] \in 1..Len(tasks)
             /\ \A i \in DOMAIN q : i = 1 \/ \E j \in DOMAIN Tail(q) : Tail(q)[j] = q[i]
  <2> HIDE DEF q
  <2>1. Len(q) \in Nat \ {0} /\ DOMAIN q = 1..Len(q)
    BY <1>3, <1>4, EmptySeq
  <2>2. /\ Tail(q) \in Seq(Nat) /\ Len(Tail(q)) = Len(q) - 1
        /\ \A i \in 1..Len(Tail(q)) : Tail(q)[i] = q[i + 1]
    BY <1>3, <1>4, HeadTailProperties
  <2>3. DOMAIN Tail(q) = 1..(Len(q) - 1)
    BY <2>2
  <2>4. Head(q) = q[1] /\ 1 \in DOMAIN q
    BY <1>3, <2>1
  <2>5. \A i \in DOMAIN Tail(q) : i + 1 \in DOMAIN q
    BY <2>1, <2>3
  <2>6. ASSUME NEW i \in DOMAIN q, i # 1 PROVE \E j \in DOMAIN Tail(q) : Tail(q)[j] = q[i]
    <3>1. i - 1 \in 1..(Len(q) - 1) /\ (i - 1) + 1 = i
      BY <2>1, <2>6
    <3>2. Tail(q)[i - 1] = q[i]
      BY <2>2, <3>1
    <3> QED BY <2>3, <3>1, <3>2
  <2> QED BY <1>3, <2>2, <2>3, <2>4, <2>5, <2>6
<1>5. ASSUME q # <<>>
      PROVE  /\ f \in FrameType /\ f.kind = Top.kind /\ f.id = Top.id /\ f.at = Top.at
             /\ f.result = Top.result /\ f.todo = Tail(Top.todo)
  BY <1>2, <1>4, <1>5 DEF FrameType
<1>6. ASSUME q # <<>> PROVE FrameOK(f, Len(tasks), Len(groups), Len(conts))
  <2> HIDE DEF f, q
  <2>1. f.kind \in {"loop", "group"} /\ f.at \in {"drain", "collect"} /\ f.id \in 1..Len(groups)
    BY <1>1, <1>3, <1>5, <1>6
  <2>2. \A i \in DOMAIN f.todo : f.todo[i] \in 1..Len(tasks)
    BY <1>4, <1>5, <1>6 DEF q
  <2>3. (f.result # "value" => f.kind = "group" /\ f.at = "drain") /\ (f.kind = "group" => f.at = "drain")
    BY <1>1, <1>2, <1>5, <1>6 DEF FrameOK
  <2> QED BY <1>5, <1>6, <2>1, <2>2, <2>3 DEF FrameOK
<1> QED BY <1>1, <1>3, <1>4, <1>5, <1>6

LEMMA BaseChildNext == ASSUME Base, ChildNext PROVE Base'
<1> DEFINE t == Head(Top.todo)
           f == [Top EXCEPT !.todo = Tail(@)]
           rest == Replace(f)
<1>1. /\ TakingChildren /\ Top.todo # <<>> /\ UNCHANGED <<groups, cancelled, conts, ended, children>>
      /\ IF tasks[t].state = "done"
         THEN /\ failing' = (tasks[t].outcome = "error")
              /\ stack' = IF Top.at = "collect" /\ tasks[t].outcome = "throw" THEN Below ELSE rest
              /\ UNCHANGED <<tasks, current>>
         ELSE RunTask(t, rest)
  BY DEF ChildNext
<1>2. /\ stack # <<>> /\ t \in 1..Len(tasks) /\ FrameOK(f, Len(tasks), Len(groups), Len(conts))
      /\ f.kind = Top.kind /\ f.id = Top.id /\ Top.kind \in {"loop", "group"}
  BY <1>1, ChildFrame
<1> HIDE DEF f, t
<1>3. /\ StackOK(rest, Len(tasks), Len(groups), Len(conts)) /\ OnStack(rest, current, tasks)
      /\ rest # <<>>
  BY <1>2, Replaced
<1>4. Below # <<>>
  BY <1>2, BelowEmpty
<1> HIDE DEF rest
<1>5. CASE tasks[t].state = "done"
  <2>1. /\ failing' = (tasks[t].outcome = "error") /\ UNCHANGED <<tasks, current>>
        /\ stack' = Below \/ stack' = rest
    BY <1>1, <1>5
  <2>2. TablesOK'
    BY <1>1, <1>2, <1>3, <1>4, <2>1 DEF Base, TablesOK
  <2>3. Quiet
    BY <1>1, <2>1, Lengths DEF Quiet, Base
  <2>4. CASE stack' = Below
    BY <1>2, <2>2, <2>3, <2>4, StackPop
  <2>5. CASE stack' = rest
    BY <1>1, <1>2, <2>1, <2>2, <2>3, <2>5, StackRetop DEF rest
  <2> QED BY <2>1, <2>4, <2>5
<1>6. CASE tasks[t].state # "done"
  BY <1>1, <1>2, <1>3, <1>6, BaseRun
<1> QED BY <1>5, <1>6

\* A frame starts its for await loop.
LEMMA Relooped ==
    ASSUME NEW s, NEW nt, NEW ng, NEW nc, StackOK(s, nt, ng, nc), s # <<>>, NEW n \in Nat
    PROVE  LET r == [s EXCEPT ![Len(s)].loop = n]
           IN  /\ StackOK(r, nt, ng, nc) /\ Len(r) = Len(s) /\ r # <<>>
               /\ \A i \in 1..Len(s) :
                     /\ r[i].kind = s[i].kind /\ r[i].id = s[i].id /\ r[i].at = s[i].at
                     /\ r[i].todo = s[i].todo /\ r[i].result = s[i].result
<1> DEFINE e == [s[Len(s)] EXCEPT !.loop = n]
           r == [s EXCEPT ![Len(s)] = e]
<1>1. s \in Seq(FrameType) /\ Len(s) \in 1..Len(s) /\ s[Len(s)] \in FrameType
  BY SeqFacts DEF StackOK
<1>2. /\ e \in FrameType /\ e.kind = s[Len(s)].kind /\ e.id = s[Len(s)].id /\ e.at = s[Len(s)].at
      /\ e.todo = s[Len(s)].todo /\ e.result = s[Len(s)].result
  BY <1>1 DEF FrameType
<1> HIDE DEF e
<1>3. /\ r \in Seq(FrameType) /\ Len(r) = Len(s)
      /\ \A i \in 1..Len(s) : r[i] = IF i = Len(s) THEN e ELSE s[i]
  BY <1>1, <1>2, ExceptSeq
<1> HIDE DEF r
<1>4. \A i \in 1..Len(s) :
         /\ r[i] \in FrameType /\ s[i] \in FrameType
         /\ r[i].kind = s[i].kind /\ r[i].id = s[i].id /\ r[i].at = s[i].at
         /\ r[i].todo = s[i].todo /\ r[i].result = s[i].result
  BY <1>1, <1>2, <1>3
<1>5. \A i \in 1..Len(s) : FrameOK(r[i], nt, ng, nc)
  <2> SUFFICES ASSUME NEW i \in 1..Len(s) PROVE FrameOK(r[i], nt, ng, nc)
    OBVIOUS
  <2>1. FrameOK(s[i], nt, ng, nc)
    BY DEF StackOK
  <2> QED BY <1>4, <2>1 DEF FrameOK
<1>6. \A i \in 1..(Len(s) - 1) : i \in 1..Len(s) /\ i + 1 \in 1..Len(s)
  BY <1>1
<1>7. StackOK(r, nt, ng, nc)
  BY <1>3, <1>4, <1>5, <1>6 DEF StackOK
<1>8. r # <<>>
  BY <1>1, <1>3, EmptySeq
<1>9. [s EXCEPT ![Len(s)].loop = n] = r
  BY DEF r, e
<1> QED BY <1>3, <1>4, <1>7, <1>8, <1>9, Zenon

LEMMA StackReloop ==
    ASSUME Base, TablesOK', Quiet, Len(groups') = Len(groups), Len(conts') = Len(conts),
           Len(tasks') = Len(tasks),
           stack # <<>>, Top.kind # "task", Below # <<>>, NEW n \in Nat,
           stack' = [Below EXCEPT ![Len(Below)].loop = n]
    PROVE  Base'
<1>1. StackOK(Below, Len(tasks), Len(groups), Len(conts))
  BY PopOK DEF Below, Base
<1>2. /\ StackOK(stack', Len(tasks'), Len(groups'), Len(conts')) /\ Len(stack') = Len(Below)
      /\ \A i \in 1..Len(Below) : stack'[i].kind = Below[i].kind /\ stack'[i].id = Below[i].id
  <2> DEFINE b == Below
             r == [b EXCEPT ![Len(b)].loop = n]
  <2>1. StackOK(b, Len(tasks), Len(groups), Len(conts)) /\ b # <<>>
    BY <1>1
  <2> HIDE DEF b
  <2>2. /\ StackOK(r, Len(tasks), Len(groups), Len(conts)) /\ Len(r) = Len(b)
        /\ \A i \in 1..Len(b) : r[i].kind = b[i].kind /\ r[i].id = b[i].id
    BY <2>1, Relooped
  <2>3. stack' = r
    BY DEF b
  <2> HIDE DEF r
  <2> QED BY <2>2, <2>3 DEF b
<1>3. /\ Len(stack) \in Nat \ {0} /\ Len(stack') = Len(stack) - 1
      /\ \A i \in 1..(Len(stack) - 1) : stack'[i].kind = stack[i].kind /\ stack'[i].id = stack[i].id
  BY <1>2, TopFacts
<1>4. \A i \in TasksOf(stack) : i \in 1..(Len(stack) - 1)
  BY <1>3 DEF TasksOf, Top
<1>5. TasksOf(stack') = TasksOf(stack) /\ \A i \in TasksOf(stack) : stack'[i].id = stack[i].id
  BY <1>3, <1>4 DEF TasksOf
<1>6. Len(tasks) \in Nat /\ Len(tasks') \in Nat
  BY Lengths DEF Base
<1>7. OnStack(stack', current, tasks')
  BY <1>5, <1>6, OnSame DEF Base, Quiet
<1> QED BY <1>2, <1>7 DEF Base, Quiet

LEMMA BaseChildrenEnd == ASSUME Base, ChildrenEnd PROVE Base'
<1>1. /\ TakingChildren
      /\ stack' = IF Top.at = "collect" THEN [Below EXCEPT ![Len(Below)].loop = Top.id] ELSE Below
      /\ failing' = (Top.result = "error")
      /\ UNCHANGED <<tasks, current, groups, cancelled, conts, ended, children>>
  BY DEF ChildrenEnd, tables
<1>2. stack # <<>> /\ Top.kind \in {"loop", "group"} /\ Top.id \in Nat
  BY <1>1, ChildFrame
<1>3. Below # <<>> /\ StackOK(Below, Len(tasks), Len(groups), Len(conts))
  BY <1>2, BelowEmpty, PopOK DEF Base, Below
<1>4. [Below EXCEPT ![Len(Below)].loop = Top.id] # <<>>
  BY <1>2, <1>3, Relooped
<1>5. TablesOK'
  BY <1>1, <1>2, <1>3, <1>4 DEF Base, TablesOK
<1>6. Quiet
  BY <1>1, Lengths DEF Quiet, Base
<1>7. CASE Top.at = "collect"
  BY <1>1, <1>2, <1>3, <1>5, <1>6, <1>7, StackReloop
<1>8. CASE Top.at # "collect"
  BY <1>1, <1>2, <1>5, <1>6, <1>8, StackPop
<1> QED BY <1>7, <1>8

LEMMA BaseLoopEnds == ASSUME Base, LoopEnds PROVE Base'
<1> DEFINE f == [Top EXCEPT !.loop = 0]
<1>1. /\ stack # <<>> /\ stack' = Replace(f)
      /\ UNCHANGED <<tasks, current, groups, cancelled, conts, failing, ended, children>>
  BY DEF LoopEnds, InScript, tables
<1>2. FrameOK(Top, Len(tasks), Len(groups), Len(conts)) /\ Top \in FrameType
  BY <1>1, TopFacts
<1>3. /\ f \in FrameType /\ f.kind = Top.kind /\ f.id = Top.id /\ f.at = Top.at
      /\ f.todo = Top.todo /\ f.result = Top.result
  BY <1>2 DEF FrameType
<1> HIDE DEF f
<1>4. FrameOK(f, Len(tasks), Len(groups), Len(conts))
  BY <1>2, <1>3 DEF FrameOK
<1>5. stack' # <<>>
  BY <1>1, <1>3, <1>4, Replaced
<1>6. TablesOK'
  BY <1>1, <1>5 DEF Base, TablesOK
<1>7. Quiet
  BY <1>1, Lengths DEF Quiet, Base
<1> QED BY <1>1, <1>3, <1>4, <1>6, <1>7, StackRetop

LEMMA BaseLoopFails == ASSUME Base, LoopFails PROVE Base'
<1>1. /\ stack # <<>> /\ Top.at # "script" /\ stack' = Below /\ failing' = (Top.kind # "main")
      /\ ended' = IF Top.kind = "main" THEN "failed" ELSE ended
      /\ UNCHANGED <<tasks, current, groups, cancelled, conts, children>>
  BY DEF LoopFails, tables
<1>2. FrameOK(Top, Len(tasks), Len(groups), Len(conts)) /\ (Below = <<>> <=> Top.kind = "main")
  BY <1>1, TopFacts, BelowEmpty
<1>3. Top.kind # "task"
  BY <1>1, <1>2 DEF FrameOK
<1>4. TablesOK'
  BY <1>1, <1>2 DEF Base, TablesOK
<1>5. Quiet
  BY <1>1, Lengths DEF Quiet, Base
<1> QED BY <1>1, <1>3, <1>4, <1>5, StackPop
-----------------------------------------------------------------------------
(* The end of a body                                                       *)

LEMMA CompletedFacts ==
    ASSUME TablesOK, NEW t \in 1..Len(tasks), NEW outcome \in Outcome, Completed(t, outcome)
    PROVE  /\ tasks' \in Seq(TaskType) /\ Len(tasks') = Len(tasks)
           /\ tasks'[t].state = "done" /\ tasks'[t].outcome = outcome
           /\ \A u \in 1..Len(tasks) : u # t => tasks'[u] = tasks[u]
           /\ \A u \in 1..Len(tasks) : tasks'[u].cancelled = tasks[u].cancelled
           /\ current' = Front(current)
<1> DEFINE e == [tasks[t] EXCEPT !.state = "done", !.outcome = outcome]
<1>1. tasks \in Seq(TaskType) /\ tasks[t] \in TaskType /\ t \in DOMAIN tasks
  BY Lengths DEF TablesOK
<1>2. e \in TaskType /\ e.state = "done" /\ e.outcome = outcome /\ e.cancelled = tasks[t].cancelled
  BY <1>1 DEF TaskType
<1>3. tasks' = [tasks EXCEPT ![t] = e] /\ current' = Front(current)
  BY <1>1 DEF Completed
<1> HIDE DEF e
<1> QED BY <1>1, <1>2, <1>3, ExceptSeq

\* What is left of the stack when a task has ended.
LEMMA AfterTaskFacts ==
    ASSUME Base, stack # <<>>, Top.kind = "task", NEW outcome
    PROVE  /\ Below # <<>> /\ AfterTask(outcome) # <<>>
           /\ StackOK(AfterTask(outcome), Len(tasks), Len(groups), Len(conts))
           /\ TasksOf(AfterTask(outcome)) = TasksOf(Below)
           /\ \A i \in 1..Len(AfterTask(outcome)) : i \in 1..Len(Below) /\ AfterTask(outcome)[i] = Below[i]
           /\ \/ AfterTask(outcome) = Below
              \/ /\ outcome = "throw" /\ Below[Len(Below)].at = "collect"
                 /\ Below[Len(Below)].kind = "loop"
                 /\ Len(AfterTask(outcome)) = Len(Below) - 1
<1> DEFINE b == Below
           a == Front(b)
<1>1. b # <<>> /\ StackOK(b, Len(tasks), Len(groups), Len(conts))
  BY BelowEmpty, PopOK DEF Base, Below
<1> HIDE DEF b
<1>2. b \in Seq(FrameType) /\ Len(b) \in 1..Len(b) /\ Len(b) \in Nat \ {0}
  BY <1>1, SeqFacts DEF StackOK
<1>3. CASE ~(outcome = "throw" /\ Last(b).at = "collect")
  <2>1. AfterTask(outcome) = b
    BY <1>3 DEF AfterTask, b
  <2> QED BY <1>1, <2>1 DEF b
<1>4. CASE outcome = "throw" /\ Last(b).at = "collect"
  <2>1. AfterTask(outcome) = a /\ b[Len(b)].at = "collect"
    BY <1>4 DEF AfterTask, b, Last
  <2>2. StackOK(a, Len(tasks), Len(groups), Len(conts))
    BY <1>1, PopOK DEF Front
  <2>3. Len(a) = Len(b) - 1 /\ \A i \in 1..(Len(b) - 1) : a[i] = b[i]
    BY <1>1, <1>2, PopFacts DEF Front
  <2>4. FrameOK(b[Len(b)], Len(tasks), Len(groups), Len(conts)) /\ (b[Len(b)].kind = "main" <=> Len(b) = 1)
    BY <1>1, <1>2 DEF StackOK
  <2>5. b[Len(b)].kind = "loop"
    BY <2>1, <2>4 DEF FrameOK, FrameType, Kinds
  <2>6. Len(a) # 0
    BY <1>2, <2>3, <2>4, <2>5
  <2> HIDE DEF a
  <2>7. TasksOf(a) = TasksOf(b)
    BY <1>2, <2>3, <2>5 DEF TasksOf
  <2>8. \A i \in 1..Len(a) : i \in 1..Len(b) /\ a[i] = b[i]
    BY <1>2, <2>3
  <2>9. a # <<>>
    BY <2>6
  <2> QED BY <1>1, <1>4, <2>1, <2>2, <2>3, <2>5, <2>7, <2>8, <2>9 DEF b
<1> QED BY <1>3, <1>4

LEMMA BaseTaskEnds ==
    ASSUME Base, NEW outcome \in Outcome, stack # <<>>, TaskEnds(outcome),
           UNCHANGED <<cancelled, children, cycle>>
    PROVE  Base'
<1>1. /\ Top.kind = "task" /\ Completed(Top.id, outcome) /\ stack' = AfterTask(outcome)
      /\ failing' = (outcome = "error") /\ UNCHANGED <<groups, conts, ended>>
  BY DEF TaskEnds
<1>2. Top.id \in 1..Len(tasks) /\ stack \in Seq(FrameType) /\ Top = stack[Len(stack)]
  BY <1>1, TopFacts DEF FrameOK
<1>3. /\ tasks' \in Seq(TaskType) /\ Len(tasks') = Len(tasks)
      /\ tasks'[Top.id].state = "done"
      /\ \A u \in 1..Len(tasks) : u # Top.id => tasks'[u] = tasks[u]
      /\ current' = Front(current)
  BY <1>1, <1>2, CompletedFacts DEF Base
<1>4. OnStack(Below, current', tasks') /\ current # <<>>
  <2>1. current \in Seq(Nat) /\ OnStack(stack, current, tasks)
    BY DEF Base, TablesOK
  <2>2. stack[Len(stack)].kind = "task" /\ Len(tasks') = Len(tasks)
    BY <1>1, <1>2, <1>3
  <2>3. /\ tasks'[stack[Len(stack)].id].state = "done"
        /\ \A u \in 1..Len(tasks) :
              u # stack[Len(stack)].id => tasks'[u].state = tasks[u].state
    BY <1>2, <1>3
  <2> QED BY <1>2, <1>3, <2>1, <2>2, <2>3, OnEnd DEF Below
<1>5. current' \in Seq(Nat)
  <2>1. current \in Seq(Nat)
    BY DEF Base, TablesOK
  <2> QED BY <1>3, <1>4, <2>1, PopFacts DEF Front
<1>6. /\ stack' # <<>> /\ StackOK(stack', Len(tasks), Len(groups), Len(conts))
      /\ TasksOf(stack') = TasksOf(Below)
      /\ \A i \in 1..Len(stack') : i \in 1..Len(Below) /\ stack'[i] = Below[i]
  BY <1>1, AfterTaskFacts
<1>7. \A i \in TasksOf(Below) : stack'[i].id = Below[i].id
  <2>1. \A i \in TasksOf(stack') : i \in 1..Len(stack')
    BY DEF TasksOf
  <2> QED BY <1>6, <2>1
<1>8. OnStack(stack', current', tasks')
  <2>1. /\ Len(tasks') \in Nat /\ Len(tasks') <= Len(tasks')
        /\ \A t \in 1..Len(tasks') :
              tasks'[t].state = "running" <=> t \in 1..Len(tasks') /\ tasks'[t].state = "running"
    BY <1>3, Lengths DEF Base
  <2> QED BY <1>4, <1>6, <1>7, <2>1, OnSame
<1>9. TablesOK'
  BY <1>1, <1>3, <1>5, <1>6 DEF Base, TablesOK
<1> QED BY <1>1, <1>3, <1>6, <1>8, <1>9 DEF Base

LEMMA BaseGroupBodyEnds ==
    ASSUME Base, NEW outcome \in Outcome, stack # <<>>, Top.at = "script", GroupBodyEnds(outcome),
           UNCHANGED <<cancelled, children, cycle>>
    PROVE  Base'
<1> DEFINE g == Top.id
           f == [Top EXCEPT !.at = "drain", !.result = outcome, !.loop = 0,
                            !.todo = ToDrain(Top.id, outcome)]
<1>1. /\ Top.kind = "group" /\ stack' = Replace(f) /\ groups' = [groups EXCEPT ![g] = <<>>]
      /\ failing' = FALSE /\ UNCHANGED <<tasks, current, conts, ended>>
  BY DEF GroupBodyEnds
<1>2. Top \in FrameType /\ g \in 1..Len(groups) /\ g \in DOMAIN groups
  BY <1>1, TopFacts, Lengths DEF FrameOK, Base
<1>3. /\ groups[g] \in Seq(Nat) /\ \A i \in DOMAIN groups[g] : groups[g][i] \in 1..Len(tasks)
  BY <1>2, GroupFacts
<1>4. /\ f \in FrameType /\ f.kind = "group" /\ f.id = g /\ f.at = "drain" /\ f.todo = groups[g]
      /\ f.result = outcome
  BY <1>1, <1>2, <1>3 DEF FrameType, ToDrain, Ats
<1> HIDE DEF f, g
<1>5. /\ groups' \in Seq(Seq(Nat)) /\ Len(groups') = Len(groups)
      /\ \A h \in 1..Len(groups') : \A i \in DOMAIN groups'[h] : groups'[h][i] \in 1..Len(tasks')
  <2>1. <<>> \in Seq(Nat) /\ \A i \in DOMAIN <<>> : <<>>[i] \in 1..Len(tasks)
    OBVIOUS
  <2> QED BY <1>1, <1>2, <2>1, GroupTable DEF Base
<1>6. FrameOK(f, Len(tasks), Len(groups), Len(conts))
  BY <1>2, <1>3, <1>4 DEF FrameOK
<1>7. stack' # <<>>
  BY <1>1, <1>4, <1>6, Replaced DEF g
<1>8. TablesOK'
  BY <1>1, <1>5, <1>7 DEF Base, TablesOK
<1>9. Quiet
  BY <1>1, <1>5, Lengths DEF Quiet, Base
<1> QED BY <1>1, <1>4, <1>5, <1>6, <1>8, <1>9, StackRetop DEF g

\* The frame of a body that goes on as a drive.
LEMMA DriveFrame ==
    ASSUME Base, stack # <<>>, Top.at = "script", Top.kind \in {"cont", "stream"}
    PROVE  LET f == [Top EXCEPT !.at = "drive"]
           IN  /\ FrameOK(f, Len(tasks), Len(groups), Len(conts)) /\ f.kind = Top.kind /\ f.id = Top.id
               /\ f.at = "drive" /\ f.todo = Top.todo /\ f.result = Top.result
<1> DEFINE f == [Top EXCEPT !.at = "drive"]
<1>1. FrameOK(Top, Len(tasks), Len(groups), Len(conts)) /\ Top \in FrameType
  BY TopFacts
<1>2. /\ f \in FrameType /\ f.kind = Top.kind /\ f.id = Top.id /\ f.at = "drive"
      /\ f.todo = Top.todo /\ f.result = Top.result
  BY <1>1 DEF FrameType, Ats
<1> HIDE DEF f
<1>3. FrameOK(f, Len(tasks), Len(groups), Len(conts))
  BY <1>1, <1>2 DEF FrameOK
<1> QED BY <1>2, <1>3 DEF f

LEMMA BaseHandlerEnds ==
    ASSUME Base, NEW outcome \in Outcome, stack # <<>>, Top.at = "script",
           ContinuationBodyEnds(outcome) \/ StreamBodyEnds(outcome),
           UNCHANGED <<cancelled, children, cycle>>
    PROVE  Base'
<1> DEFINE f == [Top EXCEPT !.at = "drive"]
<1>1. /\ Top.kind \in {"cont", "stream"}
      /\ stack' = Replace(f) \/ stack' = Below
      /\ failing' = (outcome = "error") /\ UNCHANGED <<tasks, current, groups, ended>>
      /\ conts' = conts \/ (Top.kind = "cont" /\ conts' = Consumed(Top.id))
  <2>1. CASE ContinuationBodyEnds(outcome)
    BY <2>1, Zenon DEF ContinuationBodyEnds
  <2>2. CASE StreamBodyEnds(outcome)
    BY <2>2, Zenon DEF StreamBodyEnds
  <2> QED BY <2>1, <2>2
<1>2. FrameOK(f, Len(tasks), Len(groups), Len(conts)) /\ f.kind = Top.kind /\ f.id = Top.id
  BY <1>1, DriveFrame
<1>3. conts' \in Seq({"pending", "resumed", "consumed"}) /\ Len(conts') = Len(conts)
  <2>1. Top.kind = "cont" => Top.id \in DOMAIN conts
    BY TopFacts, Lengths DEF Base, FrameOK
  <2> QED BY <1>1, <2>1, SlotTable DEF Base, TablesOK, Consumed
<1> HIDE DEF f
<1>4. Replace(f) # <<>> /\ Below # <<>>
  BY <1>1, <1>2, Replaced, BelowEmpty
<1>5. TablesOK'
  BY <1>1, <1>3, <1>4 DEF Base, TablesOK
<1>6. Quiet
  BY <1>1, <1>3, Lengths DEF Quiet, Base
<1>7. CASE stack' = Replace(f)
  BY <1>1, <1>2, <1>3, <1>5, <1>6, <1>7, StackRetop
<1>8. CASE stack' = Below
  BY <1>1, <1>5, <1>6, <1>8, StackPop
<1> QED BY <1>1, <1>7, <1>8

LEMMA MainFrame ==
    ASSUME Base, stack # <<>>, Top.kind = "main"
    PROVE  LET f == [Top EXCEPT !.at = "drive", !.todo = <<1>>]
           IN  /\ FrameOK(f, Len(tasks), Len(groups), Len(conts)) /\ f.kind = "main" /\ f.id = Top.id
               /\ f.at = "drive" /\ f.todo = <<1>> /\ f.result = "value"
<1> DEFINE todo == <<1>>
           f == [Top EXCEPT !.at = "drive", !.todo = todo]
<1>1. FrameOK(Top, Len(tasks), Len(groups), Len(conts)) /\ Top \in FrameType
  BY TopFacts
<1>2. todo \in Seq(Nat) /\ todo # <<>>
  OBVIOUS
<1>3. Top.result = "value"
  BY <1>1 DEF FrameOK
<1>4. todo = <<1>>
  OBVIOUS
<1> HIDE DEF todo
<1>5. /\ f \in FrameType /\ f.kind = "main" /\ f.id = Top.id /\ f.at = "drive"
      /\ f.todo = todo /\ f.result = "value"
  BY <1>1, <1>2, <1>3 DEF FrameType, Ats
<1> HIDE DEF f
<1>6. FrameOK(f, Len(tasks), Len(groups), Len(conts))
  BY <1>2, <1>4, <1>5 DEF FrameOK
<1> QED BY <1>4, <1>5, <1>6 DEF f, todo

LEMMA BaseMainEnds ==
    ASSUME Base, NEW outcome \in Outcome, stack # <<>>, MainEnds(outcome),
           UNCHANGED <<cancelled, children, cycle>>
    PROVE  Base'
<1> DEFINE f == [Top EXCEPT !.at = "drive", !.todo = <<1>>]
<1>1. /\ Top.kind = "main" /\ failing' = FALSE /\ UNCHANGED <<tasks, current, groups, conts>>
      /\ IF outcome = "value" THEN stack' = Replace(f) /\ UNCHANGED ended
         ELSE stack' = <<>> /\ ended' = "failed"
  BY DEF MainEnds
<1>2. FrameOK(f, Len(tasks), Len(groups), Len(conts)) /\ f.kind = Top.kind /\ f.id = Top.id
  BY <1>1, MainFrame
<1> HIDE DEF f
<1>3. Replace(f) # <<>> /\ Below = <<>>
  BY <1>1, <1>2, Replaced, BelowEmpty
<1>4. Quiet
  BY <1>1, Lengths DEF Quiet, Base
<1>5. TablesOK'
  BY <1>1, <1>3 DEF Base, TablesOK
<1>6. CASE outcome = "value"
  BY <1>1, <1>2, <1>4, <1>5, <1>6, StackRetop
<1>7. CASE outcome # "value"
  <2>1. stack' = Below
    BY <1>1, <1>3, <1>7
  <2> QED BY <1>1, <1>4, <1>5, <2>1, StackPop
<1> QED BY <1>6, <1>7

LEMMA EndOutcome ==
    ASSUME End
    PROVE  \E outcome \in Outcome : /\ BodyEnds(outcome)
                                    /\ failing => outcome = "error"
                                    /\ ~failing => outcome \in Outcomes
<1>1. PICK outcome \in Outcomes \cup (IF failing THEN {"error"} ELSE {}) : BodyEnds(outcome)
  BY DEF End
<1>2. failing => outcome = "error"
  BY <1>1 DEF BodyEnds
<1>3. outcome \in Outcome
  BY OutcomesOK DEF Outcome
<1> QED BY <1>1, <1>2, <1>3

LEMMA BaseEnd == ASSUME Base, End PROVE Base'
<1>1. PICK outcome \in Outcome : BodyEnds(outcome)
  BY EndOutcome
<1>2. stack # <<>> /\ Top.at = "script" /\ UNCHANGED <<cancelled, children, cycle>>
  BY <1>1 DEF BodyEnds
<1>3. CASE TaskEnds(outcome)
  BY <1>2, <1>3, BaseTaskEnds
<1>4. CASE GroupBodyEnds(outcome)
  BY <1>2, <1>4, BaseGroupBodyEnds
<1>5. CASE ContinuationBodyEnds(outcome) \/ StreamBodyEnds(outcome)
  BY <1>2, <1>5, BaseHandlerEnds
<1>6. CASE MainEnds(outcome)
  BY <1>2, <1>6, BaseMainEnds
<1> QED BY <1>1, <1>3, <1>4, <1>5, <1>6 DEF BodyEnds

LEMMA BaseInit == Init => Base
<1> SUFFICES ASSUME Init PROVE Base
  OBVIOUS
<1> DEFINE none == <<>>
           f == Frame("main", 0, "script", none)
           s == <<f>>
<1>1. /\ tasks = <<>> /\ current = <<>> /\ groups = <<>> /\ cancelled = <<>> /\ conts = <<>>
      /\ stack = s /\ failing = FALSE /\ ended = "no" /\ children = <<>>
  BY DEF Init
<1>2. none \in Seq(Nat)
  OBVIOUS
<1>3. f \in FrameType /\ f.kind = "main" /\ f.at = "script" /\ f.result = "value"
  <2> HIDE DEF none
  <2> QED BY <1>2, NewFrame DEF Kinds, Ats
<1> HIDE DEF f
<1>4. s \in Seq(FrameType) /\ Len(s) = 1 /\ s[1] = f /\ s # <<>>
  BY <1>3
<1> HIDE DEF s
<1>5. FrameOK(f, 0, 0, 0)
  BY <1>3 DEF FrameOK
<1>6. StackOK(s, 0, 0, 0)
  <2>1. \A i \in 1..Len(s) : i = 1
    BY <1>4
  <2>2. 1..(Len(s) - 1) = {}
    BY <1>4
  <2> QED BY <1>3, <1>4, <1>5, <2>1, <2>2 DEF StackOK
<1>7. TasksOf(s) = {}
  <2>1. \A i \in 1..Len(s) : s[i].kind # "task"
    BY <1>3, <1>4
  <2> QED BY <2>1 DEF TasksOf
<1>8. OnStack(s, <<>>, <<>>)
  <2>1. Cardinality({}) = 0 /\ Len(<<>>) = 0
    BY FS_EmptySet
  <2>2. 1..Len(<<>>) = {}
    BY <2>1
  <2> QED BY <1>7, <2>1, <2>2 DEF OnStack
<1>9. TablesOK
  <2>1. \A T : <<>> \in Seq(T)
    OBVIOUS
  <2>2. Len(<<>>) = 0 /\ 1..0 = {}
    OBVIOUS
  <2> QED BY <1>1, <1>4, <2>1, <2>2 DEF TablesOK
<1>10. Len(tasks) = 0 /\ Len(groups) = 0 /\ Len(conts) = 0
  BY <1>1
<1> QED BY <1>1, <1>6, <1>8, <1>9, <1>10 DEF Base

LEMMA BaseNext == Base /\ [Next]_vars => Base'
<1> SUFFICES ASSUME Base, [Next]_vars PROVE Base'
  OBVIOUS
<1>1. CASE Call
  <2>1. CASE \E inherit \in BOOLEAN : Spawn(inherit)
    BY <2>1, BaseSpawn
  <2>2. CASE \E t \in Tasks : Await(t)
    BY <2>2, BaseAwait
  <2>3. CASE (\E t \in Tasks : Cancel(t)) \/ (\E g \in DOMAIN groups : CancelAll(g))
    BY <2>3, BaseFlags
  <2>4. CASE (\E c \in DOMAIN conts : Resume(c)) \/ (\E t \in Tasks : AwaitFailed(t))
    BY <2>4, BaseResume
  <2>5. CASE \E g \in DOMAIN groups : AddTask(g)
    BY <2>5, BaseAddTask
  <2>6. CASE \E g \in DOMAIN groups : NextChild(g)
    BY <2>6, BaseNextChild
  <2>7. CASE \E g \in DOMAIN groups, at \in {"drain", "collect"} : TakeGroup(g, at)
    BY <2>7, BaseTakeGroup
  <2>8. CASE OpenGroup
    BY <2>8, BaseOpenGroup
  <2>9. CASE OpenContinuation
    BY <2>9, BaseOpenContinuation
  <2>10. CASE OpenStream \/ ReadStream
    BY <2>10, BaseStreamCalls
  <2> QED BY <1>1, <2>1, <2>2, <2>3, <2>4, <2>5, <2>6, <2>7, <2>8, <2>9, <2>10 DEF Call
<1>2. CASE Loop
  BY <1>2, BaseDriveNext, BaseDriveEnds, BaseChildNext, BaseChildrenEnd, BaseLoopEnds, BaseLoopFails
     DEF Loop
<1>3. CASE End
  BY <1>3, BaseEnd
<1>4. CASE UNCHANGED vars
  <2>1. TablesOK' /\ stack' = stack
    BY <1>4 DEF vars, Base, TablesOK
  <2>2. Quiet
    BY <1>4, Lengths DEF vars, Quiet, Base
  <2> QED BY <2>1, <2>2, StackSame
<1> QED BY <1>1, <1>2, <1>3, <1>4 DEF Next

\* current_task (Scheduler.current_task) is always the tasks on the call stack
\* in their order, and exactly these are running: whatever fails, throws or is
\* driven from where, a task that was begun is completed by its own call.
THEOREM CurrentIsStack == Spec => []RunningOnStack
<1>1. Base => RunningOnStack
  <2> SUFFICES ASSUME Base PROVE RunningOnStack
    OBVIOUS
  <2>1. /\ stack \in Seq(FrameType) /\ current \in Seq(Nat) /\ OnStack(stack, current, tasks)
        /\ Tasks = 1..Len(tasks)
    BY Lengths DEF Base, StackOK, TablesOK, Tasks
  <2>2. TaskFrames = TasksOf(stack)
    BY <2>1 DEF TaskFrames, TasksOf
  <2>3. \A i \in TaskFrames : Depth(i) = DepthIn(stack, i)
    BY <2>2 DEF Depth, DepthIn
  <2>4. \A t : t \in Range(current) <=> \E p \in 1..Len(current) : current[p] = t
    BY <2>1 DEF Range
  <2> QED BY <2>1, <2>2, <2>3, <2>4 DEF OnStack, RunningOnStack
<1> QED BY <1>1, BaseInit, BaseNext, PTL DEF Spec
-----------------------------------------------------------------------------
(* The end of the program                                                  *)

LEMMA StepsOnStack == ASSUME Next PROVE stack # <<>>
<1>1. CASE Call
  BY <1>1, Zenon DEF Call, Spawn, Cancel, Await, AwaitFailed, AddTask, CancelAll, NextChild, TakeGroup,
     OpenGroup, OpenContinuation, OpenStream, ReadStream, Resume, MayAwait, InScript
<1>2. CASE Loop
  BY <1>2, Zenon DEF Loop, DriveNext, DriveEnds, ChildNext, ChildrenEnd, LoopEnds, LoopFails, Driving,
     TakingChildren, InScript
<1>3. CASE End
  BY <1>3, Zenon DEF End, BodyEnds
<1> QED BY <1>1, <1>2, <1>3 DEF Next

\* Only the end of the main program's drive is a good end.
LEMMA GoodEnd ==
    ASSUME Next, ended # "done", ended' = "done"
    PROVE  DriveEnds /\ Top.kind = "main"
<1>1. CASE Call
  BY <1>1, Zenon DEF Call, Spawn, Cancel, Await, AwaitFailed, AddTask, CancelAll, NextChild, TakeGroup,
     OpenGroup, OpenContinuation, OpenStream, ReadStream, Resume, tables
<1>2. CASE Loop
  <2>1. CASE DriveEnds
    BY <2>1, Zenon DEF DriveEnds
  <2>2. CASE LoopFails
    <3>1. ended' = "failed" \/ ended' = ended
      BY <2>2, Zenon DEF LoopFails
    <3> QED BY <3>1
  <2>3. CASE DriveNext \/ ChildNext \/ ChildrenEnd \/ LoopEnds
    BY <2>3, Zenon DEF DriveNext, ChildNext, ChildrenEnd, LoopEnds, tables
  <2> QED BY <1>2, <2>1, <2>2, <2>3 DEF Loop
<1>3. CASE End
  <2>1. PICK outcome \in Outcome : BodyEnds(outcome)
    BY <1>3, EndOutcome
  <2>2. CASE MainEnds(outcome)
    <3>1. ended' = "failed" \/ ended' = ended
      BY <2>2, Zenon DEF MainEnds
    <3> QED BY <3>1
  <2>3. CASE ~MainEnds(outcome)
    <3>1. ended' = ended
      BY <2>1, <2>3, Zenon DEF BodyEnds, TaskEnds, GroupBodyEnds, ContinuationBodyEnds, StreamBodyEnds
    <3> QED BY <3>1
  <2> QED BY <2>2, <2>3
<1> QED BY <1>1, <1>2, <1>3 DEF Next

\* When the program has ended well every task it ever spawned has run, those
\* spawned by what its end drove too: no pending task is stepped over and no
\* running one is left behind (drive_pending at the end of the main program).
THEOREM CleanEndRanAll == Spec => []EndMeansDone
<1>1. Init => EndMeansDone
  BY DEF Init, EndMeansDone
<1>2. Base /\ EndMeansDone /\ [Next]_vars => EndMeansDone'
  <2> SUFFICES ASSUME Base, EndMeansDone, [Next]_vars, ended' = "done", NEW t \in Tasks'
               PROVE  tasks'[t].state = "done"
    BY DEF EndMeansDone
  <2>1. CASE ended = "done"
    <3>1. stack = <<>>
      BY <2>1 DEF Base, TablesOK
    <3>2. UNCHANGED vars
      BY <3>1, StepsOnStack
    <3>3. tasks' = tasks
      BY <3>2 DEF vars
    <3> QED BY <2>1, <3>3 DEF EndMeansDone, Tasks
  <2>2. CASE ended # "done"
    <3>1. Next
      BY <2>2 DEF vars
    <3>2. DriveEnds /\ Top.kind = "main"
      BY <2>2, <3>1, GoodEnd
    <3>3. stack # <<>> /\ Top.at = "drive" /\ Over(Top) /\ tasks' = tasks
      BY <3>2 DEF DriveEnds, Driving
    <3>4. Top.todo = <<1>> /\ Len(stack) = 1
      BY <3>2, <3>3, TopFacts DEF FrameOK
    <3>5. Head(Top.todo) = 1
      BY <3>4
    <3>6. Ahead(1) = {}
      BY <3>2, <3>3, <3>5 DEF Over, Stopped
    <3>7. t \in 1..Len(tasks) /\ t \in Tasks /\ Len(tasks) \in Nat
      BY <3>3, Lengths DEF Base, Tasks
    <3>8. tasks[t].state # "pending"
      BY <3>6, <3>7 DEF Ahead
    <3>9. TasksOf(stack) = {}
      <4>1. \A i \in 1..Len(stack) : stack[i].kind = "main"
        BY <3>2, <3>4 DEF Top
      <4> QED BY <4>1 DEF TasksOf
    <3>10. Len(current) = 0
      BY <3>9, FS_EmptySet DEF Base, OnStack
    <3>11. tasks[t].state # "running"
      BY <3>7, <3>10 DEF Base, OnStack
    <3>12. tasks[t].state \in {"pending", "running", "done"}
      BY <3>7, Lengths DEF Base, TaskType
    <3> QED BY <3>3, <3>8, <3>11, <3>12
  <2> QED BY <2>1, <2>2
<1> QED BY <1>1, <1>2, BaseInit, BaseNext, PTL DEF Spec
-----------------------------------------------------------------------------
(* How a step changes the stack                                            *)

\* A call that begins: what opens a group, a slot, a stream or a collection.
Opened(f) ==
    /\ f \in FrameType
    /\ f.kind = "group" => f.id = Len(groups) + 1
    /\ f.kind = "cont" => MaxConts # 0
    /\ f.kind = "stream" => Streams
    /\ f.at = "drive" => Streams
    /\ f.at = "collect" => ForAwait

\* What the innermost call goes on as.
GoesOn(f) ==
    /\ f \in FrameType
    /\ f.kind = Top.kind /\ f.id = Top.id
    /\ f.at = "drive" => Top.at = "drive" \/ Top.kind \in {"main", "cont", "stream"}
    /\ f.at = "collect" => Top.at = "collect"

Shape ==
    \/ stack' = stack
    \/ \E f : Opened(f) /\ stack' = Append(stack, f)
    \/ \E f : GoesOn(f) /\ stack' = Replace(f)
    \/ \E f, h : GoesOn(f) /\ Opened(h) /\ stack' = Append(Replace(f), h)
    \/ stack' = Below
    \/ \E n \in Nat : Below # <<>> /\ stack' = [Below EXCEPT ![Len(Below)].loop = n]
    \/ /\ Top.kind = "task" /\ "throw" \in Outcomes
       /\ Below[Len(Below)].at = "collect" /\ Below[Len(Below)].kind = "loop"
       /\ Len(stack') = Len(Below) - 1
       /\ \A i \in 1..Len(stack') : i \in 1..Len(Below) /\ stack'[i] = Below[i]

LEMMA OpenedTask ==
    ASSUME Base, NEW t \in 1..Len(tasks) PROVE Opened(Frame("task", t, "script", <<>>))
<1> DEFINE none == <<>>
           f == Frame("task", t, "script", none)
<1>1. none \in Seq(Nat) /\ t \in Nat
  BY Lengths DEF Base
<1>2. f \in FrameType /\ f.kind = "task" /\ f.at = "script"
  <2> HIDE DEF none
  <2> QED BY <1>1, NewFrame DEF Kinds, Ats
<1> HIDE DEF f
<1>3. Opened(f)
  BY <1>2 DEF Opened
<1> QED BY <1>3 DEF f

LEMMA RunShape ==
    ASSUME Base, NEW t \in 1..Len(tasks), NEW rest, RunTask(t, rest)
    PROVE  stack' = rest \/ \E f : Opened(f) /\ stack' = Append(rest, f)
BY OpenedTask DEF RunTask

LEMMA CallShape == ASSUME Base, Call PROVE stack' = stack \/ \E f : Opened(f) /\ stack' = Append(stack, f)
<1>1. CASE \/ \E inherit \in BOOLEAN : Spawn(inherit)
           \/ \E t \in Tasks : Cancel(t) \/ AwaitFailed(t)
           \/ \E g \in DOMAIN groups : AddTask(g) \/ CancelAll(g)
           \/ \E c \in DOMAIN conts : Resume(c)
  BY <1>1, Zenon DEF Spawn, Cancel, AwaitFailed, AddTask, CancelAll, Resume
<1>2. CASE \E t \in Tasks : Await(t)
  <2>1. PICK t \in Tasks : RunTask(t, stack)
    BY <1>2 DEF Await
  <2>2. t \in 1..Len(tasks)
    BY Lengths DEF Base, Tasks
  <2> QED BY <2>1, <2>2, RunShape
<1>3. CASE \E g \in DOMAIN groups : NextChild(g)
  <2>1. PICK g \in DOMAIN groups : NextChild(g)
    BY <1>3
  <2>2. Head(groups[g]) \in 1..Len(tasks)
    BY <2>1, GroupFacts DEF NextChild
  <2>3. stack' = stack \/ RunTask(Head(groups[g]), stack)
    BY <2>1, Zenon DEF NextChild
  <2> QED BY <2>2, <2>3, RunShape
<1>4. CASE \E g \in DOMAIN groups, at \in {"drain", "collect"} : TakeGroup(g, at)
  <2>1. PICK g \in DOMAIN groups, at \in {"drain", "collect"} : TakeGroup(g, at)
    BY <1>4
  <2> DEFINE f == Frame("loop", g, at, groups[g])
  <2>2. stack' = Append(stack, f) /\ (at = "collect" => ForAwait)
    BY <2>1 DEF TakeGroup
  <2>3. f \in FrameType /\ f.kind = "loop" /\ f.at = at
    BY GroupFacts, NewFrame DEF Kinds, Ats
  <2> HIDE DEF f
  <2>4. Opened(f)
    BY <2>2, <2>3 DEF Opened
  <2> QED BY <2>2, <2>4
<1>5. CASE OpenGroup
  <2> DEFINE none == <<>>
             f == Frame("group", Len(groups) + 1, "script", none)
  <2>1. stack' = Append(stack, f)
    BY <1>5 DEF OpenGroup
  <2>2. none \in Seq(Nat) /\ Len(groups) + 1 \in Nat
    BY Lengths DEF Base
  <2>3. f \in FrameType /\ f.kind = "group" /\ f.at = "script" /\ f.id = Len(groups) + 1
    <3> HIDE DEF none
    <3> QED BY <2>2, NewFrame DEF Kinds, Ats
  <2> HIDE DEF f
  <2>4. Opened(f)
    BY <2>3 DEF Opened
  <2> QED BY <2>1, <2>4
<1>6. CASE OpenContinuation
  <2> DEFINE todo == <<Len(tasks) + 1>>
             f == Frame("cont", Len(conts) + 1, "script", todo)
  <2>1. stack' = Append(stack, f) /\ Len(conts) < MaxConts
    BY <1>6 DEF OpenContinuation
  <2>2. todo \in Seq(Nat) /\ Len(conts) + 1 \in Nat /\ MaxConts # 0
    BY <2>1, Lengths, BoundOK DEF Base
  <2>3. f \in FrameType /\ f.kind = "cont" /\ f.at = "script"
    <3> HIDE DEF todo
    <3> QED BY <2>2, NewFrame DEF Kinds, Ats
  <2> HIDE DEF f
  <2>4. Opened(f)
    BY <2>2, <2>3 DEF Opened
  <2> QED BY <2>1, <2>4
<1>7. CASE OpenStream
  <2> DEFINE todo == <<Len(tasks) + 1>>
             f == Frame("stream", 0, "script", todo)
  <2>1. stack' = Append(stack, f) /\ Streams
    BY <1>7 DEF OpenStream
  <2>2. todo \in Seq(Nat)
    BY Lengths DEF Base
  <2>3. f \in FrameType /\ f.kind = "stream" /\ f.at = "script"
    <3> HIDE DEF todo
    <3> QED BY <2>2, NewFrame DEF Kinds, Ats
  <2> HIDE DEF f
  <2>4. Opened(f)
    BY <2>1, <2>3 DEF Opened
  <2> QED BY <2>1, <2>4
<1>8. CASE ReadStream
  <2> DEFINE todo == <<1>>
             f == Frame("loop", 0, "drive", todo)
  <2>1. stack' = Append(stack, f) /\ Streams
    BY <1>8 DEF ReadStream
  <2>2. todo \in Seq(Nat)
    OBVIOUS
  <2>3. f \in FrameType /\ f.kind = "loop" /\ f.at = "drive"
    <3> HIDE DEF todo
    <3> QED BY <2>2, NewFrame DEF Kinds, Ats
  <2> HIDE DEF f
  <2>4. Opened(f)
    BY <2>1, <2>3 DEF Opened
  <2> QED BY <2>1, <2>4
<1> QED BY <1>1, <1>2, <1>3, <1>4, <1>5, <1>6, <1>7, <1>8 DEF Call

LEMMA LoopShape == ASSUME Base, Loop PROVE Shape
<1>1. CASE DriveNext
  <2>1. PICK t \in Ahead(Head(Top.todo)) : RunTask(t, stack)
    BY <1>1 DEF DriveNext
  <2>2. t \in 1..Len(tasks)
    BY Lengths DEF Base, Ahead, Tasks
  <2> QED BY <2>1, <2>2, RunShape DEF Shape
<1>2. CASE DriveEnds \/ LoopFails
  BY <1>2 DEF DriveEnds, LoopFails, Shape
<1>3. CASE ChildNext
  <2> DEFINE t == Head(Top.todo)
             f == [Top EXCEPT !.todo = Tail(@)]
  <2>1. TakingChildren /\ Top.todo # <<>> /\ (stack' = Below \/ stack' = Replace(f) \/ RunTask(t, Replace(f)))
    BY <1>3, Zenon DEF ChildNext
  <2>2. /\ t \in 1..Len(tasks) /\ FrameOK(f, Len(tasks), Len(groups), Len(conts))
        /\ f.kind = Top.kind /\ f.id = Top.id /\ f.at = Top.at
    BY <2>1, ChildFrame
  <2> HIDE DEF t, f
  <2>3. GoesOn(f)
    BY <2>2 DEF GoesOn, FrameOK
  <2>4. stack' = Below \/ stack' = Replace(f) \/ \E h : Opened(h) /\ stack' = Append(Replace(f), h)
    BY <2>1, <2>2, RunShape
  <2> QED BY <2>3, <2>4 DEF Shape
<1>4. CASE ChildrenEnd
  <2>1. TakingChildren /\ (stack' = Below \/ stack' = [Below EXCEPT ![Len(Below)].loop = Top.id])
    BY <1>4, Zenon DEF ChildrenEnd
  <2>2. stack # <<>> /\ Top.kind \in {"loop", "group"} /\ Top.id \in 1..Len(groups)
    BY <2>1, ChildFrame
  <2>3. Below # <<>> /\ Top.id \in Nat
    BY <2>2, BelowEmpty, Lengths DEF Base
  <2> QED BY <2>1, <2>3 DEF Shape
<1>5. CASE LoopEnds
  <2> DEFINE f == [Top EXCEPT !.loop = 0]
  <2>1. stack # <<>> /\ stack' = Replace(f)
    BY <1>5 DEF LoopEnds, InScript
  <2>2. Top \in FrameType
    BY <2>1, TopFacts
  <2>3. f \in FrameType /\ f.kind = Top.kind /\ f.id = Top.id /\ f.at = Top.at
    BY <2>2 DEF FrameType
  <2> HIDE DEF f
  <2>4. GoesOn(f)
    BY <2>3 DEF GoesOn
  <2> QED BY <2>1, <2>4 DEF Shape
<1> QED BY <1>1, <1>2, <1>3, <1>4, <1>5 DEF Loop

LEMMA EndShape == ASSUME Base, End PROVE Shape
<1>1. PICK outcome \in Outcome : /\ BodyEnds(outcome)
                                 /\ failing => outcome = "error"
                                 /\ ~failing => outcome \in Outcomes
  BY EndOutcome
<1>2. stack # <<>> /\ Top.at = "script" /\ Top \in FrameType
      /\ FrameOK(Top, Len(tasks), Len(groups), Len(conts))
  BY <1>1, TopFacts DEF BodyEnds
<1>3. CASE TaskEnds(outcome)
  <2>1. stack' = AfterTask(outcome) /\ Top.kind = "task"
    BY <1>3 DEF TaskEnds
  <2>2. outcome = "throw" => outcome \in Outcomes
    <3>1. failing \in BOOLEAN
      BY DEF Base, TablesOK
    <3> QED BY <1>1, <3>1
  <2>3. CASE stack' = Below
    BY <2>3 DEF Shape
  <2>4. CASE stack' # Below
    <3>1. /\ outcome = "throw" /\ Below[Len(Below)].at = "collect" /\ Below[Len(Below)].kind = "loop"
          /\ Len(stack') = Len(Below) - 1
          /\ \A i \in 1..Len(stack') : i \in 1..Len(Below) /\ stack'[i] = Below[i]
      BY <1>2, <2>1, <2>4, AfterTaskFacts
    <3> QED BY <2>1, <2>2, <3>1 DEF Shape
  <2> QED BY <2>3, <2>4
<1>4. CASE GroupBodyEnds(outcome)
  <2> DEFINE f == [Top EXCEPT !.at = "drain", !.result = outcome, !.loop = 0,
                              !.todo = ToDrain(Top.id, outcome)]
  <2>1. stack' = Replace(f) /\ Top.kind = "group"
    BY <1>4 DEF GroupBodyEnds
  <2>2. groups[Top.id] \in Seq(Nat)
    BY <1>2, <2>1, Lengths DEF FrameOK, Base, TablesOK
  <2>3. f \in FrameType /\ f.kind = Top.kind /\ f.id = Top.id /\ f.at = "drain"
    BY <1>2, <2>2 DEF FrameType, Ats, ToDrain
  <2> HIDE DEF f
  <2>4. GoesOn(f)
    BY <2>3 DEF GoesOn
  <2> QED BY <2>1, <2>4 DEF Shape
<1>5. CASE ContinuationBodyEnds(outcome) \/ StreamBodyEnds(outcome)
  <2> DEFINE f == [Top EXCEPT !.at = "drive"]
  <2>1. Top.kind \in {"cont", "stream"} /\ (stack' = Replace(f) \/ stack' = Below)
    <3>1. CASE ContinuationBodyEnds(outcome)
      BY <3>1, Zenon DEF ContinuationBodyEnds
    <3>2. CASE StreamBodyEnds(outcome)
      BY <3>2, Zenon DEF StreamBodyEnds
    <3> QED BY <1>5, <3>1, <3>2
  <2>2. /\ FrameOK(f, Len(tasks), Len(groups), Len(conts)) /\ f.kind = Top.kind /\ f.id = Top.id
        /\ f.at = "drive"
    BY <1>2, <2>1, DriveFrame
  <2> HIDE DEF f
  <2>3. GoesOn(f)
    BY <2>1, <2>2 DEF GoesOn, FrameOK
  <2> QED BY <2>1, <2>3 DEF Shape
<1>6. CASE MainEnds(outcome)
  <2> DEFINE f == [Top EXCEPT !.at = "drive", !.todo = <<1>>]
  <2>1. Top.kind = "main" /\ (stack' = Replace(f) \/ stack' = <<>>)
    BY <1>6, Zenon DEF MainEnds
  <2>2. /\ FrameOK(f, Len(tasks), Len(groups), Len(conts)) /\ f.kind = "main" /\ f.id = Top.id
        /\ f.at = "drive"
    BY <1>2, <2>1, MainFrame
  <2> HIDE DEF f
  <2>3. GoesOn(f)
    BY <2>1, <2>2 DEF GoesOn, FrameOK
  <2>4. Below = <<>>
    BY <1>2, <2>1, BelowEmpty
  <2> QED BY <2>1, <2>3, <2>4 DEF Shape
<1> QED BY <1>1, <1>3, <1>4, <1>5, <1>6 DEF BodyEnds

LEMMA NextShape == ASSUME Base, Next PROVE Shape
BY CallShape, LoopShape, EndShape DEF Next, Shape

\* Equal but for the for await loop a body is in.
Like(f, h) ==
    /\ f.kind = h.kind /\ f.id = h.id /\ f.at = h.at
    /\ f.todo = h.todo /\ f.result = h.result

Stays(i) == i \in 1..Len(stack') /\ Like(stack'[i], stack[i])

\* A frame that was there, and may have gone on to its next loop.
Old(k) ==
    /\ k \in 1..Len(stack)
    /\ stack'[k].kind = stack[k].kind /\ stack'[k].id = stack[k].id
    /\ stack'[k].at = "drive" => stack[k].at = "drive" \/ stack[k].kind \in {"main", "cont", "stream"}
    /\ stack'[k].at = "collect" => stack[k].at = "collect"

LEMMA PushFrames ==
    ASSUME Base, NEW f \in FrameType, stack' = Append(stack, f)
    PROVE  /\ Len(stack') = Len(stack) + 1 /\ stack'[Len(stack) + 1] = f
           /\ \A i \in 1..Len(stack) : stack'[i] = stack[i] /\ Stays(i) /\ Old(i)
<1>1. stack \in Seq(FrameType) /\ Len(stack) \in Nat
  BY SeqFacts DEF Base, StackOK
<1>2. /\ Len(stack') = Len(stack) + 1 /\ stack'[Len(stack) + 1] = f
      /\ \A i \in 1..Len(stack) : stack'[i] = stack[i]
  BY <1>1, SeqFacts
<1>3. \A i \in 1..Len(stack) : i \in 1..Len(stack')
  BY <1>1, <1>2
<1> QED BY <1>2, <1>3 DEF Stays, Like, Old

LEMMA SameFrames ==
    ASSUME stack' = stack
    PROVE  \A i \in 1..Len(stack) : stack'[i] = stack[i] /\ Stays(i) /\ Old(i)
BY DEF Stays, Like, Old

LEMMA BelowFrames ==
    ASSUME Base, stack # <<>>,
           \/ stack' = Below
           \/ \E n \in Nat : Below # <<>> /\ stack' = [Below EXCEPT ![Len(Below)].loop = n]
    PROVE  /\ Len(stack') = Len(stack) - 1
           /\ \A i \in 1..(Len(stack) - 1) : Stays(i) /\ Old(i)
<1>1. /\ Len(stack) \in Nat \ {0} /\ Len(Below) = Len(stack) - 1
      /\ \A i \in 1..(Len(stack) - 1) : Below[i] = stack[i] /\ i \in 1..Len(stack)
  BY TopFacts
<1>2. /\ Len(stack') = Len(Below)
      /\ \A i \in 1..Len(Below) :
            /\ stack'[i].kind = Below[i].kind /\ stack'[i].id = Below[i].id /\ stack'[i].at = Below[i].at
            /\ stack'[i].todo = Below[i].todo /\ stack'[i].result = Below[i].result
  <2>1. CASE stack' = Below
    BY <2>1
  <2>2. CASE \E n \in Nat : Below # <<>> /\ stack' = [Below EXCEPT ![Len(Below)].loop = n]
    <3> DEFINE b == Below
    <3>1. StackOK(b, Len(tasks), Len(groups), Len(conts))
      BY PopOK DEF Below, Base
    <3> HIDE DEF b
    <3>2. PICK n \in Nat : b # <<>> /\ stack' = [b EXCEPT ![Len(b)].loop = n]
      BY <2>2 DEF b
    <3> DEFINE r == [b EXCEPT ![Len(b)].loop = n]
    <3>3. /\ Len(r) = Len(b)
          /\ \A i \in 1..Len(b) :
                /\ r[i].kind = b[i].kind /\ r[i].id = b[i].id /\ r[i].at = b[i].at
                /\ r[i].todo = b[i].todo /\ r[i].result = b[i].result
      BY <3>1, <3>2, Relooped
    <3>4. stack' = r
      BY <3>2
    <3> HIDE DEF r
    <3> QED BY <3>3, <3>4 DEF b
  <2> QED BY <2>1, <2>2
<1> QED BY <1>1, <1>2 DEF Stays, Like, Old

LEMMA RetopFrames ==
    ASSUME Base, stack # <<>>, NEW f, GoesOn(f),
           stack' = Replace(f) \/ \E h \in FrameType : stack' = Append(Replace(f), h)
    PROVE  /\ \A i \in 1..(Len(stack) - 1) : Stays(i) /\ Old(i)
           /\ Len(stack) \in 1..Len(stack') /\ stack'[Len(stack)] = f /\ Old(Len(stack))
           /\ Len(stack') = Len(stack) \/ Len(stack') = Len(stack) + 1
           /\ stack' # Replace(f) =>
                 \E h : stack' = Append(Replace(f), h) /\ stack'[Len(stack) + 1] = h /\ Len(stack') = Len(stack) + 1
           /\ stack' = Replace(f) => Len(stack') = Len(stack)
<1> DEFINE r == Replace(f)
<1>1. /\ Len(stack) \in Nat \ {0} /\ Len(Below) = Len(stack) - 1 /\ Below \in Seq(FrameType)
      /\ \A i \in 1..(Len(stack) - 1) : Below[i] = stack[i]
      /\ f \in FrameType
  BY TopFacts DEF GoesOn
<1>2. /\ r \in Seq(FrameType) /\ Len(r) = Len(stack) /\ r[Len(stack)] = f
      /\ \A i \in 1..(Len(stack) - 1) : r[i] = stack[i]
  BY <1>1, SeqFacts DEF Replace
<1> HIDE DEF r
<1>3. /\ \A i \in 1..Len(stack) : i \in 1..Len(stack') /\ stack'[i] = r[i]
      /\ Len(stack') = Len(stack) \/ Len(stack') = Len(stack) + 1
      /\ stack' # r => \E h : stack' = Append(r, h) /\ stack'[Len(stack) + 1] = h /\ Len(stack') = Len(stack) + 1
      /\ stack' = r => Len(stack') = Len(stack)
  <2>1. CASE stack' = r
    BY <1>2, <2>1
  <2>2. CASE \E h \in FrameType : stack' = Append(r, h) /\ stack' # r
    <3>1. PICK h \in FrameType : stack' = Append(r, h) /\ stack' # r
      BY <2>2
    <3>2. /\ Len(stack') = Len(stack) + 1 /\ stack'[Len(stack) + 1] = h
          /\ \A i \in 1..Len(stack) : stack'[i] = r[i]
      BY <1>2, <3>1, SeqFacts
    <3> QED BY <1>1, <3>1, <3>2
  <2> QED BY <2>1, <2>2 DEF r
<1>4. Len(stack) \in 1..Len(stack) /\ \A i \in 1..(Len(stack) - 1) : i \in 1..Len(stack)
  BY <1>1
<1>5. \A i \in 1..(Len(stack) - 1) : Stays(i) /\ Old(i)
  BY <1>2, <1>3, <1>4 DEF Stays, Like, Old
<1>6. Old(Len(stack)) /\ stack'[Len(stack)] = f
  BY <1>2, <1>3, <1>4 DEF Old, GoesOn, Top
<1> QED BY <1>3, <1>4, <1>5, <1>6 DEF r

\* What is under the innermost call stays as it is, but for a collection that
\* a throw ends.
LEMMA Under ==
    ASSUME Base, Next, NEW i \in 1..(Len(stack) - 1)
    PROVE  \/ Stays(i)
           \/ stack[i].kind = "loop" /\ stack[i].at = "collect" /\ "throw" \in Outcomes
<1>1. stack # <<>> /\ Shape /\ Len(stack) \in Nat \ {0} /\ i \in 1..Len(stack)
  BY StepsOnStack, NextShape, TopFacts
<1>2. CASE stack' = stack
  BY <1>1, <1>2, SameFrames
<1>3. CASE \E f : Opened(f) /\ stack' = Append(stack, f)
  BY <1>1, <1>3, PushFrames DEF Opened
<1>4. CASE \E f : GoesOn(f) /\ stack' = Replace(f)
  BY <1>1, <1>4, RetopFrames
<1>5. CASE \E f, h : GoesOn(f) /\ Opened(h) /\ stack' = Append(Replace(f), h)
  BY <1>1, <1>5, RetopFrames DEF Opened
<1>6. CASE \/ stack' = Below
           \/ \E n \in Nat : Below # <<>> /\ stack' = [Below EXCEPT ![Len(Below)].loop = n]
  BY <1>1, <1>6, BelowFrames
<1>7. CASE /\ "throw" \in Outcomes
           /\ Below[Len(Below)].at = "collect" /\ Below[Len(Below)].kind = "loop"
           /\ Len(stack') = Len(Below) - 1
           /\ \A k \in 1..Len(stack') : k \in 1..Len(Below) /\ stack'[k] = Below[k]
  <2>1. Len(Below) = Len(stack) - 1 /\ Below[i] = stack[i]
    BY <1>1, TopFacts
  <2>2. i \in 1..Len(stack') \/ i = Len(Below)
    BY <1>1, <1>7, <2>1
  <2> QED BY <1>7, <2>1, <2>2 DEF Stays, Like
<1> QED BY <1>1, <1>2, <1>3, <1>4, <1>5, <1>6, <1>7 DEF Shape

LEMMA Fresh ==
    ASSUME Base, Next, NEW k \in 1..Len(stack')
    PROVE  Old(k) \/ (k = Len(stack) + 1 /\ Opened(stack'[k]))
<1>1. stack # <<>> /\ Shape /\ Len(stack) \in Nat \ {0}
  BY StepsOnStack, NextShape, TopFacts
<1>2. CASE stack' = stack
  BY <1>1, <1>2, SameFrames
<1>3. CASE \E f : Opened(f) /\ stack' = Append(stack, f)
  <2>1. PICK f \in FrameType : Opened(f) /\ stack' = Append(stack, f)
    BY <1>3 DEF Opened
  <2>2. /\ Len(stack') = Len(stack) + 1 /\ stack'[Len(stack) + 1] = f
        /\ \A j \in 1..Len(stack) : Old(j)
    BY <2>1, PushFrames
  <2>3. k \in 1..Len(stack) \/ k = Len(stack) + 1
    BY <1>1, <2>2
  <2> QED BY <2>1, <2>2, <2>3
<1>4. CASE \E f : GoesOn(f) /\ stack' = Replace(f)
  <2>1. PICK f : GoesOn(f) /\ stack' = Replace(f)
    BY <1>4
  <2>2. /\ Len(stack') = Len(stack) /\ Old(Len(stack)) /\ \A j \in 1..(Len(stack) - 1) : Old(j)
    BY <1>1, <2>1, RetopFrames
  <2>3. k \in 1..(Len(stack) - 1) \/ k = Len(stack)
    BY <1>1, <2>2
  <2> QED BY <2>2, <2>3
<1>5. CASE \E f, h : GoesOn(f) /\ Opened(h) /\ stack' = Append(Replace(f), h)
  <2>1. PICK f, h : GoesOn(f) /\ Opened(h) /\ stack' = Append(Replace(f), h)
    BY <1>5
  <2>2. h \in FrameType
    BY <2>1 DEF Opened
  <2>3. /\ Old(Len(stack)) /\ \A j \in 1..(Len(stack) - 1) : Old(j)
        /\ Len(stack') = Len(stack) \/ Len(stack') = Len(stack) + 1
    BY <1>1, <2>1, <2>2, RetopFrames
  <2>4. stack'[Len(stack) + 1] = h
    <3> DEFINE r == Replace(f)
    <3>1. r \in Seq(FrameType) /\ Len(r) = Len(stack)
      BY <1>1, <2>1, TopFacts, SeqFacts DEF Replace, GoesOn
    <3> HIDE DEF r
    <3>2. stack' = Append(r, h)
      BY <2>1 DEF r
    <3> QED BY <2>2, <3>1, <3>2, SeqFacts
  <2>5. k \in 1..(Len(stack) - 1) \/ k = Len(stack) \/ k = Len(stack) + 1
    BY <1>1, <2>3
  <2> QED BY <2>1, <2>3, <2>4, <2>5
<1>6. CASE \/ stack' = Below
           \/ \E n \in Nat : Below # <<>> /\ stack' = [Below EXCEPT ![Len(Below)].loop = n]
  BY <1>1, <1>6, BelowFrames
<1>7. CASE /\ Len(stack') = Len(Below) - 1
           /\ \A i \in 1..Len(stack') : i \in 1..Len(Below) /\ stack'[i] = Below[i]
  <2>1. k \in 1..(Len(stack) - 1)
    BY <1>1, <1>7, TopFacts
  <2>2. Below[k] = stack[k] /\ k \in 1..Len(stack)
    BY <1>1, <2>1, TopFacts
  <2> QED BY <1>7, <2>2 DEF Old
<1> QED BY <1>1, <1>2, <1>3, <1>4, <1>5, <1>6, <1>7 DEF Shape

\* A call the program makes, and the end of a loop of its own, take nothing
\* away; neither does a drive that goes on.
LEMMA CallStays ==
    ASSUME Base, Call \/ DriveNext \/ LoopEnds, NEW i \in 1..Len(stack)
    PROVE  Stays(i)
<1>1. CASE Call
  BY <1>1, CallShape, SameFrames, PushFrames DEF Opened
<1>2. CASE DriveNext
  <2>1. PICK t \in Ahead(Head(Top.todo)) : RunTask(t, stack)
    BY <1>2 DEF DriveNext
  <2>2. t \in 1..Len(tasks)
    BY Lengths DEF Base, Ahead, Tasks
  <2>3. stack' = stack \/ \E f : Opened(f) /\ stack' = Append(stack, f)
    BY <2>1, <2>2, RunShape
  <2> QED BY <2>3, SameFrames, PushFrames DEF Opened
<1>3. CASE LoopEnds
  <2> DEFINE f == [Top EXCEPT !.loop = 0]
  <2>1. stack # <<>> /\ stack' = Replace(f)
    BY <1>3 DEF LoopEnds, InScript
  <2>2. Top \in FrameType /\ Len(stack) \in Nat \ {0}
    BY <2>1, TopFacts
  <2>3. f \in FrameType /\ f.kind = Top.kind /\ f.id = Top.id /\ f.at = Top.at /\ f.todo = Top.todo
        /\ f.result = Top.result
    BY <2>2 DEF FrameType
  <2> HIDE DEF f
  <2>4. GoesOn(f)
    BY <2>3 DEF GoesOn
  <2>5. /\ Len(stack) \in 1..Len(stack') /\ stack'[Len(stack)] = f
        /\ \A k \in 1..(Len(stack) - 1) : Stays(k)
    BY <2>1, <2>4, RetopFrames
  <2>6. i \in 1..(Len(stack) - 1) \/ i = Len(stack)
    BY <2>2
  <2> QED BY <2>3, <2>5, <2>6 DEF Stays, Like, Top
<1> QED BY <1>1, <1>2, <1>3
-----------------------------------------------------------------------------
(* Errors on their way                                                     *)

LEMMA CallInScript == ASSUME Call \/ LoopEnds PROVE InScript
BY Zenon DEF Call, Spawn, Cancel, Await, AwaitFailed, AddTask, CancelAll, NextChild, TakeGroup,
   OpenGroup, OpenContinuation, OpenStream, ReadStream, Resume, MayAwait, LoopEnds

\* Steps of a loop over children.
LEMMA ChildNextFrame ==
    ASSUME Base, ChildNext
    PROVE  LET t == Head(Top.todo)
               top == Len(stack)
           IN  /\ stack # <<>> /\ top \in Nat \ {0}
               /\ Top.kind \in {"loop", "group"} /\ Top.at \in {"drain", "collect"} /\ ~failing
               /\ Top.todo # <<>> /\ t \in 1..Len(tasks) /\ UNCHANGED groups
               /\ \A i \in DOMAIN Top.todo : Top.todo[i] \in 1..Len(tasks)
               /\ \/ /\ Top.at = "collect" /\ tasks[t].state = "done" /\ tasks[t].outcome = "throw"
                     /\ stack' = Below
                  \/ /\ top \in 1..Len(stack')
                     /\ stack'[top].kind = Top.kind /\ stack'[top].id = Top.id
                     /\ stack'[top].at = Top.at /\ stack'[top].result = Top.result
                     /\ \A i \in DOMAIN Top.todo :
                           \/ Top.todo[i] = t
                           \/ \E j \in DOMAIN stack'[top].todo : stack'[top].todo[j] = Top.todo[i]
                     /\ \/ tasks[t].state = "done"
                        \/ tasks[t].state = "running" /\ failing'
                        \/ top + 1 \in 1..Len(stack') /\ stack'[top + 1].kind = "task" /\ stack'[top + 1].id = t
<1> DEFINE t == Head(Top.todo)
           top == Len(stack)
           f == [Top EXCEPT !.todo = Tail(@)]
           none == <<>>
           h == Frame("task", t, "script", none)
<1>1. /\ TakingChildren /\ Top.todo # <<>> /\ UNCHANGED groups
      /\ IF tasks[t].state = "done"
         THEN stack' = IF Top.at = "collect" /\ tasks[t].outcome = "throw" THEN Below ELSE Replace(f)
         ELSE RunTask(t, Replace(f))
  BY DEF ChildNext
<1>2. /\ stack # <<>> /\ Top.kind \in {"loop", "group"} /\ Top.at \in {"drain", "collect"} /\ ~failing
      /\ t \in 1..Len(tasks) /\ t = Top.todo[1]
      /\ FrameOK(f, Len(tasks), Len(groups), Len(conts))
      /\ f.kind = Top.kind /\ f.id = Top.id /\ f.at = Top.at /\ f.result = Top.result
      /\ \A i \in DOMAIN Top.todo : Top.todo[i] \in 1..Len(tasks)
      /\ \A i \in DOMAIN Top.todo : i = 1 \/ \E j \in DOMAIN f.todo : f.todo[j] = Top.todo[i]
  BY <1>1, ChildFrame
<1>3. top \in Nat \ {0}
  BY <1>2, TopFacts
<1>4. h \in FrameType /\ h.kind = "task" /\ h.id = t
  <2>1. none \in Seq(Nat) /\ t \in Nat
    BY <1>2, Lengths DEF Base
  <2> HIDE DEF none, t
  <2> QED BY <2>1, NewFrame DEF Kinds, Ats
<1>5. \/ tasks[t].state = "done" /\ Top.at = "collect" /\ tasks[t].outcome = "throw" /\ stack' = Below
      \/ tasks[t].state = "done" /\ stack' = Replace(f)
      \/ tasks[t].state = "running" /\ failing' /\ stack' = Replace(f)
      \/ stack' = Append(Replace(f), h)
  BY <1>1 DEF RunTask
<1> HIDE DEF f, h, t
<1>6. GoesOn(f)
  BY <1>2 DEF GoesOn, FrameOK
<1>7. ASSUME stack' = Replace(f) \/ stack' = Append(Replace(f), h)
      PROVE  top \in 1..Len(stack') /\ stack'[top] = f
  BY <1>2, <1>4, <1>6, <1>7, RetopFrames
<1>8. ASSUME stack' = Append(Replace(f), h)
      PROVE  top + 1 \in 1..Len(stack') /\ stack'[top + 1] = h
  <2> DEFINE r == Replace(f)
  <2>1. r \in Seq(FrameType) /\ Len(r) = top
    BY <1>2, <1>6, TopFacts, SeqFacts DEF Replace, GoesOn
  <2> HIDE DEF r
  <2>2. stack' = Append(r, h)
    BY <1>8 DEF r
  <2>3. Len(stack') = top + 1 /\ stack'[top + 1] = h
    BY <1>4, <2>1, <2>2, SeqFacts
  <2> QED BY <1>3, <2>3
<1>9. CASE stack' = Below /\ tasks[t].state = "done" /\ Top.at = "collect" /\ tasks[t].outcome = "throw"
  BY <1>1, <1>2, <1>3, <1>9 DEF t
<1>10. CASE stack' = Replace(f) \/ stack' = Append(Replace(f), h)
  BY <1>1, <1>2, <1>3, <1>4, <1>5, <1>7, <1>8, <1>10 DEF t
<1> QED BY <1>5, <1>9, <1>10

LEMMA GroupEndFrame ==
    ASSUME Base, stack # <<>>, NEW outcome \in Outcome, GroupBodyEnds(outcome)
    PROVE  LET top == Len(stack)
           IN  /\ top \in 1..Len(stack') /\ Len(stack') = top /\ Top.id \in 1..Len(groups)
               /\ stack'[top].kind = "group" /\ stack'[top].id = Top.id /\ stack'[top].at = "drain"
               /\ stack'[top].result = outcome /\ stack'[top].todo = groups[Top.id]
               /\ Len(groups') = Len(groups) /\ groups'[Top.id] = <<>>
               /\ \A g \in 1..Len(groups) : g # Top.id => groups'[g] = groups[g]
<1> DEFINE top == Len(stack)
           f == [Top EXCEPT !.at = "drain", !.result = outcome, !.loop = 0,
                            !.todo = ToDrain(Top.id, outcome)]
<1>1. Top.kind = "group" /\ stack' = Replace(f) /\ groups' = [groups EXCEPT ![Top.id] = <<>>]
  BY DEF GroupBodyEnds
<1>2. Top \in FrameType /\ Top.id \in 1..Len(groups) /\ Top.id \in DOMAIN groups
  BY <1>1, TopFacts, Lengths DEF FrameOK, Base
<1>3. groups[Top.id] \in Seq(Nat) /\ groups \in Seq(Seq(Nat))
  BY <1>2, GroupFacts DEF Base, TablesOK
<1>4. /\ f \in FrameType /\ f.kind = "group" /\ f.id = Top.id /\ f.at = "drain"
      /\ f.todo = groups[Top.id] /\ f.result = outcome
  BY <1>1, <1>2, <1>3 DEF FrameType, ToDrain, Ats
<1> HIDE DEF f
<1>5. GoesOn(f)
  BY <1>1, <1>4 DEF GoesOn
<1>6. top \in 1..Len(stack') /\ stack'[top] = f /\ Len(stack') = top
  BY <1>1, <1>5, RetopFrames
<1>7. /\ Len(groups') = Len(groups) /\ groups'[Top.id] = <<>>
      /\ \A g \in 1..Len(groups) : g # Top.id => groups'[g] = groups[g]
  <2>1. <<>> \in Seq(Nat)
    OBVIOUS
  <2> QED BY <1>1, <1>2, <1>3, <2>1, ExceptSeq
<1> QED BY <1>2, <1>4, <1>6, <1>7

\* An error on its way is never lost: it fails the calls it passes, waits for
\* the children of a group, and ends the program.
LEMMA DoomStays == ASSUME Base, Next, Doomed PROVE Doomed'
<1>1. stack # <<>> /\ ended # "failed" /\ Len(stack) \in Nat \ {0} /\ stack \in Seq(FrameType)
  BY StepsOnStack, TopFacts DEF Base, TablesOK
<1>2. CASE failing
  <2>1. LoopFails \/ End
    BY <1>2, CallInScript, Zenon DEF Next, Loop, InScript, DriveNext, DriveEnds, ChildNext, ChildrenEnd,
       Driving, TakingChildren
  <2>2. CASE LoopFails
    <3>1. failing' = (Top.kind # "main") /\ ended' = IF Top.kind = "main" THEN "failed" ELSE ended
      BY <2>2 DEF LoopFails
    <3> QED BY <3>1 DEF Doomed
  <2>3. CASE End
    <3>1. PICK outcome \in Outcome : BodyEnds(outcome) /\ outcome = "error"
      BY <1>2, <2>3, EndOutcome
    <3>2. CASE GroupBodyEnds(outcome)
      <4>1. Len(stack) \in DOMAIN stack' /\ stack'[Len(stack)].result = "error"
        <5>1. Len(stack) \in 1..Len(stack') /\ stack'[Len(stack)].result = "error"
          BY <1>1, <3>1, <3>2, GroupEndFrame
        <5>2. stack' \in Seq(FrameType)
          BY <1>1, BaseNext DEF Base, StackOK
        <5> QED BY <5>1, <5>2
      <4> QED BY <4>1 DEF Doomed
    <3>3. CASE MainEnds(outcome)
      <4>1. ended' = "failed"
        BY <3>1, <3>3 DEF MainEnds
      <4> QED BY <4>1 DEF Doomed
    <3>4. CASE TaskEnds(outcome) \/ ContinuationBodyEnds(outcome) \/ StreamBodyEnds(outcome)
      <4>1. failing' = (outcome = "error")
        BY <3>4, Zenon DEF TaskEnds, ContinuationBodyEnds, StreamBodyEnds
      <4> QED BY <3>1, <4>1 DEF Doomed
    <3> QED BY <3>1, <3>2, <3>3, <3>4 DEF BodyEnds
  <2> QED BY <2>1, <2>2, <2>3
<1>3. CASE ~failing
  <2>1. PICK i \in 1..Len(stack) : stack[i].result = "error"
    BY <1>1, <1>3 DEF Doomed
  <2>2. stack[i].kind = "group" /\ stack[i].at = "drain"
    BY <2>1 DEF Base, StackOK, FrameOK
  <2>3. ASSUME NEW k \in 1..Len(stack'), stack'[k].result = "error" PROVE Doomed'
    <3>1. DOMAIN stack' = 1..Len(stack')
      BY BaseNext DEF Base, StackOK
    <3> QED BY <2>3, <3>1 DEF Doomed
  <2>4. CASE i # Len(stack)
    <3>1. i \in 1..(Len(stack) - 1)
      BY <1>1, <2>4
    <3>2. Stays(i)
      BY <2>2, <3>1, Under
    <3> QED BY <2>1, <2>3, <3>2 DEF Stays, Like
  <2>5. CASE i = Len(stack)
    <3>1. Top.at = "drain" /\ Top.result = "error"
      BY <2>1, <2>2, <2>5 DEF Top
    <3>2. ChildNext \/ ChildrenEnd
      BY <1>3, <3>1, CallInScript DEF Next, Loop, InScript, DriveNext, DriveEnds, LoopFails, Driving, End, BodyEnds
    <3>3. CASE ChildNext
      <4>1. Len(stack) \in 1..Len(stack') /\ stack'[Len(stack)].result = "error"
        BY <3>1, <3>3, ChildNextFrame
      <4> QED BY <2>3, <4>1
    <3>4. CASE ChildrenEnd
      <4>1. failing' = (Top.result = "error")
        BY <3>4 DEF ChildrenEnd
      <4> QED BY <3>1, <4>1 DEF Doomed
    <3> QED BY <3>2, <3>3, <3>4
  <2> QED BY <2>4, <2>5
<1> QED BY <1>2, <1>3
-----------------------------------------------------------------------------
(* Continuations                                                           *)

\* A slot that can still be read was readable before, or has just been opened.
LEMMA SlotStep ==
    ASSUME Base, Next, NEW c \in DOMAIN conts', conts'[c] # "consumed"
    PROVE  \/ c \in DOMAIN conts /\ conts[c] # "consumed"
           \/ OpenContinuation /\ c = Len(conts) + 1
<1>1. DOMAIN conts = 1..Len(conts) /\ Len(conts) \in Nat /\ TablesOK
      /\ conts \in Seq({"pending", "resumed", "consumed"})
  BY Lengths DEF Base, TablesOK
<1>2. CASE conts' = conts
  BY <1>2
<1>3. CASE OpenContinuation
  <2>1. conts' = Append(conts, "pending")
    BY <1>3 DEF OpenContinuation
  <2>2. Len(conts') = Len(conts) + 1 /\ \A d \in 1..Len(conts) : conts'[d] = conts[d]
    BY <1>1, <2>1, SeqFacts
  <2>3. DOMAIN conts' = 1..(Len(conts) + 1)
    BY <1>1, <2>1
  <2>4. c \in 1..Len(conts) \/ c = Len(conts) + 1
    BY <1>1, <2>3
  <2> QED BY <1>1, <1>3, <2>2, <2>4
<1>4. CASE \E d \in DOMAIN conts : Resume(d)
  <2>1. PICK d \in DOMAIN conts : Resume(d)
    BY <1>4
  <2>2. conts' = conts \/ (conts[d] = "pending" /\ conts' = [conts EXCEPT ![d] = "resumed"])
    BY <2>1 DEF Resume
  <2> QED BY <1>2, <2>2
<1>5. CASE \E d \in DOMAIN conts : conts' = [conts EXCEPT ![d] = "consumed"]
  BY <1>5
<1>6. CASE DriveEnds
  <2>1. conts' = conts \/ (Top.kind = "cont" /\ conts' = [conts EXCEPT ![Top.id] = "consumed"])
    BY <1>6 DEF DriveEnds
  <2>2. Top.kind = "cont" => Top.id \in DOMAIN conts
    BY <1>1, <1>6, TopFacts DEF DriveEnds, Driving, FrameOK
  <2> QED BY <1>2, <1>5, <2>1, <2>2
<1>7. CASE End
  <2>1. PICK outcome \in Outcome : BodyEnds(outcome)
    BY <1>7, EndOutcome
  <2>2. CASE ContinuationBodyEnds(outcome)
    <3>1. Top.kind = "cont" /\ (conts' = conts \/ conts' = [conts EXCEPT ![Top.id] = "consumed"])
      BY <2>2, Zenon DEF ContinuationBodyEnds, Consumed
    <3>2. Top.id \in DOMAIN conts
      BY <1>1, <2>1, <3>1, TopFacts DEF BodyEnds, FrameOK
    <3> QED BY <1>2, <1>5, <3>1, <3>2
  <2>3. CASE ~ContinuationBodyEnds(outcome)
    <3>1. conts' = conts
      BY <2>1, <2>3, Zenon DEF BodyEnds, TaskEnds, GroupBodyEnds, StreamBodyEnds, MainEnds
    <3> QED BY <1>2, <3>1
  <2> QED BY <2>2, <2>3
<1>8. CASE Call /\ ~OpenContinuation /\ ~(\E d \in DOMAIN conts : Resume(d))
  <2>1. conts' = conts
    BY <1>8, Zenon DEF Call, Spawn, Cancel, Await, AwaitFailed, AddTask, CancelAll, NextChild, TakeGroup,
       OpenGroup, OpenStream, ReadStream, tables
  <2> QED BY <1>2, <2>1
<1>9. CASE Loop /\ ~DriveEnds
  <2>1. conts' = conts
    BY <1>9, Zenon DEF Loop, DriveNext, ChildNext, ChildrenEnd, LoopEnds, LoopFails, tables
  <2> QED BY <1>2, <2>1
<1> QED BY <1>3, <1>4, <1>6, <1>7, <1>8, <1>9 DEF Next

\* A continuation slot nobody has read has its reader on the call stack, unless
\* an error is on its way (Scheduler.continuations, eval_with_continuation): a
\* resume that comes too late finds the slot consumed and traps.
THEOREM SlotsAreAwaited == Spec => []SlotHasReader
<1>1. Init => SlotHasReader
  BY DEF Init, SlotHasReader
<1>2. Base /\ SlotHasReader /\ [Next]_vars => SlotHasReader'
  <2> SUFFICES ASSUME Base, SlotHasReader, [Next]_vars PROVE SlotHasReader'
    OBVIOUS
  <2>1. CASE UNCHANGED vars
    BY <2>1 DEF vars, SlotHasReader, Doomed
  <2>2. CASE Next
    <3> SUFFICES ASSUME NEW c \in DOMAIN conts', conts'[c] # "consumed", ~Doomed'
                 PROVE  \E i \in DOMAIN stack' : stack'[i].kind = "cont" /\ stack'[i].id = c
      BY DEF SlotHasReader
    <3>1. ~Doomed /\ ~failing' /\ ~failing
      BY <2>2, DoomStays DEF Doomed
    <3>2. /\ stack # <<>> /\ Len(stack) \in Nat \ {0} /\ DOMAIN stack = 1..Len(stack)
          /\ DOMAIN stack' = 1..Len(stack') /\ stack \in Seq(FrameType)
      <4>1. stack # <<>> /\ Base'
        BY <2>2, StepsOnStack, BaseNext
      <4> QED BY <4>1, TopFacts DEF Base, StackOK
    <3>3. ASSUME NEW i \in 1..Len(stack), Stays(i), stack[i].kind = "cont", stack[i].id = c
          PROVE  \E k \in DOMAIN stack' : stack'[k].kind = "cont" /\ stack'[k].id = c
      BY <3>2, <3>3 DEF Stays, Like
    <3>4. CASE OpenContinuation /\ c = Len(conts) + 1
      <4> DEFINE todo == <<Len(tasks) + 1>>
                 f == Frame("cont", c, "script", todo)
      <4>1. stack' = Append(stack, f)
        BY <3>4 DEF OpenContinuation
      <4>2. todo \in Seq(Nat) /\ c \in Nat
        BY <3>4, Lengths DEF Base
      <4>3. f \in FrameType /\ f.kind = "cont" /\ f.id = c
        <5> HIDE DEF todo
        <5> QED BY <4>2, NewFrame DEF Kinds, Ats
      <4> HIDE DEF f
      <4>4. stack'[Len(stack) + 1] = f /\ Len(stack') = Len(stack) + 1
        BY <4>1, <4>3, PushFrames
      <4>5. Len(stack) + 1 \in DOMAIN stack'
        BY <3>2, <4>4
      <4> QED BY <4>3, <4>4, <4>5
    <3>5. CASE c \in DOMAIN conts /\ conts[c] # "consumed"
      <4>1. PICK i \in 1..Len(stack) : stack[i].kind = "cont" /\ stack[i].id = c
        BY <3>1, <3>2, <3>5 DEF SlotHasReader
      <4>2. CASE i # Len(stack)
        <5> DEFINE n == Len(stack)
        <5>1. i \in 1..(Len(stack) - 1)
          <6>1. n \in Nat /\ i \in 1..n /\ i # n
            BY <3>2, <4>2
          <6> HIDE DEF n
          <6>2. i \in 1..(n - 1)
            BY <6>1
          <6> QED BY <6>2 DEF n
        <5>2. Stays(i)
          BY <2>2, <4>1, <5>1, Under
        <5> QED BY <3>3, <4>1, <5>2
      <4>3. CASE i = Len(stack)
        <5>1. Top.kind = "cont" /\ Top.id = c
          BY <4>1, <4>3 DEF Top
        <5>2. CASE Call \/ DriveNext \/ LoopEnds
          BY <3>3, <4>1, <5>2, CallStays
        <5>3. CASE DriveEnds
          <6>1. conts' = [conts EXCEPT ![c] = "consumed"]
            BY <5>1, <5>3 DEF DriveEnds
          <6> QED BY <3>5, <6>1
        <5>4. CASE ChildNext \/ ChildrenEnd
          <6>1. TakingChildren
            BY <5>4 DEF ChildNext, ChildrenEnd
          <6> QED BY <5>1, <6>1, ChildFrame
        <5>5. CASE LoopFails
          BY <3>1, <5>5 DEF LoopFails
        <5>6. CASE End
          <6>1. PICK outcome \in Outcome : BodyEnds(outcome)
            BY <5>6, EndOutcome
          <6>2. ContinuationBodyEnds(outcome) /\ Top.at = "script"
            BY <5>1, <6>1 DEF BodyEnds, TaskEnds, GroupBodyEnds, StreamBodyEnds, MainEnds
          <6> DEFINE f == [Top EXCEPT !.at = "drive"]
          <6>3. \/ stack' = Replace(f)
                \/ outcome = "error"
                \/ conts' = [conts EXCEPT ![c] = "consumed"]
            BY <5>1, <6>2 DEF ContinuationBodyEnds, Consumed, Outcome
          <6>4. outcome # "error"
            BY <3>1, <6>2 DEF ContinuationBodyEnds
          <6>5. stack' = Replace(f)
            BY <3>5, <6>3, <6>4
          <6>6. f.kind = "cont" /\ f.id = c /\ f.at = "drive" /\ FrameOK(f, Len(tasks), Len(groups), Len(conts))
            BY <3>2, <5>1, <6>2, DriveFrame
          <6> HIDE DEF f
          <6>7. GoesOn(f)
            BY <5>1, <6>6 DEF GoesOn, FrameOK
          <6>8. Len(stack) \in 1..Len(stack') /\ stack'[Len(stack)] = f
            BY <3>2, <6>5, <6>7, RetopFrames
          <6> QED BY <3>2, <6>6, <6>8
        <5> QED BY <2>2, <5>2, <5>3, <5>4, <5>5, <5>6 DEF Next, Loop
      <4> QED BY <4>2, <4>3
    <3> QED BY <2>2, <3>4, <3>5, SlotStep
  <2> QED BY <2>1, <2>2
<1> QED BY <1>1, <1>2, BaseInit, BaseNext, PTL DEF Spec
-----------------------------------------------------------------------------
(* How a step changes the tables                                           *)

\* A task that has run has run, one that is cancelled stays so, and a body
\* throws only in a program with bodies that throw.
After(t) ==
    /\ t \in 1..Len(tasks')
    /\ tasks[t].state = "done" => tasks'[t].state = "done"
    /\ tasks[t].cancelled => tasks'[t].cancelled
    /\ tasks'[t].outcome = "throw" => tasks[t].outcome = "throw" \/ "throw" \in Outcomes

LEMMA AfterRun ==
    ASSUME Base, NEW u \in 1..Len(tasks), NEW rest, RunTask(u, rest), tasks[u].state # "done",
           NEW t \in 1..Len(tasks)
    PROVE  After(t)
<1>1. CASE tasks[u].state = "running"
  BY <1>1 DEF RunTask, After
<1>2. CASE tasks[u].state # "running"
  <2>1. tasks' = Begun(u)
    BY <1>2 DEF RunTask
  <2>2. /\ Len(tasks') = Len(tasks)
        /\ \A v \in 1..Len(tasks) : v # u => tasks'[v] = tasks[v]
        /\ tasks'[t].outcome = tasks[t].outcome /\ tasks'[t].cancelled = tasks[t].cancelled
    BY <2>1, BegunFacts DEF Base
  <2> QED BY <2>2 DEF After
<1> QED BY <1>1, <1>2

LEMMA TaskStep == ASSUME Base, Next, NEW t \in 1..Len(tasks) PROVE After(t)
<1>1. TablesOK /\ Len(tasks) \in Nat /\ DOMAIN tasks = 1..Len(tasks) /\ DOMAIN groups = 1..Len(groups)
  BY Lengths DEF Base
<1>2. CASE tasks' = tasks
  BY <1>2 DEF After
<1>3. CASE \E flag \in BOOLEAN : tasks' = Append(tasks, NewTask(flag))
  <2>1. Len(tasks') = Len(tasks) + 1 /\ tasks'[t] = tasks[t]
    BY <1>3, Appended
  <2>2. t \in 1..Len(tasks')
    BY <1>1, <2>1
  <2> QED BY <2>1, <2>2 DEF After
<1>4. CASE \E S : tasks' = [u \in Tasks |-> IF u \in S THEN [tasks[u] EXCEPT !.cancelled = TRUE] ELSE tasks[u]]
  <2>1. PICK S : tasks' = [u \in Tasks |-> IF u \in S THEN [tasks[u] EXCEPT !.cancelled = TRUE] ELSE tasks[u]]
    BY <1>4
  <2>2. /\ Len(tasks') = Len(tasks)
        /\ \A u \in 1..Len(tasks) : /\ tasks'[u].state = tasks[u].state
                                     /\ tasks'[u].outcome = tasks[u].outcome
                                     /\ tasks'[u].cancelled = (tasks[u].cancelled \/ u \in S)
    BY <2>1, Flagged, Zenon
  <2> QED BY <2>2 DEF After
<1>5. CASE Call
  <2>1. CASE (\E inherit \in BOOLEAN : Spawn(inherit)) \/ (\E g \in DOMAIN groups : AddTask(g))
    <3>1. CASE \E inherit \in BOOLEAN : Spawn(inherit)
      <4>1. PICK inherit \in BOOLEAN : Spawn(inherit)
        BY <3>1
      <4>2. (inherit /\ CurrentCancelled) \in BOOLEAN /\ tasks' = Append(tasks, NewTask(inherit /\ CurrentCancelled))
        BY <4>1, CurrentFlag DEF Spawn
      <4> QED BY <1>3, <4>2
    <3>2. CASE \E g \in DOMAIN groups : AddTask(g)
      BY <1>3, <3>2, CurrentFlag DEF AddTask
    <3> QED BY <2>1, <3>1, <3>2
  <2>2. CASE \E u \in Tasks : Cancel(u)
    <3>1. PICK u \in Tasks : tasks' = [tasks EXCEPT ![u].cancelled = TRUE]
      BY <2>2 DEF Cancel
    <3>2. tasks' = [v \in Tasks |-> IF v \in {u} THEN [tasks[v] EXCEPT !.cancelled = TRUE] ELSE tasks[v]]
      BY <3>1 DEF Tasks
    <3> QED BY <1>4, <3>2
  <2>3. CASE \E g \in DOMAIN groups : CancelAll(g)
    BY <1>4, <2>3 DEF CancelAll
  <2>4. CASE \E u \in Tasks : Await(u)
    BY <1>1, <2>4, AfterRun DEF Await, Tasks
  <2>5. CASE \E g \in DOMAIN groups : NextChild(g)
    <3>1. PICK g \in DOMAIN groups : NextChild(g)
      BY <2>5
    <3>2. Head(groups[g]) \in 1..Len(tasks)
      BY <3>1, GroupFacts DEF NextChild
    <3>3. tasks' = tasks \/ (tasks[Head(groups[g])].state # "done" /\ RunTask(Head(groups[g]), stack))
      BY <3>1 DEF NextChild
    <3> QED BY <1>2, <3>2, <3>3, AfterRun
  <2>6. CASE \/ \E u \in Tasks : AwaitFailed(u)
             \/ \E g \in DOMAIN groups, at \in {"drain", "collect"} : TakeGroup(g, at)
             \/ OpenGroup \/ OpenContinuation \/ OpenStream \/ ReadStream
             \/ \E c \in DOMAIN conts : Resume(c)
    <3>1. tasks' = tasks
      BY <2>6, Zenon DEF AwaitFailed, TakeGroup, OpenGroup, OpenContinuation, OpenStream, ReadStream, Resume, tables
    <3> QED BY <1>2, <3>1
  <2> QED BY <1>5, <2>1, <2>2, <2>3, <2>4, <2>5, <2>6 DEF Call
<1>6. CASE Loop
  <2>1. CASE DriveNext
    <3>1. PICK u \in Ahead(Head(Top.todo)) : RunTask(u, stack)
      BY <2>1 DEF DriveNext
    <3>2. u \in 1..Len(tasks) /\ tasks[u].state # "done"
      BY <1>1 DEF Ahead, Tasks
    <3> QED BY <3>1, <3>2, AfterRun
  <2>2. CASE ChildNext
    <3> DEFINE u == Head(Top.todo)
    <3>1. u \in 1..Len(tasks)
      BY <2>2, ChildNextFrame
    <3>2. tasks' = tasks \/ (tasks[u].state # "done" /\ RunTask(u, Replace([Top EXCEPT !.todo = Tail(@)])))
      BY <2>2 DEF ChildNext
    <3> QED BY <1>2, <3>1, <3>2, AfterRun
  <2>3. CASE DriveEnds \/ ChildrenEnd \/ LoopEnds \/ LoopFails
    <3>1. tasks' = tasks
      BY <2>3, Zenon DEF DriveEnds, ChildrenEnd, LoopEnds, LoopFails, tables
    <3> QED BY <1>2, <3>1
  <2> QED BY <1>6, <2>1, <2>2, <2>3 DEF Loop
<1>7. CASE End
  <2>1. PICK outcome \in Outcome : /\ BodyEnds(outcome)
                                   /\ failing => outcome = "error"
                                   /\ ~failing => outcome \in Outcomes
    BY <1>7, EndOutcome
  <2>2. CASE TaskEnds(outcome)
    <3>1. Completed(Top.id, outcome) /\ Top.id \in 1..Len(tasks)
      BY <2>1, <2>2, TopFacts DEF TaskEnds, FrameOK, BodyEnds
    <3>2. /\ Len(tasks') = Len(tasks)
          /\ tasks'[Top.id].state = "done" /\ tasks'[Top.id].outcome = outcome
          /\ \A u \in 1..Len(tasks) : u # Top.id => tasks'[u] = tasks[u]
          /\ tasks'[t].cancelled = tasks[t].cancelled
      BY <1>1, <3>1, CompletedFacts
    <3>3. outcome = "throw" => "throw" \in Outcomes
      <4>1. failing \in BOOLEAN
        BY <1>1 DEF TablesOK
      <4> QED BY <2>1, <4>1
    <3> QED BY <3>2, <3>3 DEF After
  <2>3. CASE ~TaskEnds(outcome)
    <3>1. tasks' = tasks
      BY <2>1, <2>3, Zenon DEF BodyEnds, GroupBodyEnds, ContinuationBodyEnds, StreamBodyEnds, MainEnds
    <3> QED BY <1>2, <3>1
  <2> QED BY <2>2, <2>3
<1> QED BY <1>5, <1>6, <1>7 DEF Next

\* A task that is new has not thrown.
LEMMA NewTaskStep ==
    ASSUME Base, Next, NEW t \in 1..Len(tasks'), t \notin 1..Len(tasks)
    PROVE  tasks'[t].outcome = "value"
<1>1. Len(tasks) \in Nat /\ DOMAIN groups = 1..Len(groups) /\ DOMAIN tasks = 1..Len(tasks)
  BY Lengths DEF Base
<1>2. CASE \E flag \in BOOLEAN : tasks' = Append(tasks, NewTask(flag))
  <2>1. Len(tasks') = Len(tasks) + 1 /\ tasks'[Len(tasks) + 1].outcome = "value"
    BY <1>2, Appended
  <2>2. t = Len(tasks) + 1
    BY <1>1, <2>1
  <2> QED BY <2>1, <2>2
<1>3. ASSUME Len(tasks') = Len(tasks) PROVE FALSE
  BY <1>3
<1>4. ASSUME NEW u \in 1..Len(tasks), NEW rest, RunTask(u, rest) PROVE Len(tasks') = Len(tasks)
  BY <1>4, BegunFacts DEF RunTask, Base
<1>5. CASE Call
  <2>1. CASE \E inherit \in BOOLEAN : Spawn(inherit)
    <3>1. PICK inherit \in BOOLEAN : Spawn(inherit)
      BY <2>1
    <3>2. (inherit /\ CurrentCancelled) \in BOOLEAN /\ tasks' = Append(tasks, NewTask(inherit /\ CurrentCancelled))
      BY <3>1, CurrentFlag DEF Spawn
    <3> QED BY <1>2, <3>2
  <2>2. CASE \E g \in DOMAIN groups : AddTask(g)
    BY <1>2, <2>2, CurrentFlag DEF AddTask
  <2>3. CASE \E u \in Tasks : Cancel(u)
    <3>1. PICK u \in Tasks : tasks' = [tasks EXCEPT ![u].cancelled = TRUE]
      BY <2>3 DEF Cancel
    <3>2. tasks' = [v \in Tasks |-> IF v \in {u} THEN [tasks[v] EXCEPT !.cancelled = TRUE] ELSE tasks[v]]
      BY <3>1 DEF Tasks
    <3>3. Len(tasks') = Len(tasks)
      BY <3>2, Flagged
    <3> QED BY <1>3, <3>3
  <2>4. CASE \E g \in DOMAIN groups : CancelAll(g)
    <3>1. \E S : tasks' = [v \in Tasks |-> IF v \in S THEN [tasks[v] EXCEPT !.cancelled = TRUE] ELSE tasks[v]]
      BY <2>4 DEF CancelAll
    <3>2. Len(tasks') = Len(tasks)
      BY <3>1, Flagged
    <3> QED BY <1>3, <3>2
  <2>5. CASE \E u \in Tasks : Await(u)
    BY <1>1, <1>3, <1>4, <2>5 DEF Await, Tasks
  <2>6. CASE \E g \in DOMAIN groups : NextChild(g)
    <3>1. PICK g \in DOMAIN groups : NextChild(g)
      BY <2>6
    <3>2. Head(groups[g]) \in 1..Len(tasks)
      BY <3>1, GroupFacts DEF NextChild
    <3>3. tasks' = tasks \/ RunTask(Head(groups[g]), stack)
      BY <3>1 DEF NextChild
    <3> QED BY <1>3, <1>4, <3>2, <3>3
  <2>7. CASE \/ \E u \in Tasks : AwaitFailed(u)
             \/ \E g \in DOMAIN groups, at \in {"drain", "collect"} : TakeGroup(g, at)
             \/ OpenGroup \/ OpenContinuation \/ OpenStream \/ ReadStream
             \/ \E c \in DOMAIN conts : Resume(c)
    <3>1. tasks' = tasks
      BY <2>7, Zenon DEF AwaitFailed, TakeGroup, OpenGroup, OpenContinuation, OpenStream, ReadStream, Resume, tables
    <3> QED BY <1>3, <3>1
  <2> QED BY <1>5, <2>1, <2>2, <2>3, <2>4, <2>5, <2>6, <2>7 DEF Call
<1>6. CASE Loop
  <2>1. CASE DriveNext
    <3>1. PICK u \in Ahead(Head(Top.todo)) : RunTask(u, stack)
      BY <2>1 DEF DriveNext
    <3>2. u \in 1..Len(tasks)
      BY <1>1 DEF Ahead, Tasks
    <3> QED BY <1>3, <1>4, <3>1, <3>2
  <2>2. CASE ChildNext
    <3> DEFINE u == Head(Top.todo)
    <3>1. u \in 1..Len(tasks)
      BY <2>2, ChildNextFrame
    <3>2. tasks' = tasks \/ RunTask(u, Replace([Top EXCEPT !.todo = Tail(@)]))
      BY <2>2 DEF ChildNext
    <3> QED BY <1>3, <1>4, <3>1, <3>2
  <2>3. CASE DriveEnds \/ ChildrenEnd \/ LoopEnds \/ LoopFails
    <3>1. tasks' = tasks
      BY <2>3, Zenon DEF DriveEnds, ChildrenEnd, LoopEnds, LoopFails, tables
    <3> QED BY <1>3, <3>1
  <2> QED BY <1>6, <2>1, <2>2, <2>3 DEF Loop
<1>7. CASE End
  <2>1. PICK outcome \in Outcome : BodyEnds(outcome)
    BY <1>7, EndOutcome
  <2>2. CASE TaskEnds(outcome)
    <3>1. Completed(Top.id, outcome) /\ Top.id \in 1..Len(tasks)
      BY <2>1, <2>2, TopFacts DEF TaskEnds, FrameOK, BodyEnds
    <3>2. Len(tasks') = Len(tasks)
      BY <3>1, CompletedFacts DEF Base
    <3> QED BY <1>3, <3>2
  <2>3. CASE ~TaskEnds(outcome)
    <3>1. tasks' = tasks
      BY <2>1, <2>3, Zenon DEF BodyEnds, GroupBodyEnds, ContinuationBodyEnds, StreamBodyEnds, MainEnds
    <3> QED BY <1>3, <3>1
  <2> QED BY <2>2, <2>3
<1> QED BY <1>5, <1>6, <1>7 DEF Next

\* What becomes of the children of a group.
Untouched(g) == groups'[g] = groups[g] /\ children'[g] = children[g] /\ cancelled'[g] = cancelled[g]
Added(g) ==
    /\ AddTask(g) /\ groups'[g] = Append(groups[g], NewId) /\ children'[g] = children[g] \cup {NewId}
    /\ cancelled'[g] = cancelled[g]
Taken(g) ==
    /\ children'[g] = children[g] /\ cancelled'[g] = cancelled[g]
    /\ \/ NextChild(g) /\ groups'[g] = Tail(groups[g])
       \/ (\E at \in {"drain", "collect"} : TakeGroup(g, at)) /\ groups'[g] = <<>>
       \/ \E outcome \in Outcome :
             BodyEnds(outcome) /\ GroupBodyEnds(outcome) /\ Top.id = g /\ groups'[g] = <<>>
AllCancelled(g) == CancelAll(g) /\ groups'[g] = groups[g] /\ children'[g] = children[g]

LEMMA GroupsStep ==
    ASSUME Base, Next, NEW g \in 1..Len(groups')
    PROVE  \/ g = Len(groups) + 1 /\ groups'[g] = <<>> /\ children'[g] = {} /\ cancelled'[g] = FALSE
           \/ g \in 1..Len(groups) /\ (Untouched(g) \/ Added(g) \/ Taken(g) \/ AllCancelled(g))
<1>1. /\ TablesOK /\ Len(groups) \in Nat /\ DOMAIN groups = 1..Len(groups) /\ groups \in Seq(Seq(Nat))
      /\ children \in Seq(SUBSET Nat) /\ Len(children) = Len(groups)
      /\ cancelled \in Seq(BOOLEAN) /\ Len(cancelled) = Len(groups)
  BY Lengths DEF Base, TablesOK
<1>2. CASE UNCHANGED <<groups, children, cancelled>>
  BY <1>2 DEF Untouched
<1>3. CASE OpenGroup
  <2>1. /\ groups' = Append(groups, <<>>) /\ cancelled' = Append(cancelled, FALSE)
        /\ children' = Append(children, {})
    BY <1>3 DEF OpenGroup
  <2>2. /\ Len(groups') = Len(groups) + 1 /\ groups'[Len(groups) + 1] = <<>>
        /\ \A h \in 1..Len(groups) : groups'[h] = groups[h]
    <3>1. <<>> \in Seq(Nat)
      OBVIOUS
    <3> QED BY <1>1, <2>1, <3>1, SeqFacts
  <2>3. /\ children'[Len(groups) + 1] = {} /\ cancelled'[Len(groups) + 1] = FALSE
        /\ \A h \in 1..Len(groups) : children'[h] = children[h] /\ cancelled'[h] = cancelled[h]
    <3>1. {} \in SUBSET Nat
      OBVIOUS
    <3>2. /\ children'[Len(groups) + 1] = {}
          /\ \A h \in 1..Len(groups) : children'[h] = children[h]
      BY <1>1, <2>1, <3>1, SeqFacts
    <3>3. /\ cancelled'[Len(groups) + 1] = FALSE
          /\ \A h \in 1..Len(groups) : cancelled'[h] = cancelled[h]
      <4> DEFINE flag == FALSE
      <4>1. flag \in BOOLEAN /\ cancelled' = Append(cancelled, flag)
        BY <2>1
      <4> HIDE DEF flag
      <4>2. /\ cancelled'[Len(groups) + 1] = flag
            /\ \A h \in 1..Len(groups) : cancelled'[h] = cancelled[h]
        <5> DEFINE c == cancelled
                   n == Len(groups)
        <5>1. c \in Seq(BOOLEAN) /\ Len(c) = n /\ cancelled' = Append(c, flag)
          BY <1>1, <4>1
        <5> HIDE DEF c
        <5>2. cancelled'[Len(c) + 1] = flag /\ \A h \in 1..Len(c) : cancelled'[h] = c[h]
          BY <4>1, <5>1, SeqFacts
        <5> QED BY <5>1, <5>2 DEF c
      <4> QED BY <4>2 DEF flag
    <3> QED BY <3>2, <3>3
  <2>4. g \in 1..Len(groups) \/ g = Len(groups) + 1
    BY <1>1, <2>2
  <2> QED BY <2>2, <2>3, <2>4 DEF Untouched
<1>4. ASSUME NEW h \in DOMAIN groups, NEW q \in Seq(Nat), groups' = [groups EXCEPT ![h] = q]
      PROVE  /\ g \in 1..Len(groups) /\ h \in 1..Len(groups)
             /\ g # h => groups'[g] = groups[g]
             /\ groups'[h] = q
  BY <1>1, <1>4, ExceptSeq
<1>5. CASE \E h \in DOMAIN groups : AddTask(h)
  <2>1. PICK h \in DOMAIN groups : AddTask(h)
    BY <1>5
  <2>2. /\ groups' = [groups EXCEPT ![h] = Append(@, NewId)]
        /\ children' = [children EXCEPT ![h] = @ \cup {NewId}] /\ cancelled' = cancelled
    BY <2>1 DEF AddTask
  <2>3. Append(groups[h], NewId) \in Seq(Nat) /\ NewId \in Nat
    BY <1>1, Lengths DEF NewId
  <2>4. /\ g \in 1..Len(groups) /\ h \in 1..Len(groups)
        /\ g # h => groups'[g] = groups[g]
        /\ groups'[h] = Append(groups[h], NewId)
    BY <1>4, <2>2, <2>3
  <2>5. children'[g] = IF g = h THEN children[g] \cup {NewId} ELSE children[g]
    <3>1. children[h] \cup {NewId} \in SUBSET Nat
      BY <1>1, <2>3, <2>4
    <3>2. \A k \in 1..Len(groups) :
             children'[k] = IF k = h THEN children[h] \cup {NewId} ELSE children[k]
      BY <1>1, <2>2, <2>4, <3>1, ExceptSeq
    <3> QED BY <2>4, <3>2
  <2> QED BY <2>1, <2>2, <2>4, <2>5 DEF Untouched, Added
<1>6. CASE \E h \in DOMAIN groups : NextChild(h)
  <2>1. PICK h \in DOMAIN groups : NextChild(h)
    BY <1>6
  <2>2. groups' = [groups EXCEPT ![h] = Tail(groups[h])] /\ UNCHANGED <<children, cancelled>> /\ groups[h] # <<>>
    BY <2>1 DEF NextChild
  <2>3. Tail(groups[h]) \in Seq(Nat)
    BY <2>2, GroupFacts
  <2>4. g \in 1..Len(groups) /\ (g # h => groups'[g] = groups[g])
    BY <1>4, <2>2, <2>3
  <2>5. groups'[h] = Tail(groups[h])
    BY <1>4, <2>2, <2>3
  <2> QED BY <1>4, <2>1, <2>2, <2>3, <2>4, <2>5 DEF Untouched, Taken
<1>7. CASE \E h \in DOMAIN groups, at \in {"drain", "collect"} : TakeGroup(h, at)
  <2>1. PICK h \in DOMAIN groups, at \in {"drain", "collect"} : TakeGroup(h, at)
    BY <1>7
  <2>2. groups' = [groups EXCEPT ![h] = <<>>] /\ UNCHANGED <<children, cancelled>>
    BY <2>1 DEF TakeGroup
  <2>3. <<>> \in Seq(Nat)
    OBVIOUS
  <2>4. g \in 1..Len(groups) /\ (g # h => groups'[g] = groups[g]) /\ groups'[h] = <<>>
    BY <1>4, <2>2, <2>3
  <2> QED BY <2>1, <2>2, <2>4 DEF Untouched, Taken
<1>8. CASE \E h \in DOMAIN groups : CancelAll(h)
  <2>1. PICK h \in DOMAIN groups : CancelAll(h)
    BY <1>8
  <2>2. cancelled' = [cancelled EXCEPT ![h] = TRUE] /\ UNCHANGED <<groups, children>>
    BY <2>1 DEF CancelAll
  <2>3. g \in 1..Len(groups) /\ (g # h => cancelled'[g] = cancelled[g])
    <3>1. g \in 1..Len(groups) /\ h \in 1..Len(cancelled)
      BY <1>1, <2>2
    <3> DEFINE flag == TRUE
    <3>2. flag \in BOOLEAN /\ cancelled' = [cancelled EXCEPT ![h] = flag]
      BY <2>2
    <3> HIDE DEF flag
    <3>3. \A k \in 1..Len(cancelled) : cancelled'[k] = IF k = h THEN flag ELSE cancelled[k]
      BY <1>1, <3>1, <3>2, ExceptSeq
    <3> QED BY <1>1, <3>1, <3>3
  <2> QED BY <2>1, <2>2, <2>3 DEF Untouched, AllCancelled
<1>9. CASE End
  <2>1. PICK outcome \in Outcome : BodyEnds(outcome)
    BY <1>9, EndOutcome
  <2>2. CASE GroupBodyEnds(outcome)
    <3>1. /\ Top.id \in 1..Len(groups) /\ Len(groups') = Len(groups) /\ groups'[Top.id] = <<>>
          /\ \A h \in 1..Len(groups) : h # Top.id => groups'[h] = groups[h]
      BY <2>1, <2>2, GroupEndFrame DEF BodyEnds
    <3>2. UNCHANGED <<children, cancelled>>
      BY <2>1 DEF BodyEnds
    <3> QED BY <2>1, <2>2, <3>1, <3>2 DEF Untouched, Taken
  <2>3. CASE ~GroupBodyEnds(outcome)
    <3>1. UNCHANGED <<groups, children, cancelled>>
      BY <2>1, <2>3, Zenon DEF BodyEnds, TaskEnds, ContinuationBodyEnds, StreamBodyEnds, MainEnds
    <3> QED BY <1>2, <3>1
  <2> QED BY <2>2, <2>3
<1>10. CASE Loop
  <2>1. UNCHANGED <<groups, children, cancelled>>
    BY <1>10, Zenon DEF Loop, DriveNext, DriveEnds, ChildNext, ChildrenEnd, LoopEnds, LoopFails, tables
  <2> QED BY <1>2, <2>1
<1>11. CASE \/ \E inherit \in BOOLEAN : Spawn(inherit)
            \/ \E t \in Tasks : Cancel(t) \/ Await(t) \/ AwaitFailed(t)
            \/ OpenContinuation \/ OpenStream \/ ReadStream
            \/ \E c \in DOMAIN conts : Resume(c)
  <2>1. UNCHANGED <<groups, children, cancelled>>
    BY <1>11, Zenon DEF Spawn, Cancel, Await, AwaitFailed, OpenContinuation, OpenStream, ReadStream, Resume, tables
  <2> QED BY <1>2, <2>1
<1> QED BY <1>3, <1>5, <1>6, <1>7, <1>8, <1>9, <1>10, <1>11 DEF Next, Call
-----------------------------------------------------------------------------
(* Groups                                                                  *)

\* A for await loop over a group runs all children before its first turn, and
\* a child that throws ends it: those it has not come to are dropped.  So what
\* a group promises is about programs that have not both.
KeepsAll == ~ForAwait \/ "throw" \notin Outcomes

\* A child that is running, or about to be run by the loop that took it out.
Doing(f, t) ==
    \/ f.kind = "task" /\ f.id = t
    \/ f.at \in {"drain", "collect"} /\ \E p \in DOMAIN f.todo : f.todo[p] = t

Left(g, t) == \E p \in DOMAIN groups[g] : groups[g][p] = t
FrameOf(i, g) == stack[i].kind = "group" /\ stack[i].id = g
Held(g, t) == \E i, j \in 1..Len(stack) : i <= j /\ FrameOf(i, g) /\ Doing(stack[j], t)

\* An error is on its way that the group, if it is open, waits with or fails by.
Failed(g) ==
    \/ failing
    \/ ended = "failed"
    \/ \E j \in 1..Len(stack) : stack[j].result = "error" /\ \A i \in 1..Len(stack) : FrameOf(i, g) => i <= j

Accounted ==
    \A g \in 1..Len(groups) : \A t \in children[g] :
        tasks[t].state = "done" \/ Left(g, t) \/ Held(g, t) \/ Failed(g)

OneFrame ==
    \A g \in 1..Len(groups) : \A i, k \in 1..Len(stack) : FrameOf(i, g) /\ FrameOf(k, g) => i = k

GroupOpen ==
    \A g \in 1..Len(groups) :
        groups[g] # <<>> => \E i \in 1..Len(stack) : FrameOf(i, g) /\ stack[i].at = "script"

NoDrops ==
    /\ ForAwait \/ \A i \in 1..Len(stack) : stack[i].at # "collect"
    /\ "throw" \in Outcomes \/ \A t \in 1..Len(tasks) : tasks[t].outcome # "throw"

GroupInv == Base /\ NoDrops /\ OneFrame /\ GroupOpen /\ Accounted /\ CancelReachesGroup

LEMMA Shapes ==
    ASSUME Base, Next
    PROVE  /\ stack # <<>> /\ Len(stack) \in Nat \ {0} /\ stack \in Seq(FrameType)
           /\ DOMAIN stack = 1..Len(stack) /\ Len(stack) \in 1..Len(stack)
           /\ stack' \in Seq(FrameType) /\ Len(stack') \in Nat /\ DOMAIN stack' = 1..Len(stack')
           /\ Base'
           /\ \A i \in 1..Len(stack) : i \in 1..(Len(stack) - 1) \/ i = Len(stack)
           /\ \A i \in 1..(Len(stack) - 1) : i \in 1..Len(stack)
<1>1. stack # <<>> /\ Base'
  BY StepsOnStack, BaseNext
<1>2. stack \in Seq(FrameType) /\ stack' \in Seq(FrameType)
  BY <1>1 DEF Base, StackOK
<1>3. Len(stack) \in Nat \ {0} /\ Len(stack') \in Nat
  BY <1>1, <1>2, TopFacts
<1> QED BY <1>1, <1>2, <1>3

\* A frame of a group stays until the group has ended.
LEMMA OldFrameOf ==
    ASSUME Base, Next, NEW g \in 1..Len(groups), NEW k \in 1..Len(stack'), FrameOf(k, g)'
    PROVE  k \in 1..Len(stack) /\ FrameOf(k, g)
<1>1. Len(groups) \in Nat
  BY Lengths DEF Base
<1>2. Old(k) \/ Opened(stack'[k])
  BY Fresh
<1> QED BY <1>1, <1>2 DEF Old, Opened, FrameOf

LEMMA FrameBelowStays ==
    ASSUME Base, Next, NEW g, NEW i \in 1..(Len(stack) - 1), FrameOf(i, g)
    PROVE  Stays(i) /\ i \in 1..Len(stack') /\ FrameOf(i, g)' /\ stack'[i].at = stack[i].at
BY Under DEF FrameOf, Stays, Like

LEMMA FailStays ==
    ASSUME Base, Next, NEW g \in 1..Len(groups), Failed(g)
    PROVE  Failed(g)'
<1>1. /\ stack # <<>> /\ Len(stack) \in Nat \ {0} /\ Len(stack) \in 1..Len(stack)
      /\ \A i \in 1..Len(stack) : i \in 1..(Len(stack) - 1) \/ i = Len(stack)
  BY Shapes
<1>2. ended # "failed"
  BY <1>1 DEF Base, TablesOK
<1>3. ASSUME NEW j \in 1..Len(stack'), stack'[j].result = "error",
             \A k \in 1..Len(stack') : FrameOf(k, g)' => k <= j
      PROVE  Failed(g)'
  BY <1>3 DEF Failed
<1>4. CASE failing
  <2>1. LoopFails \/ End
    BY <1>4, CallInScript, Zenon DEF Next, Loop, InScript, DriveNext, DriveEnds, ChildNext, ChildrenEnd,
       Driving, TakingChildren
  <2>2. CASE LoopFails
    <3>1. failing' = (Top.kind # "main") /\ ended' = IF Top.kind = "main" THEN "failed" ELSE ended
      BY <2>2 DEF LoopFails
    <3> QED BY <3>1 DEF Failed
  <2>3. CASE End
    <3>1. PICK outcome \in Outcome : BodyEnds(outcome) /\ outcome = "error"
      BY <1>4, <2>3, EndOutcome
    <3>2. CASE GroupBodyEnds(outcome)
      <4>1. /\ Len(stack) \in 1..Len(stack') /\ stack'[Len(stack)].result = "error"
            /\ Len(stack') = Len(stack)
        BY <1>1, <3>1, <3>2, GroupEndFrame
      <4>2. \A k \in 1..Len(stack') : k <= Len(stack)
        BY <1>1, <4>1
      <4> QED BY <1>3, <4>1, <4>2
    <3>3. CASE MainEnds(outcome)
      <4>1. ended' = "failed"
        BY <3>1, <3>3 DEF MainEnds
      <4> QED BY <4>1 DEF Failed
    <3>4. CASE TaskEnds(outcome) \/ ContinuationBodyEnds(outcome) \/ StreamBodyEnds(outcome)
      <4>1. failing' = (outcome = "error")
        BY <3>4, Zenon DEF TaskEnds, ContinuationBodyEnds, StreamBodyEnds
      <4> QED BY <3>1, <4>1 DEF Failed
    <3> QED BY <3>1, <3>2, <3>3, <3>4 DEF BodyEnds
  <2> QED BY <2>1, <2>2, <2>3
<1>5. CASE ~failing
  <2>1. PICK j \in 1..Len(stack) :
           stack[j].result = "error" /\ \A i \in 1..Len(stack) : FrameOf(i, g) => i <= j
    BY <1>2, <1>5 DEF Failed
  <2>2. stack[j].kind = "group" /\ stack[j].at = "drain"
    BY <2>1 DEF Base, StackOK, FrameOK
  <2>3. \A k \in 1..Len(stack') : FrameOf(k, g)' => k <= j
    BY <2>1, OldFrameOf
  <2>4. CASE j \in 1..(Len(stack) - 1)
    <3>1. Stays(j)
      BY <2>2, <2>4, Under
    <3> QED BY <1>3, <2>1, <2>3, <3>1 DEF Stays, Like
  <2>5. CASE j = Len(stack)
    <3>1. Top.at = "drain" /\ Top.result = "error"
      BY <2>1, <2>2, <2>5 DEF Top
    <3>2. ChildNext \/ ChildrenEnd
      BY <1>5, <3>1, CallInScript DEF Next, Loop, InScript, DriveNext, DriveEnds, LoopFails, Driving, End, BodyEnds
    <3>3. CASE ChildNext
      <4>1. Len(stack) \in 1..Len(stack') /\ stack'[Len(stack)].result = "error"
        BY <3>1, <3>3, ChildNextFrame
      <4> QED BY <1>3, <2>3, <2>5, <4>1
    <3>4. CASE ChildrenEnd
      <4>1. failing' = (Top.result = "error")
        BY <3>4 DEF ChildrenEnd
      <4> QED BY <3>1, <4>1 DEF Failed
    <3> QED BY <3>2, <3>3, <3>4
  <2> QED BY <1>1, <2>4, <2>5
<1> QED BY <1>4, <1>5

LEMMA NoDropsStep == ASSUME Base, NoDrops, Next PROVE NoDrops'
<1>1. ASSUME ~ForAwait, NEW k \in 1..Len(stack') PROVE stack'[k].at # "collect"
  <2>1. Old(k) \/ Opened(stack'[k])
    BY Fresh
  <2> QED BY <1>1, <2>1 DEF NoDrops, Old, Opened
<1>2. ASSUME "throw" \notin Outcomes, NEW t \in 1..Len(tasks') PROVE tasks'[t].outcome # "throw"
  <2>1. CASE t \in 1..Len(tasks)
    BY <1>2, <2>1, TaskStep DEF After, NoDrops
  <2>2. CASE t \notin 1..Len(tasks)
    BY <2>2, NewTaskStep
  <2> QED BY <2>1, <2>2
<1>3. ForAwait \in BOOLEAN
  BY OutcomesOK
<1> QED BY <1>1, <1>2, <1>3 DEF NoDrops

LEMMA OneFrameStep == ASSUME Base, OneFrame, Next PROVE OneFrame'
<1> SUFFICES ASSUME NEW g \in 1..Len(groups'), NEW i \in 1..Len(stack'), NEW k \in 1..Len(stack'),
                    FrameOf(i, g)', FrameOf(k, g)'
             PROVE  i = k
  BY DEF OneFrame
<1>1. CASE g \in 1..Len(groups)
  BY <1>1, OldFrameOf DEF OneFrame
<1>2. CASE g \notin 1..Len(groups)
  <2>1. ASSUME NEW j \in 1..Len(stack'), FrameOf(j, g)' PROVE j = Len(stack) + 1
    <3>1. Old(j) \/ j = Len(stack) + 1
      BY Fresh
    <3>2. ~Old(j)
      <4> SUFFICES ASSUME Old(j) PROVE FALSE
        OBVIOUS
      <4>1. j \in 1..Len(stack) /\ stack[j].kind = "group" /\ stack[j].id = g
        BY <2>1 DEF Old, FrameOf
      <4>2. FrameOK(stack[j], Len(tasks), Len(groups), Len(conts))
        BY <4>1 DEF Base, StackOK
      <4> QED BY <1>2, <4>1, <4>2 DEF FrameOK
    <3> QED BY <3>1, <3>2
  <2> QED BY <2>1
<1> QED BY <1>1, <1>2

LEMMA UsableFrame ==
    ASSUME Base, NEW g, Usable(g)
    PROVE  \E i \in 1..Len(stack) :
              FrameOf(i, g) /\ stack[i].at = "script" /\ \A j \in (i + 1)..Len(stack) : stack[j].kind # "task"
<1>1. DOMAIN stack = 1..Len(stack)
  BY DEF Base, StackOK
<1> QED BY <1>1 DEF Usable, FrameOf

LEMMA GroupOpenStep == ASSUME Base, GroupOpen, OneFrame, Next PROVE GroupOpen'
<1> SUFFICES ASSUME NEW g \in 1..Len(groups'), groups'[g] # <<>>
             PROVE  \E i \in 1..Len(stack') : FrameOf(i, g)' /\ stack'[i].at = "script"
  BY DEF GroupOpen
<1>1. /\ Len(stack) \in Nat \ {0} /\ \A i \in 1..Len(stack) : i \in 1..(Len(stack) - 1) \/ i = Len(stack)
      /\ stack # <<>> /\ DOMAIN stack = 1..Len(stack)
  BY Shapes
<1>2. g \in 1..Len(groups)
  BY GroupsStep
<1>3. PICK i \in 1..Len(stack) : FrameOf(i, g) /\ stack[i].at = "script"
  <2>1. CASE Added(g)
    BY <2>1, UsableFrame DEF Added, AddTask
  <2>2. CASE groups[g] # <<>>
    BY <1>2, <2>2 DEF GroupOpen
  <2>3. CASE Taken(g) /\ groups[g] = <<>>
    BY <2>3 DEF Taken, NextChild
  <2> QED BY <1>2, <2>1, <2>2, <2>3, GroupsStep DEF Untouched, AllCancelled
<1>4. ASSUME Stays(i) PROVE \E k \in 1..Len(stack') : FrameOf(k, g)' /\ stack'[k].at = "script"
  BY <1>3, <1>4 DEF Stays, Like, FrameOf
<1>5. CASE i \in 1..(Len(stack) - 1)
  BY <1>3, <1>4, <1>5, FrameBelowStays
<1>6. CASE i = Len(stack)
  <2>1. Top.kind = "group" /\ Top.id = g /\ Top.at = "script"
    BY <1>3, <1>6 DEF FrameOf, Top
  <2>2. CASE Call \/ DriveNext \/ LoopEnds
    BY <1>4, <2>2, CallStays
  <2>3. ~DriveEnds /\ ~ChildNext /\ ~ChildrenEnd /\ ~LoopFails
    BY <2>1 DEF DriveEnds, ChildNext, ChildrenEnd, LoopFails, Driving, TakingChildren
  <2>4. CASE End
    <3>1. PICK outcome \in Outcome : BodyEnds(outcome)
      BY <2>4, EndOutcome
    <3>2. GroupBodyEnds(outcome)
      BY <2>1, <3>1 DEF BodyEnds, TaskEnds, ContinuationBodyEnds, StreamBodyEnds, MainEnds
    <3>3. groups'[Top.id] = <<>>
      BY <1>1, <3>2, GroupEndFrame
    <3> QED BY <2>1, <3>3
  <2> QED BY <2>2, <2>3, <2>4 DEF Next, Loop
<1> QED BY <1>1, <1>5, <1>6

LEMMA DoingStays ==
    ASSUME NEW j \in 1..Len(stack), NEW t, Stays(j), Doing(stack[j], t)
    PROVE  j \in 1..Len(stack') /\ Doing(stack'[j], t)
BY DEF Stays, Like, Doing

\* A child that runs, or is about to, goes on to do so until it is done.
LEMMA HeldStays ==
    ASSUME Base, NoDrops, KeepsAll, Next, NEW g, NEW t \in 1..Len(tasks), Held(g, t),
           ~failing, ~failing'
    PROVE  Held(g, t)' \/ tasks'[t].state = "done"
<1>1. /\ stack # <<>> /\ Len(stack) \in Nat \ {0} /\ Len(stack) \in 1..Len(stack) /\ Len(stack') \in Nat
      /\ \A i \in 1..Len(stack) : i \in 1..(Len(stack) - 1) \/ i = Len(stack)
      /\ \A i \in 1..(Len(stack) - 1) : i \in 1..Len(stack)
  BY Shapes
<1>2. PICK i \in 1..Len(stack), j \in 1..Len(stack) : i <= j /\ FrameOf(i, g) /\ Doing(stack[j], t)
  BY DEF Held
<1>3. ASSUME NEW a \in 1..Len(stack'), NEW b \in 1..Len(stack'), a <= b, FrameOf(a, g)', Doing(stack'[b], t)
      PROVE  Held(g, t)'
  BY <1>3 DEF Held
<1>4. ASSUME NEW k \in 1..Len(stack), Stays(k), FrameOf(k, g) PROVE k \in 1..Len(stack') /\ FrameOf(k, g)'
  BY <1>4 DEF Stays, Like, FrameOf
<1>5. CASE j \in 1..(Len(stack) - 1)
  <2>1. i \in 1..(Len(stack) - 1)
    BY <1>1, <1>2, <1>5
  <2>2. Stays(j)
    <3>1. ~(stack[j].at = "collect" /\ "throw" \in Outcomes)
      BY DEF NoDrops, KeepsAll
    <3> QED BY <1>5, <3>1, Under
  <2> QED BY <1>2, <1>3, <2>1, <2>2, FrameBelowStays, DoingStays
<1>6. CASE j = Len(stack)
  <2>1. Doing(Top, t) /\ FrameOK(Top, Len(tasks), Len(groups), Len(conts))
    BY <1>1, <1>2, <1>6, TopFacts DEF Top
  <2>2. CASE Call \/ DriveNext \/ LoopEnds
    <3>1. Stays(i) /\ Stays(j)
      BY <2>2, CallStays
    <3> QED BY <1>2, <1>3, <1>4, <3>1, DoingStays
  <2>3. ~DriveEnds
    BY <2>1 DEF DriveEnds, Driving, Doing, FrameOK
  <2>4. CASE ChildNext
    <3> DEFINE u == Head(Top.todo)
               top == Len(stack)
    <3>1. /\ Top.kind \in {"loop", "group"} /\ u \in 1..Len(tasks)
          /\ \/ /\ Top.at = "collect" /\ tasks[u].outcome = "throw"
             \/ /\ top \in 1..Len(stack')
                /\ stack'[top].kind = Top.kind /\ stack'[top].id = Top.id /\ stack'[top].at = Top.at
                /\ \A p \in DOMAIN Top.todo :
                      \/ Top.todo[p] = u
                      \/ \E q \in DOMAIN stack'[top].todo : stack'[top].todo[q] = Top.todo[p]
                /\ \/ tasks[u].state = "done"
                   \/ tasks[u].state = "running" /\ failing'
                   \/ top + 1 \in 1..Len(stack') /\ stack'[top + 1].kind = "task" /\ stack'[top + 1].id = u
      BY <2>4, ChildNextFrame
    <3> HIDE DEF u
    <3>2. ~(Top.at = "collect" /\ tasks[u].outcome = "throw")
      BY <1>1, <3>1 DEF NoDrops, KeepsAll, Top
    <3>3. PICK p \in DOMAIN Top.todo : Top.todo[p] = t
      BY <2>1, <3>1 DEF Doing
    <3>4. Top.at \in {"drain", "collect"}
      BY <2>1, <3>1 DEF Doing
    <3>5. i \in 1..Len(stack') /\ FrameOf(i, g)' /\ i <= top
      <4>1. CASE i \in 1..(Len(stack) - 1)
        BY <1>1, <1>2, <4>1, FrameBelowStays
      <4>2. CASE i = Len(stack)
        BY <1>1, <1>2, <3>1, <3>2, <4>2 DEF FrameOf, Top
      <4> QED BY <1>1, <4>1, <4>2
    <3>6. CASE t # u
      <4>1. Doing(stack'[top], t)
        BY <3>1, <3>2, <3>3, <3>4, <3>6 DEF Doing
      <4> QED BY <1>3, <3>1, <3>2, <3>5, <4>1
    <3>7. CASE t = u /\ tasks[u].state = "done"
      BY <3>7, TaskStep DEF After
    <3>8. CASE t = u /\ tasks[u].state # "done"
      <4>1. top + 1 \in 1..Len(stack') /\ Doing(stack'[top + 1], t)
        BY <3>1, <3>2, <3>8 DEF Doing
      <4>2. i <= top + 1
        BY <1>1, <3>5
      <4> QED BY <1>3, <3>5, <4>1, <4>2
    <3> QED BY <3>6, <3>7, <3>8
  <2>5. ~ChildrenEnd
    <3> SUFFICES ASSUME ChildrenEnd PROVE FALSE
      OBVIOUS
    <3>1. TakingChildren /\ Top.todo = <<>>
      BY DEF ChildrenEnd
    <3>2. Top.kind # "task" /\ DOMAIN Top.todo = {}
      BY <3>1, ChildFrame
    <3> QED BY <2>1, <3>2 DEF Doing
  <2>6. ~LoopFails
    BY DEF LoopFails
  <2>7. CASE End
    <3>1. PICK outcome \in Outcome : BodyEnds(outcome)
      BY <2>7, EndOutcome
    <3>2. Top.kind = "task" /\ Top.id = t
      BY <2>1, <3>1 DEF BodyEnds, Doing
    <3>3. TaskEnds(outcome)
      BY <3>1, <3>2 DEF BodyEnds, GroupBodyEnds, ContinuationBodyEnds, StreamBodyEnds, MainEnds
    <3>4. Completed(t, outcome)
      BY <3>2, <3>3 DEF TaskEnds
    <3> QED BY <3>4, CompletedFacts DEF Base
  <2> QED BY <2>2, <2>3, <2>4, <2>5, <2>6, <2>7 DEF Next, Loop
<1> QED BY <1>1, <1>5, <1>6

\* A child taken out of its group is run on the stack of the group's body.
LEMMA TakenIsHeld ==
    ASSUME Base, Next, NEW g \in 1..Len(groups), Taken(g), NEW t \in 1..Len(tasks), Left(g, t), ~failing'
    PROVE  Left(g, t)' \/ Held(g, t)' \/ tasks'[t].state = "done"
<1>1. /\ stack # <<>> /\ Len(stack) \in Nat \ {0} /\ Len(stack') \in Nat /\ Len(stack) \in 1..Len(stack)
  BY Shapes
<1>2. /\ g \in DOMAIN groups /\ groups[g] \in Seq(Nat) /\ TablesOK /\ g \in Nat
  BY Lengths, GroupFacts DEF Base
<1>3. PICK p \in DOMAIN groups[g] : groups[g][p] = t
  BY DEF Left
<1>4. groups[g] # <<>>
  BY <1>3
<1>5. ASSUME NEW f \in FrameType, stack' = Append(stack, f), Usable(g), Doing(f, t) PROVE Held(g, t)'
  <2>1. PICK i \in 1..Len(stack) : FrameOf(i, g)
    BY <1>5, UsableFrame
  <2>2. Len(stack') = Len(stack) + 1 /\ stack'[Len(stack) + 1] = f /\ stack'[i] = stack[i]
    BY <1>5, PushFrames
  <2>3. i \in 1..Len(stack') /\ Len(stack) + 1 \in 1..Len(stack') /\ i <= Len(stack) + 1
    BY <1>1, <2>2
  <2>4. FrameOf(i, g)'
    BY <2>1, <2>2 DEF FrameOf
  <2> QED BY <1>5, <2>2, <2>3, <2>4 DEF Held
<1>6. CASE NextChild(g) /\ groups'[g] = Tail(groups[g])
  <2>1. Usable(g) /\ (tasks[Head(groups[g])].state # "done" => RunTask(Head(groups[g]), stack))
    BY <1>6 DEF NextChild
  <2>2. Head(groups[g]) = groups[g][1]
        /\ (p = 1 \/ \E q \in DOMAIN Tail(groups[g]) : Tail(groups[g])[q] = groups[g][p])
    BY <1>2, <1>4, GroupFacts
  <2>3. CASE p # 1
    BY <1>3, <1>6, <2>2, <2>3 DEF Left
  <2>4. CASE p = 1
    <3>1. Head(groups[g]) = t
      BY <1>3, <2>2, <2>4
    <3>2. CASE tasks[t].state = "done"
      BY <3>2, TaskStep DEF After
    <3>3. CASE tasks[t].state = "running"
      BY <2>1, <3>1, <3>3 DEF RunTask
    <3>4. CASE tasks[t].state \notin {"done", "running"}
      <4> DEFINE none == <<>>
                 f == Frame("task", t, "script", none)
      <4>1. stack' = Append(stack, f)
        BY <2>1, <3>1, <3>4 DEF RunTask
      <4>2. none \in Seq(Nat) /\ t \in Nat
        BY Lengths DEF Base
      <4>3. f \in FrameType /\ f.kind = "task" /\ f.id = t
        <5> HIDE DEF none
        <5> QED BY <4>2, NewFrame DEF Kinds, Ats
      <4> HIDE DEF f
      <4>4. Doing(f, t)
        BY <4>3 DEF Doing
      <4> QED BY <1>5, <2>1, <4>1, <4>3, <4>4
    <3> QED BY <3>2, <3>3, <3>4
  <2> QED BY <2>3, <2>4
<1>7. CASE \E at \in {"drain", "collect"} : TakeGroup(g, at)
  <2>1. PICK at \in {"drain", "collect"} : TakeGroup(g, at)
    BY <1>7
  <2> DEFINE f == Frame("loop", g, at, groups[g])
  <2>2. stack' = Append(stack, f) /\ Usable(g)
    BY <2>1 DEF TakeGroup
  <2>3. f \in FrameType /\ f.at = at /\ f.todo = groups[g]
    BY <1>2, NewFrame DEF Kinds, Ats
  <2> HIDE DEF f
  <2>4. Doing(f, t)
    BY <1>3, <2>3 DEF Doing
  <2> QED BY <1>5, <2>2, <2>3, <2>4
<1>8. CASE \E outcome \in Outcome : BodyEnds(outcome) /\ GroupBodyEnds(outcome) /\ Top.id = g
  <2>1. PICK k \in 1..Len(stack) : k = Len(stack)
    BY <1>1
  <2>2. /\ k \in 1..Len(stack') /\ stack'[k].kind = "group" /\ stack'[k].id = g
        /\ stack'[k].at = "drain" /\ stack'[k].todo = groups[g]
    BY <1>1, <1>8, <2>1, GroupEndFrame
  <2>3. Doing(stack'[k], t)
    BY <1>3, <2>2 DEF Doing
  <2>4. FrameOf(k, g)'
    BY <2>2 DEF FrameOf
  <2>5. k <= k
    BY <2>1, <1>1
  <2> QED BY <2>2, <2>3, <2>4, <2>5 DEF Held
<1> QED BY <1>6, <1>7, <1>8 DEF Taken

LEMMA AccountedStep ==
    ASSUME Base, NoDrops, KeepsAll, Accounted, Next
    PROVE  Accounted'
<1> SUFFICES ASSUME NEW g \in 1..Len(groups'), NEW t \in children'[g], ~Failed(g)'
             PROVE  tasks'[t].state = "done" \/ Left(g, t)' \/ Held(g, t)'
  BY DEF Accounted
<1>1. g \in 1..Len(groups)
  BY GroupsStep
<1>2. ~Failed(g) /\ ~failing /\ ~failing'
  BY <1>1, FailStays DEF Failed
<1>3. /\ groups[g] \in Seq(Nat) /\ children[g] \subseteq 1..Len(tasks) /\ g \in DOMAIN groups
      /\ Len(tasks) \in Nat
  BY <1>1, Lengths DEF Base, TablesOK
<1>4. CASE Added(g) /\ t \notin children[g]
  <2> DEFINE q == groups[g]
  <2>1. groups'[g] = Append(q, t) /\ t \in Nat /\ q \in Seq(Nat)
    BY <1>3, <1>4 DEF Added, NewId
  <2> HIDE DEF q
  <2>2. groups'[g][Len(q) + 1] = t /\ Len(q) + 1 \in DOMAIN groups'[g]
    BY <2>1
  <2> QED BY <2>2 DEF Left
<1>5. CASE t \in children[g]
  <2>1. t \in 1..Len(tasks)
    BY <1>3, <1>5
  <2>2. CASE tasks[t].state = "done"
    BY <2>1, <2>2, TaskStep DEF After
  <2>3. CASE Held(g, t)
    BY <1>2, <2>1, <2>3, HeldStays
  <2>4. CASE Left(g, t)
    <3>1. CASE Untouched(g) \/ AllCancelled(g)
      BY <2>4, <3>1 DEF Untouched, AllCancelled, Left
    <3>2. CASE Added(g)
      <4> DEFINE q == groups[g]
      <4>1. groups'[g] = Append(q, NewId) /\ q \in Seq(Nat) /\ NewId \in Nat
        BY <1>3, <3>2 DEF Added, NewId
      <4>2. PICK p \in DOMAIN q : q[p] = t
        BY <2>4 DEF Left
      <4> HIDE DEF q
      <4>3. p \in DOMAIN groups'[g] /\ groups'[g][p] = t
        BY <4>1, <4>2
      <4> QED BY <4>3 DEF Left
    <3>3. CASE Taken(g)
      BY <1>1, <1>2, <2>1, <2>4, <3>3, TakenIsHeld
    <3> QED BY <1>1, <3>1, <3>2, <3>3, GroupsStep
  <2> QED BY <1>1, <1>2, <1>5, <2>2, <2>3, <2>4 DEF Accounted
<1> QED BY <1>1, <1>4, <1>5, GroupsStep DEF Untouched, Added, Taken, AllCancelled
-----------------------------------------------------------------------------
(* Cancelling a group                                                      *)

\* While a body uses its group no child that was taken out is still to be run:
\* it would be above the body, or in a loop with the body above it.
LEMMA Reachable ==
    ASSUME Base, OneFrame, Accounted, InScript, NEW g \in 1..Len(groups), Usable(g),
           NEW t \in children[g]
    PROVE  tasks[t].state = "done" \/ Left(g, t)
<1>1. /\ stack # <<>> /\ Top.at = "script" /\ ~failing /\ ended # "failed"
      /\ Len(stack) \in Nat \ {0} /\ Top = stack[Len(stack)]
  BY TopFacts DEF InScript, Base, TablesOK
<1>2. PICK i \in 1..Len(stack) :
         FrameOf(i, g) /\ stack[i].at = "script" /\ \A j \in (i + 1)..Len(stack) : stack[j].kind # "task"
  BY UsableFrame
<1>3. ASSUME NEW j \in 1..Len(stack), i < j, stack[j].at # "script" PROVE FALSE
  <2>1. j # Len(stack)
    BY <1>1, <1>3
  <2>2. j \in 1..(Len(stack) - 1) /\ j + 1 \in (i + 1)..Len(stack)
    BY <1>1, <1>3, <2>1
  <2>3. stack[j + 1].kind = "task"
    BY <1>3, <2>2 DEF Base, StackOK
  <2> QED BY <1>2, <2>2, <2>3
<1>4. \A k \in 1..Len(stack) : FrameOf(k, g) => k = i
  BY <1>2 DEF OneFrame
<1>5. ~Held(g, t)
  <2> SUFFICES ASSUME NEW j \in 1..Len(stack), i <= j, Doing(stack[j], t) PROVE FALSE
    BY <1>4 DEF Held
  <2>1. CASE i = j
    BY <1>2, <2>1 DEF Doing, FrameOf
  <2>2. CASE i # j
    <3>1. i < j /\ j \in (i + 1)..Len(stack)
      BY <1>1, <2>2
    <3>2. stack[j].kind # "task" /\ stack[j].at = "script"
      BY <1>2, <1>3, <3>1
    <3> QED BY <3>2 DEF Doing
  <2> QED BY <2>1, <2>2
<1>6. ~Failed(g)
  <2> SUFFICES ASSUME NEW j \in 1..Len(stack), stack[j].result = "error", i <= j PROVE FALSE
    BY <1>1, <1>2 DEF Failed
  <2>1. stack[j].at = "drain"
    BY DEF Base, StackOK, FrameOK
  <2>2. i # j
    BY <1>2, <2>1
  <2>3. i < j
    BY <1>1, <2>2
  <2> QED BY <1>3, <2>1, <2>3
<1> QED BY <1>5, <1>6 DEF Accounted

LEMMA CancelStep ==
    ASSUME Base, OneFrame, Accounted, CancelReachesGroup, Next
    PROVE  CancelReachesGroup'
<1>1. /\ DOMAIN groups = 1..Len(groups) /\ DOMAIN groups' = 1..Len(groups')
      /\ Len(tasks) \in Nat /\ Base'
  BY BaseNext, Lengths DEF Base
<1> SUFFICES ASSUME NEW g \in 1..Len(groups'), cancelled'[g], NEW t \in children'[g]
             PROVE  tasks'[t].state = "done" \/ tasks'[t].cancelled
  BY <1>1 DEF CancelReachesGroup
<1>2. g \in 1..Len(groups) /\ (Untouched(g) \/ Added(g) \/ Taken(g) \/ AllCancelled(g))
  BY GroupsStep
<1>3. children[g] \subseteq 1..Len(tasks) /\ g \in DOMAIN groups
  BY <1>1, <1>2 DEF Base, TablesOK
<1>4. ASSUME t \in children[g], cancelled[g] PROVE tasks'[t].state = "done" \/ tasks'[t].cancelled
  <2>1. tasks[t].state = "done" \/ tasks[t].cancelled
    BY <1>3, <1>4 DEF CancelReachesGroup
  <2>2. After(t)
    BY <1>3, <1>4, TaskStep
  <2> QED BY <2>1, <2>2 DEF After
<1>5. CASE Untouched(g) \/ Taken(g)
  BY <1>4, <1>5 DEF Untouched, Taken
<1>6. CASE Added(g)
  <2>1. cancelled[g] /\ (t \in children[g] \/ t = NewId)
    BY <1>6 DEF Added
  <2>2. CASE t = NewId
    <3>1. tasks' = Append(tasks, NewTask(BornCancelled(g))) /\ BornCancelled(g) \in BOOLEAN
      BY <1>3, <1>6, CurrentFlag DEF Added, AddTask
    <3>2. tasks'[Len(tasks) + 1].cancelled = BornCancelled(g)
      BY <3>1, Appended
    <3> QED BY <2>1, <2>2, <3>2 DEF NewId, BornCancelled
  <2> QED BY <1>4, <2>1, <2>2
<1>7. CASE AllCancelled(g)
  <2>1. /\ InScript /\ Usable(g) /\ t \in children[g] /\ t \in 1..Len(tasks)
        /\ tasks' = [u \in Tasks |->
                       IF u \in Range(groups[g]) THEN [tasks[u] EXCEPT !.cancelled = TRUE] ELSE tasks[u]]
    BY <1>3, <1>7 DEF AllCancelled, CancelAll
  <2>2. tasks'[t].cancelled = (tasks[t].cancelled \/ t \in Range(groups[g]))
    <3> DEFINE S == Range(groups[g])
    <3>1. tasks' = [u \in Tasks |-> IF u \in S THEN [tasks[u] EXCEPT !.cancelled = TRUE] ELSE tasks[u]]
      BY <2>1
    <3> HIDE DEF S
    <3>2. \A u \in 1..Len(tasks) : /\ tasks'[u].state = tasks[u].state
                                    /\ tasks'[u].outcome = tasks[u].outcome
                                    /\ tasks'[u].cancelled = (tasks[u].cancelled \/ u \in S)
      BY <3>1, Flagged, Zenon
    <3> QED BY <2>1, <3>2 DEF S
  <2>3. CASE tasks[t].state = "done"
    BY <2>1, <2>3, TaskStep DEF After
  <2>4. CASE Left(g, t)
    BY <2>2, <2>4 DEF Left, Range
  <2> QED BY <1>2, <2>1, <2>3, <2>4, Reachable
<1> QED BY <1>2, <1>5, <1>6, <1>7
-----------------------------------------------------------------------------
(* What a group promises                                                   *)

LEMMA GroupInit == Init => GroupInv
<1> SUFFICES ASSUME Init PROVE GroupInv
  OBVIOUS
<1>1. Base /\ groups = <<>> /\ Len(groups) = 0 /\ tasks = <<>> /\ Len(tasks) = 0
  BY BaseInit DEF Init
<1>2. 1..Len(groups) = {} /\ 1..Len(tasks) = {} /\ DOMAIN groups = {}
  BY <1>1
<1>3. OneFrame /\ GroupOpen /\ Accounted
  BY <1>2 DEF OneFrame, GroupOpen, Accounted
<1>4. CancelReachesGroup
  BY <1>2 DEF CancelReachesGroup
<1>5. \A i \in 1..Len(stack) : stack[i].at # "collect"
  BY DEF Init, Frame
<1> QED BY <1>1, <1>2, <1>3, <1>4, <1>5 DEF GroupInv, NoDrops

LEMMA GroupNext == KeepsAll => (GroupInv /\ [Next]_vars => GroupInv')
<1> SUFFICES ASSUME KeepsAll, GroupInv, [Next]_vars PROVE GroupInv'
  OBVIOUS
<1>1. CASE Next
  BY <1>1, BaseNext, NoDropsStep, OneFrameStep, GroupOpenStep, AccountedStep, CancelStep DEF GroupInv
<1>2. CASE UNCHANGED vars
  <2>1. Base'
    BY <1>2, BaseNext DEF GroupInv
  <2>2. NoDrops' /\ OneFrame' /\ GroupOpen'
    BY <1>2 DEF vars, GroupInv, NoDrops, OneFrame, GroupOpen, FrameOf
  <2>3. Accounted'
    BY <1>2 DEF vars, GroupInv, Accounted, Left, Held, FrameOf, Doing, Failed
  <2>4. CancelReachesGroup'
    BY <1>2 DEF vars, GroupInv, CancelReachesGroup
  <2> QED BY <2>1, <2>2, <2>3, <2>4 DEF GroupInv
<1> QED BY <1>1, <1>2

\* cancelAll() reaches every child that is not done, and so do later children
\* of the group: no child is in a place where neither the group's list nor its
\* flag gets to it, unless a for await dropped it.
THEOREM CancelReachesAll == KeepsAll => (Spec => []CancelReachesGroup)
<1> SUFFICES ASSUME KeepsAll PROVE Spec => []CancelReachesGroup
  OBVIOUS
<1>1. GroupInv /\ [Next]_vars => GroupInv'
  BY GroupNext
<1>2. GroupInv => CancelReachesGroup
  BY DEF GroupInv
<1> QED BY <1>1, <1>2, GroupInit, PTL DEF Spec

\* concurrency.rs:765, "the group does not return until its children finish":
\* whether its body ended, threw or failed, whatever was taken out by next(),
\* waitForAll() or a for await, and whoever ran it.
THEOREM GroupsWait == KeepsAll => (Spec => []GroupsFinish)
<1> SUFFICES ASSUME KeepsAll PROVE Spec => []GroupsFinish
  OBVIOUS
<1>1. GroupInv /\ [Next]_vars => GroupInv'
  BY GroupNext
<1>2. GroupInv => GroupsFinish
  <2> SUFFICES ASSUME GroupInv, NEW g \in DOMAIN groups, ~Open(g), ~Doomed, NEW t \in children[g]
               PROVE  tasks[t].state = "done"
    BY DEF GroupsFinish
  <2>1. g \in 1..Len(groups) /\ DOMAIN stack = 1..Len(stack)
    BY Lengths DEF GroupInv, Base, StackOK
  <2>2. \A i \in 1..Len(stack) : ~FrameOf(i, g)
    BY <2>1 DEF Open, FrameOf
  <2>3. ~Left(g, t)
    <3>1. groups[g] = <<>>
      BY <2>1, <2>2 DEF GroupInv, GroupOpen
    <3> QED BY <3>1 DEF Left
  <2>4. ~Held(g, t)
    BY <2>2 DEF Held
  <2>5. ~Failed(g)
    BY <2>1 DEF Failed, Doomed
  <2> QED BY <2>1, <2>3, <2>4, <2>5 DEF GroupInv, Accounted
<1> QED BY <1>1, <1>2, GroupInit, PTL DEF Spec
-----------------------------------------------------------------------------
(* Deadlocks                                                               *)

\* A program without async streams and continuations.
TasksOnly == ~Streams /\ MaxConts = 0

\* Then only the end of the program drives.
Plain ==
    \A k \in 1..Len(stack) :
        stack[k].kind \notin {"cont", "stream"} /\ (stack[k].at = "drive" => k = 1)

LEMMA PlainStep == ASSUME TasksOnly, Base, Plain, Next PROVE Plain'
<1> SUFFICES ASSUME NEW k \in 1..Len(stack')
             PROVE  stack'[k].kind \notin {"cont", "stream"} /\ (stack'[k].at = "drive" => k = 1)
  BY DEF Plain
<1>1. CASE Old(k)
  <2>1. /\ k \in 1..Len(stack) /\ stack'[k].kind = stack[k].kind
        /\ stack'[k].at = "drive" => stack[k].at = "drive" \/ stack[k].kind = "main"
    BY <1>1 DEF Old, Plain
  <2>2. stack[k].kind = "main" => k = 1
    BY <2>1 DEF Base, StackOK
  <2> QED BY <2>1, <2>2 DEF Plain
<1>2. CASE Opened(stack'[k])
  BY <1>2 DEF Opened, TasksOnly
<1> QED BY <1>1, <1>2, Fresh

\* What lay between a running task and an await of it is what is on the stack.
LEMMA CycleStep ==
    ASSUME Next
    PROVE  \/ cycle' = cycle
           \/ \E t : cycle' = {stack'[j].at : j \in {k \in DOMAIN stack' :
                                 \E i \in 1..k : stack'[i].kind = "task" /\ stack'[i].id = t}}
<1>1. ASSUME NEW t, NEW rest, RunTask(t, rest)
      PROVE  \/ cycle' = cycle
             \/ cycle' = {stack'[j].at : j \in {k \in DOMAIN stack' :
                            \E i \in 1..k : stack'[i].kind = "task" /\ stack'[i].id = t}}
  BY <1>1 DEF RunTask
<1>2. CASE Call
  <2>1. CASE \E t \in Tasks : Await(t)
    BY <1>1, <2>1 DEF Await
  <2>2. CASE \E g \in DOMAIN groups : NextChild(g)
    BY <1>1, <2>2 DEF NextChild
  <2>3. CASE /\ ~\E t \in Tasks : Await(t)
             /\ ~\E g \in DOMAIN groups : NextChild(g)
    <3>1. cycle' = cycle
      BY <1>2, <2>3, Zenon DEF Call, Spawn, Cancel, AwaitFailed, AddTask, CancelAll, TakeGroup,
         OpenGroup, OpenContinuation, OpenStream, ReadStream, Resume
    <3> QED BY <3>1
  <2> QED BY <2>1, <2>2, <2>3
<1>3. CASE Loop
  <2>1. CASE DriveNext
    BY <1>1, <2>1 DEF DriveNext
  <2>2. CASE ChildNext
    BY <1>1, <2>2 DEF ChildNext
  <2>3. CASE DriveEnds \/ ChildrenEnd \/ LoopEnds \/ LoopFails
    BY <2>3, Zenon DEF DriveEnds, ChildrenEnd, LoopEnds, LoopFails
  <2> QED BY <1>3, <2>1, <2>2, <2>3 DEF Loop
<1>4. CASE End
  BY <1>4, Zenon DEF End, BodyEnds
<1> QED BY <1>2, <1>3, <1>4 DEF Next

\* concurrency.rs:50, "awaiting it is a deadlock": in a program without streams
\* and continuations an await traps only if each task from the awaited one up
\* to the awaiting one waits for the next, by an await or for its group.
THEOREM TrapsAreDeadlocks == TasksOnly => (Spec => []DeadlockIsReal)
<1> SUFFICES ASSUME TasksOnly PROVE Spec => []DeadlockIsReal
  OBVIOUS
<1>1. Init => Plain /\ DeadlockIsReal
  <2> SUFFICES ASSUME Init PROVE Plain /\ DeadlockIsReal
    OBVIOUS
  <2>1. DeadlockIsReal
    BY DEF Init, DeadlockIsReal
  <2>2. \A k \in 1..Len(stack) : k = 1 /\ stack[k].kind = "main" /\ stack[k].at = "script"
    BY DEF Init, Frame
  <2> QED BY <2>1, <2>2 DEF Plain
<1>2. Base /\ Plain /\ DeadlockIsReal /\ [Next]_vars => Plain' /\ DeadlockIsReal'
  <2> SUFFICES ASSUME Base, Plain, DeadlockIsReal, [Next]_vars PROVE Plain' /\ DeadlockIsReal'
    OBVIOUS
  <2>1. CASE UNCHANGED vars
    BY <2>1 DEF vars, Plain, DeadlockIsReal
  <2>2. CASE Next
    <3>1. Plain' /\ Base' /\ DOMAIN stack' = 1..Len(stack')
      BY <2>2, PlainStep, Shapes
    <3>2. ASSUME NEW t,
                 cycle' = {stack'[j].at : j \in {k \in DOMAIN stack' :
                             \E i \in 1..k : stack'[i].kind = "task" /\ stack'[i].id = t}},
                 "drive" \in cycle'
          PROVE  FALSE
      <4>1. PICK j \in 1..Len(stack') :
               stack'[j].at = "drive" /\ \E i \in 1..j : stack'[i].kind = "task"
        BY <3>1, <3>2
      <4>2. j = 1
        BY <3>1, <4>1 DEF Plain
      <4>3. stack'[1].kind = "task"
        BY <4>1, <4>2
      <4>4. stack'[1].kind = "main"
        BY <3>1, <4>1, <4>2 DEF Base, StackOK
      <4> QED BY <4>3, <4>4
    <3>3. DeadlockIsReal'
      BY <2>2, <3>2, CycleStep DEF DeadlockIsReal
    <3> QED BY <3>1, <3>3
  <2> QED BY <2>1, <2>2
<1> QED BY <1>1, <1>2, BaseInit, BaseNext, PTL DEF Spec
=============================================================================

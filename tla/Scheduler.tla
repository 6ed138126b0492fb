------------------------------ MODULE Scheduler ------------------------------
(***************************************************************************)
(* Structured concurrency (crates/tswift-core/src/interp/concurrency.rs).  *)
(* There is one thread and no coroutine: a task runs nested on the stack of*)
(* whoever awaits it, drains its group, or drives what is pending.  So the *)
(* state is the tables of Scheduler and the stack of the calls in progress.*)
(*                                                                         *)
(* A step is one call the Swift program makes, the end of one of its       *)
(* bodies, or one turn of a loop that runs tasks.  What the program awaits,*)
(* spawns or cancels, and where, is its own choice.                        *)
(***************************************************************************)
EXTENDS Naturals, Sequences, FiniteSets, SequencesExt

CONSTANTS
    MaxTasks,   \* how many tasks the program spawns
    MaxGroups,  \* how many task groups it opens
    MaxConts,   \* how many continuations it opens
    Streams,    \* TRUE if it uses async streams, one builder at a time
    ForAwait,   \* TRUE if it iterates over a group with for await
    Outcomes    \* how its bodies end

Outcome == {"value", "throw", "error"}

ASSUME BoundOK == MaxTasks \in Nat /\ MaxGroups \in Nat /\ MaxConts \in Nat
ASSUME OutcomesOK == {Streams, ForAwait} \subseteq BOOLEAN /\ Outcomes \subseteq Outcome

VARIABLES
    tasks,      \* Scheduler.tasks
    current,    \* Scheduler.current_task
    groups,     \* Scheduler.groups: the children not yet taken out
    cancelled,  \* Scheduler.group_cancelled
    conts,      \* Scheduler.continuations
    stack,      \* the calls in progress, the innermost last
    failing,    \* an interpreter error is on its way up the stack
    ended,      \* how the program ended
    children,   \* history: every task ever added to each group
    cycle       \* history: what lay between a task and an await of it that trapped

tables == <<tasks, current, groups, cancelled, conts>>
vars == <<tasks, current, groups, cancelled, conts, stack, failing, ended, children, cycle>>

Tasks == DOMAIN tasks

\* A frame runs a body of the program (at = "script") or a loop: drive_pending,
\* drain_group, or drain_group_results ("collect").
Frame(kind, id, at, todo) ==
    [kind |-> kind, id |-> id, at |-> at, todo |-> todo, result |-> "value", loop |-> 0]

Top == stack[Len(stack)]
Below == SubSeq(stack, 1, Len(stack) - 1)
Replace(frame) == Append(Below, frame)
InScript == stack # <<>> /\ Top.at = "script" /\ ~failing

\* The bodies of a continuation and of a stream are not async.
MayAwait == InScript /\ Top.kind \notin {"cont", "stream"}

\* The program has no handle of a group's child.
HasHandle(t) == t \in Tasks /\ \A g \in DOMAIN groups : t \notin children[g]

Init ==
    /\ tasks = <<>> /\ current = <<>> /\ groups = <<>> /\ cancelled = <<>> /\ conts = <<>>
    /\ stack = <<Frame("main", 0, "script", <<>>)>>
    /\ failing = FALSE
    /\ ended = "no"
    /\ children = <<>> /\ cycle = {}
-----------------------------------------------------------------------------
(* Spawning and cancelling                                                 *)

\* The innermost running task is cancelled.
CurrentCancelled == current # <<>> /\ tasks[Last(current)].cancelled

NewTask(flag) ==
    [state |-> "pending", cancelled |-> flag, outcome |-> "value",
     parent |-> IF current = <<>> THEN 0 ELSE Last(current)]

\* Task {}, async let, Task.detached (which alone does not inherit).
Spawn(inherit) ==
    /\ InScript
    /\ Len(tasks) < MaxTasks
    /\ tasks' = Append(tasks, NewTask(inherit /\ CurrentCancelled))
    /\ UNCHANGED <<current, groups, cancelled, conts, stack, failing, ended, children, cycle>>

Cancel(t) ==
    /\ InScript
    /\ HasHandle(t)
    /\ tasks' = [tasks EXCEPT ![t].cancelled = TRUE]
    /\ UNCHANGED <<current, groups, cancelled, conts, stack, failing, ended, children, cycle>>

\* The group handle is inout in Swift: the body uses it, and what the body
\* calls, but no task does.
Usable(g) ==
    \E i \in DOMAIN stack :
        /\ stack[i].kind = "group" /\ stack[i].id = g /\ stack[i].at = "script"
        /\ \A j \in (i + 1)..Len(stack) : stack[j].kind # "task"

\* Mutant: a child added after cancelAll() starts uncancelled.
AlwaysUncancelled(g) == FALSE

BornCancelled(g) == cancelled[g]

NewId == Len(tasks) + 1

\* addTask, and addTaskUnlessCancelled of a group that is not.
AddTask(g) ==
    /\ InScript /\ Usable(g)
    /\ Len(tasks) < MaxTasks
    /\ tasks' = Append(tasks, NewTask(BornCancelled(g)))
    /\ groups' = [groups EXCEPT ![g] = Append(@, NewId)]
    /\ children' = [children EXCEPT ![g] = @ \cup {NewId}]
    /\ UNCHANGED <<current, cancelled, conts, stack, failing, ended, cycle>>

CancelAll(g) ==
    /\ InScript /\ Usable(g)
    /\ cancelled' = [cancelled EXCEPT ![g] = TRUE]
    /\ tasks' = [t \in Tasks |->
                    IF t \in Range(groups[g]) THEN [tasks[t] EXCEPT !.cancelled = TRUE] ELSE tasks[t]]
    /\ UNCHANGED <<current, groups, conts, stack, failing, ended, children, cycle>>
-----------------------------------------------------------------------------
(* Running a task                                                          *)

Begun(t) == [tasks EXCEPT ![t].state = "running"]

\* run_task of a task that is not done: rest is the stack it runs on.  A task
\* that is running already, somewhere below, traps.
RunTask(t, rest) ==
    IF tasks[t].state = "running"
    THEN /\ failing' = TRUE
         /\ cycle' = {rest[j].at : j \in {k \in DOMAIN rest :
                        \E i \in 1..k : rest[i].kind = "task" /\ rest[i].id = t}}
         /\ stack' = rest
         /\ UNCHANGED <<tasks, current>>
    ELSE /\ tasks' = Begun(t)
         /\ current' = Append(current, t)
         /\ stack' = Append(rest, Frame("task", t, "script", <<>>))
         /\ UNCHANGED <<failing, cycle>>

\* await of a task handle; a task that is done answers at once.
Await(t) ==
    /\ MayAwait
    /\ HasHandle(t) /\ tasks[t].state # "done"
    /\ RunTask(t, stack)
    /\ UNCHANGED <<groups, cancelled, conts, ended, children>>

\* A done task that ended in an error gives it to whoever awaits it.
AwaitFailed(t) ==
    /\ MayAwait
    /\ HasHandle(t) /\ tasks[t].state = "done" /\ tasks[t].outcome = "error"
    /\ failing' = TRUE
    /\ UNCHANGED <<tables, stack, ended, children, cycle>>

\* group.next(): the first child is run, and is a child no more.
NextChild(g) ==
    /\ MayAwait /\ Usable(g)
    /\ groups[g] # <<>>
    /\ groups' = [groups EXCEPT ![g] = Tail(@)]
    /\ IF tasks[Head(groups[g])].state = "done"
       THEN /\ failing' = (tasks[Head(groups[g])].outcome = "error")
            /\ UNCHANGED <<tasks, current, stack, cycle>>
       ELSE RunTask(Head(groups[g]), stack)
    /\ UNCHANGED <<cancelled, conts, ended, children>>

\* Mutant: waitForAll() drives everything that is pending.
DriveAll(g, at) ==
    /\ MayAwait /\ Usable(g)
    /\ groups[g] # <<>> /\ at = "drain"
    /\ stack' = Append(stack, Frame("loop", g, "drive", <<1>>))
    /\ groups' = [groups EXCEPT ![g] = <<>>]
    /\ UNCHANGED <<tasks, current, cancelled, conts, failing, ended, children, cycle>>

\* waitForAll(), and for await: every child is taken out, and run by a loop.
TakeGroup(g, at) ==
    /\ MayAwait /\ Usable(g)
    /\ at = "collect" => ForAwait
    /\ groups[g] # <<>>
    /\ stack' = Append(stack, Frame("loop", g, at, groups[g]))
    /\ groups' = [groups EXCEPT ![g] = <<>>]
    /\ UNCHANGED <<tasks, current, cancelled, conts, failing, ended, children, cycle>>
-----------------------------------------------------------------------------
(* Calls that hand a body of the program a group, a continuation or a      *)
(* stream, and the reader of makeStream                                    *)

OpenGroup ==
    /\ MayAwait
    /\ Len(groups) < MaxGroups
    /\ groups' = Append(groups, <<>>)
    /\ cancelled' = Append(cancelled, FALSE)
    /\ children' = Append(children, {})
    /\ stack' = Append(stack, Frame("group", Len(groups) + 1, "script", <<>>))
    /\ UNCHANGED <<tasks, current, conts, failing, ended, cycle>>

\* A continuation frame remembers in todo the first task its body may spawn.
OpenContinuation ==
    /\ MayAwait
    /\ Len(conts) < MaxConts
    /\ conts' = Append(conts, "pending")
    /\ stack' = Append(stack, Frame("cont", Len(conts) + 1, "script", <<Len(tasks) + 1>>))
    /\ UNCHANGED <<tasks, current, groups, cancelled, failing, ended, children, cycle>>

\* resume: only a pending slot takes it.
Resume(c) ==
    /\ InScript
    /\ c \in DOMAIN conts
    /\ IF conts[c] = "pending"
       THEN conts' = [conts EXCEPT ![c] = "resumed"] /\ UNCHANGED failing
       ELSE failing' = TRUE /\ UNCHANGED conts
    /\ UNCHANGED <<tasks, current, groups, cancelled, stack, ended, children, cycle>>

\* AsyncStream { }: the tasks its body spawns are driven.  makeStream's reader
\* drives every pending task, from the first.
OpenStream ==
    /\ InScript /\ Streams
    /\ \A i \in DOMAIN stack : stack[i].kind # "stream"
    /\ stack' = Append(stack, Frame("stream", 0, "script", <<Len(tasks) + 1>>))
    /\ UNCHANGED <<tables, failing, ended, children, cycle>>

ReadStream ==
    /\ MayAwait /\ Streams
    /\ \E t \in Tasks : tasks[t].state = "pending"
    /\ stack' = Append(stack, Frame("loop", 0, "drive", <<1>>))
    /\ UNCHANGED <<tables, failing, ended, children, cycle>>
-----------------------------------------------------------------------------
(* The loops                                                               *)

\* Mutant: tasks spawned by a driven task are left out.
FirstPendingOnly(from) == {t \in Tasks : t = from /\ tasks[t].state = "pending"}

\* The pending tasks a drive still has before it.
Ahead(from) == {t \in Tasks : t >= from /\ tasks[t].state = "pending"}

Stopped(frame) == frame.kind = "cont" /\ conts[frame.id] = "resumed"

\* Mutant: the drive does not step over tasks that are no longer pending.
OverPastTable(frame) == Stopped(frame) \/ Head(frame.todo) > Len(tasks)

Over(frame) == Stopped(frame) \/ Ahead(Head(frame.todo)) = {}

Driving == stack # <<>> /\ Top.at = "drive" /\ ~failing

\* drive_pending: in the order they were spawned.
DriveNext ==
    /\ Driving
    /\ ~Stopped(Top)
    /\ \E t \in Ahead(Head(Top.todo)) :
          /\ \A u \in Ahead(Head(Top.todo)) : t <= u
          /\ RunTask(t, stack)
    /\ UNCHANGED <<groups, cancelled, conts, ended, children>>

\* A continuation nobody resumed traps; the main program ends.
DriveEnds ==
    /\ Driving
    /\ Over(Top)
    /\ stack' = Below
    /\ failing' = (Top.kind = "cont" /\ conts[Top.id] = "pending")
    /\ conts' = IF Top.kind = "cont" THEN [conts EXCEPT ![Top.id] = "consumed"] ELSE conts
    /\ ended' = IF Top.kind = "main" THEN "done" ELSE ended
    /\ UNCHANGED <<tasks, current, groups, cancelled, children, cycle>>

TakingChildren == stack # <<>> /\ Top.at \in {"drain", "collect"} /\ ~failing

\* The next child is run, unless the end of a stream drove it before.
ChildNext ==
    /\ TakingChildren
    /\ Top.todo # <<>>
    /\ LET t == Head(Top.todo)
           rest == Replace([Top EXCEPT !.todo = Tail(@)]) IN
       IF tasks[t].state = "done"
       THEN /\ failing' = (tasks[t].outcome = "error")
            /\ stack' = IF Top.at = "collect" /\ tasks[t].outcome = "throw" THEN Below ELSE rest
            /\ UNCHANGED <<tasks, current, cycle>>
       ELSE RunTask(t, rest)
    /\ UNCHANGED <<groups, cancelled, conts, ended, children>>

\* for await starts its first iteration when every child has run.
ChildrenEnd ==
    /\ TakingChildren
    /\ Top.todo = <<>>
    /\ stack' = IF Top.at = "collect" THEN [Below EXCEPT ![Len(Below)].loop = Top.id] ELSE Below
    /\ failing' = (Top.result = "error")
    /\ UNCHANGED <<tables, ended, children, cycle>>

\* The for await loop of a group is over: its items are used up.
LoopEnds ==
    /\ InScript
    /\ Top.loop # 0
    /\ stack' = Replace([Top EXCEPT !.loop = 0])
    /\ UNCHANGED <<tables, failing, ended, children, cycle>>
-----------------------------------------------------------------------------
(* The end of a body                                                       *)

\* Mutant: an error skips complete_task.
CompletedUnlessError(t, outcome) ==
    IF outcome = "error" THEN UNCHANGED <<tasks, current>>
    ELSE /\ tasks' = [tasks EXCEPT ![t].state = "done", ![t].outcome = outcome]
         /\ current' = Front(current)

\* complete_task
Completed(t, outcome) ==
    /\ tasks' = [tasks EXCEPT ![t].state = "done", ![t].outcome = outcome]
    /\ current' = Front(current)

\* What a task's end means to the frame below: a throw ends a collection, and
\* the children it has not come to are dropped.
AfterTask(outcome) ==
    IF outcome = "throw" /\ Last(Below).at = "collect" THEN Front(Below) ELSE Below

TaskEnds(outcome) ==
    /\ Top.kind = "task"
    /\ Completed(Top.id, outcome)
    /\ stack' = AfterTask(outcome)
    /\ failing' = (outcome = "error")
    /\ UNCHANGED <<groups, conts, ended>>

\* Mutant: a group whose body threw returns at once.
ChildrenUnlessThrown(g, outcome) == IF outcome = "throw" THEN <<>> ELSE groups[g]

ToDrain(g, outcome) == groups[g]

\* However its body ended, the group runs its children and then returns that.
GroupBodyEnds(outcome) ==
    /\ Top.kind = "group"
    /\ stack' = Replace([Top EXCEPT !.at = "drain", !.result = outcome, !.loop = 0,
                                    !.todo = ToDrain(Top.id, outcome)])
    /\ groups' = [groups EXCEPT ![Top.id] = <<>>]
    /\ failing' = FALSE
    /\ UNCHANGED <<tasks, current, conts, ended>>

\* Mutant: the slot stays resumed.
SlotKept(c) == conts

Consumed(c) == [conts EXCEPT ![c] = "consumed"]

\* If the body has not resumed its continuation, the tasks it spawned are run.
ContinuationBodyEnds(outcome) ==
    /\ Top.kind = "cont"
    /\ outcome # "throw"
    /\ IF outcome = "value" /\ conts[Top.id] = "pending"
       THEN stack' = Replace([Top EXCEPT !.at = "drive"]) /\ UNCHANGED conts
       ELSE /\ stack' = Below
            /\ conts' = IF outcome = "value" THEN Consumed(Top.id) ELSE conts
    /\ failing' = (outcome = "error")
    /\ UNCHANGED <<tasks, current, groups, ended>>

StreamBodyEnds(outcome) ==
    /\ Top.kind = "stream"
    /\ outcome # "throw"
    /\ stack' = IF outcome = "value" THEN Replace([Top EXCEPT !.at = "drive"]) ELSE Below
    /\ failing' = (outcome = "error")
    /\ UNCHANGED <<tasks, current, groups, conts, ended>>

\* The program's own end runs what is still pending, unless it failed.
MainEnds(outcome) ==
    /\ Top.kind = "main"
    /\ IF outcome = "value"
       THEN stack' = Replace([Top EXCEPT !.at = "drive", !.todo = <<1>>]) /\ UNCHANGED ended
       ELSE stack' = <<>> /\ ended' = "failed"
    /\ failing' = FALSE
    /\ UNCHANGED <<tasks, current, groups, conts>>

BodyEnds(outcome) ==
    /\ stack # <<>> /\ Top.at = "script"
    /\ failing => outcome = "error"
    /\ \/ TaskEnds(outcome) \/ GroupBodyEnds(outcome) \/ ContinuationBodyEnds(outcome)
       \/ StreamBodyEnds(outcome) \/ MainEnds(outcome)
    /\ UNCHANGED <<cancelled, children, cycle>>

\* An error ends a loop, and the call it is in.
LoopFails ==
    /\ failing
    /\ stack # <<>> /\ Top.at # "script"
    /\ stack' = Below
    /\ failing' = (Top.kind # "main")
    /\ ended' = IF Top.kind = "main" THEN "failed" ELSE ended
    /\ UNCHANGED <<tables, children, cycle>>
-----------------------------------------------------------------------------
Call ==
    \/ \E inherit \in BOOLEAN : Spawn(inherit)
    \/ \E t \in Tasks : Cancel(t) \/ Await(t) \/ AwaitFailed(t)
    \/ \E g \in DOMAIN groups : AddTask(g) \/ CancelAll(g) \/ NextChild(g)
    \/ \E g \in DOMAIN groups, at \in {"drain", "collect"} : TakeGroup(g, at)
    \/ OpenGroup \/ OpenContinuation \/ OpenStream \/ ReadStream
    \/ \E c \in DOMAIN conts : Resume(c)

Loop == DriveNext \/ DriveEnds \/ ChildNext \/ ChildrenEnd \/ LoopEnds \/ LoopFails

End == \E outcome \in Outcomes \cup (IF failing THEN {"error"} ELSE {}) : BodyEnds(outcome)

Next == Call \/ Loop \/ End

Spec == Init /\ [][Next]_vars

\* The interpreter runs on, and the program's bodies return.
LiveSpec == Spec /\ WF_vars(Loop) /\ WF_vars(End)
-----------------------------------------------------------------------------
(* Properties                                                              *)

\* An error is known that will end the program.
Doomed == failing \/ ended = "failed" \/ \E i \in DOMAIN stack : stack[i].result = "error"

TaskFrames == {i \in DOMAIN stack : stack[i].kind = "task"}
Depth(i) == Cardinality({j \in TaskFrames : j <= i})

\* current_task is the tasks on the stack, in their order, and these are the
\* running ones: whatever traps, throws or is driven from where, every begun
\* task is completed by the call that began it.
RunningOnStack ==
    /\ Len(current) = Cardinality(TaskFrames)
    /\ \A i \in TaskFrames : current[Depth(i)] = stack[i].id
    /\ \A t \in Tasks : tasks[t].state = "running" <=> t \in Range(current)

\* A program that ends well has run every task, those spawned by the tasks its
\* end ran too.
EndMeansDone ==
    ended = "done" => \A t \in Tasks : tasks[t].state = "done"

Open(g) == \E i \in DOMAIN stack : stack[i].kind = "group" /\ stack[i].id = g

\* concurrency.rs:765: "the group does not return until its children finish".
GroupsFinish ==
    \A g \in DOMAIN groups : ~Open(g) /\ ~Doomed =>
        \A t \in children[g] : tasks[t].state = "done"

\* cancelAll() reaches every child that is not done, those added later too.
CancelReachesGroup ==
    \A g \in DOMAIN groups : cancelled[g] =>
        \A t \in children[g] : tasks[t].state = "done" \/ tasks[t].cancelled

\* A continuation slot nobody has read yet has its reader on the stack: a
\* resume later than that traps instead of getting lost.
SlotHasReader ==
    \A c \in DOMAIN conts : conts[c] # "consumed" /\ ~Doomed =>
        \E i \in DOMAIN stack : stack[i].kind = "cont" /\ stack[i].id = c

\* concurrency.rs:50: "The task is mid-flight on the current stack - awaiting
\* it is a deadlock": each task from the awaited one up waits for the next.
DeadlockIsReal == "drive" \notin cycle

\* A program whose bodies return ends: no drive or drain goes on for ever.
ProgramEnds == <>(ended # "no")
=============================================================================

----------------------------- MODULE ViewSession -----------------------------
(***************************************************************************)
(* A SwiftUI render session (crates/tswift-swiftui/src/session.rs) and the *)
(* host that shows what it renders (crates/tswift-ffi/src/swiftui.rs,      *)
(* crates/tswift-wasm/src/swiftui.rs, web/swiftui-canvas).                 *)
(*                                                                         *)
(* An event is answered by several renders: the handler's, one after each  *)
(* pass of onChange watchers, one after the .task closures.  Each closure  *)
(* and each render may fail, and the error leaves with whatever was done   *)
(* so far.  The session keeps tab, navigation, image and task state by     *)
(* structural id, and a position may hold another view in the next tree.   *)
(*                                                                         *)
(* Swift closures are abstract: each may change the @State the trees are   *)
(* rendered from, spawn a Task {} and throw.  The patches of an answer     *)
(* carry what differs between the trees before and after it, id by id.     *)
(***************************************************************************)
EXTENDS Naturals, Sequences

CONSTANTS
    Pos,        \* structural ids
    View,       \* the views of the program
    Page,       \* the branches of its body
    Layout,     \* the view each page has at each id, None for no node there
    Kind,       \* what a view is, see Kinds
    Watching,   \* views with an .onChange(of: x)
    Tasking,    \* views with a .task: "once", "id" for .task(id: x), or "no"
    Enclosing,  \* the id of the NavigationStack around an id
    Val,        \* values of the @State variable x, which is also a URL
    None,       \* no node, no value
    MaxDepth,   \* pushed screens (bounds the model)
    MaxEvents,  \* events and lifecycle passes (bounds the model)
    MaxPasses,  \* MAX_WATCH_PASSES, 64 in the code
    Throws,     \* TRUE when closures and renders may fail
    LoadGuard   \* TRUE for the web host, which checks the URL of a late load

Kinds == {"button", "control", "stack", "pathStack", "link", "tab", "image",
          "alert", "alertButton", "text"}
Tabs == {"first", "second"}
Phases == {"empty", "success", "failure"}

ASSUME ProgramOK ==
    /\ Layout \in [Page -> [Pos -> View \cup {None}]]
    /\ Kind \in [View -> Kinds]
    /\ Watching \subseteq View
    /\ Tasking \in [View -> {"once", "id", "no"}]
    /\ Enclosing \in [Pos -> Pos]
    \* No bound control takes the id of an alert.
    /\ \A l, m \in Page, p \in Pos :
          Layout[l][p] # None /\ Layout[m][p] # None /\ Kind[Layout[l][p]] = "alert"
            => Kind[Layout[m][p]] \notin {"control", "pathStack"}
    /\ None \notin Val \cup View

VARIABLES
    st,        \* the program's @State: page, x, shown (an isPresented), path
    tab_selection, nav_stack, image_phase, task_ids,  \* kept by id
    task_lifecycle_started,
    current,   \* the last tree rendered
    pc,        \* where dispatch or run_mount_tasks is, "idle" between calls
    stage,     \* "event" or "task": whose watchers run
    baseline,  \* the watched values the next pass compares with
    passes,    \* passes of run_watchers so far
    rendered,  \* this call has made a new tree current
    spawned,   \* Task {} work not driven yet, by who spawned it
    before,    \* the tree when the call began
    host,      \* what the host shows
    loads,     \* image loads the host has in flight: an id and a URL
    event,     \* the event being handled: its name, id and payload
    calls,     \* events and passes so far (bounds the model)
    told,      \* at each id, the value its watcher was last told, or first saw
    ran,       \* at each id, the identity its .task was last started with
    arrived,   \* the image loads that have ended: URL and outcome
    lost,      \* a change no watcher was told of: an error, or the last pass
    failed     \* an answer was an error after its first render

kept == <<tab_selection, nav_stack, image_phase, task_ids, task_lifecycle_started>>
callVars == <<pc, stage, baseline, passes, rendered, before, event, calls>>
hostVars == <<host, loads, arrived>>
ghosts == <<told, ran, lost, failed>>
vars == <<st, kept, current, callVars, spawned, hostVars, ghosts>>
-----------------------------------------------------------------------------
(* Trees                                                                   *)

KindAt(tree, p) == IF tree[p] = None THEN "none" ELSE Kind[tree[p].view]
Watchers(tree) == {p \in Pos : tree[p] # None /\ tree[p].view \in Watching}
TaskPositions(tree) == {p \in Pos : tree[p] # None /\ Tasking[tree[p].view] # "no"}
Images(tree) == {p \in Pos : KindAt(tree, p) = "image"}

\* collect_watch_values
WatchValues(tree) == [p \in Watchers(tree) |-> tree[p].val]

\* task_identity: Void for a plain .task.
TaskIdentity(node) == IF Tasking[node.view] = "id" THEN node.val ELSE None

\* Mutant: a phase is kept by id, whatever URL it was reported for.
PhasesById(s) ==
    [p \in {q \in DOMAIN image_phase :
              /\ Layout[s.page][q] # None
              /\ Kind[Layout[s.page][q]] = "image"} |-> image_phase[p]]

\* The phases that outlive a render: of images whose URL is still the one the
\* phase was reported for (image_phase_node), still in the tree (prune_image_phase).
KeptPhases(s) ==
    [p \in {q \in DOMAIN image_phase :
              /\ Layout[s.page][q] # None
              /\ Kind[Layout[s.page][q]] = "image"
              /\ image_phase[q].url = s.x} |-> image_phase[p]]

\* What session state adds to a node: its pushed screens, its tab, its phase,
\* whether its presentation is open.
Decoration(s, p, v) ==
    CASE Kind[v] = "stack" -> IF p \in DOMAIN nav_stack THEN nav_stack[p] ELSE <<>>
      [] Kind[v] = "pathStack" -> s.path
      [] Kind[v] = "tab" -> <<IF p \in DOMAIN tab_selection THEN tab_selection[p] ELSE "first">>
      [] Kind[v] = "image" ->
            <<IF p \in DOMAIN KeptPhases(s) THEN image_phase[p].phase ELSE "empty">>
      [] Kind[v] = "alert" -> IF s.shown THEN <<"open">> ELSE <<>>
      [] OTHER -> <<>>

\* The body, then the navigation, presentation, tab and image passes.  An
\* alert's button is there while the alert is open.
Tree(s) ==
    [p \in Pos |->
        LET v == Layout[s.page][p]
        IN  IF v = None \/ (Kind[v] = "alertButton" /\ ~s.shown) THEN None
            ELSE [view |-> v, val |-> s.x, show |-> Decoration(s, p, v)]]
-----------------------------------------------------------------------------
(* Swift closures                                                          *)

\* A closure assigns one of the program's variables, or none.
Effects(s) ==
    {[s EXCEPT !.page = q] : q \in Page} \cup {[s EXCEPT !.x = v] : v \in Val}
      \cup {[s EXCEPT !.shown = b] : b \in BOOLEAN}

\* A closure, or several in turn.
EffectsOf(closures, s) ==
    IF \A p, q \in closures : p = q THEN Effects(s)
    ELSE UNION {Effects(t) : t \in Effects(s)}

MaySpawn(by) == spawned' \in {spawned, spawned \cup {by}}

NoEvent == [name |-> "none"]
Closed(s) == [s EXCEPT !.shown = FALSE]

Put(f, p, v) == [q \in DOMAIN f \cup {p} |-> IF q = p THEN v ELSE f[q]]
Without(f, p) == [q \in DOMAIN f \ {p} |-> f[q]]
-----------------------------------------------------------------------------
(* Answers: the diff of the trees before and after the call, or an error   *)

\* Mutant: the trees are compared as the body left them.
PatchedBody(tree) ==
    [p \in Pos |->
        IF before[p] # None /\ tree[p] # None /\ before[p].view = tree[p].view
             /\ before[p].val = tree[p].val
        THEN host[p] ELSE tree[p]]

\* The host applies the patches, which name the nodes that differ.
Patched(tree) ==
    [p \in Pos |-> IF before[p] = tree[p] THEN host[p] ELSE tree[p]]

\* It loads an image that is new to it or whose URL has changed.
NewLoads(old, new) ==
    {<<p, new[p].val>> : p \in {q \in Images(new) :
        q \notin Images(old) \/ old[q].val # new[q].val}}

CallOver ==
    /\ pc' = "idle" /\ stage' = "event"
    /\ event' = NoEvent /\ before' = current
    /\ baseline' = << >> /\ passes' = 0 /\ rendered' = FALSE
    /\ UNCHANGED <<calls, current>>

AnswerPatches ==
    /\ CallOver
    /\ host' = Patched(current)
    /\ loads' = loads \cup NewLoads(host, host')
    /\ UNCHANGED <<arrived, failed>>

\* An error carries no patches, whatever was rendered before it.
AnswerError ==
    /\ Throws
    /\ CallOver
    /\ failed' = (failed \/ rendered)
    /\ lost' = TRUE
    /\ UNCHANGED hostVars
-----------------------------------------------------------------------------
Init ==
    /\ st \in [page : Page, x : Val, shown : BOOLEAN, path : {<<>>}]
    /\ tab_selection = << >> /\ nav_stack = << >> /\ image_phase = << >> /\ task_ids = << >>
    /\ task_lifecycle_started = FALSE
    /\ current = Tree(st)
    /\ pc = "idle" /\ stage = "event" /\ baseline = << >> /\ passes = 0
    /\ rendered = FALSE /\ before = current
    /\ event = NoEvent /\ calls = 0
    /\ spawned = {}
    /\ host = current
    /\ loads = {<<p, st.x>> : p \in Images(current)}
    /\ arrived = {}
    /\ told = WatchValues(current)
    /\ ran = << >>
    /\ lost = FALSE /\ failed = FALSE
-----------------------------------------------------------------------------
(* The host calls                                                          *)

Begin ==
    /\ pc = "idle" /\ calls < MaxEvents
    /\ calls' = calls + 1
    /\ before' = current
    /\ baseline' = WatchValues(current)
    /\ rendered' = FALSE /\ passes' = 0

Send(e) ==
    /\ Begin
    /\ event' = e
    /\ stage' = "event" /\ pc' = "handle"

\* What a user can do with the node the host shows at an id.
UserEvents(p) ==
    CASE KindAt(host, p) \in {"button", "alertButton"} -> {[name |-> "tap", pos |-> p]}
      [] KindAt(host, p) = "link" -> {[name |-> "tap", pos |-> p]}
      [] KindAt(host, p) = "control" -> {[name |-> "set", pos |-> p, value |-> v] : v \in Val}
      [] KindAt(host, p) = "tab" -> {[name |-> "select", pos |-> p, value |-> t] : t \in Tabs}
      [] KindAt(host, p) \in {"stack", "pathStack"} -> {[name |-> "back", pos |-> p]}
      [] KindAt(host, p) = "alert" /\ host[p].show # <<>> -> {[name |-> "dismiss", pos |-> p]}
      [] OTHER -> {}

UserActs ==
    /\ \E p \in Pos : \E e \in UserEvents(p) : Send(e)
    /\ UNCHANGED <<st, kept, current, spawned, hostVars, ghosts>>

\* A load ends.  The web host reports it if the element still shows its URL.
LoadEnds(p, u, outcome) ==
    /\ <<p, u>> \in loads
    /\ loads' = loads \ {<<p, u>>}
    /\ arrived' = arrived \cup {<<u, outcome>>}
    /\ IF LoadGuard /\ ~(p \in Images(host) /\ host[p].val = u)
       THEN pc = "idle" /\ UNCHANGED callVars
       ELSE Send([name |-> "imagePhase", pos |-> p, value |-> outcome])
    /\ UNCHANGED <<st, kept, current, spawned, host, ghosts>>

\* run_mount_tasks, once after a compile.
MountTasks ==
    /\ ~task_lifecycle_started
    /\ Begin
    /\ task_lifecycle_started' = TRUE
    /\ pc' = "tasks"
    /\ UNCHANGED <<stage, event, st, tab_selection, nav_stack, image_phase, task_ids,
                   current, spawned, hostVars, ghosts>>
-----------------------------------------------------------------------------
(* dispatch: the event is routed by its id in the session's own tree       *)

Target == KindAt(current, event.pos)

Set ==
    /\ event.name = "set"
    /\ st' = IF Target = "control" THEN [st EXCEPT !.x = event.value] ELSE st
    /\ UNCHANGED <<tab_selection, nav_stack, image_phase, spawned>>

\* Without a binding at the id, whatever is there, the selection is kept for it.
Select ==
    /\ event.name = "select"
    /\ tab_selection' = IF Target \in {"control", "pathStack", "alert"} THEN tab_selection
                        ELSE Put(tab_selection, event.pos, event.value)
    /\ UNCHANGED <<st, nav_stack, image_phase, spawned>>

\* The URL is the one the id has now.
ImagePhase ==
    /\ event.name = "imagePhase"
    /\ image_phase' = Put(image_phase, event.pos,
            [phase |-> event.value,
             url |-> IF Target = "image" THEN current[event.pos].val ELSE None])
    /\ UNCHANGED <<st, tab_selection, nav_stack, spawned>>

Front(s) == SubSeq(s, 1, Len(s) - 1)

Back ==
    /\ event.name = "back"
    /\ IF Target = "pathStack"
       THEN /\ st' = IF st.path = <<>> THEN st ELSE [st EXCEPT !.path = Front(@)]
            /\ UNCHANGED nav_stack
       ELSE /\ nav_stack' =
                  IF Target = "control" \/ event.pos \notin DOMAIN nav_stack THEN nav_stack
                  ELSE IF Len(nav_stack[event.pos]) = 1 THEN Without(nav_stack, event.pos)
                  ELSE [nav_stack EXCEPT ![event.pos] = Front(@)]
            /\ UNCHANGED st
    /\ UNCHANGED <<tab_selection, image_phase, spawned>>

\* The presentation closes, then onDismiss runs.
Dismiss ==
    /\ event.name = "dismiss"
    /\ IF Target = "alert"
       THEN st' \in Effects(Closed(st)) /\ MaySpawn("handler")
       ELSE UNCHANGED <<st, spawned>>
    /\ UNCHANGED <<tab_selection, nav_stack, image_phase>>

\* A NavigationLink pushes onto the stack around it.
TapLink ==
    /\ event.name = "tap" /\ Target = "link"
    /\ LET stack == Enclosing[event.pos]
           screen == current[event.pos].view
           onto == KindAt(current, stack)
           pushed == IF stack \in DOMAIN nav_stack THEN nav_stack[stack] ELSE <<>>
       IN  /\ nav_stack' = IF onto = "stack" /\ Len(pushed) < MaxDepth
                           THEN Put(nav_stack, stack, Append(pushed, screen)) ELSE nav_stack
           /\ st' = IF onto = "pathStack" /\ Len(st.path) < MaxDepth
                    THEN [st EXCEPT !.path = Append(@, screen)] ELSE st
    /\ UNCHANGED <<tab_selection, image_phase, spawned>>

\* Any other handler; a tap in an alert closes it after its action.
TapHandler ==
    /\ event.name = "tap" /\ Target # "link"
    /\ IF Target \in {"button", "alertButton"}
       THEN /\ \E s \in Effects(st) : st' = IF Target = "alertButton" THEN Closed(s) ELSE s
            /\ MaySpawn("handler")
       ELSE UNCHANGED <<st, spawned>>
    /\ UNCHANGED <<tab_selection, nav_stack, image_phase>>

Handle ==
    /\ pc = "handle"
    /\ Set \/ Select \/ ImagePhase \/ Back \/ Dismiss \/ TapLink \/ TapHandler
    /\ pc' = "drain"
    /\ UNCHANGED <<task_ids, task_lifecycle_started, current, stage, baseline, passes,
                   rendered, before, event, calls, hostVars, ghosts>>

\* The handler's closure throws half way.
HandlerThrows ==
    /\ pc = "handle" /\ event.name \in {"tap", "dismiss"}
    /\ Target \in {"button", "alertButton", "alert"}
    /\ st' \in Effects(IF Target = "alert" THEN Closed(st) ELSE st)
    /\ MaySpawn("handler")
    /\ AnswerError
    /\ UNCHANGED <<kept, told, ran>>
-----------------------------------------------------------------------------
(* drain_pending_tasks and render                                          *)

\* Mutant: only an event's Task {} work is driven.
DrainEvents ==
    /\ pc = "drain"
    /\ IF spawned = {} \/ stage = "task" THEN UNCHANGED <<st, spawned>>
       ELSE st' \in Effects(st) /\ spawned' = {}
    /\ pc' = "render"
    /\ UNCHANGED <<kept, current, stage, baseline, passes, rendered, before, event, calls,
                   hostVars, ghosts>>

Drain ==
    /\ pc = "drain"
    /\ IF spawned = {} THEN UNCHANGED <<st, spawned>>
       ELSE st' \in Effects(st) /\ spawned' = {}
    /\ pc' = "render"
    /\ UNCHANGED <<kept, current, stage, baseline, passes, rendered, before, event, calls,
                   hostVars, ghosts>>

\* A trap in a Task {} leaves the later ones pending.
DrainFails ==
    /\ pc = "drain" /\ spawned # {}
    /\ st' \in Effects(st)
    /\ spawned' \in SUBSET spawned
    /\ AnswerError
    /\ UNCHANGED <<kept, told, ran>>

Render ==
    /\ pc = "render"
    /\ current' = Tree(st)
    /\ image_phase' = KeptPhases(st)
    /\ rendered' = TRUE
    /\ pc' = "watch"
    /\ UNCHANGED <<st, tab_selection, nav_stack, task_ids, task_lifecycle_started, stage,
                   baseline, passes, before, event, calls, spawned, hostVars, ghosts>>

\* Phases of changed URLs may be gone by then; the tree is not replaced.
RenderFails ==
    /\ pc = "render"
    /\ image_phase' \in {image_phase,
          [p \in {q \in DOMAIN image_phase :
                     Layout[st.page][q] = None \/ Kind[Layout[st.page][q]] # "image"
                       \/ image_phase[q].url = st.x} |-> image_phase[p]]}
    /\ AnswerError
    /\ UNCHANGED <<st, tab_selection, nav_stack, task_ids, task_lifecycle_started, spawned,
                   told, ran>>
-----------------------------------------------------------------------------
(* run_watchers                                                            *)

\* Mutant: no watchers run after the tasks.
ChangedByEvent ==
    {p \in Watchers(current) \cap DOMAIN baseline :
        stage = "event" /\ baseline[p] # current[p].val}

\* Watchers whose value is not the one in the baseline; one that is new to
\* the tree has no entry there.
Changed ==
    {p \in Watchers(current) \cap DOMAIN baseline : baseline[p] # current[p].val}

\* What the watchers know when those of fired are told, and the new ones look.
Told(fired) ==
    [p \in Watchers(current) |->
        IF p \in fired \/ p \notin DOMAIN baseline \cap DOMAIN told
        THEN current[p].val ELSE told[p]]

\* A pass: the watchers that changed are told the old and the new value.
WatchersFire ==
    /\ pc = "watch" /\ passes < MaxPasses /\ Changed # {}
    /\ st' \in EffectsOf(Changed, st)
    /\ MaySpawn("watcher")
    /\ told' = Told(Changed)
    /\ baseline' = WatchValues(current)
    /\ passes' = passes + 1
    /\ pc' = "render"
    /\ UNCHANGED <<kept, current, stage, rendered, before, event, calls, hostVars, ran, lost, failed>>

WatcherThrows ==
    /\ pc = "watch" /\ passes < MaxPasses /\ Changed # {}
    /\ st' \in Effects(st)
    /\ MaySpawn("watcher")
    /\ AnswerError
    /\ UNCHANGED <<kept, told, ran>>

\* Nothing changed, or MAX_WATCH_PASSES passes have been made: new tasks
\* run after an event, if the host has mounted the tree.
WatchersDone ==
    /\ pc = "watch" /\ (passes = MaxPasses \/ Changed = {})
    /\ lost' = (lost \/ Changed # {})
    /\ told' = Told({})
    /\ IF stage = "event" /\ task_lifecycle_started
       THEN /\ pc' = "tasks"
            /\ UNCHANGED <<current, stage, baseline, passes, rendered, before, event, calls,
                           hostVars, failed>>
       ELSE AnswerPatches
    /\ UNCHANGED <<st, kept, spawned, ran>>
-----------------------------------------------------------------------------
(* run_new_tasks                                                           *)

\* Mutant: the identity of an unmounted task stays.
IdentitiesKept(tree) ==
    [p \in TaskPositions(tree) \cup DOMAIN task_ids |->
        IF p \in TaskPositions(tree) THEN TaskIdentity(tree[p]) ELSE task_ids[p]]

Identities(tree) == [p \in TaskPositions(tree) |-> TaskIdentity(tree[p])]

\* Tasks whose identity is not the one last recorded at their id.
NewTasks ==
    {p \in TaskPositions(current) :
        p \notin DOMAIN task_ids \/ task_ids[p] # TaskIdentity(current[p])}

Started(tasks) ==
    [p \in TaskPositions(current) \cap (DOMAIN ran \cup tasks) |->
        IF p \in tasks THEN TaskIdentity(current[p]) ELSE ran[p]]

RunNewTasks ==
    /\ pc = "tasks"
    /\ task_ids' = Identities(current)
    /\ ran' = Started(NewTasks)
    /\ IF NewTasks = {} THEN UNCHANGED <<st, spawned>>
       ELSE st' \in EffectsOf(NewTasks, st) /\ MaySpawn("task")
    /\ baseline' = WatchValues(current)
    /\ stage' = "task" /\ passes' = 0
    /\ pc' = "drain"
    /\ UNCHANGED <<tab_selection, nav_stack, image_phase, task_lifecycle_started, current,
                   rendered, before, event, calls, hostVars, told, lost, failed>>

\* A task throws: all are recorded, those after it have not started.
TaskThrows ==
    /\ pc = "tasks" /\ NewTasks # {}
    /\ task_ids' = Identities(current)
    /\ \E tasks \in SUBSET NewTasks : tasks # {} /\ ran' = Started(tasks)
    /\ st' \in Effects(st)
    /\ MaySpawn("task")
    /\ AnswerError
    /\ UNCHANGED <<tab_selection, nav_stack, image_phase, task_lifecycle_started, told>>
-----------------------------------------------------------------------------
Answering ==
    \/ Handle \/ HandlerThrows \/ Drain \/ DrainFails \/ Render \/ RenderFails
    \/ WatchersFire \/ WatcherThrows \/ WatchersDone \/ RunNewTasks \/ TaskThrows

HostActs ==
    \/ UserActs \/ MountTasks
    \/ \E p \in Pos, u \in Val, outcome \in Phases \ {"empty"} : LoadEnds(p, u, outcome)

Next == HostActs \/ Answering

Spec == Init /\ [][Next]_vars
-----------------------------------------------------------------------------
(* Properties                                                              *)

\* What the host shows is the session's tree between calls, unless a call
\* failed after it had made a new tree current.
HostMirrors ==
    pc = "idle" /\ ~failed => host = current

\* Between calls every watcher in the tree has been told of the value it
\* watches, whichever handler, task or watcher changed it, or has seen no
\* other: unless a call failed or ran out of passes.
WatchersInformed ==
    pc = "idle" /\ ~lost => \A p \in Watchers(current) : told[p] = current[p].val

\* Work a handler or a task spawned is done when its call is answered: only
\* a watcher's can wait for the next call.
SpawnedWorkDone ==
    pc = "idle" /\ ~lost => spawned \subseteq {"watcher"}

\* Every task recorded for a mounted node has been started with the recorded
\* identity since the node was mounted, unless a call failed.
RecordedTasksRan ==
    ~lost => task_ids = ran

\* An image shows the success or the failure of a load of its own URL, in
\* whatever order loads end and URLs change, while the host mirrors the session.
PhaseMatchesUrl ==
    ~failed => \A p \in Images(current) :
        current[p].show = <<"empty">> \/ <<current[p].val, current[p].show[1]>> \in arrived
=============================================================================

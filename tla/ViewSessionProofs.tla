-------------------------- MODULE ViewSessionProofs --------------------------
(* What a render session promises its host, for any program: any views at   *)
(* any ids, any closures, any number of calls, and errors anywhere.         *)
EXTENDS ViewSession, SequenceTheorems, TLAPS

\* No call is in progress.
Idle == pc = "idle"
-----------------------------------------------------------------------------
(* The host and the session                                                *)

\* The host shows the tree the call began with, which is still the session's
\* until the call renders.
MirrorInv ==
    /\ current = [p \in Pos |-> current[p]]
    /\ host = [p \in Pos |-> host[p]]
    /\ Idle => before = current
    /\ ~rendered => before = current
    /\ ~failed => host = before

\* An answer with patches: whatever differs between the two trees is sent.
LEMMA AnswerMirrors ==
    ASSUME MirrorInv, AnswerPatches
    PROVE  MirrorInv'
<1>1. host' = [p \in Pos |-> host'[p]]
  BY DEF AnswerPatches, Patched
<1>2. ASSUME ~failed PROVE host' = current
  <2>1. host = before
    BY <1>2 DEF MirrorInv
  <2>2. \A p \in Pos : host'[p] = current[p]
    BY <2>1 DEF AnswerPatches, Patched
  <2> QED BY <1>1, <2>2 DEF MirrorInv
<1> QED BY <1>1, <1>2 DEF MirrorInv, AnswerPatches, CallOver

\* An error before the first render leaves the two trees the same.
LEMMA ErrorMirrors ==
    ASSUME MirrorInv, AnswerError
    PROVE  MirrorInv'
BY DEF MirrorInv, AnswerError, CallOver, hostVars

LEMMA MirrorStep == MirrorInv /\ [Next]_vars => MirrorInv'
<1> SUFFICES ASSUME MirrorInv, [Next]_vars PROVE MirrorInv'
  OBVIOUS
<1>1. CASE UserActs
  BY <1>1 DEF MirrorInv, UserActs, Send, Begin, Idle, hostVars, ghosts
<1>2. ASSUME NEW p \in Pos, NEW u \in Val, NEW o \in Phases, LoadEnds(p, u, o)
      PROVE  MirrorInv'
  <2>1. CASE LoadGuard /\ ~(p \in Images(host) /\ host[p].val = u)
    BY <1>2, <2>1 DEF MirrorInv, LoadEnds, Idle, callVars, ghosts
  <2>2. CASE ~(LoadGuard /\ ~(p \in Images(host) /\ host[p].val = u))
    BY <1>2, <2>2 DEF MirrorInv, LoadEnds, Send, Begin, Idle, ghosts
  <2> QED BY <2>1, <2>2
<1>3. CASE MountTasks
  BY <1>3 DEF MirrorInv, MountTasks, Begin, Idle, hostVars, ghosts
<1>4. CASE Handle
  BY <1>4 DEF MirrorInv, Handle, Idle, hostVars, ghosts
<1>5. CASE Drain
  BY <1>5 DEF MirrorInv, Drain, Idle, hostVars, ghosts
<1>6. CASE Render
  <2>1. current' = [p \in Pos |-> current'[p]]
    BY <1>6 DEF Render, Tree
  <2> QED BY <1>6, <2>1 DEF MirrorInv, Render, Idle, hostVars, ghosts
<1>7. CASE WatchersFire
  BY <1>7 DEF MirrorInv, WatchersFire, Idle, hostVars
<1>8. CASE WatchersDone
  <2>1. CASE AnswerPatches
    BY <2>1, AnswerMirrors
  <2>2. CASE ~AnswerPatches
    BY <1>8, <2>2 DEF MirrorInv, WatchersDone, Idle, hostVars
  <2> QED BY <2>1, <2>2
<1>9. CASE RunNewTasks
  BY <1>9 DEF MirrorInv, RunNewTasks, Idle, hostVars
<1>10. CASE HandlerThrows \/ DrainFails \/ RenderFails \/ WatcherThrows \/ TaskThrows
  BY <1>10, ErrorMirrors DEF HandlerThrows, DrainFails, RenderFails, WatcherThrows, TaskThrows
<1>11. CASE UNCHANGED vars
  BY <1>11 DEF MirrorInv, Idle, vars, callVars, hostVars, ghosts
<1> QED
  BY <1>1, <1>2, <1>3, <1>4, <1>5, <1>6, <1>7, <1>8, <1>9, <1>10, <1>11
     DEF Next, HostActs, Answering

\* Between calls the host shows the session's tree, for any program: an
\* answer carries all that its renders changed, unless a call failed after
\* it had rendered (session.rs, dispatch; swiftui.rs of the ffi crate).
THEOREM Mirrors == Spec => []HostMirrors
<1>1. Init => MirrorInv
  BY DEF Init, MirrorInv, Idle, Tree
<1>2. MirrorInv => HostMirrors
  BY DEF MirrorInv, HostMirrors, Idle
<1> QED BY <1>1, <1>2, MirrorStep, PTL DEF Spec
-----------------------------------------------------------------------------
(* Work that closures spawn                                                *)

\* Only from a closure to the drain that follows it may work be pending that
\* no watcher spawned; what an error leaves behind is not counted.
SpawnedInv ==
    ~lost /\ pc # "drain" => spawned \subseteq {"watcher"}

LEMMA SpawnedStep == SpawnedInv /\ [Next]_vars => SpawnedInv'
<1> SUFFICES ASSUME SpawnedInv, [Next]_vars PROVE SpawnedInv'
  OBVIOUS
<1>1. CASE UserActs
  BY <1>1 DEF SpawnedInv, UserActs, Send, Begin, ghosts
<1>2. ASSUME NEW p \in Pos, NEW u \in Val, NEW o \in Phases, LoadEnds(p, u, o)
      PROVE  SpawnedInv'
  BY <1>2 DEF SpawnedInv, LoadEnds, Send, Begin, callVars, ghosts
<1>3. CASE MountTasks
  BY <1>3 DEF SpawnedInv, MountTasks, Begin, ghosts
<1>4. CASE Handle \/ RunNewTasks
  BY <1>4 DEF SpawnedInv, Handle, RunNewTasks
<1>5. CASE Drain
  BY <1>5 DEF SpawnedInv, Drain
<1>6. CASE Render
  BY <1>6 DEF SpawnedInv, Render, ghosts
<1>7. CASE WatchersFire
  BY <1>7 DEF SpawnedInv, WatchersFire, MaySpawn
<1>8. CASE WatchersDone
  BY <1>8 DEF SpawnedInv, WatchersDone
<1>9. CASE HandlerThrows \/ DrainFails \/ RenderFails \/ WatcherThrows \/ TaskThrows
  BY <1>9 DEF SpawnedInv, AnswerError, HandlerThrows, DrainFails, RenderFails, WatcherThrows,
              TaskThrows
<1>10. CASE UNCHANGED vars
  BY <1>10 DEF SpawnedInv, vars, callVars, ghosts
<1> QED
  BY <1>1, <1>2, <1>3, <1>4, <1>5, <1>6, <1>7, <1>8, <1>9, <1>10
     DEF Next, HostActs, Answering

\* When a call is answered, the Task {} work of its handler and of the .task
\* closures it started is done, whatever they spawned: only a watcher's waits
\* for the next call (session.rs, drain_pending_tasks).
THEOREM SpawnedWork == Spec => []SpawnedWorkDone
<1>1. Init => SpawnedInv
  BY DEF Init, SpawnedInv
<1>2. SpawnedInv => SpawnedWorkDone
  BY DEF SpawnedInv, SpawnedWorkDone
<1> QED BY <1>1, <1>2, SpawnedStep, PTL DEF Spec
-----------------------------------------------------------------------------
(* Tasks recorded and tasks started                                        *)

\* RunNewTasks records and starts the same tasks, if those recorded so far
\* have been started.
LEMMA TasksRunMatch ==
    ASSUME RecordedTasksRan, RunNewTasks
    PROVE  RecordedTasksRan'
<1> SUFFICES ASSUME ~lost PROVE Identities(current) = Started(NewTasks)
  BY DEF RecordedTasksRan, RunNewTasks
<1>1. task_ids = ran
  BY DEF RecordedTasksRan
<1>2. TaskPositions(current) \cap (DOMAIN ran \cup NewTasks) = TaskPositions(current)
  BY <1>1 DEF NewTasks
<1>3. ASSUME NEW p \in TaskPositions(current), p \notin NewTasks
      PROVE  ran[p] = TaskIdentity(current[p])
  BY <1>1, <1>3 DEF NewTasks
<1> QED BY <1>2, <1>3 DEF Identities, Started

LEMMA TasksStep == RecordedTasksRan /\ [Next]_vars => RecordedTasksRan'
<1> SUFFICES ASSUME RecordedTasksRan, [Next]_vars PROVE RecordedTasksRan'
  OBVIOUS
<1> USE DEF RecordedTasksRan, kept, ghosts
<1>1. CASE UserActs \/ MountTasks
  BY <1>1 DEF UserActs, MountTasks
<1>2. ASSUME NEW p \in Pos, NEW u \in Val, NEW o \in Phases, LoadEnds(p, u, o)
      PROVE  RecordedTasksRan'
  BY <1>2 DEF LoadEnds
<1>3. CASE Handle \/ Drain \/ Render \/ WatchersFire
  BY <1>3 DEF Handle, Drain, Render, WatchersFire
<1>4. CASE WatchersDone
  BY <1>4 DEF WatchersDone
<1>5. CASE RunNewTasks
  BY <1>5, TasksRunMatch
<1>6. CASE HandlerThrows \/ DrainFails \/ RenderFails \/ WatcherThrows \/ TaskThrows
  BY <1>6 DEF AnswerError, HandlerThrows, DrainFails, RenderFails, WatcherThrows, TaskThrows
<1>7. CASE UNCHANGED vars
  BY <1>7 DEF vars
<1> QED
  BY <1>1, <1>2, <1>3, <1>4, <1>5, <1>6, <1>7 DEF Next, HostActs, Answering

\* Unless a call failed, every .task recorded for a mounted node has been
\* started with the recorded identity since the node was mounted, however
\* often the tree was rendered in between (session.rs, run_new_tasks).
THEOREM RecordedTasks == Spec => []RecordedTasksRan
<1>1. Init => RecordedTasksRan
  BY DEF Init, RecordedTasksRan
<1> QED BY <1>1, TasksStep, PTL DEF Spec
-----------------------------------------------------------------------------
(* What the watchers know                                                  *)

\* Until a change goes untold, watchers know the values the next pass will
\* compare with; between calls, and before tasks run, those of the tree.
WatchInv ==
    ~lost =>
        IF pc \in {"idle", "tasks"} THEN told = WatchValues(current) ELSE told = baseline

\* A pass leaves every watcher in the tree with the value it has there.
LEMMA PassTells ==
    ASSUME told = baseline
    PROVE  Told(Changed) = WatchValues(current)
<1>1. ASSUME NEW p \in Watchers(current), p \notin Changed, p \in DOMAIN baseline
      PROVE  told[p] = current[p].val
  BY <1>1 DEF Changed
<1> QED BY <1>1 DEF Told, WatchValues

LEMMA WatchStep == WatchInv /\ [Next]_vars => WatchInv'
<1> SUFFICES ASSUME WatchInv, [Next]_vars, ~lost' PROVE WatchInv'
  BY DEF WatchInv
<1>1. CASE UserActs \/ MountTasks
  BY <1>1 DEF WatchInv, UserActs, Send, MountTasks, Begin, WatchValues, Watchers, ghosts
<1>2. ASSUME NEW p \in Pos, NEW u \in Val, NEW o \in Phases, LoadEnds(p, u, o)
      PROVE  WatchInv'
  <2>1. pc = "idle" /\ UNCHANGED <<current, ghosts>>
    BY <1>2 DEF LoadEnds, Send, Begin
  <2>2. CASE UNCHANGED callVars
    BY <2>1, <2>2 DEF WatchInv, WatchValues, Watchers, callVars, ghosts
  <2>3. CASE Send([name |-> "imagePhase", pos |-> p, value |-> o])
    BY <2>1, <2>3 DEF WatchInv, Send, Begin, WatchValues, Watchers, ghosts
  <2> QED BY <1>2, <2>2, <2>3 DEF LoadEnds
<1>3. CASE Handle \/ Drain \/ Render
  BY <1>3 DEF WatchInv, Handle, Drain, Render, ghosts
<1>4. CASE WatchersFire
  BY <1>4, PassTells DEF WatchInv, WatchersFire
<1>5. CASE WatchersDone
  <2>1. Changed = {} /\ told = baseline
    BY <1>5 DEF WatchersDone, WatchInv
  <2>2. told' = WatchValues(current)
    BY <1>5, <2>1, PassTells DEF WatchersDone
  <2>3. current' = current /\ pc' \in {"idle", "tasks"}
    BY <1>5 DEF WatchersDone, AnswerPatches, CallOver
  <2> QED BY <2>2, <2>3 DEF WatchInv, WatchValues, Watchers
<1>6. CASE RunNewTasks
  BY <1>6 DEF WatchInv, RunNewTasks
<1>7. CASE HandlerThrows \/ DrainFails \/ RenderFails \/ WatcherThrows \/ TaskThrows
  BY <1>7 DEF AnswerError, HandlerThrows, DrainFails, RenderFails, WatcherThrows, TaskThrows
<1>8. CASE UNCHANGED vars
  BY <1>8 DEF WatchInv, WatchValues, Watchers, vars, callVars, ghosts
<1> QED
  BY <1>1, <1>2, <1>3, <1>4, <1>5, <1>6, <1>7, <1>8 DEF Next, HostActs, Answering

\* Between calls every .onChange in the tree was told of the value it watches,
\* whoever changed it and in whichever pass, unless a call failed or the
\* passes ran out (session.rs, run_watchers).
THEOREM WatchersTold == Spec => []WatchersInformed
<1>1. Init => WatchInv
  BY DEF Init, WatchInv
<1>2. WatchInv => WatchersInformed
  BY DEF WatchInv, WatchersInformed, WatchValues
<1> QED BY <1>1, <1>2, WatchStep, PTL DEF Spec
-----------------------------------------------------------------------------
(* Images and their phases                                                 *)

State == [page : Page, x : Val, shown : BOOLEAN, path : Seq(View)]

\* The shape of the program's state and of its trees, of the event in hand
\* and of the screens pushed.
WellFormed ==
    /\ st \in State
    /\ \A p \in Pos : current[p] # None => current[p].view \in View /\ current[p].val \in Val
    /\ \A p \in DOMAIN nav_stack : nav_stack[p] \in Seq(View)
    /\ pc = "handle" => /\ event.pos \in Pos
                        /\ event.name = "set" => event.value \in Val

LEMMA EffectsTyped ==
    ASSUME NEW s \in State
    PROVE  Effects(s) \subseteq State /\ Closed(s) \in State
BY DEF Effects, Closed, State

LEMMA EffectsOfTyped ==
    ASSUME NEW s \in State, NEW closures
    PROVE  EffectsOf(closures, s) \subseteq State
BY EffectsTyped DEF EffectsOf

LEMMA TreeTyped ==
    ASSUME ProgramOK, NEW s \in State
    PROVE  \A p \in Pos : Tree(s)[p] # None =>
              /\ Tree(s)[p].view = Layout[s.page][p] /\ Tree(s)[p].view \in View
              /\ Tree(s)[p].val = s.x /\ Tree(s)[p].val \in Val
              /\ Tree(s)[p].show = Decoration(s, p, Tree(s)[p].view)
<1> TAKE p \in Pos
<1>1. Layout[s.page][p] \in View \cup {None}
  BY DEF ProgramOK, State
<1>2. s.x \in Val
  BY DEF State
<1> QED BY <1>1, <1>2 DEF Tree

\* SubSeq: what is left of a path or of a stack when its last screen is popped.
LEMMA FrontTyped ==
    ASSUME NEW S, NEW s \in Seq(S)
    PROVE  Front(s) \in Seq(S)
<1> DEFINE n == Len(s) - 1
<1>1. 1 \in Int /\ n \in Int /\ \A i \in 1 .. n : s[i] \in S
  OBVIOUS
<1> HIDE DEF n
<1>2. SubSeq(s, 1, n) \in Seq(S)
  BY <1>1, SubSeqProperties, ZenonT(20)
<1>3. Front(s) = SubSeq(s, 1, n)
  BY DEF Front, n
<1> QED BY <1>2, <1>3

LEMMA WellFormedInit == ProgramOK /\ Init => WellFormed
<1> SUFFICES ASSUME ProgramOK, Init PROVE WellFormed
  OBVIOUS
<1>1. st \in State
  <2>1. << >> \in Seq(View)
    OBVIOUS
  <2> QED BY <2>1 DEF Init, State
<1>2. \A p \in Pos : current[p] # None => current[p].view \in View /\ current[p].val \in Val
  BY <1>1, TreeTyped DEF Init
<1> QED BY <1>1, <1>2 DEF Init, WellFormed

\* The handlers: an event's value, a pushed screen, what a closure assigns.
LEMMA HandleWellFormed ==
    ASSUME ProgramOK, WellFormed, Handle
    PROVE  st' \in State /\ \A p \in DOMAIN nav_stack' : nav_stack'[p] \in Seq(View)
<1> USE DEF WellFormed
<1>0. event.pos \in Pos
  BY DEF Handle
<1>1. CASE Set
  BY <1>1 DEF Set, Handle, State
<1>2. CASE Select \/ ImagePhase
  BY <1>2 DEF Select, ImagePhase
<1>3. CASE Back
  <2>1. st' \in State
    <3>1. st.path \in Seq(View) /\ Front(st.path) \in Seq(View)
      BY FrontTyped DEF State
    <3>2. st' = st \/ st' = [st EXCEPT !.path = Front(st.path)]
      BY <1>3 DEF Back
    <3> QED BY <3>1, <3>2 DEF State
  <2>2. ASSUME NEW p \in DOMAIN nav_stack' PROVE nav_stack'[p] \in Seq(View)
    <3>1. CASE nav_stack' = nav_stack
      BY <3>1, <2>2
    <3>2. CASE nav_stack' = Without(nav_stack, event.pos)
      BY <3>2, <2>2 DEF Without
    <3>3. CASE /\ Target # "pathStack" /\ event.pos \in DOMAIN nav_stack
               /\ nav_stack' = [nav_stack EXCEPT ![event.pos] = Front(@)]
      BY <3>3, <2>2, FrontTyped
    <3> QED BY <1>3, <3>1, <3>2, <3>3 DEF Back
  <2> QED BY <2>1, <2>2
<1>4. CASE Dismiss
  BY <1>4, EffectsTyped DEF Dismiss
<1>5. CASE TapLink
  <2>1. current[event.pos].view \in View
    BY <1>0, <1>5 DEF TapLink, Target, KindAt
  <2>2. st' \in State
    <3> DEFINE longer == Append(st.path, current[event.pos].view)
    <3>1. st.path \in Seq(View) /\ longer \in Seq(View)
      BY <2>1 DEF State
    <3>2. st' = st \/ st' = [st EXCEPT !.path = longer]
      BY <1>5 DEF TapLink
    <3> HIDE DEF longer
    <3> QED BY <3>1, <3>2 DEF State
  <2>3. ASSUME NEW p \in DOMAIN nav_stack' PROVE nav_stack'[p] \in Seq(View)
    BY <1>5, <2>1, <2>3 DEF TapLink, Put
  <2> QED BY <2>2, <2>3
<1>6. CASE TapHandler
  BY <1>6, EffectsTyped DEF TapHandler
<1> QED BY <1>1, <1>2, <1>3, <1>4, <1>5, <1>6 DEF Handle

\* What the host may send is about a node of the tree it shows.
LEMMA EventTyped ==
    ASSUME NEW p \in Pos, NEW e \in UserEvents(p)
    PROVE  /\ e.pos \in Pos /\ e.name # "imagePhase"
           /\ e.name = "set" => e.value \in Val
BY DEF UserEvents

LEMMA WellFormedStep == ProgramOK /\ WellFormed /\ [Next]_vars => WellFormed'
<1> SUFFICES ASSUME ProgramOK, WellFormed, [Next]_vars PROVE WellFormed'
  OBVIOUS
<1> USE DEF WellFormed
<1>1. CASE UserActs
  BY <1>1, EventTyped DEF UserActs, Send, Begin, kept
<1>2. ASSUME NEW p \in Pos, NEW u \in Val, NEW o \in Phases, LoadEnds(p, u, o)
      PROVE  WellFormed'
  BY <1>2 DEF LoadEnds, Send, Begin, callVars, kept
<1>3. CASE MountTasks
  BY <1>3 DEF MountTasks, Begin
<1>4. CASE Handle
  <2>1. st' \in State /\ \A p \in DOMAIN nav_stack' : nav_stack'[p] \in Seq(View)
    BY <1>4, HandleWellFormed
  <2> QED BY <1>4, <2>1 DEF Handle
<1>5. CASE Drain
  BY <1>5, EffectsTyped DEF Drain, kept
<1>6. CASE Render
  <2>1. current' = Tree(st) /\ UNCHANGED <<st, nav_stack>> /\ pc' = "watch"
    BY <1>6 DEF Render
  <2> QED BY <2>1, TreeTyped
<1>7. CASE WatchersFire
  BY <1>7, EffectsOfTyped DEF WatchersFire, kept
<1>8. CASE WatchersDone
  BY <1>8 DEF WatchersDone, AnswerPatches, CallOver, kept
<1>9. CASE RunNewTasks
  BY <1>9, EffectsOfTyped DEF RunNewTasks
<1>10. CASE HandlerThrows \/ DrainFails \/ RenderFails \/ WatcherThrows \/ TaskThrows
  <2>1. pc' = "idle" /\ UNCHANGED <<current, nav_stack>>
    BY <1>10 DEF HandlerThrows, DrainFails, RenderFails, WatcherThrows, TaskThrows,
                 AnswerError, CallOver, kept
  <2>2. st' \in Effects(st) \cup Effects(Closed(st)) \cup {st}
    BY <1>10 DEF HandlerThrows, DrainFails, RenderFails, WatcherThrows, TaskThrows
  <2> QED BY <2>1, <2>2, EffectsTyped
<1>11. CASE UNCHANGED vars
  BY <1>11 DEF vars, kept, callVars
<1> QED
  BY <1>1, <1>2, <1>3, <1>4, <1>5, <1>6, <1>7, <1>8, <1>9, <1>10, <1>11
     DEF Next, HostActs, Answering

\* While the host mirrors the session: a phase kept for an id belongs to a
\* load of the URL kept with it, and so does the phase an event reports.
PhaseInv ==
    ~failed =>
        /\ \A p \in DOMAIN image_phase :
              image_phase[p].url # None =>
                 <<image_phase[p].url, image_phase[p].phase>> \in arrived
        /\ pc = "handle" /\ event.name = "imagePhase" /\ Target = "image" =>
              <<current[event.pos].val, event.value>> \in arrived
        /\ PhaseMatchesUrl

\* A render shows a phase only for the URL the image has in the new tree.
LEMMA RenderedPhases ==
    ASSUME ProgramOK, WellFormed, PhaseInv, ~failed, Render
    PROVE  \A p \in Images(Tree(st)) :
              \/ Tree(st)[p].show = <<"empty">>
              \/ <<Tree(st)[p].val, Tree(st)[p].show[1]>> \in arrived
<1> TAKE p \in Images(Tree(st))
<1> DEFINE node == Tree(st)[p]
<1>1. p \in Pos /\ node # None /\ Kind[node.view] = "image"
  BY DEF Images, KindAt
<1>2. node.show = Decoration(st, p, node.view) /\ node.val = st.x /\ st.x # None
  BY <1>1, TreeTyped DEF WellFormed, State, ProgramOK
<1>3. node.show = <<IF p \in DOMAIN KeptPhases(st) THEN image_phase[p].phase ELSE "empty">>
  BY <1>1, <1>2 DEF Decoration
<1>4. CASE p \in DOMAIN KeptPhases(st)
  <2>1. p \in DOMAIN image_phase /\ image_phase[p].url = st.x
    BY <1>4 DEF KeptPhases
  <2>2. <<st.x, image_phase[p].phase>> \in arrived
    BY <1>2, <2>1 DEF PhaseInv
  <2>3. node.show[1] = image_phase[p].phase
    BY <1>3, <1>4
  <2> QED BY <1>2, <2>2, <2>3
<1>5. CASE p \notin DOMAIN KeptPhases(st)
  BY <1>3, <1>5
<1> QED BY <1>4, <1>5

\* The web host reports a load only while the element shows its URL, and the
\* session's tree is then the same.
LEMMA ReportedLoad ==
    ASSUME LoadGuard, MirrorInv, PhaseInv,
           NEW p \in Pos, NEW u \in Val, NEW o \in Phases, LoadEnds(p, u, o)
    PROVE  PhaseInv'
<1> SUFFICES ASSUME ~failed PROVE PhaseInv'
  BY DEF PhaseInv, LoadEnds, ghosts
<1>1. UNCHANGED <<current, image_phase>> /\ arrived' = arrived \cup {<<u, o>>}
  BY DEF LoadEnds, kept
<1>2. PhaseMatchesUrl'
  BY <1>1 DEF PhaseInv, PhaseMatchesUrl, Images, KindAt
<1>3. CASE UNCHANGED callVars /\ pc = "idle"
  BY <1>1, <1>2, <1>3 DEF PhaseInv, callVars
<1>4. CASE /\ host[p].val = u
           /\ Send([name |-> "imagePhase", pos |-> p, value |-> o])
  <2>1. host = current /\ event' = [name |-> "imagePhase", pos |-> p, value |-> o]
    BY <1>4 DEF Send, Begin, MirrorInv, Idle
  <2> QED BY <1>1, <1>2, <1>4, <2>1 DEF PhaseInv
<1> QED BY <1>3, <1>4 DEF LoadEnds

LEMMA PhaseStep ==
    LoadGuard /\ ProgramOK /\ MirrorInv /\ WellFormed /\ PhaseInv /\ [Next]_vars => PhaseInv'
<1> SUFFICES ASSUME LoadGuard, ProgramOK, MirrorInv, WellFormed, PhaseInv, [Next]_vars, ~failed'
             PROVE  PhaseInv'
  BY DEF PhaseInv
<1> USE DEF PhaseInv, PhaseMatchesUrl, Images, KindAt
<1>1. CASE UserActs
  <2>1. PICK p \in Pos : \E e \in UserEvents(p) : Send(e)
    BY <1>1 DEF UserActs
  <2>2. event'.name # "imagePhase"
    BY <2>1, EventTyped DEF Send
  <2> QED BY <1>1, <2>2 DEF UserActs, kept, hostVars, ghosts
<1>2. ASSUME NEW p \in Pos, NEW u \in Val, NEW o \in Phases, LoadEnds(p, u, o)
      PROVE  PhaseInv'
  BY <1>2, ReportedLoad
<1>3. CASE MountTasks
  BY <1>3 DEF MountTasks, Begin, hostVars, ghosts
<1>4. CASE Handle
  <2>1. ~failed /\ UNCHANGED <<current, arrived, event>> /\ pc = "handle" /\ pc' = "drain"
    BY <1>4 DEF Handle, hostVars, ghosts
  <2>2. CASE image_phase' = image_phase
    BY <2>1, <2>2
  <2>3. CASE ImagePhase
    <3> DEFINE url == IF Target = "image" THEN current[event.pos].val ELSE None
    <3>1. image_phase' = Put(image_phase, event.pos, [phase |-> event.value, url |-> url])
      BY <2>3 DEF ImagePhase
    <3>2. url # None => <<url, event.value>> \in arrived
      BY <2>1, <2>3 DEF ImagePhase
    <3> HIDE DEF url
    <3> QED BY <2>1, <3>1, <3>2 DEF Put
  <2> QED BY <1>4, <2>2, <2>3 DEF Handle, Set, Select, Back, Dismiss, TapLink, TapHandler
<1>5. CASE Drain
  BY <1>5 DEF Drain, kept, hostVars, ghosts
<1>6. CASE Render
  <2>1. /\ ~failed /\ arrived' = arrived /\ pc' = "watch"
        /\ current' = Tree(st) /\ image_phase' = KeptPhases(st)
    BY <1>6 DEF Render, hostVars, ghosts
  <2>2. PhaseMatchesUrl'
    BY <1>6, <2>1, RenderedPhases
  <2> QED BY <2>1, <2>2 DEF KeptPhases
<1>7. CASE WatchersFire
  BY <1>7 DEF WatchersFire, kept, hostVars
<1>8. CASE WatchersDone
  <2>1. /\ UNCHANGED <<current, image_phase, arrived, failed>>
        /\ pc' \in {"idle", "tasks"}
    BY <1>8 DEF WatchersDone, AnswerPatches, CallOver, kept, hostVars
  <2> QED BY <2>1
<1>9. CASE RunNewTasks
  BY <1>9 DEF RunNewTasks, hostVars
<1>10. CASE HandlerThrows \/ DrainFails \/ WatcherThrows \/ TaskThrows
  BY <1>10 DEF HandlerThrows, DrainFails, WatcherThrows, TaskThrows, AnswerError, CallOver,
               kept, hostVars
<1>11. CASE RenderFails
  <2>1. /\ UNCHANGED <<current, arrived, host>> /\ pc' = "idle"
        /\ failed' = (failed \/ rendered)
        /\ image_phase' = image_phase
             \/ \E S \in SUBSET DOMAIN image_phase :
                   image_phase' = [p \in S |-> image_phase[p]]
    BY <1>11 DEF RenderFails, AnswerError, CallOver, hostVars
  <2>2. ~failed' => ~failed
    BY <2>1
  <2>3. \A p \in DOMAIN image_phase' :
           p \in DOMAIN image_phase /\ image_phase'[p] = image_phase[p]
    BY <2>1
  <2> QED BY <2>1, <2>2, <2>3 DEF PhaseMatchesUrl
<1>12. CASE UNCHANGED vars
  BY <1>12 DEF vars, kept, callVars, hostVars, ghosts, Target
<1> QED
  BY <1>1, <1>2, <1>3, <1>4, <1>5, <1>6, <1>7, <1>8, <1>9, <1>10, <1>11, <1>12
     DEF Next, HostActs, Answering

\* With a host that checks the URL of a late load, as the web host does, an
\* image never shows the outcome of a load of another URL, in whatever order
\* loads end and trees change, while the host mirrors the session
\* (session.rs, image_phase_node and prune_image_phase).
THEOREM PhasesMatch == LoadGuard => (Spec => []PhaseMatchesUrl)
<1> SUFFICES ASSUME LoadGuard PROVE Spec => []PhaseMatchesUrl
  OBVIOUS
<1>1. Init => MirrorInv /\ WellFormed /\ PhaseInv
  <2> SUFFICES ASSUME Init PROVE MirrorInv /\ WellFormed /\ PhaseInv
    OBVIOUS
  <2>1. MirrorInv
    BY DEF Init, MirrorInv, Idle, Tree
  <2>2. WellFormed
    BY WellFormedInit, ProgramOK
  <2>3. ASSUME NEW p \in Images(current) PROVE current[p].show = <<"empty">>
    <3>1. p \in Pos /\ current[p] # None /\ Kind[current[p].view] = "image"
      BY DEF Images, KindAt
    <3>2. current[p].show = Decoration(st, p, current[p].view)
      BY <2>2, <3>1, TreeTyped, ProgramOK DEF Init, WellFormed
    <3>3. DOMAIN KeptPhases(st) = {}
      BY DEF Init, KeptPhases
    <3> QED BY <3>1, <3>2, <3>3 DEF Decoration
  <2> QED BY <2>1, <2>2, <2>3 DEF Init, PhaseInv, PhaseMatchesUrl
<1>2. MirrorInv /\ WellFormed /\ PhaseInv /\ [Next]_vars
        => (MirrorInv /\ WellFormed /\ PhaseInv)'
  BY MirrorStep, WellFormedStep, PhaseStep, ProgramOK
<1>3. PhaseInv => PhaseMatchesUrl
  BY DEF PhaseInv, PhaseMatchesUrl
<1> QED BY <1>1, <1>2, <1>3, PTL DEF Spec
=============================================================================

# tswift, verified: TLA+ models of its runtime

tswift runs Swift programs in Rust: a frontend (lexer, parser, sema) feeds a
tree-walking interpreter, and the standard library, Foundation, SwiftUI,
SwiftData and EventKit are Rust builtins.  Hosts (a CLI, a C ABI for iOS, a
wasm module for the browser) drive it over JSON.  The interpreter is single
threaded.  What is hard about it is therefore seldom two threads, and mostly
*callbacks* (a program runs inside a library call and calls the library
again), *long sequences of legal calls* against native state that outlives
each of them, *host calls that fail half-way*, and one real cross-thread
queue, the HTTP event stream of the C ABI.

This directory holds TLA+ modules for those parts, TLC configurations that
check them on small instances, and TLAPS proofs of what matters most.
Paths below are relative to `src/`.

## 1. Inventory

| part | state it keeps | operations | interacts with |
|---|---|---|---|
| frontend: `crates/tswift-lexer`, `-ast`, `-parser`, `-sema`, `-frontend` | none between calls; one `Analysis` per program | analyze, analyze_program, list symbols/tests | interpreter borrows the `Analysis` |
| interpreter: `crates/tswift-core/src/interp*`, `ops.rs`, `value.rs`, `env.rs`, `stdlib.rs` | frames, closures table, `ClassObj` heap behind `Rc<RefCell>` | eval of every node, dispatch, `call_closure`, `call_method` | every builtin through `StdContext` |
| concurrency: `tswift-core/src/interp/concurrency.rs` | tasks, groups, streams, continuations, the current task | `Task {}`, `async let`, `await`, task groups, cancel, `AsyncStream`, `withCheckedContinuation` | interpreter stack (a task runs *nested*) |
| HTTP seam: `tswift-core/src/http.rs` | thread-local handle table for one-shot transports | perform, start, next_event, cancel | URLSession above, host transport below |
| HTTP over the C ABI: `tswift-ffi/src/http.rs` | per task a mutex/condvar queue, `terminal_pushed`, deadline; a registry of tokens | start, next_event, cancel, `tswift_http_event` (any host thread), drop | host threads |
| HTTP of the CLI: `tswift-cli/src/nethttp.rs` | pending map of in-memory and socket streams | start, next_event, cancel | `ureq` |
| URLSession: `tswift-foundation/src/urlsession.rs` | task objects (`state`, `_cancelled`, counters), one response-disposition slot | resume, cancel, data/upload, the event driver | seam; delegate callbacks into the program |
| SwiftData: `tswift-swiftdata/src/model.rs`, `db.rs` | per context: inserted, tracked, deleted, identity map; view scope stacks | insert, delete, save, rollback, transaction, fetch, deleteAllData; scope enter/exit | SQLite host service, SwiftUI render |
| SwiftUI session: `tswift-swiftui/src/session.rs`, `tree.rs`, `navigation.rs`, `async_image.rs` | state store by view identity, nav stacks, tab selection, image phases, watcher values, task ids | render, dispatch, run_mount_tasks, watchers | interpreter, diff |
| diff and patches: `tswift-swiftui/src/diff.rs`, `web/swiftui-canvas/src/apply-patch.ts` | two UIIR trees; the host's mounted tree | mount, diff; apply | the host applies what diff emits |
| views, modifiers, charts: `tswift-swiftui/src/{views,modifiers,uiir}.rs`, `tswift-charts` | none | build UIIR nodes | session |
| EventKit: `tswift-eventkit` | calendars, items, access grants (thread-local) | save, remove, fetch, request access, reset | SwiftUI pickers |
| Testing: `tswift-testing` | thread-local recording session, stack of known-issue scopes, abort flag | begin, end, record, withKnownIssue, run tests | CLI, ffi |
| host bridge and services: `tswift-core/src/host_bridge.rs`, `host_services.rs` | registered host functions, capabilities | register, invoke | every host |
| user defaults, file manager: `tswift-foundation` | none of their own (the host's store) | get/set, file operations | host services |
| CLI host handlers: `tswift-cli/src/{db,defaults,fs,sqlite_ffi}.rs` | SQLite handles, defaults file | open, execute, close; get/set | bridge |
| ffi context: `tswift-ffi/src/{lib,run,swiftui,host}.rs` | handlers registered, one live SwiftUI session | new, free, run, compile, dispatch | iOS facade |
| wasm: `tswift-wasm` | warm-start analysis cache (LRU), session | run, compile, dispatch | web canvas |
| fragment cache: `tswift-core/src/fragment_cache.rs` | parsed interpolation fragments, owned boxes behind `&'static` | parse-or-reuse | interpreter |
| std, foundation values: `tswift-std`, the rest of `tswift-foundation` | none | pure functions on values | interpreter |
| apps, ios, website, tools, prototype, examples | UI, build and demo code | | ffi, wasm |

What makes each stateful part correct:

* **SwiftData** - an object is in one change set of a context; the identity map
  answers a row with one object; a save writes each change once and a failed
  one loses none; rollback returns to the store.
* **HTTP stream** - events reach the program in the order the host sent them,
  one terminal event and nothing after it; a blocked poll is woken; a timeout
  is never early; cancel never blocks the drain that follows; a token lives
  as long as the host may use it.
* **URLSession** - every task that is resumed completes, once; a handle is
  drained whatever the delegate does; a cancelled task does not succeed.
* **Concurrency** - a task runs at most once; awaiting a task that is running
  is detected instead of looping; a group returns with no child unfinished;
  cancellation reaches structured children; a continuation resumes once.
* **SwiftUI** - applying the patches of a diff to the old tree gives the new
  tree; image phases and task identities go with their view; watchers are told
  of every change; an event reaches the handler of the view it was addressed to.
* **Caches** - at most the cap, and a hit is for the same source.
* **Testing** - issues are attributed to the test that recorded them; scopes
  are popped on every exit path.

What makes behaviours hard, by part: SwiftData - long sequences of calls over
cached state, host calls failing inside a save, two contexts on one
connection.  HTTP - a real race of host threads with the interpreter, a
deadline, cancel.  URLSession - re-entrance: a delegate's method runs in the
middle of a request and may start another.  Concurrency - no thread at all, so
whoever waits runs others on its own stack.  SwiftUI - state keyed by
structural ids across renders, errors half-way through a dispatch, patches
applied one by one to lists that change under them.  Testing - one flag tells
a failed `#require` from an error of the program.

The complete list of components, with what is left out of each, and of the
hazards with the source line where each bites is in `PROJECT.json`.

## 2. Modules

| module | models | abstracts |
|---|---|---|
| `ModelContext` | `tswift-swiftdata/src/model.rs`: insert, delete, save, rollback, transaction, fetch, deleteAllData, teardown of the contexts of one container, and the SQLite tables behind it | field values (members of `Val`, and `Bad` for one that does not encode), SQL text, predicates (a fetch selects any rows) |
| `UnitOfWork` | the promise: a committed table, one user's view of it, values waiting to be inserted | |
| `ModelContextView` | the refinement mapping from `ModelContext` with one context to `UnitOfWork` | |
| `ViewScope` | the context a view's `@Query` reads: `scope_enter`, `scope_exit`, `current_model_context` of `model.rs` as `resolve_root`, `expand_into` and `Session::render` call them | which views a body makes, what a query fetches |
| `EventStream` | the contract of the transport seam, `tswift-core/src/http.rs` | |
| `HttpStream` | `tswift-ffi/src/http.rs`: start, next_event, cancel, `tswift_http_event`, drop; one step is one critical section | headers, bodies (a chunk is a model value), the length of a timeout |
| `PolledTransport` | the transports that wait in their own next_event: the seam's default over `perform()` (`tswift-core/src/http.rs`) and `NetTransport` (`tswift-cli/src/nethttp.rs`) | sockets, the mock server |
| `Transports` | a run of the interpreter with one of the three transports, and the seam each implements | |
| `UrlSession` | `tswift-foundation/src/urlsession.rs`: resume, cancel, data/upload, the event driver with its delegate methods; the disposition slot of `interp.rs` | requests, responses, byte counts |
| `Scheduler` | `tswift-core/src/interp/concurrency.rs`: tasks, groups, continuations, drives | results (a body's outcome is value, throw or error), stream elements |
| `ViewSession` | `tswift-swiftui/src/session.rs`: dispatch of every event, renders, watchers, mount tasks, the state kept by structural id, and the host that gets the answer | Swift closures (any change of a small `@State`), the content of nodes, App scenes |
| `ViewDiff` | `tswift-swiftui/src/diff.rs` and the store of nodes it is applied to, `web/swiftui-canvas/src/uiir-tree.ts` | arguments and modifiers are values compared as a whole |
| `WebHost` | the elements `web/swiftui-canvas/src/apply-patch.ts` shows for the nodes: their order, a `NavigationStack`'s bar and shown screen, elements that leave with a transition | styles, listeners, charts, pickers, AsyncImage slots |
| `TestRunner` | `tswift-testing`: plans, selection by id, the recording session, `withKnownIssue`, `#require`, `#expect(throws:)`, a run's outcome | operands, messages, trait values |
| `ModelContextProofs`, `ModelContextViewProofs`, `TransportsProofs` (with those of `HttpStream`), `UrlSessionProofs`, `SchedulerProofs`, `ViewSessionProofs`, `ViewDiffProofs` (with those of `WebHost`), `TestRunnerProofs` | theorems and proofs, one module for each that it extends | |
| `MC*` | constants and symmetry sets for TLC | |

How state and actions correspond to the code:

* **`ModelContext`** - `inserted`, `tracked`, `deleted`, `identity` are the
  fields of `ContextState`; `heap` the fields of the model objects, `rows` and
  `durable` the tables as the connection sees them and as committed, `wedged`
  a connection whose best-effort ROLLBACK failed, `block` the open
  `transaction(_:)`.  Each method is one action, because nothing runs inside
  it: `Insert`, `Delete`, `Save`, `Rollback`, `Fetch`, `DeleteAllData`,
  `DeleteAllDataFails`, `Restart` (teardown and a new process).  `Save` is
  `SaveCommits`, `SaveChangesNothing` (encoding, BEGIN or a statement failed)
  or `SaveWedges`.  Only `transaction(_:)` is several steps, since its block is
  the program's.  `Client` and `Faults` name what a run's program and host may
  do, so that a run says under which behaviour its properties hold.
* **`HttpStream`** - `queue` and `terminal` are `QueueState`, `pending` the
  handler's map, `tokens` the live token boxes, `call` the place of the
  interpreter thread in `next_event`: idle, asleep on the condition variable,
  woken, or past a wait that timed out.  `Push` is `tswift_http_event` on any
  host thread, malformed JSON included.  `sent`, `got`, `issued`, `cancelled`
  are history.
* **`UrlSession`** - `stack` is the native stack: a frame per request in
  progress, with the place it is in (polling, or inside the delegate's method
  its `at` names), its handle, and its locals.  A step is one event with all
  the driver does about it, or one thing the program does inside a callback.
  `slot` is the interpreter's one response disposition and its token.
* **`Scheduler`** - `tasks`, `current`, `groups`, `cancelled`, `conts` are the
  tables of the struct `Scheduler`; `stack` holds a frame per body of the
  program and per loop that runs tasks (`drive_pending`, `drain_group`,
  `drain_group_results`); `failing` is an interpreter error on its way up.

* **`ViewScope`** - `scope` holds the four fields of the registry; `chain` and
  `nested` are the views around the body under evaluation, the ones `resolve_root`
  went through and the ones inside that body; `place` says where the render is.
* **`PolledTransport`** - `pending` is the handle table of either transport: for
  the one-shot default the events `perform()` left for each handle, for
  `NetTransport` the state of its stream.  `Transports` puts it beside
  `HttpStream`; `backend` says which one a run has.
* **`ViewSession`** - a call of the host is several steps, at the places an error
  can leave it: the handler, the drive of pending tasks, the render, each pass
  of watchers, the new tasks.  `tab_selection`, `nav_stack`, `image_phase`,
  `task_ids` are the fields of `RenderSession`; `Layout` says which view each
  branch of the body has at each structural id.  `host` is what the host
  shows: its old tree with what differs between the trees before and after
  the call.  `told`, `ran`, `arrived`, `lost`, `failed` are history.
* **`ViewDiff`** - `walk` is the stack of calls of `diff_node`, a frame for each with
  the place and the index it has come to: `DiffNode` and `DiffModifiers` are its head,
  `DropGone`, `PlaceKey` and `MoveKey` the loops of `diff_keyed_children`, `DiffEach` and
  `DropTail` those of `diff_positional_children`.  `store` is the map from ids to
  nodes of `UiirTree`, `inbox` the patch it has not taken yet.  In the code the
  answer is complete before the host sees it; here it goes over a patch at a
  time, which is the same, since the diff reads nothing of the host's, and lets
  an invariant relate the two.  `Apply` takes the patch, or finds that it names no
  node and drops what is left of the answer.
* **`WebHost`** - `dom` holds the children of every node's element.  A patch goes
  to the store and then to the elements, in one step, since `apply` runs to its
  end; `TweenEnds` comes between answers, when the browser calls back.
* **`TestRunner`** - `session` is the thread-local recording session; `frames`
  the blocks the body is in, and what the blocks themselves say went wrong,
  which the status of a test is compared with.

How they meet: `UrlSession` takes events of an arbitrary transport, which is
more than `EventStream` allows, so its properties need nothing of the transport
below except how much it delivers after a cancel (`MaxBuffered < MaxDrain`);
`Transports` shows what each transport gives it.  `Scheduler` meets `UrlSession`
in the cancellation of the enclosing Swift task (`swift`).  `ViewSession` takes
of a diff and its application that the host ends up with the new tree where it
had the old one, which is `PatchesReachTree` of `ViewDiff`; `WebHost` extends
`ViewDiff` with what the web host makes of the same patches.

## 3. Runs

| run | instance | shows |
|---|---|---|
| `context_shared` | 2 contexts, 2 objects, 2 rowids, all clients and faults | `TypeOK`, `RolesExclusive` (an object is in one change set of a context, once), `SaveLeavesClean` (a committed save leaves nothing to write) |
| `context_view` | 1 context, 3 objects, 2 rowids, 2 values, all clients, failing ROLLBACK | `IdentityUnique` (a row is addressed through one object, the one the identity map answers with), `PersistedRowsExist`, `SnapshotsMatchStore`; `ImplementsUnitOfWork`: while the program is careful, a save stores the user's view in one step, a failed one keeps every pending change, rollback returns to the store |
| `http` | each transport, 2 requests, 3 pushes each, a host that pushes anything | `TypeOK`, `TerminalAwaits`, `NothingAfterTerminal`, `EventsInOrder`, `NoLostWakeup`, `NoEarlyFailure`, `ImplementsSeam` (every transport does what `EventStream` allows), `PollReturns` (liveness) |
| `url` | a data task and a `data(from:)` call, nested in each other, 2 events before the last | `HandlesDrained`, `CallbackOrder`, `RunningIsDriven`, `CancelledStopsPolling`, `SecondResultNeedsCancel`, `DispositionHonoured`, `ResumedCompletes` (liveness) |
| `tasks_all` | 3 tasks, 1 group, 1 continuation, streams, `for await` | `RunningOnStack`, `SlotHasReader`, `EndMeansDone` |
| `tasks_group` | 3 tasks, 1 group without `for await`, no streams or continuations | `GroupsFinish`, `CancelReachesGroup`, `DeadlockIsReal`, `ProgramEnds` (liveness) |
| `view_session` | 3 branches over 4 ids with views of every kind, 3 calls, any closure and failure | `HostMirrors`, `WatchersInformed`, `SpawnedWorkDone`, `RecordedTasksRan`, `PhaseMatchesUrl` |
| `view_diff` | every pair of trees: a `List` of up to 3 keyed rows out of 3 keys, a `VStack` of up to 2 views, rows with rows of their own, transitions | `PatchesReachTree`, `ElementsSurvive` (an element is rebuilt only when its kind or key says so), `DomInOrder` |
| `testing` | 2 tests, 2 argument lists, 4 operations, 3 blocks deep | `StatusHonest`, `KnownScopesBalance`, `SelectionHeard` |
| `testing_trap` | 1 test | *violated*: `TrapsFail` |
| `query_scope` | an App or a View, 2 containers, root chains and nesting of up to 2 views | *violated*: `NearestContainer` |
| `nav_push` | stacks of 1 and 2 screens | *violated*: `TopmostVisible` |

The last three state what a comment or a document says and the code does not do:

* `testing_trap` - tswift-testing/src/lib.rs:525, "An uncaught throw or a runtime
  trap that is *not* a `#require` abort is itself a test failure".  The body of a
  `withKnownIssue` stops the throw of a failed `#require` and ends normally: the
  flag stays set, and a later trap passes for the abort.
* `query_scope` - tswift-swiftdata/src/model.rs:785, the hooks publish a container's
  context "for exactly that view's subtree, so `@Query` reads the nearest-ancestor
  context with no leakage".  The root's body is evaluated outside any bracket: what
  it reads after a view in it has come and gone is that view's container.  The
  bodies that replace it are bracketed one after another, so the second is not in
  the scope of the first; and pushed screens are evaluated after all of them.
* `nav_push` - apply-patch.ts:555, "The `.nav-bar` is a synthetic element excluded
  from patch addressing", and ADR 13, "topmost visible".  `patchRef` does not
  exclude it: a pushed screen is inserted before the root of its stack, which
  stays the last child and the one that is shown.

**Bounds.**  Two contexts and two objects are enough for every pair of roles
and for one context to change a row under another; three rowids let a freed one
come back.  Two requests show that one does not disturb another, three pushes
hold a response, a chunk and a last event, and one more than the host may send
after it.  Two requests in each other let a callback act on the task under it, in
every state of it, and run the other kind of request there; two events before the last allow a second response and a chunk out of
order.  Three branches over the same ids let every kind of view follow every
other kind that the session keeps state for, and three calls are one that stores
state, one that changes the branch, one that returns.  Three rows are what a move
needs to be told from a removal and an insertion, with a third key for a row that
is new.  A run of four operations in three blocks is a `#require` inside two
scopes and a trap after it.  Three tasks are a cycle of awaits with one on the side.  Deadlock is
checked where the system is never done; a program (`Scheduler`) and a
`UrlSession` whose trap reached the top do end, and their
configurations say so, as do hosts that stop after a bounded number of calls.
`view_session` has a state constraint: it does not follow a session after a call
that failed late (see section 5).

**Fairness.**  `ModelContext`, `ViewSession`, `ViewDiff`, `WebHost`, `ViewScope` and
`TestRunner` assume none.  `HttpStream`: a `next_event` call in
progress runs on, the clock and the timers advance; the host need never send
anything.  The transports of `PolledTransport` answer within the call.  `UrlSession`: the driver runs on (so the transport delivers a last
event, which `PollReturns` below it justifies) and callbacks return.
`Scheduler`: the loops run on and the bodies of the program return; there is
one thread, so each of them is what the processor does next.  What the program
calls is never forced.

**Symmetry** is used over objects, contexts, values and tests, in safety runs only;
these sets are interchangeable in every definition (`Ctx` in
`context_shared`: no context is special once open).

## 4. Proofs

Every invariant and action property of the passing runs is a theorem: TLC checks it on the instance of its run,
TLAPS for every value of the constants.  The bounds on what the environment
does, such as `MaxPush` or `MaxOps`, are constants like the others, so the
theorems hold for runs of any length.  Each proof is an inductive invariant, a
lemma per action and the induction; what the invariant adds to the property is
the reason why the code is right.

**SwiftData, any number of contexts** (`ModelContextProofs`, from `ConstantsOK` and
`SentinelsDiffer`: any schema, objects, values, client behaviour and host faults).

* `Types`, `Roles`: `[]TypeOK` and `[]RolesExclusive`.  The second is not inductive
  alone: a fetch makes objects, and one that were still pending somewhere would
  get a second role.  `UnitInv` adds `RolesLive`: every object with a role is
  allocated, so a new one has none.
* `SavedIsClean`: the action property `SaveLeavesClean`, from `TypeOK` and what
  `flush` and `apply_after_commit` leave.

**SwiftData, one context** (`ModelContextViewProofs`, besides from `OneContext`, which the
module assumes, and `DeleteAllSucceeds`, a hypothesis of each theorem: no
`deleteAllData()` that fails midway; section 5 says what happens else).

* `OneInstancePerRow`, `NamedRowsExist`, `SnapshotsAreRows`: `[]IdentityUnique`,
  `[]PersistedRowsExist`, `[]SnapshotsMatchStore`.  None is inductive.  `ViewInv` adds to
  `UnitInv` what a row, the identity map and the entries of the change sets say of
  each other (`Named`, `Stored`), through a wedged connection too, and what the
  program's care keeps true of snapshots (`Careful`).
* `UnitOfWorkImplemented`: the refinement `ImplementsUnitOfWork`.  Every action is a step
  of `UnitOfWork` or a stutter under the mapping; `ViewInv` says that the user's
  view is the rows with the pending changes on top, which is what a save then
  writes.

**The transport seam** (`TransportsProofs`, from `BoundOK`, `NoTask` and
`ChunksDiffer`: any requests, chunks and number of pushes).

* `Types`, `TerminalIsWaiting`, `TerminalIsLast`, `Order`, `WakeUps`, `Causes`: the six
  invariants of `http`.  `StreamInv` is `TypeOK`, a sound `call`, and per request
  `Sound(t)`: which of `tokens`, `pending`, `terminal` imply which; that `got`
  followed by `queue` is what the host sent, up to a failure made up on this side,
  counted by `Len(sent) = Len(got) + Len(queue)` while the queue is open.
* `Implements`: the refinement `ImplementsSeam` for a run with any of the three
  transports.  For the streaming one `HostOrder` says that what an orderly host put
  in came in the seam's order, and with `StreamInv` the event a poll takes out is
  one the seam may give next.  For the others `PolledInv` says which events an
  entry can still hold after those given out.  A disorderly host is excepted by
  the property itself (`orderly`).
* `PolledImplement`: the polled transports alone are `EventStream`s.

**URLSession** (`UrlSessionProofs`, from `BoundOK`: any tasks, methods of the delegate
and depth of nesting).

* `CancelledStops`: `[]CancelledStopsPolling`; `PollInv` says that only the innermost
  request polls.
* `Running`, `Results`: `[]RunningIsDriven` and `[]SecondResultNeedsCancel`, from one
  invariant, `ResultInv`: a task is driven by at most one frame, in the state
  running by one, and after it completed only if it was cancelled in mid-request
  and has not finished twice.
* `Drains`: `MaxBuffered < MaxDrain => (Spec => []HandlesDrained)`.  `HandleInv`: a request's
  handle bears its own number, an open handle is a request's in progress, and a
  request completes with its handle closed unless it was refused.
* `CallbacksInOrder`: `[]CallbackOrder`.  `HeardInv` says for each place of a frame what
  the delegate has heard from it.
* `Dispositions`: `[]DispositionHonoured`.  `DecisionInv`: the callbacks in progress have
  tokens in the order they nest, so a late answer's token is never the slot's.

**Structured concurrency** (`SchedulerProofs`, from `BoundOK` and `OutcomesOK`: any number of
tasks, groups and continuations, any drives).

* `CurrentIsStack`: `[]RunningOnStack`.  `Base` gives the tables and the stack their
  shape (the program is outermost, a loop that runs tasks has nothing above it
  but the task it runs) and says that no task is on the stack twice; without the
  last a completion could leave a running task behind.
* `CleanEndRanAll`: `[]EndMeansDone`, from `Base`: the last drive of a program ends
  when no task is pending, and none is running under it.
* `SlotsAreAwaited`: `[]SlotHasReader`, from `Base` and the reader of each
  continuation being found below everything that is not an error.
* `CancelReachesAll`, `GroupsWait`: `[]CancelReachesGroup` and `[]GroupsFinish` under `KeepsAll`
  (no `for await`, or no body throws; section 5 says why).  `GroupInv` says where each
  child of a group is: done, in the group's list, or in the hands of the loop
  that took it out; that a group has one frame, and that its list is not filled
  again once its body ended.
* `TrapsAreDeadlocks`: `[]DeadlockIsReal` under `TasksOnly` (no streams, no continuations).
  `Plain`: then the only drive is that of the end of the program, at the bottom
  of the stack, and every frame above an awaited one waits for the next.

**SwiftUI session** (`ViewSessionProofs`, from `ProgramOK`: any layout of views and
bindings, any closures and failures).

* `Mirrors`: `[]HostMirrors`.  `MirrorInv`: `before` is what the host shows whenever a call
  has not failed, and the current tree until the call renders.
* `SpawnedWork`: `[]SpawnedWorkDone`; from a closure to the next drain work is pending,
  elsewhere only a watcher's.
* `RecordedTasks`: `[]RecordedTasksRan`, inductive as it stands.
* `WatchersTold`: `[]WatchersInformed`.  `WatchInv` relates what the watchers were told to
  the baseline of the next pass, at each place of a call.
* `PhasesMatch`: `LoadGuard => (Spec => []PhaseMatchesUrl)`, with a host that drops late loads
  as the web host does.  `PhaseInv`: a phase that is stored, or under way in an
  event, belongs to a load of the URL stored with it.

**Diff and web host** (`ViewDiffProofs`, from `TreesAssumption`, every node has a path of its
own, and `NoneAssumption`: any set of trees, of any depth and width, any number of
renders).  `ListsStay` is a hypothesis of each theorem: where two trees have a node of
the same kind, its children are keyed in both or unkeyed in both.  Section 5 says
what happens else; `MCViewDiff` asserts it of the trees `view_diff` checks.

* `HostFollows`: `[]HostInv`, the inductive invariant.  `Walked` says for each open call of
  `diff_node` what its loop has reached: children before it agree with the new tree,
  children after it with the old one, one below it is the business of the next
  frame, and the host's order of the children is what is kept of the old order
  with the new front (`Running`).  It is about `Shown`, the store with the patch under
  way applied, and `Fits` says that this patch names nodes the host has, at an
  index in its list.  `Linked` makes the records of the store a tree, without which
  nothing says what a removal takes along.
* `PatchesReach`: `[]PatchesReachTree`.  When the walk is over the invariant is agreement
  with the new tree, and no patch was refused on the way.
* `ElementsKept`: `[]ElementsSurvive`, from the part `Survive`: only an inserted or replaced
  node is built anew, and neither is one that both trees have.
* `PageFollows`: both for `WebSpec`, each step of which is one of `ViewDiff` or leaves its
  variables alone.
* `ElementsFollow`: `[]DomInOrder`, with the further hypothesis `NoStacks`, no
  `NavigationStack` in the trees: its bar is counted by `patchRef` (see `nav_push`).
  `DomInv` says at every step, not only when the answer is over, that each child has
  one element that is not leaving (`Stands`), and that these are in the order of
  the children unless the list is in `beside` (`InOrder`).  The key lemma, `Counted`, is
  that elements which stand for the children one to one and in their order have
  among themselves the children's positions; so an index that was meant for nodes
  finds the same place among elements when none of them is leaving.

TLC checked `HostInv` and `DomInv` as invariants of the instance of `view_diff` before
they were proved.

**Test runner** (`TestRunnerProofs`, any tests, argument lists, operations and depth of
blocks).

* `ScopesBalance`: `[]KnownScopesBalance`, over `RunShape`: the body is the outermost frame
  and the only one that is no block.
* `StatusIsHonest`: `[]StatusHonest`.  `HonestInv` relates the session's counts and flag
  to what the frames say, as long as nothing was swallowed; each frame's
  `before` tells which issues are its own.
* `OnlySwallowingHidesTraps`: a trap fails its test unless a `#require` was swallowed,
  so the counterexample of `testing_trap` is the only way a trap is hidden.
* `SelectionIsHeard`: `[]SelectionHeard`, from `RunsAssumption` and `NoneAssumption`.
  `Selected`: while ids are asked for, each has a result or a plan; it needs
  that every test whose plans are made has one, an empty argument list too.  The
  plans an id names are numbered by rank (lemma `Ranks`), so that none is lost.

**Model-checked only.**  Liveness (`PollReturns`, `ResumedCompletes`, `ProgramEnds`), which the
prover cannot do, and the violated properties, which are false.

## 5. Limits, and what the models say about them

Properties that hold under a condition have it for a reason, which the model
without the condition shows:

* `IdentityUnique` and `PersistedRowsExist` need one context per connection:
  another one deletes rows this one has cached, and SQLite reuses the rowid of a
  deleted last row (tables are made without AUTOINCREMENT).
* `PersistedRowsExist` needs a `deleteAllData()` that succeeds: one that fails
  midway has emptied tables whose objects the contexts keep.
* `SnapshotsMatchStore` and `ImplementsUnitOfWork` need a careful program.  One that
  deletes an object with unsaved edits gets a wrong snapshot on rollback:
  `rollback_state` rebuilds it from the current fields.  One that inserts an object
  again that is pending delete (model.rs:1074, "Re-inserting a pending-delete
  object cancels the delete") queues it as a new row, since `delete(_:)` has
  already taken it out of the sets `insert(_:)` looks at.
* A `transaction(_:)` block that saves and then throws keeps what it saved:
  there is no database transaction around the block.
* `ImplementsSeam` needs a host that sends the events of a request in order, and
  allows events that were buffered before a cancel when the host's last event is
  already among them.
* A token dies with the run that issued it, not with its context; `Push` on a
  dead token is outside the model.
* `DispositionHonoured` excepts a response callback in which a nested request had one
  of its own (`alone`): there is one slot, and the inner one clears it.
* `HandlesDrained` needs `MaxBuffered < MaxDrain`: a drain gives up after
  `MAX_DRAIN_EVENTS`.
* A `URLSessionTask` cancelled by its delegate in mid-request can still succeed;
  only the cancellation of the Swift task is looked at between events.
* `SecondResultNeedsCancel` is what is left of urlsession.rs:1151, "resume() on a
  running or completed task is a no-op": a delegate that cancels and resumes its
  own task completes it while its request still runs below, and the handler is
  called twice.
* `DeadlockIsReal` needs no streams or continuations: a task that drives others
  can be awaited by one of them without waiting for it.
* `GroupsFinish` and `CancelReachesGroup` need programs without `for await`, or whose
  bodies do not throw: that loop takes out all children and stops at the first
  that throws, and the drain that ends the group finds none left,
  against concurrency.rs:765, "the group does not return until its children
  finish".  A child added by the body of such a loop is not seen by it, and a
  child of a group opened by a cancelled task is born uncancelled.
* `HostMirrors` and `PhaseMatchesUrl` except a session after a call that failed once
  it had rendered: the caller has an error and no patches, the next diff starts
  from a tree the host never saw.  `RecordedTasksRan`, `SpawnedWorkDone` and
  `WatchersInformed` except one after any call that failed, and the last of them
  one whose watchers ran out of passes.
* `PhaseMatchesUrl` needs a host that drops the load of a URL its node has no more,
  as the web host does (`LoadGuard`).
* `ViewSession`'s programs put no bound control where another branch has an alert:
  both bindings would be found at the same id.
* `PatchesReachTree` needs a `List` that stays keyed or stays static (`ListsStay`): from one
  to the other it is diffed by position, with index ids for nodes the host knows
  by key, and the host throws `UnknownNodeError` (`Toggles` of `MCViewDiff` has the
  case).  So does a list with keyed and unkeyed children together, which
  `ListsStay` excludes too.
* `DomInOrder` excepts a list in which something was inserted or moved while the
  element of a removed node was leaving it: `patchRef` counts that element, and the
  new one stands one place too early.
* A screen of a `NavigationStack` that is hidden is shown by a `setArgs` or `replace`
  of its root, until the stack is synchronised again: the style is made anew, the
  display with it.  `TopmostVisible` fails already for a push.
* `StatusHonest` excepts a test that swallowed a `#require` in a `withKnownIssue` (see
  `testing_trap`).

## 6. Plan

Done, in this order: SwiftData contexts, the HTTP stream, URLSession, the task
scheduler, the transports behind the seam, the SwiftUI session, the SwiftData view
scope, the diff with the host's nodes and elements, the test runner; then the
proofs of every safety property that the prover can reach.  What is left:

1. What `ViewScope` does promise: a body evaluated inside a bracket reads the nearest
   container's context, as an invariant beside the violated `NearestContainer`.
2. `DomInOrder` for a `NavigationStack` whose children never change, where the bar
   does no harm, and the other elements `patchRef` does leave out (headers, tab bars).
3. `IdentityUnique` with several contexts, for programs that do not delete what
   another context holds.

## 7. Not modelled

By far the most lines of the repository are the frontend (lexer, parser, sema),
the evaluator of expressions, the standard library, Foundation's values and the
constructors of views and modifiers.  These are functions, or a sequential
interpreter whose state is the Swift program's own: no interleaving, no failure
to survive, no order of calls that is not the program's.  A model of them would
be a second implementation, and the repository has conformance tests for them.
So the modules cover a small share of the lines and most of the state that
outlives a call.  For the same reason a part that is modelled is listed as
partly modelled when its codecs, its formatting or its drawing are left out.

Left out for other reasons: host bridges and handlers (one call each: their failures are inputs of
the models above them), the C ABI's ownership of pointers (about memory, not
about order), the analysis and fragment caches (memo tables of one sequential
call), EventKit (one field per call).  Apps, the website, the iOS renderer and
tools are outside the runtime.  `PROJECT.json` gives the reason per component.

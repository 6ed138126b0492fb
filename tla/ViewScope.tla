----------------------------- MODULE ViewScope -----------------------------
(***************************************************************************)
(* Which model context a view is given (crates/tswift-swiftdata/src/       *)
(* model.rs).  .modelContainer(for:) marks a view, and the renderer        *)
(* (crates/tswift-swiftui/src/lib.rs, session.rs) calls scope_enter and    *)
(* scope_exit around the evaluation of each custom view's body, with a     *)
(* stack of contexts in between.  The renderer has three ways to come to a *)
(* body: the root's, and those a root's body is replaced by, one after     *)
(* another; those inside a body, while it is evaluated; and those of       *)
(* pushed screens, after the root has been resolved.                       *)
(*                                                                         *)
(* A body that throws leaves its bracket as one that returns does.         *)
(***************************************************************************)
EXTENDS Sequences, Naturals

CONSTANTS
    Container,  \* the main contexts of the containers
    None,       \* a view without .modelContainer, no context
    MaxChain,   \* views in place of the root's body (bounds the model)
    MaxNest     \* views in each other's bodies (bounds the model)

VARIABLES
    scope,      \* the registry's fields: stack, current, pass and action contexts
    scenes,     \* the scene around an App's root, nothing around a View's
    chain,      \* the views the root's body has been resolved to so far
    nested,     \* the views around the body under evaluation, within that body
    place       \* "idle", in a "body", "between" two of the chain, in "screens"

vars == <<scope, scenes, chain, nested, place>>

Mark == Container \cup {None}
Front(s) == SubSeq(s, 1, Len(s) - 1)
-----------------------------------------------------------------------------
(* The hooks                                                               *)

\* scope_enter: an enter on the empty stack begins a pass.
Entered(s, mark) ==
    LET pass == IF s.stack = <<>> THEN None ELSE s.pass
    IN  [s EXCEPT !.stack = Append(@, s.current),
                  !.current = IF mark = None THEN @ ELSE mark,
                  !.pass = IF mark = None THEN pass ELSE mark]

\* scope_exit: an exit to the empty stack ends it.
Exited(s) ==
    LET rest == Front(s.stack)
    IN  [s EXCEPT !.stack = rest,
                  !.current = s.stack[Len(s.stack)],
                  !.action = IF rest = <<>> THEN s.pass ELSE @,
                  !.pass = IF rest = <<>> THEN None ELSE @]

\* current_model_context
Given == IF scope.stack = <<>> THEN scope.action ELSE scope.current
-----------------------------------------------------------------------------
Init ==
    /\ scope = [stack |-> <<>>, current |-> None, pass |-> None, action |-> None]
    /\ scenes \in {<<>>} \cup {<<mark>> : mark \in Mark}
    /\ chain = <<>> /\ nested = <<>>
    /\ place = "idle"

\* Session::render: an App's root is a view to resolve in its scene's scope, a
\* View's is the instance whose body is asked for first.
RenderBegins ==
    /\ place = "idle"
    /\ IF scenes = <<>>
       THEN place' = "body" /\ UNCHANGED scope
       ELSE place' = "between" /\ scope' = Entered(scope, scenes[1])
    /\ chain' = <<>>
    /\ UNCHANGED <<scenes, nested>>

\* resolve_root: the value is a custom view, its body is evaluated in its scope.
ChainEnters(mark) ==
    /\ place = "between" /\ Len(chain) < MaxChain
    /\ scope' = Entered(scope, mark)
    /\ chain' = Append(chain, mark)
    /\ place' = "body"
    /\ UNCHANGED <<scenes, nested>>

BodyReturns ==
    /\ place = "body" /\ nested = <<>>
    /\ scope' = IF chain = <<>> THEN scope ELSE Exited(scope)
    /\ place' = "between"
    /\ UNCHANGED <<scenes, chain, nested>>

\* expand_into: a custom view in a container's content or a pushed screen.
ViewEnters(mark) ==
    /\ place \in {"body", "screens"} /\ Len(nested) < MaxNest
    /\ scope' = Entered(scope, mark)
    /\ nested' = Append(nested, mark)
    /\ UNCHANGED <<scenes, chain, place>>

ViewReturns ==
    /\ nested # <<>>
    /\ scope' = Exited(scope)
    /\ nested' = Front(nested)
    /\ UNCHANGED <<scenes, chain, place>>

\* The value is a built-in view; then the pushed screens are realized.
RootResolved ==
    /\ place = "between"
    /\ scope' = IF scenes = <<>> THEN scope ELSE Exited(scope)
    /\ place' = "screens"
    /\ UNCHANGED <<scenes, chain, nested>>

RenderEnds ==
    /\ place = "screens" /\ nested = <<>>
    /\ place' = "idle"
    /\ UNCHANGED <<scope, scenes, chain, nested>>

Next ==
    \/ RenderBegins \/ BodyReturns \/ ViewReturns \/ RootResolved \/ RenderEnds
    \/ \E mark \in Mark : ChainEnters(mark) \/ ViewEnters(mark)

Spec == Init /\ [][Next]_vars
-----------------------------------------------------------------------------
(* Properties                                                              *)

\* The nearest container around the body under evaluation.
Nearest ==
    LET marks == SelectSeq(scenes \o chain \o nested, LAMBDA mark : mark # None)
    IN  IF marks = <<>> THEN None ELSE marks[Len(marks)]

\* A container is published "for exactly that view's subtree, so `@Query` reads
\* the nearest-ancestor context with no leakage" (model.rs).
NearestContainer ==
    place = "body" \/ nested # <<>> => Given = Nearest
=============================================================================

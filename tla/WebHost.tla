------------------------------ MODULE WebHost ------------------------------
(***************************************************************************)
(* The elements the web host shows for the nodes it knows                  *)
(* (web/swiftui-canvas/src/apply-patch.ts).  Patches name an element's     *)
(* place by an index among its parent's children, and the children are not *)
(* the nodes': a NavigationStack has its bar among them, and the element   *)
(* of a removed node with a .transition stays until its tween is over.     *)
(***************************************************************************)
EXTENDS ViewDiff

VARIABLES
    dom,     \* the children of each node's element, by the node's id
    beside   \* history: ids of lists changed while an element was leaving them

domVars == <<dom, beside>>

\* fades: the element has a .transition recorded; shown: it has a display.
Element(id, node) ==
    [name |-> id, fades |-> node.mods = "fade", leaving |-> FALSE, shown |-> TRUE]
\* The bar names no node.
Bar == [name |-> None, fades |-> FALSE, leaving |-> FALSE, shown |-> TRUE]

\* nodes: where the element of a node is that is not leaving.
Is(id, e) == e.name = id /\ ~e.leaving
At(children, id) == CHOOSE i \in DOMAIN children : Is(id, children[i])

\* syncNavStack: of a stack's screens the last child is shown.
Synced(children) ==
    [i \in DOMAIN children |->
        [children[i] EXCEPT !.shown = children[i].name = None \/ i = Len(children)]]

IsStack(id) == store[id].kind = "NavigationStack"

\* build: the children of the elements of a tree, a stack's after its bar.
Built(records) ==
    LET children(i) == [k \in DOMAIN records[i].kids |->
                          Element(records[i].kids[k], records[records[i].kids[k]])]
    IN  [i \in DOMAIN records |->
            IF records[i].kind = "NavigationStack" THEN Synced(<<Bar>> \o children(i))
            ELSE children(i)]

\* Mutant: an element with a .transition is left where it is, unmarked.
LeftInPlace(children, id) ==
    IF children[At(children, id)].fades THEN children
    ELSE RemoveAt(children, At(children, id))

\* remove: with a .transition the element stays for its tween.
Taken(children, id) ==
    IF children[At(children, id)].fades
    THEN [children EXCEPT ![At(children, id)].leaving = TRUE]
    ELSE RemoveAt(children, At(children, id))

OneLeaves(children) == \E i \in DOMAIN children : children[i].leaving

\* The children of one element change, and those of more are built.
Changed(id, children, more) == With([dom EXCEPT ![id] = children], more)
-----------------------------------------------------------------------------
\* applyOne, after the tree has taken the patch.  patchRef finds the place of an
\* index among the other children, those leaving and a navigation bar with them.
ProjectInsert(p) ==
    LET children == InsertAt(dom[p.id], Clamped(dom[p.id], p.index),
                             Element(p.name, p.node[p.name]))
    IN  /\ dom' = Changed(p.id, IF IsStack(p.id) THEN Synced(children) ELSE children,
                          Built(p.node))
        /\ beside' = IF OneLeaves(dom[p.id]) THEN beside \cup {p.id} ELSE beside

ProjectRemove(p) ==
    LET parent == Front(p.id)
        children == Taken(dom[parent], p.id)
        gone == Len(children) < Len(dom[parent])
    IN  /\ dom' = Without(Changed(parent,
                      IF IsStack(parent) /\ gone THEN Synced(children) ELSE children, << >>),
                      Below(p.id))
        /\ UNCHANGED beside

ProjectMove(p) ==
    LET children == dom[p.parent]
    IN  /\ dom' = Changed(p.parent, Spliced(children, At(children, p.id), p.index), << >>)
        /\ beside' = IF OneLeaves(children) THEN beside \cup {p.parent} ELSE beside

\* One element in its parent's list is another, or has another style.
Restyled(id, e) == [dom[Front(id)] EXCEPT ![At(dom[Front(id)], id)] = e]
Styled(id) == dom[Front(id)][At(dom[Front(id)], id)]

ProjectReplace(p) ==
    /\ dom' = IF p.id = Root THEN Built(p.node)
              ELSE With(Without(Changed(Front(p.id), Restyled(p.id, Element(p.id, p.node[p.id])),
                                        << >>), Below(p.id)), Built(p.node))
    /\ UNCHANGED beside

\* A .transition once recorded stays; a screen's title may have changed.
ProjectModifiers(p) ==
    LET children == Restyled(p.id, [Styled(p.id) EXCEPT !.fades = @ \/ p.mods = "fade"])
    IN  /\ dom' = Changed(Front(p.id),
                          IF IsStack(Front(p.id)) THEN Synced(children) ELSE children, << >>)
        /\ UNCHANGED beside

\* Its style is made anew, the display with it.
ProjectArgs(p) ==
    /\ dom' = Changed(Front(p.id), Restyled(p.id, [Styled(p.id) EXCEPT !.shown = TRUE]), << >>)
    /\ UNCHANGED beside

Project(p) ==
    CASE p.op = "mount" -> dom' = Built(p.node) /\ UNCHANGED beside
      [] p.op = "insert" -> ProjectInsert(p)
      [] p.op = "remove" -> ProjectRemove(p)
      [] p.op = "move" -> ProjectMove(p)
      [] p.op = "replace" -> ProjectReplace(p)
      [] p.op = "setModifiers" /\ p.id # Root -> ProjectModifiers(p)
      [] p.op = "setArgs" /\ p.id # Root -> ProjectArgs(p)
      [] OTHER -> UNCHANGED domVars

ApplyToDom ==
    /\ Apply
    /\ IF Resolves(Head(inbox)) THEN Project(Head(inbox)) ELSE UNCHANGED domVars

\* Between answers, a tween is over.
TweenEnds ==
    /\ Settled
    /\ \E id \in DOMAIN dom : \E i \in DOMAIN dom[id] :
          /\ dom[id][i].leaving
          /\ LET rest == RemoveAt(dom[id], i)
             IN  dom' = Changed(id, IF IsStack(id) THEN Synced(rest) ELSE rest, << >>)
    /\ UNCHANGED <<vars, beside>>

WebInit == Init /\ dom = << >> /\ beside = {}

WebNext == ((Render \/ Diff) /\ UNCHANGED domVars) \/ ApplyToDom \/ TweenEnds

WebSpec == WebInit /\ [][WebNext]_<<vars, domVars>>
-----------------------------------------------------------------------------
(* Properties                                                              *)

\* Asked of a program where the order is proved: it has no stack of screens,
\* whose bar the indices of patches do not count.
Unstacked(t) == \A id \in DOMAIN t : t[id].kind # "NavigationStack"
NoStacks == \A t \in TreeRoots : Unstacked(t)

\* The elements in a list that stand for a node, and do not leave.
Live(children) == {m \in DOMAIN children : children[m].name # None /\ ~children[m].leaving}

\* Each child has one element, and they stand in the order of the children.
Matched(children, kids) ==
    /\ {children[m].name : m \in Live(children)} = ToSet(kids)
    /\ \A m, n \in Live(children) : children[m].name = children[n].name => m = n
Ordered(children, kids) ==
    \A m, n \in Live(children) :
        m < n => Position(kids, children[m].name) < Position(kids, children[n].name)

\* Every child of every node has its one element, whatever was inserted,
\* removed, moved and replaced; and they stand in the order of the children,
\* unless something was placed in the list while an element was leaving it.
DomInOrder ==
    Settled /\ ~broken =>
        \A id \in DOMAIN store :
            /\ Matched(dom[id], store[id].kids)
            /\ id \notin beside => Ordered(dom[id], store[id].kids)

\* "Children of a `NavigationStack` node form the navigation stack, topmost
\* visible" (ADR 13), "show last child" on the web: the only screen shown is
\* the last child of the node.
TopmostVisible ==
    Settled /\ ~broken =>
        \A id \in DOMAIN store : IsStack(id) /\ store[id].kids # <<>> =>
            \A i \in DOMAIN dom[id] :
                ~dom[id][i].leaving /\ dom[id][i].name # None /\ dom[id][i].shown
                  => dom[id][i].name = Last(store[id].kids)
=============================================================================

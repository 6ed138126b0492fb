------------------------------ MODULE ViewDiff ------------------------------
(***************************************************************************)
(* The patches between the trees of two renders                            *)
(* (crates/tswift-swiftui/src/diff.rs) and the store of nodes the web host *)
(* applies them to (web/swiftui-canvas/src/uiir-tree.ts).                  *)
(*                                                                         *)
(* Nodes are named by paths: a keyed child by its key, another by its      *)
(* index.  The host resolves every patch by name in a list that changes    *)
(* under the patches before it, and keeps a node's element, and what the   *)
(* user did to it, until a patch replaces or removes the name.             *)
(*                                                                         *)
(* A tree is a function from the paths of its nodes to records             *)
(* [kind, keyed, args, mods, kids], the kids by their last segments.  The  *)
(* recursion of diff_node is a stack of frames, and the answer goes to the *)
(* host a patch at a time: the diff reads nothing of the host's.           *)
(***************************************************************************)
EXTENDS Naturals, SequencesExt

CONSTANTS
    Key,        \* the keys of children; those of ForEach(0..<n) are spelled like indices
    TreeRoots,  \* the trees the program renders
    MaxRenders, \* renders after the first (bounds the model)
    None        \* no tree, no node's name

VARIABLES
    tree,     \* the session's current tree
    before,   \* the one before it, None until the second render
    walk,     \* the calls of diff_node that have not returned, the last on top
    inbox,    \* the patch the host has not applied yet, if any
    store,    \* byId: the host's record of each node it knows, by id
    broken,   \* a patch named a node the host does not know
    renders   \* so far, after the first (bounds the model)

vars == <<tree, before, walk, inbox, store, broken, renders>>

Root == <<>>

\* The segments of a path.
Seg == Key \cup Nat

\* The path of the ancestor at a depth.
Up(id, depth) == SubSeq(id, 1, depth)

\* child_id: a child's path is its parent's and the key, or the structural
\* index.  Every node has a path of its own.
TreeOK(t) ==
    /\ Root \in DOMAIN t
    /\ \A id \in DOMAIN t :
        /\ id \in Seq(Seg) /\ t[id].kids \in Seq(Seg)
        /\ \A i \in DOMAIN t[id].kids :
            LET kid == Append(id, t[id].kids[i])
            IN  kid \in DOMAIN t /\ (t[kid].keyed \/ t[id].kids[i] = i - 1)
        /\ \A i, j \in DOMAIN t[id].kids : t[id].kids[i] = t[id].kids[j] => i = j
        /\ \A d \in 0..(Len(id) - 1) :
            Up(id, d) \in DOMAIN t /\ id[d + 1] \in ToSet(t[Up(id, d)].kids)

ASSUME NoneAssumption == None \notin Seq(Seg)
ASSUME TreesAssumption == None \notin TreeRoots /\ \A t \in TreeRoots : TreeOK(t)

\* indexOf
Position(s, x) == CHOOSE i \in DOMAIN s : s[i] = x

Named(id, kids) == [i \in DOMAIN kids |-> Append(id, kids[i])]

Rest(id, depth) == SubSeq(id, depth + 1, Len(id))

\* node_json: the nodes of a tree from one down, serialized under an id, as the
\* host indexes them.  new marks an element built since the last render.
Serialized(t, path, id) ==
    [i \in {id \o Rest(j, Len(path)) : j \in {j \in DOMAIN t : IsPrefix(path, j)}} |->
        LET node == t[path \o Rest(i, Len(id))]
        IN  [kind |-> node.kind, args |-> node.args, mods |-> node.mods,
             kids |-> Named(i, node.kids), new |-> TRUE]]
-----------------------------------------------------------------------------
(* UiirTree                                                                *)

\* unindexSubtree follows the child ids, which are paths below their parent's.
Below(id) ==
    {j \in DOMAIN store :
        /\ IsPrefix(id, j)
        /\ \A d \in Len(id)..(Len(j) - 1) :
            Up(j, d) \in DOMAIN store /\ Up(j, d + 1) \in ToSet(store[Up(j, d)].kids)}

\* Later records take the place of earlier ones.
With(records, more) ==
    [i \in DOMAIN records \cup DOMAIN more |-> IF i \in DOMAIN more THEN more[i] ELSE records[i]]
Without(records, ids) == [i \in DOMAIN records \ ids |-> records[i]]

Clamped(kids, index) == IF index > Len(kids) + 1 THEN Len(kids) + 1 ELSE index

\* A child out of its place and into another: the index is among the others.
Spliced(kids, from, to) ==
    LET others == RemoveAt(kids, from)
    IN  InsertAt(others, Clamped(others, to), kids[from])

Inserted(p) ==
    With([store EXCEPT ![p.id].kids = InsertAt(@, Clamped(@, p.index), p.name)], p.node)

Unlinked(p) ==
    IF p.id = Root THEN store
    ELSE [store EXCEPT ![Front(p.id)].kids = RemoveAt(@, Position(@, p.id))]

Removed(p) == Without(Unlinked(p), Below(p.id))

Moved(p) == [store EXCEPT ![p.parent].kids = Spliced(@, Position(@, p.id), p.index)]

Replaced(p) == With(Without(store, Below(p.id)), p.node)

\* The store after a patch.
After(p) ==
    CASE p.op = "mount" -> p.node
      [] p.op = "insert" -> Inserted(p)
      [] p.op = "remove" -> Removed(p)
      [] p.op = "move" -> Moved(p)
      [] p.op = "replace" -> Replaced(p)
      [] p.op \in {"setText", "setArgs"} -> [store EXCEPT ![p.id].args = p.args]
      [] p.op = "setModifiers" -> [store EXCEPT ![p.id].mods = p.mods]

\* require: else UnknownNodeError.
Resolves(p) ==
    CASE p.op = "mount" -> TRUE
      [] p.op = "move" ->
            p.parent \in DOMAIN store /\ p.id \in DOMAIN store
              /\ p.id \in ToSet(store[p.parent].kids)
      [] OTHER -> p.id \in DOMAIN store
-----------------------------------------------------------------------------
(* diff_node: a frame is a call, with the node's paths in both trees, the  *)
(* id its patches name, and the index i its loop has come to.              *)

Frame(id, old, new) ==
    [id |-> id, old |-> old, new |-> new, at |-> "node", i |-> 1, order |-> <<>>]

Top == walk[Len(walk)]
Old == before[Top.old]
New == tree[Top.new]
Kept(key) == key \in ToSet(New.kids)

\* Every child has a key; so has an empty list.
AllKeyed(t, id) == \A i \in DOMAIN t[id].kids : t[Append(id, t[id].kids[i])].keyed

Continue(top, patches) == walk' = [walk EXCEPT ![Len(walk)] = top] /\ inbox' = patches
Call(top, frame) == walk' = Append([walk EXCEPT ![Len(walk)] = top], frame) /\ inbox' = <<>>
Return(patches) == walk' = Front(walk) /\ inbox' = patches

\* Mutant: an inserted child is serialized under its index.
InsertAtIndex(i) ==
    LET name == Append(Top.id, i - 1)
    IN  [op |-> "insert", id |-> Top.id, index |-> i, name |-> name,
         node |-> Serialized(tree, Append(Top.new, New.kids[i]), name)]

InsertChild(i) ==
    LET name == Append(Top.id, New.kids[i])
    IN  [op |-> "insert", id |-> Top.id, index |-> i, name |-> name,
         node |-> Serialized(tree, Append(Top.new, New.kids[i]), name)]

\* Mutant: other args are taken for another view.
AnyChange(old, new) == old.kind # new.kind \/ old.args # new.args

Changes(old, new) == old.kind # new.kind

\* A kind change cannot be patched.
DiffNode ==
    /\ Top.at = "node"
    /\ IF Changes(Old, New)
       THEN Return(<<[op |-> "replace", id |-> Top.id,
                      node |-> Serialized(tree, Top.new, Top.id)]>>)
       ELSE Continue([Top EXCEPT !.at = "mods"],
                     IF Old.args = New.args THEN <<>>
                     ELSE <<[op |-> IF New.kind = "Text" THEN "setText" ELSE "setArgs",
                             id |-> Top.id, args |-> New.args]>>)

DiffModifiers ==
    /\ Top.at = "mods"
    /\ Continue([Top EXCEPT !.at = IF AllKeyed(before, Top.old) /\ AllKeyed(tree, Top.new)
                                   THEN "gone" ELSE "each"],
                IF Old.mods = New.mods THEN <<>>
                ELSE <<[op |-> "setModifiers", id |-> Top.id, mods |-> New.mods]>>)

\* diff_keyed_children: keys that are gone are removed.
DropGone ==
    /\ Top.at = "gone"
    /\ IF Top.i > Len(Old.kids) THEN Continue([Top EXCEPT !.at = "place", !.i = 1], <<>>)
       ELSE LET key == Old.kids[Top.i] IN
            IF Kept(key) THEN Continue([Top EXCEPT !.i = @ + 1, !.order = Append(@, key)], <<>>)
            ELSE Continue([Top EXCEPT !.i = @ + 1],
                          <<[op |-> "remove", id |-> Append(Top.id, key)]>>)

\* Then each new child in turn is diffed in place, or inserted.
PlaceKey ==
    /\ Top.at = "place"
    /\ IF Top.i > Len(New.kids) THEN Return(<<>>)
       ELSE LET key == New.kids[Top.i] IN
            IF key \in ToSet(Old.kids)
            THEN Call([Top EXCEPT !.at = "move"],
                      Frame(Append(Top.id, key), Append(Top.old, key), Append(Top.new, key)))
            ELSE Continue([Top EXCEPT !.i = @ + 1, !.order = InsertAt(@, Top.i, key)],
                          <<InsertChild(Top.i)>>)

\* It is moved if the host's running order has it elsewhere.
MoveKey ==
    /\ Top.at = "move"
    /\ LET key == New.kids[Top.i]
           from == Position(Top.order, key)
       IN  Continue([Top EXCEPT !.at = "place", !.i = @ + 1,
                                !.order = InsertAt(RemoveAt(@, from), Top.i, key)],
                    IF from = Top.i THEN <<>>
                    ELSE <<[op |-> "move", parent |-> Top.id, id |-> Append(Top.id, key),
                            index |-> Top.i]>>)

\* diff_positional_children: index for index, then the tail is inserted,
DiffEach ==
    /\ Top.at = "each"
    /\ IF Top.i > Len(New.kids) THEN Continue([Top EXCEPT !.at = "tail", !.i = Len(Old.kids)], <<>>)
       ELSE IF Top.i > Len(Old.kids) THEN Continue([Top EXCEPT !.i = @ + 1], <<InsertChild(Top.i)>>)
       ELSE Call([Top EXCEPT !.i = @ + 1],
                 Frame(Append(Top.id, Top.i - 1), Append(Top.old, Old.kids[Top.i]),
                       Append(Top.new, New.kids[Top.i])))

\* or removed, the last child first.
DropTail ==
    /\ Top.at = "tail"
    /\ IF Top.i > Len(New.kids)
       THEN Continue([Top EXCEPT !.i = @ - 1],
                     <<[op |-> "remove", id |-> Append(Top.id, Top.i - 1)]>>)
       ELSE Return(<<>>)
-----------------------------------------------------------------------------
(* The host mounts the first tree, and applies the patches of each answer  *)
(* in order; an unknown id throws away what is left of them.               *)

Init ==
    /\ tree \in TreeRoots
    /\ before = None
    /\ walk = <<>>
    /\ inbox = <<[op |-> "mount", node |-> Serialized(tree, Root, Root)]>>
    /\ store = << >>
    /\ broken = FALSE
    /\ renders = 0

Settled == walk = <<>> /\ inbox = <<>>

Render ==
    /\ Settled /\ ~broken /\ renders < MaxRenders
    /\ renders' = renders + 1
    /\ tree' \in TreeRoots
    /\ before' = tree
    /\ walk' = <<Frame(Root, Root, Root)>>
    /\ store' = [i \in DOMAIN store |-> [store[i] EXCEPT !.new = FALSE]]
    /\ UNCHANGED <<inbox, broken>>

Diff ==
    /\ walk # <<>> /\ inbox = <<>>
    /\ DiffNode \/ DiffModifiers \/ DropGone \/ PlaceKey \/ MoveKey \/ DiffEach \/ DropTail
    /\ UNCHANGED <<tree, before, store, broken, renders>>

\* The next patch; one that names no node ends the answer: UnknownNodeError.
Apply ==
    /\ inbox # <<>>
    /\ inbox' = <<>>
    /\ IF Resolves(Head(inbox))
       THEN store' = After(Head(inbox)) /\ UNCHANGED <<walk, broken>>
       ELSE broken' = TRUE /\ walk' = <<>> /\ UNCHANGED store
    /\ UNCHANGED <<tree, before, renders>>

Next == Render \/ Diff \/ Apply

Spec == Init /\ [][Next]_vars
-----------------------------------------------------------------------------
(* Properties                                                              *)

\* Asked of a program where a property is proved: no list of keyed rows in one
\* tree is a list of unkeyed views in another, and no list is of both.  A list
\* that goes from one to the other is diffed by position, its rows named by
\* their index, and the host knows them by key.
NoneKeyed(t, id) == \A i \in DOMAIN t[id].kids : ~t[Append(id, t[id].kids[i])].keyed
ListsStay ==
    \A t, u \in TreeRoots : \A id \in DOMAIN t \cap DOMAIN u :
        \/ Changes(t[id], u[id])
        \/ AllKeyed(t, id) /\ AllKeyed(u, id)
        \/ NoneKeyed(t, id) /\ NoneKeyed(u, id)

Content(records) ==
    [i \in DOMAIN records |->
        [kind |-> records[i].kind, args |-> records[i].args, mods |-> records[i].mods,
         kids |-> records[i].kids]]

\* A patch stream "transforms the host tree rooted at `old` into `new`"
\* (diff.rs): once it is applied, the host's nodes, their order and their ids
\* are those of the tree events will be routed in.
PatchesReachTree ==
    Settled => ~broken /\ Content(store) = Content(Serialized(tree, Root, Root))

\* A node of both trees, and those above it, are of the same kind in both.
Same(id) ==
    \A d \in 0..Len(id) :
        Up(id, d) \in DOMAIN before \cap DOMAIN tree
          /\ before[Up(id, d)].kind = tree[Up(id, d)].kind

\* Reorders, inserts and removals around a node leave its element alone: a node
\* of both trees, with the same kinds above it, is not built anew.
ElementsSurvive ==
    Settled /\ before # None /\ ~broken =>
        \A id \in DOMAIN before \cap DOMAIN tree : Same(id) => ~store[id].new
=============================================================================

----------------------------- MODULE MCViewDiff -----------------------------
(* A List of keyed rows, a VStack of unkeyed views; rows may hold a Text or *)
(* keyed rows of their own.                                                *)
EXTENDS WebHost

CONSTANTS Longest, Stacked, Toggles

\* Nodes with their kids in them, and the function from paths they stand for.
N(kind, args, mods, kids) == [kind |-> kind, key |-> None, args |-> args, mods |-> mods, kids |-> kids]
Keyed(view, k) == [view EXCEPT !.key = k]
KidSegments(kids) ==
    [i \in DOMAIN kids |-> IF kids[i].key # None THEN kids[i].key ELSE i - 1]

RECURSIVE Flat(_, _)
Flat(node, id) ==
    LET segs == KidSegments(node.kids)
        below == [i \in DOMAIN node.kids |-> Flat(node.kids[i], Append(id, segs[i]))]
    IN  FoldLeft(LAMBDA f, g : With(f, g),
                 [i \in {id} |-> [kind |-> node.kind, keyed |-> node.key # None, args |-> node.args,
                                  mods |-> node.mods, kids |-> segs]],
                 below)

Rows ==
    {N("Text", "x", "plain", <<>>), N("Text", "y", "plain", <<>>),
     N("HStack", "wide", "plain", <<N("Text", "x", "fade", <<>>)>>),
     N("ForEach", "", "plain", <<Keyed(N("Text", "x", "plain", <<>>), 0)>>)}

\* ForEach and List(_:id:) give each row a key of its own.
KeyedRows ==
    {r \in BoundedSeq({Keyed(v, k) : v \in Rows, k \in Key}, Longest) :
        \A i, j \in DOMAIN r : r[i].key = r[j].key => i = j}

StaticRows ==
    BoundedSeq(Rows \cup {N("Text", "x", "fade", <<>>), N("HStack", "wide", "plain", <<>>),
                        N("HStack", "narrow", "plain", <<N("Text", "y", "plain", <<>>)>>)}, Stacked)

\* A stack of screens.
Stacks ==
    {Flat(N("NavigationStack", "", "plain", s), Root) : s \in
        BoundedSeq({N("Text", x, "plain", <<>>) : x \in {"x", "y"}}, Stacked) \ {<<>>}}

Trees ==
    {Flat(N("List", "", "plain", r), Root) : r \in KeyedRows}
      \cup {Flat(N(IF Toggles THEN "List" ELSE "VStack", "", "plain", r), Root) : r \in StaticRows}

\* A list keeps to its kind unless a List may have rows of either.
ASSUME ListsAssumption == Toggles \/ ListsStay
=============================================================================

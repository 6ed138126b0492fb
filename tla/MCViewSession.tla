---------------------------- MODULE MCViewSession ----------------------------
(* A program whose body has three branches over the same structural ids.   *)
EXTENDS ViewSession, TLC

CONSTANTS p1, p2, p3, p4, home, detail, modal,
          btn, toggle, stk, pstk, lnk, img, tabs, alrt, ok, v1, v2

Layouts ==
    home   :> (p1 :> btn  @@ p2 :> stk  @@ p3 :> lnk    @@ p4 :> None) @@
    detail :> (p1 :> img  @@ p2 :> tabs @@ p3 :> toggle @@ p4 :> None) @@
    modal  :> (p1 :> alrt @@ p2 :> pstk @@ p3 :> lnk    @@ p4 :> ok)
ViewKinds ==
    btn :> "button" @@ toggle :> "control" @@ stk :> "stack" @@ pstk :> "pathStack" @@
    lnk :> "link" @@ img :> "image" @@ tabs :> "tab" @@ alrt :> "alert" @@ ok :> "alertButton"
Tasks == [v \in View |-> CASE v = btn -> "once" [] v = img -> "id" [] OTHER -> "no"]
SameValues == Permutations(Val)
\* Nothing is promised of a session after a call that failed late.
Unfailed == ~failed
Stacks == [p \in Pos |-> p2]
=============================================================================

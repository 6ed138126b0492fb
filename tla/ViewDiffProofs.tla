--------------------------- MODULE ViewDiffProofs ---------------------------
(***************************************************************************)
(* The patches of a diff turn the host's nodes into those of the new tree, *)
(* for every set of trees whose lists stay keyed or stay unkeyed; and the  *)
(* page shows each child of a node where it stands, where no node has a    *)
(* bar of its own.                                                         *)
(***************************************************************************)
EXTENDS WebHost, FiniteSetTheorems, TLAPS

(* Sequences                                                               *)

LEMMA Ranges ==
    ASSUME NEW S, NEW s \in Seq(S)
    PROVE  /\ Len(s) \in Nat /\ DOMAIN s = 1..Len(s)
           /\ \A m \in 1..Len(s) : s[m] \in S
           /\ ToSet(s) = {s[m] : m \in 1..Len(s)}
BY DEF ToSet

LEMMA SameSeq ==
    ASSUME NEW S, NEW a \in Seq(S), NEW b \in Seq(S), Len(a) = Len(b),
           \A m \in 1..Len(a) : a[m] = b[m]
    PROVE  a = b
OBVIOUS

LEMMA Subs ==
    ASSUME NEW S, NEW s \in Seq(S), NEW a \in Nat, NEW b \in Nat,
           a >= 1, b <= Len(s), a <= b + 1
    PROVE  /\ SubSeq(s, a, b) \in Seq(S)
           /\ Len(SubSeq(s, a, b)) = b - a + 1
           /\ \A m \in 1..(b - a + 1) : SubSeq(s, a, b)[m] = s[a + m - 1]
<1>1. \A m \in a..b : s[m] \in S
  OBVIOUS
<1>2. Len(SubSeq(s, a, b)) = IF a <= b THEN b - a + 1 ELSE 0
  BY <1>1
<1>3. SubSeq(s, a, b) \in Seq(S)
  BY <1>1
<1> QED BY <1>1, <1>2, <1>3

LEMMA Joined ==
    ASSUME NEW S, NEW a \in Seq(S), NEW b \in Seq(S)
    PROVE  /\ a \o b \in Seq(S)
           /\ Len(a \o b) = Len(a) + Len(b)
           /\ \A m \in 1..Len(a) : (a \o b)[m] = a[m]
           /\ \A m \in 1..Len(b) : (a \o b)[Len(a) + m] = b[m]
OBVIOUS

LEMMA Appended ==
    ASSUME NEW S, NEW s \in Seq(S), NEW e \in S
    PROVE  /\ Append(s, e) \in Seq(S)
           /\ Len(Append(s, e)) = Len(s) + 1
           /\ \A m \in 1..Len(s) : Append(s, e)[m] = s[m]
           /\ Append(s, e)[Len(s) + 1] = e
OBVIOUS

LEMMA InsertedAt ==
    ASSUME NEW S, NEW s \in Seq(S), NEW e \in S, NEW i \in 1..(Len(s) + 1)
    PROVE  /\ InsertAt(s, i, e) \in Seq(S)
           /\ Len(InsertAt(s, i, e)) = Len(s) + 1
           /\ InsertAt(s, i, e)[i] = e
           /\ \A m \in 1..(i - 1) : InsertAt(s, i, e)[m] = s[m]
           /\ \A m \in i..Len(s) : InsertAt(s, i, e)[m + 1] = s[m]
<1> DEFINE a == SubSeq(s, 1, i - 1)  b == SubSeq(s, i, Len(s))
<1>0. Len(s) \in Nat
  OBVIOUS
<1>1. /\ a \in Seq(S) /\ Len(a) = i - 1 /\ \A m \in 1..(i - 1) : a[m] = s[m]
  <2>1. i - 1 \in Nat /\ i - 1 <= Len(s) /\ 1 <= i
    BY <1>0
  <2>2. (i - 1) - 1 + 1 = i - 1 /\ \A m \in 1..(i - 1) : 1 + m - 1 = m
    BY <1>0
  <2> QED BY <2>1, <2>2, Subs
<1>2. /\ b \in Seq(S) /\ Len(b) = Len(s) - i + 1
      /\ \A m \in 1..(Len(s) - i + 1) : b[m] = s[i + m - 1]
  <2>1. i \in Nat /\ i >= 1 /\ i <= Len(s) + 1
    BY <1>0
  <2> QED BY <2>1, <1>0, Subs
<1>3. /\ <<e>> \in Seq(S) /\ Len(<<e>>) = 1 /\ <<e>>[1] = e
  OBVIOUS
<1> HIDE DEF a, b
<1> DEFINE c == a \o <<e>>
<1>4. /\ c \in Seq(S) /\ Len(c) = i /\ c[i] = e /\ \A m \in 1..(i - 1) : c[m] = s[m]
  <2>1. a \in Seq(S) /\ <<e>> \in Seq(S)
    BY <1>1, <1>3
  <2>2. /\ c \in Seq(S) /\ Len(c) = Len(a) + Len(<<e>>)
        /\ \A m \in 1..Len(a) : c[m] = a[m]
        /\ \A m \in 1..Len(<<e>>) : c[Len(a) + m] = <<e>>[m]
    BY <2>1, Joined
  <2> HIDE DEF c
  <2> QED BY <1>0, <1>1, <1>3, <2>2
<1> HIDE DEF c
<1>5. InsertAt(s, i, e) = c \o b
  BY DEF InsertAt, a, b, c
<1>6. /\ c \o b \in Seq(S) /\ Len(c \o b) = Len(c) + Len(b)
      /\ \A m \in 1..Len(c) : (c \o b)[m] = c[m]
      /\ \A m \in 1..Len(b) : (c \o b)[Len(c) + m] = b[m]
  BY <1>2, <1>4, Joined
<1>7. ASSUME NEW m \in i..Len(s) PROVE (c \o b)[m + 1] = s[m]
  <2>1. m - i + 1 \in 1..Len(b) /\ Len(c) + (m - i + 1) = m + 1 /\ i + (m - i + 1) - 1 = m
    BY <1>0, <1>2, <1>4
  <2>2. (c \o b)[m + 1] = b[m - i + 1]
    BY <2>1, <1>6
  <2> QED BY <2>1, <2>2, <1>2
<1>8. Len(c) + Len(b) = Len(s) + 1 /\ i \in 1..Len(c) /\ \A m \in 1..(i - 1) : m \in 1..Len(c)
  BY <1>0, <1>2, <1>4
<1> QED BY <1>4, <1>5, <1>6, <1>7, <1>8

LEMMA RemovedAt ==
    ASSUME NEW S, NEW s \in Seq(S), NEW i \in 1..Len(s)
    PROVE  /\ RemoveAt(s, i) \in Seq(S)
           /\ Len(RemoveAt(s, i)) = Len(s) - 1
           /\ \A m \in 1..(i - 1) : RemoveAt(s, i)[m] = s[m]
           /\ \A m \in i..(Len(s) - 1) : RemoveAt(s, i)[m] = s[m + 1]
<1> DEFINE a == SubSeq(s, 1, i - 1)  b == SubSeq(s, i + 1, Len(s))
<1>0. Len(s) \in Nat
  OBVIOUS
<1>1. /\ a \in Seq(S) /\ Len(a) = i - 1 /\ \A m \in 1..(i - 1) : a[m] = s[m]
  <2>1. i - 1 \in Nat /\ i - 1 <= Len(s) /\ 1 <= i
    BY <1>0
  <2>2. (i - 1) - 1 + 1 = i - 1 /\ \A m \in 1..(i - 1) : 1 + m - 1 = m
    BY <1>0
  <2> QED BY <2>1, <2>2, Subs
<1>2. /\ b \in Seq(S) /\ Len(b) = Len(s) - i
      /\ \A m \in 1..(Len(s) - i) : b[m] = s[i + m]
  <2>1. i + 1 \in Nat /\ i + 1 >= 1 /\ i + 1 <= Len(s) + 1
    BY <1>0
  <2>2. Len(s) - (i + 1) + 1 = Len(s) - i /\ \A m \in 1..(Len(s) - i) : (i + 1) + m - 1 = i + m
    BY <1>0
  <2> QED BY <2>1, <2>2, <1>0, Subs
<1>3. RemoveAt(s, i) = a \o b
  BY DEF RemoveAt
<1> HIDE DEF a, b
<1>4. /\ a \o b \in Seq(S) /\ Len(a \o b) = Len(a) + Len(b)
      /\ \A m \in 1..Len(a) : (a \o b)[m] = a[m]
      /\ \A m \in 1..Len(b) : (a \o b)[Len(a) + m] = b[m]
  <2>1. a \in Seq(S) /\ b \in Seq(S)
    BY <1>1, <1>2
  <2> QED BY <2>1, Joined
<1>5. ASSUME NEW m \in i..(Len(s) - 1) PROVE (a \o b)[m] = s[m + 1]
  <2>1. m - i + 1 \in 1..Len(b) /\ Len(a) + (m - i + 1) = m /\ i + (m - i + 1) = m + 1
    BY <1>0, <1>1, <1>2
  <2>2. (a \o b)[m] = b[m - i + 1]
    BY <2>1, <1>4
  <2> QED BY <2>1, <2>2, <1>2
<1>6. Len(a) + Len(b) = Len(s) - 1
  BY <1>0, <1>1, <1>2
<1> QED BY <1>1, <1>3, <1>4, <1>5, <1>6
-----------------------------------------------------------------------------
(* Paths                                                                   *)

Id == Seq(Seg)

LEMMA UpIs ==
    ASSUME NEW j \in Id, NEW k \in 0..Len(j)
    PROVE  /\ Up(j, k) \in Id /\ Len(Up(j, k)) = k
           /\ \A m \in 1..k : Up(j, k)[m] = j[m]
<1>1. Len(j) \in Nat /\ j \in Seq(Seg)
  BY DEF Id
<1>2. k \in Nat /\ 1 <= k + 1 /\ k <= Len(j) /\ k - 1 + 1 = k /\ \A m \in 1..k : 1 + m - 1 = m
  BY <1>1
<1> QED BY <1>1, <1>2, Subs DEF Up, Id

LEMMA UpUp ==
    ASSUME NEW j \in Id, NEW l \in 0..Len(j), NEW k \in 0..l
    PROVE  Up(Up(j, l), k) = Up(j, k)
<1>1. Len(j) \in Nat /\ k \in 0..Len(j)
  BY DEF Id
<1>2. Up(j, l) \in Id /\ Len(Up(j, l)) = l /\ \A m \in 1..l : Up(j, l)[m] = j[m]
  BY UpIs
<1>3. Up(j, k) \in Id /\ Len(Up(j, k)) = k /\ \A m \in 1..k : Up(j, k)[m] = j[m]
  BY <1>1, UpIs
<1>4. /\ Up(Up(j, l), k) \in Id /\ Len(Up(Up(j, l), k)) = k
      /\ \A m \in 1..k : Up(Up(j, l), k)[m] = Up(j, l)[m]
  BY <1>2, UpIs
<1>5. \A m \in 1..k : m \in 1..l /\ Up(Up(j, l), k)[m] = Up(j, k)[m]
  BY <1>1, <1>2, <1>3, <1>4
<1> QED BY <1>3, <1>4, <1>5, SameSeq DEF Id

LEMMA UpAll ==
    ASSUME NEW j \in Id
    PROVE  Up(j, Len(j)) = j
<1>1. Len(j) \in 0..Len(j)
  BY DEF Id
<1>2. Up(j, Len(j)) \in Id /\ Len(Up(j, Len(j))) = Len(j) /\ \A m \in 1..Len(j) : Up(j, Len(j))[m] = j[m]
  BY <1>1, UpIs
<1> QED BY <1>2, SameSeq DEF Id

LEMMA PrefixUp ==
    ASSUME NEW p \in Id, NEW j \in Id
    PROVE  IsPrefix(p, j) <=> Len(p) <= Len(j) /\ Up(j, Len(p)) = p
<1>1. Up(p, Len(p)) = p
  BY UpAll
<1> QED BY <1>1 DEF IsPrefix, Up

LEMMA PrefixIs ==
    ASSUME NEW p \in Id, NEW j \in Id
    PROVE  IsPrefix(p, j) <=> Len(p) <= Len(j) /\ \A m \in 1..Len(p) : j[m] = p[m]
<1>0. Len(p) \in Nat /\ Len(j) \in Nat
  BY DEF Id
<1>1. CASE Len(p) <= Len(j)
  <2>1. Up(j, Len(p)) \in Id /\ Len(Up(j, Len(p))) = Len(p)
        /\ \A m \in 1..Len(p) : Up(j, Len(p))[m] = j[m]
    BY <1>0, <1>1, UpIs
  <2>2. (\A m \in 1..Len(p) : j[m] = p[m]) => Up(j, Len(p)) = p
    <3> SUFFICES ASSUME \A m \in 1..Len(p) : j[m] = p[m] PROVE Up(j, Len(p)) = p
      OBVIOUS
    <3>1. \A m \in 1..Len(p) : p[m] = Up(j, Len(p))[m]
      BY <2>1
    <3> QED BY <2>1, <3>1, SameSeq DEF Id
  <2>3. Up(j, Len(p)) = p => \A m \in 1..Len(p) : j[m] = p[m]
    BY <2>1
  <2> QED BY <1>1, <2>2, <2>3, PrefixUp
<1>2. CASE ~(Len(p) <= Len(j))
  BY <1>2, PrefixUp
<1> QED BY <1>1, <1>2

LEMMA PrefixSelf == \A j \in Id : IsPrefix(j, j) /\ IsPrefix(Root, j) /\ Root \in Id
<1> SUFFICES ASSUME NEW j \in Id PROVE IsPrefix(j, j) /\ IsPrefix(Root, j) /\ Root \in Id
  OBVIOUS
<1>1. Root \in Id /\ Len(Root) = 0 /\ Len(j) \in Nat
  BY DEF Root, Id
<1>2. IsPrefix(j, j)
  BY <1>1, PrefixIs
<1>3. IsPrefix(Root, j)
  BY <1>1, PrefixIs
<1> QED BY <1>1, <1>2, <1>3

LEMMA PrefixTrans ==
    ASSUME NEW p \in Id, NEW q \in Id, NEW j \in Id, IsPrefix(p, q), IsPrefix(q, j)
    PROVE  IsPrefix(p, j)
<1>0. Len(p) \in Nat /\ Len(q) \in Nat /\ Len(j) \in Nat
  BY DEF Id
<1>1. Len(p) <= Len(q) /\ \A m \in 1..Len(p) : q[m] = p[m]
  BY PrefixIs
<1>2. Len(q) <= Len(j) /\ \A m \in 1..Len(q) : j[m] = q[m]
  BY PrefixIs
<1>3. Len(p) <= Len(j) /\ \A m \in 1..Len(p) : j[m] = p[m]
  BY <1>0, <1>1, <1>2
<1> QED BY <1>3, PrefixIs

LEMMA PrefixBoth ==
    ASSUME NEW p \in Id, NEW j \in Id, IsPrefix(p, j), Len(p) >= Len(j)
    PROVE  p = j
<1>0. Len(p) \in Nat /\ Len(j) \in Nat
  BY DEF Id
<1>1. Len(p) <= Len(j) /\ \A m \in 1..Len(p) : j[m] = p[m]
  BY PrefixIs
<1>2. Len(p) = Len(j) /\ \A m \in 1..Len(p) : p[m] = j[m]
  BY <1>0, <1>1
<1> QED BY <1>2, SameSeq DEF Id

LEMMA Child ==
    ASSUME NEW p \in Id, NEW x \in Seg
    PROVE  /\ Append(p, x) \in Id /\ Len(Append(p, x)) = Len(p) + 1
           /\ Append(p, x) # p /\ Append(p, x) # Root /\ Front(Append(p, x)) = p
           /\ IsPrefix(p, Append(p, x)) /\ Append(p, x)[Len(p) + 1] = x
           /\ Up(Append(p, x), Len(p)) = p
<1> DEFINE a == Append(p, x)
<1>0. Len(p) \in Nat
  BY DEF Id
<1>1. a \in Id /\ Len(a) = Len(p) + 1 /\ (\A m \in 1..Len(p) : a[m] = p[m]) /\ a[Len(p) + 1] = x
  BY Appended DEF Id
<1> HIDE DEF a
<1>2. IsPrefix(p, a)
  BY <1>0, <1>1, PrefixIs
<1>3. Up(a, Len(p)) = p
  BY <1>1, <1>2, PrefixUp
<1>4. Front(a) = Up(a, Len(a) - 1)
  BY DEF Front, Up
<1>5. Len(a) - 1 = Len(p) /\ Len(Root) = 0 /\ Len(a) # Len(p) /\ Len(a) # 0
  BY <1>0, <1>1 DEF Root
<1>6. Front(a) = p /\ a # p /\ a # Root
  BY <1>3, <1>4, <1>5
<1> QED BY <1>1, <1>2, <1>3, <1>6 DEF a

LEMMA Siblings ==
    ASSUME NEW p \in Id, NEW x \in Seg, NEW q \in Id, NEW y \in Seg, Append(p, x) = Append(q, y)
    PROVE  p = q /\ x = y
<1>1. Front(Append(p, x)) = p /\ Append(p, x)[Len(p) + 1] = x
  BY Child
<1>2. Front(Append(q, y)) = q /\ Append(q, y)[Len(q) + 1] = y
  BY Child
<1> QED BY <1>1, <1>2

LEMMA UpNext ==
    ASSUME NEW j \in Id, NEW k \in 0..(Len(j) - 1)
    PROVE  /\ Up(j, k + 1) = Append(Up(j, k), j[k + 1]) /\ j[k + 1] \in Seg
<1>0. Len(j) \in Nat /\ k \in 0..Len(j) /\ k + 1 \in 0..Len(j) /\ k \in Nat
  BY DEF Id
<1>1. Up(j, k) \in Id /\ Len(Up(j, k)) = k /\ \A m \in 1..k : Up(j, k)[m] = j[m]
  BY <1>0, UpIs
<1>2. Up(j, k + 1) \in Id /\ Len(Up(j, k + 1)) = k + 1 /\ \A m \in 1..(k + 1) : Up(j, k + 1)[m] = j[m]
  BY <1>0, UpIs
<1>3. j[k + 1] \in Seg
  BY <1>0 DEF Id
<1> DEFINE a == Append(Up(j, k), j[k + 1])
<1>4. a \in Id /\ Len(a) = k + 1 /\ (\A m \in 1..k : a[m] = Up(j, k)[m]) /\ a[k + 1] = j[k + 1]
  BY <1>1, <1>3, Appended DEF Id
<1> HIDE DEF a
<1>5. \A m \in 1..(k + 1) : Up(j, k + 1)[m] = a[m]
  BY <1>0, <1>1, <1>2, <1>4
<1>6. Up(j, k + 1) = a
  BY <1>2, <1>4, <1>5, SameSeq DEF Id
<1> QED BY <1>3, <1>6 DEF a

LEMMA PrefixChild ==
    ASSUME NEW p \in Id, NEW x \in Seg, NEW j \in Id
    PROVE  IsPrefix(Append(p, x), j) <=> IsPrefix(p, j) /\ Len(j) > Len(p) /\ j[Len(p) + 1] = x
<1> DEFINE a == Append(p, x)
<1>0. Len(p) \in Nat /\ Len(j) \in Nat
  BY DEF Id
<1>1. a \in Id /\ Len(a) = Len(p) + 1 /\ (\A m \in 1..Len(p) : a[m] = p[m]) /\ a[Len(p) + 1] = x
  BY Appended DEF Id
<1> HIDE DEF a
<1>2. IsPrefix(a, j) <=> Len(a) <= Len(j) /\ \A m \in 1..Len(a) : j[m] = a[m]
  BY <1>1, PrefixIs
<1>3. IsPrefix(p, j) <=> Len(p) <= Len(j) /\ \A m \in 1..Len(p) : j[m] = p[m]
  BY PrefixIs
<1>4. (\A m \in 1..Len(a) : j[m] = a[m]) <=> (\A m \in 1..Len(p) : j[m] = p[m]) /\ j[Len(p) + 1] = x
  BY <1>0, <1>1
<1> QED BY <1>0, <1>1, <1>2, <1>3, <1>4 DEF a

LEMMA Rebased ==
    ASSUME NEW p \in Id, NEW j \in Id, IsPrefix(p, j)
    PROVE  p \o Rest(j, Len(p)) = j
<1>0. Len(p) \in Nat /\ Len(j) \in Nat
  BY DEF Id
<1>1. Len(p) <= Len(j) /\ \A m \in 1..Len(p) : j[m] = p[m]
  BY PrefixIs
<1> DEFINE r == Rest(j, Len(p))
<1>2. /\ r \in Id /\ Len(r) = Len(j) - Len(p)
      /\ \A m \in 1..(Len(j) - Len(p)) : r[m] = j[Len(p) + m]
  <2>1. /\ Len(p) + 1 \in Nat /\ Len(p) + 1 >= 1 /\ Len(p) + 1 <= Len(j) + 1
        /\ Len(j) - (Len(p) + 1) + 1 = Len(j) - Len(p)
        /\ \A m \in 1..(Len(j) - Len(p)) : (Len(p) + 1) + m - 1 = Len(p) + m
    BY <1>0, <1>1
  <2> QED BY <1>0, <2>1, Subs DEF Rest, Id
<1> HIDE DEF r
<1>3. /\ p \o r \in Id /\ Len(p \o r) = Len(p) + Len(r)
      /\ \A m \in 1..Len(p) : (p \o r)[m] = p[m]
      /\ \A m \in 1..Len(r) : (p \o r)[Len(p) + m] = r[m]
  BY <1>2, Joined DEF Id
<1>4. ASSUME NEW m \in 1..Len(j) PROVE (p \o r)[m] = j[m]
  <2>1. CASE m <= Len(p)
    BY <1>0, <1>1, <1>3, <2>1
  <2>2. CASE ~(m <= Len(p))
    <3>1. m - Len(p) \in 1..Len(r) /\ Len(p) + (m - Len(p)) = m
      BY <1>0, <1>2, <2>2
    <3> QED BY <1>2, <1>3, <3>1
  <2> QED BY <2>1, <2>2
<1>5. Len(p \o r) = Len(j)
  BY <1>0, <1>2, <1>3
<1> QED BY <1>3, <1>4, <1>5, SameSeq DEF r, Id
-----------------------------------------------------------------------------
(* Lists without duplicates                                                *)

Inj(s) == \A a, b \in DOMAIN s : s[a] = s[b] => a = b

LEMMA PositionIs ==
    ASSUME NEW S, NEW s \in Seq(S), NEW x \in ToSet(s)
    PROVE  Position(s, x) \in 1..Len(s) /\ s[Position(s, x)] = x
<1>1. \E i \in DOMAIN s : s[i] = x
  BY DEF ToSet
<1>2. Position(s, x) \in DOMAIN s /\ s[Position(s, x)] = x
  BY <1>1 DEF Position
<1> QED BY <1>2, Ranges

LEMMA InsertedSet ==
    ASSUME NEW S, NEW s \in Seq(S), NEW e \in S, NEW i \in 1..(Len(s) + 1)
    PROVE  /\ ToSet(InsertAt(s, i, e)) = ToSet(s) \cup {e}
           /\ Inj(s) /\ e \notin ToSet(s) => Inj(InsertAt(s, i, e))
<1> DEFINE r == InsertAt(s, i, e)
<1>0. Len(s) \in Nat
  OBVIOUS
<1>1. /\ r \in Seq(S) /\ Len(r) = Len(s) + 1 /\ r[i] = e
      /\ \A m \in 1..(i - 1) : r[m] = s[m]
      /\ \A m \in i..Len(s) : r[m + 1] = s[m]
  BY InsertedAt
<1>2. DOMAIN r = 1..(Len(s) + 1) /\ ToSet(r) = {r[m] : m \in 1..(Len(s) + 1)}
  BY <1>1, Ranges
<1>3. DOMAIN s = 1..Len(s) /\ ToSet(s) = {s[m] : m \in 1..Len(s)}
  BY Ranges
<1> HIDE DEF r
<1>4. \A m \in 1..(Len(s) + 1) :
          \/ m < i /\ m \in 1..Len(s) /\ r[m] = s[m]
          \/ m = i /\ r[m] = e
          \/ m > i /\ m - 1 \in 1..Len(s) /\ r[m] = s[m - 1]
  <2> TAKE m \in 1..(Len(s) + 1)
  <2>1. CASE m < i
    BY <1>0, <1>1, <2>1
  <2>2. CASE m > i
    <3>1. m - 1 \in i..Len(s) /\ (m - 1) + 1 = m
      BY <1>0, <2>2
    <3> QED BY <1>0, <1>1, <2>2, <3>1
  <2> QED BY <1>0, <1>1, <2>1, <2>2
<1>5. ToSet(r) \subseteq ToSet(s) \cup {e}
  BY <1>2, <1>3, <1>4
<1>6. ASSUME NEW m \in 1..Len(s) PROVE s[m] \in ToSet(r)
  <2>1. CASE m < i
    <3>1. m \in 1..(i - 1) /\ m \in 1..(Len(s) + 1)
      BY <1>0, <2>1
    <3> QED BY <1>1, <1>2, <3>1
  <2>2. CASE m >= i
    <3>1. m \in i..Len(s) /\ m + 1 \in 1..(Len(s) + 1)
      BY <1>0, <2>2
    <3> QED BY <1>1, <1>2, <3>1
  <2> QED BY <1>0, <2>1, <2>2
<1>7. e \in ToSet(r)
  BY <1>0, <1>1, <1>2
<1>8. ASSUME Inj(s), e \notin ToSet(s), NEW a \in 1..(Len(s) + 1), NEW b \in 1..(Len(s) + 1), r[a] = r[b]
      PROVE  a = b
  <2>1. \A m \in 1..Len(s) : s[m] # e
    BY <1>3, <1>8
  <2>2. \A m, n \in 1..Len(s) : s[m] = s[n] => m = n
    BY <1>3, <1>8 DEF Inj
  <2>3. CASE a < i
    BY <1>0, <1>4, <1>8, <2>1, <2>2, <2>3
  <2>4. CASE a = i
    BY <1>0, <1>4, <1>8, <2>1, <2>2, <2>4
  <2>5. CASE a > i
    BY <1>0, <1>4, <1>8, <2>1, <2>2, <2>5
  <2> QED BY <1>0, <2>3, <2>4, <2>5
<1>9. Inj(s) /\ e \notin ToSet(s) => Inj(r)
  BY <1>2, <1>8 DEF Inj
<1> QED BY <1>3, <1>5, <1>6, <1>7, <1>9 DEF r

LEMMA RemovedSet ==
    ASSUME NEW S, NEW s \in Seq(S), NEW i \in 1..Len(s), Inj(s)
    PROVE  /\ ToSet(RemoveAt(s, i)) = ToSet(s) \ {s[i]}
           /\ Inj(RemoveAt(s, i))
<1> DEFINE r == RemoveAt(s, i)
<1>0. Len(s) \in Nat
  OBVIOUS
<1>1. /\ r \in Seq(S) /\ Len(r) = Len(s) - 1
      /\ \A m \in 1..(i - 1) : r[m] = s[m]
      /\ \A m \in i..(Len(s) - 1) : r[m] = s[m + 1]
  BY RemovedAt
<1>2. DOMAIN r = 1..(Len(s) - 1) /\ ToSet(r) = {r[m] : m \in 1..(Len(s) - 1)}
  BY <1>1, Ranges
<1>3. DOMAIN s = 1..Len(s) /\ ToSet(s) = {s[m] : m \in 1..Len(s)}
  BY Ranges
<1> HIDE DEF r
<1>4. \A m, n \in 1..Len(s) : s[m] = s[n] => m = n
  BY <1>3 DEF Inj
<1>5. \A m \in 1..(Len(s) - 1) :
          \/ m < i /\ m \in 1..Len(s) /\ r[m] = s[m]
          \/ m >= i /\ m + 1 \in 1..Len(s) /\ r[m] = s[m + 1]
  <2> TAKE m \in 1..(Len(s) - 1)
  <2>1. CASE m < i
    BY <1>0, <1>1, <2>1
  <2>2. CASE m >= i
    BY <1>0, <1>1, <2>2
  <2> QED BY <1>0, <2>1, <2>2
<1>6. ASSUME NEW m \in 1..(Len(s) - 1) PROVE r[m] \in ToSet(s) \ {s[i]}
  BY <1>0, <1>3, <1>4, <1>5
<1>7. ASSUME NEW m \in 1..Len(s), m # i PROVE s[m] \in ToSet(r)
  <2>1. CASE m < i
    <3>1. m \in 1..(i - 1) /\ m \in 1..(Len(s) - 1)
      BY <1>0, <2>1
    <3> QED BY <1>1, <1>2, <3>1
  <2>2. CASE m > i
    <3>1. m - 1 \in i..(Len(s) - 1) /\ m - 1 \in 1..(Len(s) - 1) /\ (m - 1) + 1 = m
      BY <1>0, <2>2
    <3> QED BY <1>1, <1>2, <3>1
  <2> QED BY <1>0, <1>7, <2>1, <2>2
<1>8. ToSet(r) = ToSet(s) \ {s[i]}
  BY <1>2, <1>3, <1>6, <1>7
<1>9. Inj(r)
  <2> SUFFICES ASSUME NEW a \in 1..(Len(s) - 1), NEW b \in 1..(Len(s) - 1), r[a] = r[b]
               PROVE  a = b
    BY <1>2 DEF Inj
  <2>1. CASE a < i
    BY <1>0, <1>4, <1>5, <2>1
  <2>2. CASE a >= i
    BY <1>0, <1>4, <1>5, <2>2
  <2> QED BY <1>0, <2>1, <2>2
<1> QED BY <1>8, <1>9 DEF r

\* A child moved among the others.
LEMMA SplicedIs ==
    ASSUME NEW S, NEW s \in Seq(S), NEW from \in 1..Len(s), NEW to \in 1..Len(s), Inj(s)
    PROVE  /\ Spliced(s, from, to) = InsertAt(RemoveAt(s, from), to, s[from])
           /\ Spliced(s, from, to) \in Seq(S) /\ Len(Spliced(s, from, to)) = Len(s)
           /\ ToSet(Spliced(s, from, to)) = ToSet(s) /\ Inj(Spliced(s, from, to))
<1> DEFINE r == RemoveAt(s, from)
<1>0. Len(s) \in Nat /\ s[from] \in S /\ s[from] \in ToSet(s)
  BY DEF ToSet
<1>1. r \in Seq(S) /\ Len(r) = Len(s) - 1
  BY RemovedAt
<1>2. ToSet(r) = ToSet(s) \ {s[from]} /\ Inj(r)
  BY RemovedSet
<1>3. Spliced(s, from, to) = InsertAt(r, Clamped(r, to), s[from])
  BY DEF Spliced
<1> HIDE DEF r
<1>4. Clamped(r, to) = to /\ to \in 1..(Len(r) + 1)
  BY <1>0, <1>1 DEF Clamped
<1>5. InsertAt(r, to, s[from]) \in Seq(S) /\ Len(InsertAt(r, to, s[from])) = Len(r) + 1
  BY <1>0, <1>1, <1>4, InsertedAt
<1>6. ToSet(InsertAt(r, to, s[from])) = ToSet(r) \cup {s[from]} /\ Inj(InsertAt(r, to, s[from]))
  BY <1>0, <1>1, <1>2, <1>4, InsertedSet
<1>7. Len(r) + 1 = Len(s) /\ ToSet(r) \cup {s[from]} = ToSet(s)
  BY <1>0, <1>1, <1>2
<1> QED BY <1>3, <1>4, <1>5, <1>6, <1>7 DEF r
-----------------------------------------------------------------------------
(* Trees and the host's records of them                                    *)

Record(t, j) ==
    [kind |-> t[j].kind, args |-> t[j].args, mods |-> t[j].mods,
     kids |-> Named(j, t[j].kids), new |-> TRUE]

LEMMA NamedIs ==
    ASSUME NEW j \in Id, NEW kids \in Seq(Seg)
    PROVE  /\ Named(j, kids) \in Seq(Id) /\ Len(Named(j, kids)) = Len(kids)
           /\ DOMAIN Named(j, kids) = 1..Len(kids)
           /\ \A m \in 1..Len(kids) : Named(j, kids)[m] = Append(j, kids[m])
           /\ \A x \in Seg : Append(j, x) \in ToSet(Named(j, kids)) <=> x \in ToSet(kids)
           /\ Inj(kids) => Inj(Named(j, kids))
<1> DEFINE n == Named(j, kids)
<1>0. Len(kids) \in Nat /\ DOMAIN kids = 1..Len(kids) /\ \A m \in 1..Len(kids) : kids[m] \in Seg
  OBVIOUS
<1>1. \A m \in 1..Len(kids) : Append(j, kids[m]) \in Id
  BY <1>0, Child
<1>2. n = [m \in 1..Len(kids) |-> Append(j, kids[m])]
  BY <1>0 DEF Named
<1>3. n \in Seq(Id) /\ Len(n) = Len(kids) /\ DOMAIN n = 1..Len(kids)
      /\ \A m \in 1..Len(kids) : n[m] = Append(j, kids[m])
  <2> HIDE DEF n
  <2>1. n \in [1..Len(kids) -> Id]
    BY <1>1, <1>2
  <2>2. n \in Seq(Id)
    BY <1>0, <2>1
  <2> QED BY <1>0, <1>2, <2>1, <2>2
<1> HIDE DEF n
<1>4. ASSUME NEW x \in Seg PROVE Append(j, x) \in ToSet(n) <=> x \in ToSet(kids)
  <2>1. ASSUME Append(j, x) \in ToSet(n) PROVE x \in ToSet(kids)
    <3>1. PICK m \in 1..Len(kids) : n[m] = Append(j, x)
      BY <1>3, <2>1 DEF ToSet
    <3>2. kids[m] = x
      BY <1>0, <1>3, <3>1, Siblings
    <3> QED BY <1>0, <3>2 DEF ToSet
  <2>2. ASSUME x \in ToSet(kids) PROVE Append(j, x) \in ToSet(n)
    BY <1>0, <1>3, <2>2 DEF ToSet
  <2> QED BY <2>1, <2>2
<1>5. ASSUME Inj(kids), NEW a \in 1..Len(kids), NEW b \in 1..Len(kids), n[a] = n[b] PROVE a = b
  <2>1. kids[a] = kids[b]
    BY <1>0, <1>3, <1>5, Siblings
  <2> QED BY <1>0, <1>5, <2>1 DEF Inj
<1>6. Inj(kids) => Inj(n)
  BY <1>3, <1>5 DEF Inj
<1> QED BY <1>3, <1>4, <1>6 DEF n

LEMMA TreeIs ==
    ASSUME NEW t, TreeOK(t)
    PROVE  /\ Root \in DOMAIN t
           /\ \A j \in DOMAIN t :
                 /\ j \in Id /\ t[j].kids \in Seq(Seg) /\ Inj(t[j].kids)
                 /\ \A x \in ToSet(t[j].kids) : x \in Seg /\ Append(j, x) \in DOMAIN t
                 /\ \A d \in 0..(Len(j) - 1) :
                       /\ Up(j, d) \in DOMAIN t
                       /\ j[d + 1] \in ToSet(t[Up(j, d)].kids)
<1> SUFFICES ASSUME NEW j \in DOMAIN t
             PROVE  /\ j \in Id /\ t[j].kids \in Seq(Seg) /\ Inj(t[j].kids)
                    /\ \A x \in ToSet(t[j].kids) : x \in Seg /\ Append(j, x) \in DOMAIN t
                    /\ \A d \in 0..(Len(j) - 1) :
                          Up(j, d) \in DOMAIN t /\ j[d + 1] \in ToSet(t[Up(j, d)].kids)
  BY DEF TreeOK
<1>1. /\ j \in Id /\ t[j].kids \in Seq(Seg)
      /\ \A i \in DOMAIN t[j].kids : Append(j, t[j].kids[i]) \in DOMAIN t
      /\ Inj(t[j].kids)
      /\ \A d \in 0..(Len(j) - 1) :
            Up(j, d) \in DOMAIN t /\ j[d + 1] \in ToSet(t[Up(j, d)].kids)
  BY DEF TreeOK, Id, Inj
<1>2. ASSUME NEW x \in ToSet(t[j].kids) PROVE x \in Seg /\ Append(j, x) \in DOMAIN t
  <2>1. PICK i \in DOMAIN t[j].kids : t[j].kids[i] = x
    BY DEF ToSet
  <2>2. x \in Seg
    BY <1>1, <2>1
  <2> QED BY <1>1, <2>1, <2>2
<1> QED BY <1>1, <1>2

\* An ancestor of a node is a node.
LEMMA TreeUp ==
    ASSUME NEW t, TreeOK(t), NEW j \in DOMAIN t, NEW d \in 0..Len(j)
    PROVE  Up(j, d) \in DOMAIN t
<1>1. j \in Id /\ Len(j) \in Nat
  BY TreeIs DEF Id
<1>2. CASE d = Len(j)
  BY <1>1, <1>2, UpAll
<1>3. CASE d \in 0..(Len(j) - 1)
  BY <1>3, TreeIs
<1> QED BY <1>1, <1>2, <1>3

\* A child that is a node is among the kids.
LEMMA TreeKid ==
    ASSUME NEW t, TreeOK(t), NEW j \in DOMAIN t, NEW x \in Seg
    PROVE  Append(j, x) \in DOMAIN t <=> x \in ToSet(t[j].kids)
<1>1. j \in Id /\ Len(j) \in Nat
  BY TreeIs DEF Id
<1>2. ASSUME Append(j, x) \in DOMAIN t PROVE x \in ToSet(t[j].kids)
  <2> DEFINE a == Append(j, x)
  <2>1. Len(a) = Len(j) + 1 /\ Up(a, Len(j)) = j /\ a[Len(j) + 1] = x
    BY <1>1, Child
  <2>2. Len(j) \in 0..(Len(a) - 1)
    BY <1>1, <2>1
  <2>3. a[Len(j) + 1] \in ToSet(t[Up(a, Len(j))].kids)
    BY <1>2, <2>2, TreeIs
  <2> QED BY <2>1, <2>3
<1>3. ASSUME x \in ToSet(t[j].kids) PROVE Append(j, x) \in DOMAIN t
  BY <1>3, TreeIs
<1> QED BY <1>2, <1>3

LEMMA SerializedIs ==
    ASSUME NEW t, TreeOK(t), NEW id \in DOMAIN t
    PROVE  /\ DOMAIN Serialized(t, id, id) = {j \in DOMAIN t : IsPrefix(id, j)}
           /\ \A j \in DOMAIN t : IsPrefix(id, j) => Serialized(t, id, id)[j] = Record(t, j)
<1>1. id \in Id /\ \A j \in DOMAIN t : j \in Id
  BY TreeIs
<1>2. \A j \in DOMAIN t : IsPrefix(id, j) => id \o Rest(j, Len(id)) = j
  BY <1>1, Rebased
<1>3. {id \o Rest(j, Len(id)) : j \in {j \in DOMAIN t : IsPrefix(id, j)}}
      = {j \in DOMAIN t : IsPrefix(id, j)}
  BY <1>2
<1>4. Serialized(t, id, id) = [i \in {j \in DOMAIN t : IsPrefix(id, j)} |->
        [kind |-> t[id \o Rest(i, Len(id))].kind, args |-> t[id \o Rest(i, Len(id))].args,
         mods |-> t[id \o Rest(i, Len(id))].mods,
         kids |-> Named(i, t[id \o Rest(i, Len(id))].kids), new |-> TRUE]]
  BY <1>3 DEF Serialized
<1>5. ASSUME NEW j \in DOMAIN t, IsPrefix(id, j) PROVE Serialized(t, id, id)[j] = Record(t, j)
  BY <1>2, <1>4, <1>5 DEF Record
<1> QED BY <1>4, <1>5
-----------------------------------------------------------------------------
(* The host's records hang together                                        *)

Shaped(r) ==
    r = [kind |-> r.kind, args |-> r.args, mods |-> r.mods, kids |-> r.kids, new |-> r.new]

\* A record's kids are children of its own, each once, and known, but for those
\* being built; a node is among the kids of its parent.
Descends(s, j) ==
    \A d \in 0..(Len(j) - 1) : Up(j, d) \in DOMAIN s /\ Up(j, d + 1) \in ToSet(s[Up(j, d)].kids)
RecordOK(s, j, built) ==
    /\ j \in Id /\ Shaped(s[j])
    /\ s[j].kids \in Seq(Id) /\ Inj(s[j].kids)
    /\ \A k \in ToSet(s[j].kids) : k \in DOMAIN s \cup built /\ \E x \in Seg : k = Append(j, x)
    /\ Descends(s, j)

Linked(s) == \A j \in DOMAIN s : RecordOK(s, j, {})

LEMMA BelowIs ==
    ASSUME Linked(store), NEW id \in Id
    PROVE  Below(id) = {j \in DOMAIN store : IsPrefix(id, j)}
<1> SUFFICES ASSUME NEW j \in DOMAIN store, IsPrefix(id, j), NEW d \in Len(id)..(Len(j) - 1)
             PROVE  Up(j, d) \in DOMAIN store /\ Up(j, d + 1) \in ToSet(store[Up(j, d)].kids)
  BY DEF Below
<1>1. Len(id) \in Nat /\ d \in 0..(Len(j) - 1)
  BY DEF Id
<1> QED BY <1>1 DEF Linked, RecordOK, Descends

\* How the records at a path compare after a change.
Untouched(s, s2, j) == (j \in DOMAIN s2 <=> j \in DOMAIN s) /\ (j \in DOMAIN s => s2[j] = s[j])
Grafted(s2, t, j) == (j \in DOMAIN s2 <=> j \in DOMAIN t) /\ (j \in DOMAIN t => s2[j] = Record(t, j))

LEMMA RecordFits ==
    ASSUME NEW t, TreeOK(t), NEW j \in DOMAIN t
    PROVE  /\ j \in Id /\ Shaped(Record(t, j)) /\ Record(t, j).kids = Named(j, t[j].kids)
           /\ Named(j, t[j].kids) \in Seq(Id) /\ Inj(Named(j, t[j].kids))
           /\ \A k \in ToSet(Named(j, t[j].kids)) : k \in DOMAIN t /\ \E x \in Seg : k = Append(j, x)
<1>1. j \in Id /\ t[j].kids \in Seq(Seg) /\ Inj(t[j].kids)
      /\ \A x \in ToSet(t[j].kids) : x \in Seg /\ Append(j, x) \in DOMAIN t
  BY TreeIs
<1>2. /\ Named(j, t[j].kids) \in Seq(Id) /\ Inj(Named(j, t[j].kids))
      /\ DOMAIN Named(j, t[j].kids) = 1..Len(t[j].kids)
      /\ \A m \in 1..Len(t[j].kids) : Named(j, t[j].kids)[m] = Append(j, t[j].kids[m])
  BY <1>1, NamedIs
<1>3. ASSUME NEW k \in ToSet(Named(j, t[j].kids)) PROVE k \in DOMAIN t /\ \E x \in Seg : k = Append(j, x)
  <2>1. PICK m \in 1..Len(t[j].kids) : k = Append(j, t[j].kids[m])
    BY <1>2 DEF ToSet
  <2>2. t[j].kids[m] \in ToSet(t[j].kids)
    BY <1>1 DEF ToSet
  <2> QED BY <1>1, <2>1, <2>2
<1>4. Shaped(Record(t, j)) /\ Record(t, j).kids = Named(j, t[j].kids)
  BY DEF Shaped, Record
<1> QED BY <1>1, <1>2, <1>3, <1>4

\* A child under an id, of a node that is not, is the node of that id.
LEMMA ChildUnder ==
    ASSUME NEW id \in Id, NEW j \in Id, NEW x \in Seg,
           IsPrefix(id, Append(j, x)), ~IsPrefix(id, j)
    PROVE  Append(j, x) = id
<1> DEFINE a == Append(j, x)
<1>1. a \in Id /\ Len(a) = Len(j) + 1 /\ Up(a, Len(j)) = j /\ Len(j) \in Nat /\ Len(id) \in Nat
  BY Child DEF Id
<1> HIDE DEF a
<1>2. Len(id) <= Len(a) /\ Up(a, Len(id)) = id
  BY <1>1, PrefixUp DEF a
<1>3. CASE Len(id) <= Len(j)
  <2>1. Up(Up(a, Len(j)), Len(id)) = Up(a, Len(id))
    BY <1>1, <1>3, UpUp
  <2>2. Up(j, Len(id)) = id
    BY <1>1, <1>2, <2>1
  <2> QED BY <1>3, <2>2, PrefixUp
<1>4. CASE ~(Len(id) <= Len(j))
  <2>1. Len(id) >= Len(a)
    BY <1>1, <1>4
  <2> QED BY <1>1, <2>1, PrefixBoth DEF a
<1> QED BY <1>3, <1>4

\* What is above a node that is not under an id is not either.
LEMMA UpUnder ==
    ASSUME NEW id \in Id, NEW j \in Id, NEW d \in 0..Len(j), IsPrefix(id, Up(j, d))
    PROVE  IsPrefix(id, j)
<1>1. Up(j, d) \in Id /\ Len(Up(j, d)) = d /\ Up(Up(j, d), d) = Up(j, d) /\ Len(j) \in Nat
  BY UpIs, UpAll DEF Id
<1>2. IsPrefix(Up(j, d), j)
  BY <1>1, PrefixUp
<1> QED BY <1>1, <1>2, PrefixTrans

\* A subtree of a tree takes the place of what was known under its id.
LEMMA Graft ==
    ASSUME NEW t, TreeOK(t), NEW id \in DOMAIN t, NEW s,
           \A j \in DOMAIN s : ~IsPrefix(id, j) => RecordOK(s, j, {id}),
           Descends(s, id), NEW s2,
           DOMAIN s2 = {j \in DOMAIN s : ~IsPrefix(id, j)} \cup {j \in DOMAIN t : IsPrefix(id, j)},
           \A j \in DOMAIN t : IsPrefix(id, j) => s2[j] = Record(t, j),
           \A j \in DOMAIN s : ~IsPrefix(id, j) => s2[j] = s[j]
    PROVE  Linked(s2)
<1>0. id \in Id /\ Len(id) \in Nat /\ IsPrefix(id, id) /\ id \in DOMAIN s2
  BY TreeIs, PrefixSelf DEF Id
<1>1. ASSUME NEW j \in DOMAIN t, IsPrefix(id, j) PROVE RecordOK(s2, j, {})
  <2>1. /\ j \in Id /\ Shaped(s2[j]) /\ s2[j].kids = Named(j, t[j].kids)
        /\ s2[j].kids \in Seq(Id) /\ Inj(s2[j].kids)
        /\ \A k \in ToSet(s2[j].kids) : k \in DOMAIN t /\ \E x \in Seg : k = Append(j, x)
    <3>1. s2[j] = Record(t, j)
      BY <1>1
    <3> QED BY <3>1, RecordFits
  <2>2. ASSUME NEW k \in ToSet(s2[j].kids) PROVE k \in DOMAIN s2
    <3>1. PICK x \in Seg : k = Append(j, x)
      BY <2>1
    <3>2. k \in DOMAIN t /\ k \in Id /\ IsPrefix(j, k)
      BY <2>1, <3>1, Child
    <3>3. IsPrefix(id, k)
      BY <1>0, <1>1, <2>1, <3>2, PrefixTrans
    <3> QED BY <3>2, <3>3
  <2>3. ASSUME NEW d \in 0..(Len(j) - 1)
        PROVE  Up(j, d) \in DOMAIN s2 /\ Up(j, d + 1) \in ToSet(s2[Up(j, d)].kids)
    <3>0. Len(j) \in Nat /\ d \in 0..Len(j) /\ d + 1 \in 0..Len(j) /\ Len(id) <= Len(j)
          /\ Up(j, Len(id)) = id
      BY <1>0, <1>1, <2>1, PrefixUp DEF Id
    <3>1. CASE d >= Len(id)
      <4>1. Up(j, d) \in DOMAIN t /\ Up(j, d) \in Id /\ Len(Up(j, d)) = d
            /\ j[d + 1] \in ToSet(t[Up(j, d)].kids)
        BY <2>1, <3>0, TreeIs, UpIs
      <4>2. IsPrefix(id, Up(j, d))
        <5>1. Up(Up(j, d), Len(id)) = Up(j, Len(id))
          BY <1>0, <2>1, <3>0, <3>1, UpUp
        <5> QED BY <1>0, <3>0, <3>1, <4>1, <5>1, PrefixUp
      <4>3. s2[Up(j, d)].kids = Named(Up(j, d), t[Up(j, d)].kids) /\ Up(j, d) \in DOMAIN s2
        <5>1. s2[Up(j, d)] = Record(t, Up(j, d)) /\ Up(j, d) \in DOMAIN s2
          BY <4>1, <4>2
        <5> QED BY <5>1, <4>1, RecordFits
      <4>4. Up(j, d + 1) = Append(Up(j, d), j[d + 1]) /\ j[d + 1] \in Seg
        BY <2>1, UpNext
      <4>5. t[Up(j, d)].kids \in Seq(Seg)
        BY <4>1, TreeIs
      <4>6. Append(Up(j, d), j[d + 1]) \in ToSet(Named(Up(j, d), t[Up(j, d)].kids))
        BY <4>1, <4>4, <4>5, NamedIs
      <4> QED BY <4>3, <4>4, <4>6
    <3>2. CASE d < Len(id)
      <4>1. d \in 0..(Len(id) - 1) /\ d \in 0..Len(id) /\ d + 1 \in 0..Len(id) /\ Len(id) \in 0..Len(j)
        BY <1>0, <3>0, <3>2
      <4>2. Up(j, d) = Up(id, d) /\ Up(j, d + 1) = Up(id, d + 1)
        BY <2>1, <3>0, <4>1, UpUp
      <4>3. Up(id, d) \in DOMAIN s /\ Up(id, d + 1) \in ToSet(s[Up(id, d)].kids)
        BY <4>1 DEF Descends
      <4>4. Up(id, d) \in Id /\ Len(Up(id, d)) = d
        BY <1>0, <4>1, UpIs
      <4>5. ~IsPrefix(id, Up(id, d))
        BY <1>0, <3>2, <4>4, PrefixUp
      <4> QED BY <4>2, <4>3, <4>5
    <3> QED BY <1>0, <3>0, <3>1, <3>2
  <2> QED BY <2>1, <2>2, <2>3 DEF RecordOK, Descends
<1>2. ASSUME NEW j \in DOMAIN s, ~IsPrefix(id, j) PROVE RecordOK(s2, j, {})
  <2>1. RecordOK(s, j, {id}) /\ s2[j] = s[j] /\ j \in Id /\ Len(j) \in Nat
    BY <1>2 DEF RecordOK, Id
  <2>2. ASSUME NEW k \in ToSet(s[j].kids) PROVE k \in DOMAIN s2
    <3>1. PICK x \in Seg : k = Append(j, x)
      BY <2>1 DEF RecordOK
    <3>2. CASE IsPrefix(id, k)
      BY <1>0, <1>2, <2>1, <3>1, <3>2, ChildUnder
    <3>3. CASE ~IsPrefix(id, k)
      <4>1. k # id
        BY <1>0, <3>3
      <4>2. k \in DOMAIN s
        BY <2>1, <4>1 DEF RecordOK
      <4> QED BY <3>3, <4>2
    <3> QED BY <3>2, <3>3
  <2>3. ASSUME NEW d \in 0..(Len(j) - 1)
        PROVE  Up(j, d) \in DOMAIN s2 /\ Up(j, d + 1) \in ToSet(s2[Up(j, d)].kids)
    <3>1. Up(j, d) \in DOMAIN s /\ Up(j, d + 1) \in ToSet(s[Up(j, d)].kids)
      BY <2>1 DEF RecordOK, Descends
    <3>2. ~IsPrefix(id, Up(j, d))
      BY <1>0, <1>2, <2>1, UpUnder
    <3> QED BY <3>1, <3>2
  <2> QED BY <2>1, <2>2, <2>3 DEF RecordOK, Descends
<1> QED BY <1>1, <1>2 DEF Linked
-----------------------------------------------------------------------------
(* What each patch does to the records                                     *)

LEMMA ReplacedIs ==
    ASSUME Linked(store), TreeOK(tree), NEW p, p.op = "replace",
           p.id \in DOMAIN store, p.id \in DOMAIN tree,
           p.node = Serialized(tree, p.id, p.id)
    PROVE  /\ Linked(After(p))
           /\ \A j \in Id : IF IsPrefix(p.id, j) THEN Grafted(After(p), tree, j)
                            ELSE Untouched(store, After(p), j)
<1> DEFINE s2 == After(p)
<1>0. p.id \in Id /\ \A j \in DOMAIN store : j \in Id
  BY TreeIs DEF Linked, RecordOK
<1>1. s2 = With(Without(store, Below(p.id)), p.node)
  BY DEF After, Replaced
<1>2. /\ DOMAIN p.node = {j \in DOMAIN tree : IsPrefix(p.id, j)}
      /\ \A j \in DOMAIN tree : IsPrefix(p.id, j) => p.node[j] = Record(tree, j)
  <2>1. DOMAIN Serialized(tree, p.id, p.id) = {j \in DOMAIN tree : IsPrefix(p.id, j)}
    BY SerializedIs
  <2>2. \A j \in DOMAIN tree : IsPrefix(p.id, j) => Serialized(tree, p.id, p.id)[j] = Record(tree, j)
    BY SerializedIs
  <2> QED BY <2>1, <2>2
<1>3. Below(p.id) = {j \in DOMAIN store : IsPrefix(p.id, j)}
  BY <1>0, BelowIs
<1> HIDE DEF s2
<1>4. /\ DOMAIN Without(store, Below(p.id)) = {j \in DOMAIN store : ~IsPrefix(p.id, j)}
      /\ \A j \in DOMAIN store : ~IsPrefix(p.id, j) => Without(store, Below(p.id))[j] = store[j]
  BY <1>3 DEF Without
<1>5. /\ DOMAIN s2 = {j \in DOMAIN store : ~IsPrefix(p.id, j)} \cup {j \in DOMAIN tree : IsPrefix(p.id, j)}
      /\ \A j \in DOMAIN tree : IsPrefix(p.id, j) => s2[j] = Record(tree, j)
      /\ \A j \in DOMAIN store : ~IsPrefix(p.id, j) => s2[j] = store[j]
  BY <1>1, <1>2, <1>4 DEF With
<1>6. Linked(s2)
  <2>1. Descends(store, p.id)
    BY DEF Linked, RecordOK
  <2>2. \A j \in DOMAIN store : ~IsPrefix(p.id, j) => RecordOK(store, j, {p.id})
    BY DEF Linked, RecordOK
  <2> QED BY <1>5, <2>1, <2>2, Graft
<1>7. \A j \in Id : IF IsPrefix(p.id, j) THEN Grafted(s2, tree, j) ELSE Untouched(store, s2, j)
  BY <1>5 DEF Grafted, Untouched
<1> QED BY <1>6, <1>7 DEF s2

LEMMA MountedIs ==
    ASSUME TreeOK(tree), NEW p, p.op = "mount", p.node = Serialized(tree, Root, Root)
    PROVE  /\ Linked(After(p))
           /\ \A j \in Id : Grafted(After(p), tree, j)
<1> DEFINE s2 == After(p)
<1>0. Root \in DOMAIN tree /\ Root \in Id /\ Len(Root) = 0 /\ \A j \in Id : IsPrefix(Root, j)
  BY TreeIs, PrefixSelf DEF Root
<1>1. \A j \in DOMAIN tree : j \in Id
  BY TreeIs
<1>2. s2 = Serialized(tree, Root, Root)
  BY DEF After
<1> HIDE DEF s2
<1>3. /\ DOMAIN s2 = {j \in DOMAIN tree : IsPrefix(Root, j)}
      /\ \A j \in DOMAIN tree : IsPrefix(Root, j) => s2[j] = Record(tree, j)
  BY <1>0, <1>2, SerializedIs
<1> DEFINE s == [j \in {} |-> 0]
<1>4. Descends(s, Root)
  BY <1>0 DEF Descends
<1>5. DOMAIN s = {}
  OBVIOUS
<1> HIDE DEF s
<1>6. Linked(s2)
  <2>1. DOMAIN s2 = {j \in DOMAIN s : ~IsPrefix(Root, j)} \cup {j \in DOMAIN tree : IsPrefix(Root, j)}
    BY <1>3, <1>5
  <2>2. \A j \in DOMAIN s : ~IsPrefix(Root, j) => s2[j] = s[j]
    BY <1>5
  <2>3. \A j \in DOMAIN s : ~IsPrefix(Root, j) => RecordOK(s, j, {Root})
    BY <1>5
  <2> QED BY <1>0, <1>3, <1>4, <2>1, <2>2, <2>3, Graft
<1>7. \A j \in Id : Grafted(s2, tree, j)
  BY <1>0, <1>1, <1>3 DEF Grafted
<1> QED BY <1>6, <1>7 DEF s2

\* The kids of one node change, and nothing else.
Amended(s, s2, id, kids) ==
    /\ id \in DOMAIN s2 /\ Shaped(s2[id])
    /\ s2[id].kind = s[id].kind /\ s2[id].args = s[id].args /\ s2[id].mods = s[id].mods
    /\ s2[id].new = s[id].new /\ s2[id].kids = kids

LEMMA AmendedIs ==
    ASSUME NEW id \in DOMAIN store, Shaped(store[id]), NEW kids
    PROVE  LET s2 == [store EXCEPT ![id].kids = kids]
           IN  /\ DOMAIN s2 = DOMAIN store /\ Amended(store, s2, id, kids)
               /\ \A j \in DOMAIN store : j # id => s2[j] = store[j]
<1> DEFINE s2 == [store EXCEPT ![id].kids = kids]
<1>1. DOMAIN s2 = DOMAIN store /\ s2[id] = [store[id] EXCEPT !.kids = kids]
      /\ \A j \in DOMAIN store : j # id => s2[j] = store[j]
  OBVIOUS
<1> HIDE DEF s2
<1>2. [store[id] EXCEPT !.kids = kids]
      = [kind |-> store[id].kind, args |-> store[id].args, mods |-> store[id].mods,
         kids |-> kids, new |-> store[id].new]
  BY DEF Shaped
<1>3. Amended(store, s2, id, kids)
  BY <1>1, <1>2 DEF Amended, Shaped
<1> QED BY <1>1, <1>3 DEF s2

LEMMA InsertedIs ==
    ASSUME Linked(store), TreeOK(tree), NEW p, p.op = "insert",
           p.id \in DOMAIN store, NEW x \in Seg, p.name = Append(p.id, x),
           p.name \notin DOMAIN store, p.name \in DOMAIN tree,
           p.node = Serialized(tree, p.name, p.name),
           p.index \in 1..(Len(store[p.id].kids) + 1)
    PROVE  /\ Linked(After(p))
           /\ Amended(store, After(p), p.id, InsertAt(store[p.id].kids, p.index, p.name))
           /\ \A j \in Id : IF IsPrefix(p.name, j) THEN Grafted(After(p), tree, j)
                            ELSE j # p.id => Untouched(store, After(p), j)
<1> DEFINE s2 == After(p)
           kids == InsertAt(store[p.id].kids, p.index, p.name)
           s == [store EXCEPT ![p.id].kids = kids]
<1>0. /\ p.name \in Id /\ p.id \in Id /\ \A j \in DOMAIN store : j \in Id
      /\ store[p.id].kids \in Seq(Id) /\ Inj(store[p.id].kids) /\ Len(store[p.id].kids) \in Nat
  BY TreeIs DEF Linked, RecordOK
<1>1. s2 = With(s, p.node)
  <2>1. Clamped(store[p.id].kids, p.index) = p.index
    BY <1>0 DEF Clamped
  <2> QED BY <2>1 DEF After, Inserted
<1>2. /\ DOMAIN p.node = {j \in DOMAIN tree : IsPrefix(p.name, j)}
      /\ \A j \in DOMAIN tree : IsPrefix(p.name, j) => p.node[j] = Record(tree, j)
  <2> HIDE DEF s2, kids, s
  <2>1. \A id \in DOMAIN tree :
          /\ DOMAIN Serialized(tree, id, id) = {j \in DOMAIN tree : IsPrefix(id, j)}
          /\ \A j \in DOMAIN tree : IsPrefix(id, j) => Serialized(tree, id, id)[j] = Record(tree, j)
    BY SerializedIs
  <2> QED BY <2>1
<1>3. /\ DOMAIN s = DOMAIN store /\ Amended(store, s, p.id, kids)
      /\ \A j \in DOMAIN store : j # p.id => s[j] = store[j]
  <2>1. Shaped(store[p.id])
    BY DEF Linked, RecordOK
  <2> HIDE DEF kids
  <2> QED BY <2>1, AmendedIs
<1>4. p.name \notin ToSet(store[p.id].kids)
  <2>1. ASSUME NEW k \in ToSet(store[p.id].kids) PROVE k \in DOMAIN store
    BY DEF Linked, RecordOK
  <2> QED BY <2>1
<1>5. kids \in Seq(Id) /\ ToSet(kids) = ToSet(store[p.id].kids) \cup {p.name} /\ Inj(kids)
  <2>1. kids \in Seq(Id)
    BY <1>0, InsertedAt
  <2>2. ToSet(kids) = ToSet(store[p.id].kids) \cup {p.name} /\ Inj(kids)
    <3> DEFINE old == store[p.id].kids
    <3>1. old \in Seq(Id) /\ p.name \in Id /\ p.index \in 1..(Len(old) + 1)
      BY <1>0
    <3>2. Inj(old) /\ p.name \notin ToSet(old)
      BY <1>0, <1>4
    <3> HIDE DEF old
    <3>3. /\ ToSet(InsertAt(old, p.index, p.name)) = ToSet(old) \cup {p.name}
          /\ Inj(old) /\ p.name \notin ToSet(old) => Inj(InsertAt(old, p.index, p.name))
      BY <3>1, InsertedSet
    <3> QED BY <3>2, <3>3 DEF old
  <2> QED BY <2>1, <2>2
<1> HIDE DEF s2, kids, s
<1>6. \A j \in DOMAIN store : ~IsPrefix(p.name, j)
  <2> SUFFICES ASSUME NEW j \in DOMAIN store, IsPrefix(p.name, j) PROVE FALSE
    OBVIOUS
  <2>0. Len(p.name) \in Nat /\ Len(j) \in Nat /\ j \in Id
    BY <1>0 DEF Id
  <2>1. Len(p.name) <= Len(j) /\ Up(j, Len(p.name)) = p.name
    BY <1>0, <2>0, PrefixUp
  <2>2. CASE Len(p.name) = Len(j)
    BY <2>0, <2>1, <2>2, UpAll
  <2>3. CASE Len(p.name) \in 0..(Len(j) - 1)
    BY <2>1, <2>3 DEF Linked, RecordOK, Descends
  <2> QED BY <2>0, <2>1, <2>2, <2>3
<1>7. ~IsPrefix(p.name, p.id)
  BY <1>6
<1>8. /\ DOMAIN s2 = {j \in DOMAIN s : ~IsPrefix(p.name, j)} \cup {j \in DOMAIN tree : IsPrefix(p.name, j)}
      /\ \A j \in DOMAIN tree : IsPrefix(p.name, j) => s2[j] = Record(tree, j)
      /\ \A j \in DOMAIN s : ~IsPrefix(p.name, j) => s2[j] = s[j]
  BY <1>1, <1>2, <1>3, <1>6 DEF With
<1>9. ASSUME NEW j \in DOMAIN s PROVE Descends(s, j)
  <2> SUFFICES ASSUME NEW d \in 0..(Len(j) - 1)
               PROVE  Up(j, d) \in DOMAIN s /\ Up(j, d + 1) \in ToSet(s[Up(j, d)].kids)
    BY DEF Descends
  <2>1. Up(j, d) \in DOMAIN store /\ Up(j, d + 1) \in ToSet(store[Up(j, d)].kids)
    BY <1>3 DEF Linked, RecordOK, Descends
  <2> QED BY <1>3, <1>5, <2>1 DEF Amended
<1>10. ASSUME NEW j \in DOMAIN s PROVE RecordOK(s, j, {p.name})
  <2>1. RecordOK(store, j, {}) /\ Descends(s, j)
    BY <1>3, <1>9 DEF Linked
  <2>2. CASE j # p.id
    <3>1. s[j] = store[j]
      BY <1>3, <2>2
    <3> QED BY <1>3, <2>1, <3>1 DEF RecordOK
  <2>3. CASE j = p.id
    <3>1. /\ j \in Id /\ Shaped(s[j]) /\ s[j].kids = kids
      BY <1>0, <1>3, <2>3 DEF Amended
    <3>2. ASSUME NEW k \in ToSet(kids) PROVE k \in DOMAIN s \cup {p.name} /\ \E y \in Seg : k = Append(j, y)
      BY <1>3, <1>5, <2>1, <2>3 DEF RecordOK
    <3> QED BY <1>5, <2>1, <3>1, <3>2 DEF RecordOK
  <2> QED BY <2>2, <2>3
<1>11. Descends(s, p.name)
  <2> SUFFICES ASSUME NEW d \in 0..(Len(p.name) - 1)
               PROVE  Up(p.name, d) \in DOMAIN s /\ Up(p.name, d + 1) \in ToSet(s[Up(p.name, d)].kids)
    BY DEF Descends
  <2>1. Len(p.name) = Len(p.id) + 1 /\ Up(p.name, Len(p.id)) = p.id /\ Len(p.id) \in Nat
    BY <1>0, Child DEF Id
  <2>2. CASE d = Len(p.id)
    <3>1. Up(p.name, d + 1) = p.name
      BY <1>0, <2>1, <2>2, UpAll
    <3> QED BY <1>3, <1>5, <2>1, <2>2, <3>1 DEF Amended
  <2>3. CASE d \in 0..(Len(p.id) - 1)
    <3>1. Len(p.id) \in 0..Len(p.name) /\ d \in 0..Len(p.id) /\ d + 1 \in 0..Len(p.id)
      BY <2>1, <2>3
    <3>2. Up(p.name, d) = Up(p.id, d) /\ Up(p.name, d + 1) = Up(p.id, d + 1)
      BY <1>0, <2>1, <3>1, UpUp
    <3>3. Descends(s, p.id)
      BY <1>3, <1>9
    <3> QED BY <2>3, <3>2, <3>3 DEF Descends
  <2> QED BY <2>1, <2>2, <2>3
<1>12. Linked(s2)
  BY <1>8, <1>10, <1>11, Graft
<1>13. Amended(store, s2, p.id, kids)
  <2>1. p.id \in DOMAIN s2 /\ s2[p.id] = s[p.id]
    BY <1>3, <1>7, <1>8
  <2> QED BY <1>3, <2>1 DEF Amended
<1>14. ASSUME NEW j \in Id
       PROVE  IF IsPrefix(p.name, j) THEN Grafted(s2, tree, j) ELSE j # p.id => Untouched(store, s2, j)
  BY <1>3, <1>8 DEF Grafted, Untouched
<1> QED BY <1>12, <1>13, <1>14 DEF s2, kids

\* A node's parent knows it.
LEMMA ParentIs ==
    ASSUME NEW s, Linked(s), NEW id \in DOMAIN s, id # Root
    PROVE  /\ Front(id) \in DOMAIN s /\ Front(id) \in Id /\ id \in ToSet(s[Front(id)].kids)
           /\ Len(id) \in Nat /\ Len(id) >= 1 /\ Front(id) = Up(id, Len(id) - 1)
           /\ ~IsPrefix(id, Front(id)) /\ \E x \in Seg : id = Append(Front(id), x)
<1>1. id \in Id /\ Len(id) \in Nat /\ Descends(s, id)
  BY DEF Linked, RecordOK, Id
<1>2. Len(id) # 0
  BY <1>1 DEF Root, Id
<1>3. Front(id) = Up(id, Len(id) - 1) /\ Len(id) - 1 \in 0..(Len(id) - 1) /\ (Len(id) - 1) + 1 = Len(id)
  BY <1>1, <1>2 DEF Front, Up
<1>4. Front(id) \in DOMAIN s /\ id \in ToSet(s[Front(id)].kids)
  BY <1>1, <1>3, UpAll DEF Descends
<1>5. RecordOK(s, Front(id), {})
  BY <1>4 DEF Linked
<1>6. Front(id) \in Id /\ \E x \in Seg : id = Append(Front(id), x)
  BY <1>4, <1>5 DEF RecordOK
<1>7. Len(Front(id)) = Len(id) - 1
  <2>1. Len(id) - 1 \in 0..Len(id)
    BY <1>1, <1>2
  <2> QED BY <1>1, <1>3, <2>1, UpIs
<1>8. ~IsPrefix(id, Front(id))
  BY <1>1, <1>6, <1>7, PrefixUp
<1>9. Len(id) >= 1
  BY <1>1, <1>2
<1> QED BY <1>1, <1>3, <1>4, <1>6, <1>8, <1>9

LEMMA RemovedIs ==
    ASSUME Linked(store), NEW p, p.op = "remove", p.id \in DOMAIN store, p.id # Root
    PROVE  LET up == Front(p.id)
           IN  /\ Linked(After(p))
               /\ Amended(store, After(p), up,
                          RemoveAt(store[up].kids, Position(store[up].kids, p.id)))
               /\ \A j \in Id : IF IsPrefix(p.id, j) THEN j \notin DOMAIN After(p)
                                ELSE j # up => Untouched(store, After(p), j)
<1> DEFINE s2 == After(p)
           up == Front(p.id)
           old == store[up].kids
           kids == RemoveAt(old, Position(old, p.id))
           s == [store EXCEPT ![up].kids = kids]
<1>0. /\ up \in DOMAIN store /\ up \in Id /\ p.id \in Id /\ p.id \in ToSet(old)
      /\ ~IsPrefix(p.id, up) /\ \A j \in DOMAIN store : j \in Id
      /\ old \in Seq(Id) /\ Inj(old) /\ Shaped(store[up])
  <2>1. up \in DOMAIN store /\ up \in Id /\ p.id \in ToSet(old) /\ ~IsPrefix(p.id, up)
    BY ParentIs
  <2>2. RecordOK(store, up, {}) /\ RecordOK(store, p.id, {}) /\ \A j \in DOMAIN store : RecordOK(store, j, {})
    BY <2>1 DEF Linked
  <2> QED BY <2>1, <2>2 DEF RecordOK
<1>1. s2 = Without(s, Below(p.id))
  BY DEF After, Removed, Unlinked
<1>2. Below(p.id) = {j \in DOMAIN store : IsPrefix(p.id, j)}
  BY <1>0, BelowIs
<1>3. kids \in Seq(Id) /\ ToSet(kids) = ToSet(old) \ {p.id} /\ Inj(kids)
  <2> HIDE DEF old
  <2>1. Position(old, p.id) \in 1..Len(old) /\ old[Position(old, p.id)] = p.id
    BY <1>0, PositionIs
  <2>2. kids \in Seq(Id)
    BY <1>0, <2>1, RemovedAt
  <2>3. ToSet(kids) = ToSet(old) \ {old[Position(old, p.id)]} /\ Inj(kids)
    BY <1>0, <2>1, RemovedSet
  <2> QED BY <2>1, <2>2, <2>3
<1>4. /\ DOMAIN s = DOMAIN store /\ Amended(store, s, up, kids)
      /\ \A j \in DOMAIN store : j # up => s[j] = store[j]
  <2> HIDE DEF kids, up
  <2> QED BY <1>0, AmendedIs
<1> HIDE DEF s2, kids, s, up
<1>5. DOMAIN s2 = {j \in DOMAIN store : ~IsPrefix(p.id, j)} /\ \A j \in DOMAIN s2 : s2[j] = s[j]
  BY <1>1, <1>2, <1>4 DEF Without
<1>6. Amended(store, s2, up, kids)
  <2>1. up \in DOMAIN s2 /\ s2[up] = s[up]
    BY <1>0, <1>5
  <2> QED BY <1>4, <2>1 DEF Amended
<1>7. ASSUME NEW j \in Id
      PROVE  IF IsPrefix(p.id, j) THEN j \notin DOMAIN s2 ELSE j # up => Untouched(store, s2, j)
  BY <1>4, <1>5 DEF Untouched
<1>8. ASSUME NEW j \in DOMAIN s2 PROVE RecordOK(s2, j, {})
  <2>1. RecordOK(store, j, {}) /\ j \in DOMAIN store /\ ~IsPrefix(p.id, j) /\ j \in Id /\ Len(j) \in Nat
    BY <1>5 DEF Linked, RecordOK, Id
  <2>2. /\ Shaped(s2[j]) /\ s2[j].kids \in Seq(Id) /\ Inj(s2[j].kids)
        /\ \A k \in ToSet(s2[j].kids) : k \in ToSet(store[j].kids) /\ k # p.id
    <3>1. CASE j = up
      BY <1>3, <1>6, <3>1 DEF Amended, old
    <3>2. CASE j # up
      <4>1. s2[j] = store[j]
        BY <1>4, <1>5, <2>1, <3>2
      <4>2. ASSUME p.id \in ToSet(store[j].kids) PROVE FALSE
        <5>1. PICK x \in Seg : p.id = Append(j, x)
          BY <2>1, <4>2 DEF RecordOK
        <5> QED BY <2>1, <3>2, <5>1, Child DEF up
      <4> QED BY <2>1, <4>1, <4>2 DEF RecordOK
    <3> QED BY <3>1, <3>2
  <2>3. ASSUME NEW k \in ToSet(s2[j].kids) PROVE k \in DOMAIN s2 /\ \E x \in Seg : k = Append(j, x)
    <3>1. k \in ToSet(store[j].kids) /\ k # p.id
      BY <2>2
    <3>2. PICK x \in Seg : k = Append(j, x)
      BY <2>1, <3>1 DEF RecordOK
    <3>3. k \in DOMAIN store
      BY <2>1, <3>1 DEF RecordOK
    <3>4. ~IsPrefix(p.id, k)
      BY <1>0, <2>1, <3>1, <3>2, ChildUnder
    <3> QED BY <1>5, <3>2, <3>3, <3>4
  <2>4. ASSUME NEW d \in 0..(Len(j) - 1)
        PROVE  Up(j, d) \in DOMAIN s2 /\ Up(j, d + 1) \in ToSet(s2[Up(j, d)].kids)
    <3>0. d \in 0..Len(j) /\ d + 1 \in 0..Len(j)
      BY <2>1
    <3>1. Up(j, d) \in DOMAIN store /\ Up(j, d + 1) \in ToSet(store[Up(j, d)].kids)
      BY <2>1 DEF RecordOK, Descends
    <3>2. ~IsPrefix(p.id, Up(j, d)) /\ ~IsPrefix(p.id, Up(j, d + 1))
      BY <1>0, <2>1, <3>0, UpUnder
    <3>3. Up(j, d + 1) # p.id
      BY <1>0, <3>2, PrefixSelf
    <3>4. CASE Up(j, d) = up
      BY <1>3, <1>6, <3>1, <3>3, <3>4 DEF Amended, old
    <3>5. CASE Up(j, d) # up
      BY <1>4, <1>5, <3>1, <3>2, <3>5
    <3> QED BY <3>4, <3>5
  <2> QED BY <2>1, <2>2, <2>3, <2>4 DEF RecordOK, Descends
<1>9. Linked(s2)
  BY <1>8 DEF Linked
<1> QED BY <1>6, <1>7, <1>9 DEF s2, kids, up, old

LEMMA MovedIs ==
    ASSUME Linked(store), NEW p, p.op = "move", p.parent \in DOMAIN store,
           p.id \in ToSet(store[p.parent].kids), p.index \in 1..Len(store[p.parent].kids)
    PROVE  /\ Linked(After(p))
           /\ Amended(store, After(p), p.parent,
                      Spliced(store[p.parent].kids, Position(store[p.parent].kids, p.id), p.index))
           /\ \A j \in Id : j # p.parent => Untouched(store, After(p), j)
<1> DEFINE s2 == After(p)
           up == p.parent
           old == store[up].kids
           kids == Spliced(old, Position(old, p.id), p.index)
<1>0. RecordOK(store, up, {}) /\ \A j \in DOMAIN store : j \in Id
  BY DEF Linked, RecordOK
<1>1. s2 = [store EXCEPT ![up].kids = kids]
  BY DEF After, Moved
<1>2. old \in Seq(Id) /\ Inj(old) /\ Shaped(store[up]) /\ up \in DOMAIN store
  BY <1>0 DEF RecordOK
<1>3. kids \in Seq(Id) /\ ToSet(kids) = ToSet(old) /\ Inj(kids)
  <2>0. p.id \in ToSet(old) /\ p.index \in 1..Len(old)
    OBVIOUS
  <2> HIDE DEF old
  <2>1. Position(old, p.id) \in 1..Len(old)
    BY <1>2, <2>0, PositionIs
  <2> QED BY <1>2, <2>0, <2>1, SplicedIs
<1>4. /\ DOMAIN s2 = DOMAIN store /\ Amended(store, s2, up, kids)
      /\ \A j \in DOMAIN store : j # up => s2[j] = store[j]
  <2> HIDE DEF kids, up, s2
  <2> QED BY <1>1, <1>2, AmendedIs
<1> HIDE DEF s2, kids, up
<1>5. ASSUME NEW j \in DOMAIN s2 PROVE ToSet(s2[j].kids) = ToSet(store[j].kids)
  BY <1>3, <1>4 DEF Amended, old
<1>6. ASSUME NEW j \in DOMAIN s2 PROVE RecordOK(s2, j, {})
  <2>1. RecordOK(store, j, {})
    BY <1>4 DEF Linked
  <2>2. Shaped(s2[j]) /\ s2[j].kids \in Seq(Id) /\ Inj(s2[j].kids)
    <3>1. CASE j = up
      BY <1>3, <1>4, <3>1 DEF Amended
    <3>2. CASE j # up
      BY <1>4, <2>1, <3>2 DEF RecordOK
    <3> QED BY <3>1, <3>2
  <2>3. Descends(s2, j)
    BY <1>4, <1>5, <2>1 DEF RecordOK, Descends
  <2> QED BY <1>4, <1>5, <2>1, <2>2, <2>3 DEF RecordOK
<1>7. Linked(s2)
  BY <1>6 DEF Linked
<1>8. \A j \in Id : j # up => Untouched(store, s2, j)
  BY <1>4 DEF Untouched
<1> QED BY <1>4, <1>7, <1>8 DEF s2, kids, up, old

LEMMA SetIs ==
    ASSUME Linked(store), NEW p, p.op \in {"setText", "setArgs", "setModifiers"}, p.id \in DOMAIN store
    PROVE  LET r == store[p.id]
               r2 == After(p)[p.id]
           IN  /\ Linked(After(p)) /\ p.id \in DOMAIN After(p)
               /\ r2.kind = r.kind /\ r2.kids = r.kids /\ r2.new = r.new
               /\ p.op = "setModifiers" => r2.mods = p.mods /\ r2.args = r.args
               /\ p.op # "setModifiers" => r2.args = p.args /\ r2.mods = r.mods
               /\ \A j \in Id : j # p.id => Untouched(store, After(p), j)
<1> DEFINE s2 == After(p)
           r == store[p.id]
<1>1. r = [kind |-> r.kind, args |-> r.args, mods |-> r.mods, kids |-> r.kids, new |-> r.new]
  BY DEF Linked, RecordOK, Shaped
<1>2. CASE p.op = "setModifiers"
  <2>1. s2 = [store EXCEPT ![p.id].mods = p.mods]
    BY <1>2 DEF After
  <2> QED BY <1>1, <1>2, <2>1 DEF Linked, RecordOK, Shaped, Descends, Untouched
<1>3. CASE p.op \in {"setText", "setArgs"}
  <2>1. s2 = [store EXCEPT ![p.id].args = p.args]
    BY <1>3 DEF After
  <2> QED BY <1>1, <1>3, <2>1 DEF Linked, RecordOK, Shaped, Descends, Untouched
<1> QED BY <1>2, <1>3
-----------------------------------------------------------------------------
(* A list of kids and the running order of their keys                      *)

LEMMA NamedPosition ==
    ASSUME NEW j \in Id, NEW r \in Seq(Seg), Inj(r), NEW x \in ToSet(r)
    PROVE  Position(Named(j, r), Append(j, x)) = Position(r, x)
<1> DEFINE n == Named(j, r)
<1>1. Position(r, x) \in 1..Len(r) /\ r[Position(r, x)] = x
  BY PositionIs
<1>2. x \in Seg
  BY <1>1
<1>3. /\ n \in Seq(Id) /\ Len(n) = Len(r) /\ \A m \in 1..Len(r) : n[m] = Append(j, r[m])
      /\ Append(j, x) \in ToSet(n)
  BY <1>2, NamedIs
<1> HIDE DEF n
<1>4. Position(n, Append(j, x)) \in 1..Len(n) /\ n[Position(n, Append(j, x))] = Append(j, x)
  BY <1>3, PositionIs
<1>5. r[Position(n, Append(j, x))] = x
  <2>1. r[Position(n, Append(j, x))] \in Seg
    BY <1>3, <1>4
  <2> QED BY <1>2, <1>3, <1>4, <2>1, Siblings
<1> QED BY <1>1, <1>3, <1>4, <1>5 DEF Inj, n

LEMMA NamedInsert ==
    ASSUME NEW j \in Id, NEW r \in Seq(Seg), NEW x \in Seg, NEW i \in 1..(Len(r) + 1)
    PROVE  Named(j, InsertAt(r, i, x)) = InsertAt(Named(j, r), i, Append(j, x))
<1> DEFINE n == Named(j, r)
           a == InsertAt(r, i, x)
           e == Append(j, x)
           b == InsertAt(n, i, e)
<1>0. Len(r) \in Nat /\ Append(j, x) \in Id
  BY Child
<1>1. n \in Seq(Id) /\ Len(n) = Len(r) /\ \A m \in 1..Len(r) : n[m] = Append(j, r[m])
  BY NamedIs
<1>2. /\ a \in Seq(Seg) /\ Len(a) = Len(r) + 1 /\ a[i] = x
      /\ \A m \in 1..(i - 1) : a[m] = r[m]
      /\ \A m \in i..Len(r) : a[m + 1] = r[m]
  BY InsertedAt
<1> HIDE DEF n, a, e
<1>3. /\ b \in Seq(Id) /\ Len(b) = Len(n) + 1 /\ b[i] = e
      /\ \A m \in 1..(i - 1) : b[m] = n[m]
      /\ \A m \in i..Len(n) : b[m + 1] = n[m]
  <2>1. e \in Id /\ i \in 1..(Len(n) + 1)
    BY <1>0, <1>1 DEF e
  <2> QED BY <1>1, <2>1, InsertedAt
<1> HIDE DEF b
<1>4. /\ Named(j, a) \in Seq(Id) /\ Len(Named(j, a)) = Len(a)
      /\ \A m \in 1..Len(a) : Named(j, a)[m] = Append(j, a[m])
  BY <1>2, NamedIs
<1>5. ASSUME NEW m \in 1..Len(a) PROVE Named(j, a)[m] = b[m]
  <2>1. CASE m < i
    <3>1. m \in 1..(i - 1) /\ m \in 1..Len(r)
      BY <1>0, <2>1
    <3> QED BY <1>1, <1>2, <1>3, <1>4, <3>1
  <2>2. CASE m = i
    BY <1>2, <1>3, <1>4, <2>2 DEF e
  <2>3. CASE m > i
    <3>1. m - 1 \in i..Len(r) /\ m - 1 \in 1..Len(r) /\ (m - 1) + 1 = m
      BY <1>0, <1>2, <2>3
    <3>2. a[m] = r[m - 1] /\ b[m] = n[m - 1]
      BY <1>1, <1>2, <1>3, <3>1
    <3> QED BY <1>1, <1>4, <3>1, <3>2
  <2> QED BY <1>0, <2>1, <2>2, <2>3
<1>6. Len(Named(j, a)) = Len(b)
  BY <1>1, <1>2, <1>3, <1>4
<1>7. Named(j, a) = b
  BY <1>3, <1>4, <1>5, <1>6, SameSeq
<1> QED BY <1>7 DEF a, b, e, n

LEMMA NamedRemove ==
    ASSUME NEW j \in Id, NEW r \in Seq(Seg), NEW i \in 1..Len(r)
    PROVE  Named(j, RemoveAt(r, i)) = RemoveAt(Named(j, r), i)
<1> DEFINE n == Named(j, r)
           a == RemoveAt(r, i)
           b == RemoveAt(n, i)
<1>0. Len(r) \in Nat
  OBVIOUS
<1>1. n \in Seq(Id) /\ Len(n) = Len(r) /\ \A m \in 1..Len(r) : n[m] = Append(j, r[m])
  BY NamedIs
<1>2. /\ a \in Seq(Seg) /\ Len(a) = Len(r) - 1
      /\ \A m \in 1..(i - 1) : a[m] = r[m]
      /\ \A m \in i..(Len(r) - 1) : a[m] = r[m + 1]
  BY RemovedAt
<1> HIDE DEF n
<1>3. /\ b \in Seq(Id) /\ Len(b) = Len(n) - 1
      /\ \A m \in 1..(i - 1) : b[m] = n[m]
      /\ \A m \in i..(Len(n) - 1) : b[m] = n[m + 1]
  BY <1>1, RemovedAt
<1> HIDE DEF a, b
<1>4. /\ Named(j, a) \in Seq(Id) /\ Len(Named(j, a)) = Len(a)
      /\ \A m \in 1..Len(a) : Named(j, a)[m] = Append(j, a[m])
  BY <1>2, NamedIs
<1>5. ASSUME NEW m \in 1..Len(a) PROVE Named(j, a)[m] = b[m]
  <2>1. CASE m < i
    <3>1. m \in 1..(i - 1) /\ m \in 1..Len(r)
      BY <1>0, <2>1
    <3> QED BY <1>1, <1>2, <1>3, <1>4, <3>1
  <2>2. CASE m >= i
    <3>1. m \in i..(Len(r) - 1) /\ m + 1 \in 1..Len(r)
      BY <1>0, <1>2, <2>2
    <3>2. a[m] = r[m + 1] /\ b[m] = n[m + 1]
      BY <1>1, <1>2, <1>3, <3>1
    <3> QED BY <1>1, <1>4, <3>1, <3>2
  <2> QED BY <1>0, <1>2, <2>1, <2>2
<1>6. Len(Named(j, a)) = Len(b)
  BY <1>1, <1>2, <1>3, <1>4
<1>7. Named(j, a) = b
  BY <1>3, <1>4, <1>5, <1>6, SameSeq
<1> QED BY <1>7 DEF a, b, n

LEMMA NamedSpliced ==
    ASSUME NEW j \in Id, NEW r \in Seq(Seg), NEW from \in 1..Len(r), NEW to \in 1..Len(r), Inj(r)
    PROVE  Named(j, Spliced(r, from, to)) = Spliced(Named(j, r), from, to)
<1> DEFINE n == Named(j, r)
           others == RemoveAt(r, from)
<1>0. Len(r) \in Nat /\ r[from] \in Seg
  OBVIOUS
<1>1. /\ n \in Seq(Id) /\ Len(n) = Len(r) /\ \A m \in 1..Len(r) : n[m] = Append(j, r[m])
      /\ Inj(n)
  BY NamedIs
<1>2. Spliced(r, from, to) = InsertAt(others, to, r[from])
  BY SplicedIs
<1>3. others \in Seq(Seg) /\ Len(others) = Len(r) - 1
  BY RemovedAt
<1>4. Named(j, others) = RemoveAt(n, from)
  BY NamedRemove
<1> HIDE DEF n, others
<1>5. Spliced(n, from, to) = InsertAt(RemoveAt(n, from), to, n[from])
  BY <1>1, SplicedIs
<1>6. to \in 1..(Len(others) + 1)
  BY <1>0, <1>3
<1>7. Named(j, InsertAt(others, to, r[from])) = InsertAt(Named(j, others), to, Append(j, r[from]))
  BY <1>0, <1>3, <1>6, NamedInsert
<1> QED BY <1>1, <1>2, <1>4, <1>5, <1>7 DEF n
-----------------------------------------------------------------------------
(* How far the walk has come: what the host shows of each node, once the   *)
(* patch it has not applied yet is                                         *)

Stages == {"node", "mods", "gone", "place", "move", "each", "tail"}
Frames == [id : Id, old : Id, new : Id, at : Stages, i : Nat, order : Seq(Seg)]

Was(f) == before[f.id].kids
Will(f) == tree[f.id].kids
FirstOf(s, n) == {s[m] : m \in 1..n}
Indices(n) == [m \in 1..n |-> m - 1]
Then(o, s, i) == o \o SubSeq(s, i, Len(s))
Larger(a, b) == IF a < b THEN b ELSE a

\* The running order has the new kids placed so far first, then survivors.
Running(f) ==
    /\ Inj(f.order)
    /\ ToSet(f.order) = (ToSet(Was(f)) \cap ToSet(Will(f))) \cup FirstOf(Will(f), f.i - 1)
    /\ \A m \in 1..(f.i - 1) : m \in 1..Len(f.order) /\ f.order[m] = Will(f)[m]
Positional(f) == Was(f) = Indices(Len(Was(f))) /\ Will(f) = Indices(Len(Will(f)))

FrameOK(f) ==
    /\ f \in Frames /\ f.old = f.id /\ f.new = f.id
    /\ f.id \in DOMAIN before /\ f.id \in DOMAIN tree
    /\ f.at # "node" => ~Changes(before[f.id], tree[f.id])
    /\ \/ f.at \in {"node", "mods"} /\ f.i = 1 /\ f.order = <<>>
       \/ /\ f.at = "gone" /\ f.i \in 1..(Len(Was(f)) + 1)
          /\ Inj(f.order) /\ ToSet(f.order) = FirstOf(Was(f), f.i - 1) \cap ToSet(Will(f))
       \/ f.at = "place" /\ f.i \in 1..(Len(Will(f)) + 1) /\ Running(f)
       \/ /\ f.at = "move" /\ f.i \in 1..Len(Will(f)) /\ Running(f)
          /\ Will(f)[f.i] \in ToSet(Was(f))
       \/ f.at = "each" /\ f.i \in 1..(Len(Will(f)) + 1) /\ Positional(f)
       \/ /\ f.at = "tail" /\ Positional(f) /\ f.i <= Len(Was(f))
          /\ f.i = Len(Was(f)) \/ f.i >= Len(Will(f))

\* The kids the host shows of a frame's node.
Row(f) ==
    CASE f.at \in {"node", "mods"} -> Was(f)
      [] f.at = "gone" -> Then(f.order, Was(f), f.i)
      [] f.at \in {"place", "move"} -> f.order
      [] f.at = "each" -> Indices(Larger(Len(Was(f)), f.i - 1))
      [] f.at = "tail" -> Indices(Larger(f.i, Len(Will(f))))

\* The walk is done with what is below the node by a segment.
IsDone(f, x) ==
    CASE f.at \in {"node", "mods"} -> FALSE
      [] f.at = "gone" -> x \in FirstOf(Was(f), f.i - 1) \ ToSet(Will(f))
      [] f.at = "place" -> x \in (ToSet(Was(f)) \ ToSet(Will(f))) \cup FirstOf(Will(f), f.i - 1)
      [] f.at = "move" -> x \in (ToSet(Was(f)) \ ToSet(Will(f))) \cup FirstOf(Will(f), f.i)
      [] f.at = "each" -> \E m \in 1..(f.i - 1) : x = m - 1
      [] f.at = "tail" -> ~\E m \in (Len(Will(f)) + 1)..f.i : x = m - 1

\* The record at a path is that of a tree, or there is none in both.
Agrees(s, j, t) ==
    IF j \in DOMAIN t
    THEN /\ j \in DOMAIN s
         /\ s[j].kind = t[j].kind /\ s[j].args = t[j].args /\ s[j].mods = t[j].mods
         /\ s[j].kids = Named(j, t[j].kids)
    ELSE j \notin DOMAIN s

Self(s, f) ==
    /\ f.id \in DOMAIN s
    /\ s[f.id].kind = before[f.id].kind
    /\ s[f.id].args = IF f.at = "node" THEN before[f.id].args ELSE tree[f.id].args
    /\ s[f.id].mods = IF f.at \in {"node", "mods"} THEN before[f.id].mods ELSE tree[f.id].mods
    /\ s[f.id].kids = Named(f.id, Row(f))

\* A path below a frame's node, and not below the node of the next frame.
Mine(w, k, j) ==
    /\ IsPrefix(w[k].id, j) /\ j # w[k].id
    /\ k < Len(w) => ~IsPrefix(w[k + 1].id, j)

\* Each path is of the new tree or still of the old.
Sided(s, f, j) == Agrees(s, j, IF IsDone(f, j[Len(f.id) + 1]) THEN tree ELSE before)

Level(s, w, k) ==
    /\ FrameOK(w[k])
    /\ Self(s, w[k])
    /\ \A j \in Id : Mine(w, k, j) => Sided(s, w[k], j)

\* The frame has called the walk of a kid.
Called(f, id) ==
    \/ f.at = "move" /\ id = Append(f.id, Will(f)[f.i])
    \/ f.at = "each" /\ f.i > 1 /\ id = Append(f.id, f.i - 2)

Nested(w) ==
    /\ w[1].id = Root
    /\ \A k, l \in 1..Len(w) : k < l => IsPrefix(w[k].id, w[l].id)
    /\ \A k \in 1..(Len(w) - 1) : Called(w[k], w[k + 1].id)

Walked(s, w) ==
    /\ w \in Seq(Frames)
    /\ w = <<>> => \A j \in Id : Agrees(s, j, tree)
    /\ w # <<>> => Nested(w) /\ \A k \in 1..Len(w) : Level(s, w, k)

\* What an element built since the last render stands for is not the same view.
Survive(s) == before # None => \A j \in DOMAIN s : s[j].new => ~Same(j)

LEMMA FrameIs ==
    ASSUME TreeOK(before), TreeOK(tree), NEW f, FrameOK(f)
    PROVE  /\ f \in Frames /\ f.id \in Id /\ f.i \in Nat /\ f.order \in Seq(Seg)
           /\ f.id \in DOMAIN before /\ f.id \in DOMAIN tree
           /\ Was(f) \in Seq(Seg) /\ Len(Was(f)) \in Nat /\ Inj(Was(f))
           /\ DOMAIN Was(f) = 1..Len(Was(f)) /\ ToSet(Was(f)) = {Was(f)[m] : m \in 1..Len(Was(f))}
           /\ Will(f) \in Seq(Seg) /\ Len(Will(f)) \in Nat /\ Inj(Will(f))
           /\ DOMAIN Will(f) = 1..Len(Will(f)) /\ ToSet(Will(f)) = {Will(f)[m] : m \in 1..Len(Will(f))}
           /\ Len(f.order) \in Nat /\ DOMAIN f.order = 1..Len(f.order)
           /\ ToSet(f.order) = {f.order[m] : m \in 1..Len(f.order)}
           /\ \A m \in 1..Len(Was(f)) : Was(f)[m] \in Seg
           /\ \A m \in 1..Len(Will(f)) : Will(f)[m] \in Seg
<1>1. f \in Frames /\ f.id \in DOMAIN before /\ f.id \in DOMAIN tree
  BY DEF FrameOK
<1>2. f.id \in Id /\ f.i \in Nat /\ f.order \in Seq(Seg)
  BY <1>1 DEF Frames
<1>3. Was(f) \in Seq(Seg) /\ Inj(Was(f))
  BY <1>1, TreeIs DEF Was
<1>4. Will(f) \in Seq(Seg) /\ Inj(Will(f))
  BY <1>1, TreeIs DEF Will
<1>5. \A s \in Seq(Seg) : Len(s) \in Nat /\ DOMAIN s = 1..Len(s) /\ ToSet(s) = {s[m] : m \in 1..Len(s)}
                         /\ \A m \in 1..Len(s) : s[m] \in Seg
  BY Ranges
<1> QED BY <1>1, <1>2, <1>3, <1>4, <1>5

LEMMA FramesOf ==
    ASSUME NEW w \in Seq(Frames)
    PROVE  \A k \in 1..Len(w) : w[k] \in Frames /\ w[k].id \in Id
<1>1. \A k \in 1..Len(w) : w[k] \in Frames
  OBVIOUS
<1> QED BY <1>1 DEF Frames

\* The segments of kids, and a kid's path.
LEMMA CalledIs ==
    ASSUME TreeOK(before), TreeOK(tree), NEW f, FrameOK(f), NEW id, Called(f, id)
    PROVE  \E x \in Seg : id = Append(f.id, x) /\ IsDone(f, x)
<1>0. f.i \in Nat /\ Len(Will(f)) \in Nat /\ \A m \in 1..Len(Will(f)) : Will(f)[m] \in Seg
  BY FrameIs
<1>1. CASE f.at = "move" /\ id = Append(f.id, Will(f)[f.i])
  <2>1. f.i \in 1..Len(Will(f))
    BY <1>1 DEF FrameOK
  <2>2. Will(f)[f.i] \in Seg /\ Will(f)[f.i] \in FirstOf(Will(f), f.i)
    BY <1>0, <2>1 DEF FirstOf
  <2> QED BY <1>1, <2>2 DEF IsDone
<1>2. CASE f.at = "each" /\ f.i > 1 /\ id = Append(f.id, f.i - 2)
  <2>1. f.i - 2 \in Seg /\ f.i - 1 \in 1..(f.i - 1) /\ f.i - 2 = (f.i - 1) - 1
    BY <1>0, <1>2 DEF Seg
  <2>2. IsDone(f, f.i - 2)
    BY <1>2, <2>1 DEF IsDone
  <2> QED BY <1>2, <2>1, <2>2
<1> QED BY <1>1, <1>2 DEF Called

\* A frame that is not the last is untouched by what happens below the last.
LEMMA LevelKept ==
    ASSUME TreeOK(before), TreeOK(tree), NEW w, NEW w2, NEW s, NEW s2,
           NEW k \in Nat, k < Len(w), k < Len(w2), Len(w) \in Nat, Len(w2) \in Nat,
           w2[k] = w[k], w2[k + 1].id = w[k + 1].id,
           Called(w[k], w[k + 1].id), Level(s, w, k),
           \A j \in Id : ~IsPrefix(w[k + 1].id, j) => Untouched(s, s2, j)
    PROVE  Level(s2, w2, k)
<1> DEFINE f == w[k]
           c == w[k + 1].id
<1>1. FrameOK(f) /\ Self(s, f)
  BY DEF Level
<1>2. f.id \in Id
  BY <1>1, FrameIs
<1>3. PICK x \in Seg : c = Append(f.id, x)
  BY <1>1, CalledIs
<1>4. ~IsPrefix(c, f.id)
  <2>1. Len(c) = Len(f.id) + 1 /\ Len(f.id) \in Nat /\ c \in Id
    BY <1>2, <1>3, Child DEF Id
  <2> HIDE DEF c, f
  <2> QED BY <1>2, <2>1, PrefixUp
<1>5. Untouched(s, s2, f.id)
  BY <1>2, <1>4
<1>6. Self(s2, f)
  BY <1>1, <1>5 DEF Self, Untouched
<1>7. ASSUME NEW j \in Id, Mine(w2, k, j) PROVE Sided(s2, f, j)
  <2>1. Mine(w, k, j) /\ ~IsPrefix(c, j)
    BY <1>7 DEF Mine
  <2>2. Sided(s, f, j) /\ Untouched(s, s2, j)
    BY <2>1 DEF Level
  <2> QED BY <2>2 DEF Sided, Agrees, Untouched
<1> QED BY <1>1, <1>6, <1>7 DEF Level

\* The last frame goes on.
LEMMA Continued ==
    ASSUME TreeOK(before), TreeOK(tree), NEW s, NEW w, Walked(s, w), w # <<>>,
           NEW g, FrameOK(g), g.id = w[Len(w)].id, NEW s2,
           \A j \in Id : ~IsPrefix(g.id, j) => Untouched(s, s2, j),
           Self(s2, g),
           \A j \in Id : IsPrefix(g.id, j) /\ j # g.id => Sided(s2, g, j)
    PROVE  Walked(s2, [w EXCEPT ![Len(w)] = g])
<1> DEFINE n == Len(w)
           w2 == [w EXCEPT ![n] = g]
<1>1. w \in Seq(Frames) /\ n \in Nat /\ n >= 1 /\ n \in 1..n /\ g \in Frames
  BY DEF Walked, FrameOK
<1>2. w2 \in Seq(Frames) /\ Len(w2) = n /\ w2[n] = g /\ \A k \in 1..n : k # n => w2[k] = w[k]
  BY <1>1
<1>3. Nested(w) /\ \A k \in 1..n : Level(s, w, k)
  BY DEF Walked
<1> HIDE DEF w2, n
<1>4. \A k \in 1..n : w2[k].id = w[k].id
  BY <1>1, <1>2 DEF n
<1>5. Nested(w2)
  <2>1. \A k \in 1..(n - 1) : k \in 1..n /\ k + 1 \in 1..n /\ k # n
    BY <1>1
  <2>2. \A k \in 1..(n - 1) : Called(w2[k], w2[k + 1].id)
    BY <1>2, <1>3, <1>4, <2>1 DEF Nested, n
  <2>3. w2[1].id = Root
    BY <1>1, <1>3, <1>4 DEF Nested
  <2>4. \A k, l \in 1..n : k < l => IsPrefix(w2[k].id, w2[l].id)
    BY <1>3, <1>4 DEF Nested, n
  <2> QED BY <1>2, <2>2, <2>3, <2>4 DEF Nested
<1>6. Level(s2, w2, n)
  <2>1. \A j \in Id : Mine(w2, n, j) => IsPrefix(g.id, j) /\ j # g.id
    BY <1>2 DEF Mine
  <2> QED BY <1>2, <2>1 DEF Level
<1>7. ASSUME NEW k \in 1..(n - 1) PROVE Level(s2, w2, k)
  <2>0. k \in Nat /\ k \in 1..n /\ k + 1 \in 1..n /\ k < n /\ k # n
    BY <1>1
  <2>1. Called(w[k], w[k + 1].id) /\ Level(s, w, k)
    BY <1>3, <2>0 DEF Nested, n
  <2>2. w2[k] = w[k] /\ w2[k + 1].id = w[k + 1].id
    BY <1>2, <1>4, <2>0
  <2>3. \A l \in 1..n : w[l].id \in Id
    BY <1>1, FramesOf DEF n
  <2>4. CASE k + 1 < n
    <3>1. IsPrefix(w[k + 1].id, g.id) /\ g.id \in Id /\ w[k + 1].id \in Id
      BY <1>1, <1>3, <2>0, <2>3, <2>4 DEF Nested, n
    <3>2. \A j \in Id : ~IsPrefix(w[k + 1].id, j) => ~IsPrefix(g.id, j)
      BY <3>1, PrefixTrans
    <3> QED BY <1>1, <1>2, <2>0, <2>1, <2>2, <3>2, LevelKept DEF n
  <2>5. CASE k + 1 = n
    <3>1. g.id = w[k + 1].id
      BY <2>5 DEF n
    <3>2. \A j \in Id : ~IsPrefix(w[k + 1].id, j) => Untouched(s, s2, j)
      BY <3>1
    <3> QED BY <1>1, <1>2, <2>0, <2>1, <2>2, <3>2, LevelKept DEF n
  <2> QED BY <1>1, <2>0, <2>4, <2>5
<1>8. \A k \in 1..n : Level(s2, w2, k)
  BY <1>1, <1>6, <1>7
<1>9. w2 # <<>>
  BY <1>1, <1>2
<1> QED BY <1>2, <1>5, <1>8, <1>9 DEF Walked, w2, n

\* The last frame is done: what is below its node is of the new tree.
LEMMA Returned ==
    ASSUME TreeOK(before), TreeOK(tree), NEW s, NEW w, Walked(s, w), w # <<>>, NEW s2,
           \A j \in Id : ~IsPrefix(w[Len(w)].id, j) => Untouched(s, s2, j),
           \A j \in Id : IsPrefix(w[Len(w)].id, j) => Agrees(s2, j, tree)
    PROVE  Walked(s2, Front(w))
<1> DEFINE n == Len(w)
           w2 == Front(w)
           id == w[n].id
<1>1. w \in Seq(Frames) /\ n \in Nat /\ n >= 1 /\ n \in 1..n
  BY DEF Walked
<1>2. Nested(w) /\ \A k \in 1..n : Level(s, w, k) /\ w[k].id \in Id
  <2>1. \A k \in 1..n : w[k].id \in Id
    BY <1>1, FramesOf
  <2> QED BY <2>1 DEF Walked
<1>3. w2 \in Seq(Frames) /\ Len(w2) = n - 1 /\ \A k \in 1..(n - 1) : w2[k] = w[k]
  <2>1. 1 \in Nat /\ n - 1 \in Nat /\ n - 1 <= Len(w) /\ 1 <= (n - 1) + 1 /\ (n - 1) - 1 + 1 = n - 1
    BY <1>1
  <2>2. /\ SubSeq(w, 1, n - 1) \in Seq(Frames) /\ Len(SubSeq(w, 1, n - 1)) = (n - 1) - 1 + 1
        /\ \A m \in 1..((n - 1) - 1 + 1) : SubSeq(w, 1, n - 1)[m] = w[1 + m - 1]
    BY <1>1, <2>1, Subs
  <2>3. \A m \in 1..(n - 1) : 1 + m - 1 = m
    BY <1>1
  <2> QED BY <2>1, <2>2, <2>3 DEF Front
<1> HIDE DEF w2, n, id
<1>4. CASE n = 1
  <2>1. w2 = <<>>
    BY <1>3, <1>4
  <2>2. id = Root
    BY <1>2, <1>4 DEF Nested, id
  <2>3. \A j \in Id : Agrees(s2, j, tree)
    BY <2>2, PrefixSelf DEF id, n
  <2> QED BY <1>3, <2>1, <2>3 DEF Walked, w2
<1>5. CASE n > 1
  <2>0. n - 1 \in 1..n /\ n - 1 \in Nat /\ (n - 1) + 1 = n /\ w2 # <<>>
    BY <1>1, <1>3, <1>5
  <2>1. Nested(w2)
    <3>1. w2[1].id = Root
      BY <1>1, <1>2, <1>3, <1>5 DEF Nested
    <3>2. ASSUME NEW k \in 1..(n - 1), NEW l \in 1..(n - 1), k < l PROVE IsPrefix(w2[k].id, w2[l].id)
      <4>1. k \in 1..n /\ l \in 1..n
        BY <1>1
      <4> QED BY <1>2, <1>3, <3>2, <4>1 DEF Nested, n
    <3>3. ASSUME NEW k \in 1..(n - 2) PROVE Called(w2[k], w2[k + 1].id)
      <4>1. k \in 1..(n - 1) /\ k + 1 \in 1..(n - 1)
        BY <1>1
      <4> QED BY <1>2, <1>3, <4>1 DEF Nested, n
    <3>4. (n - 1) - 1 = n - 2
      BY <1>1
    <3> QED BY <1>3, <3>1, <3>2, <3>3, <3>4 DEF Nested
  <2>2. Level(s2, w2, n - 1)
    <3> DEFINE f == w[n - 1]
    <3>1. FrameOK(f) /\ Self(s, f) /\ Called(f, id) /\ f.id \in Id /\ id \in Id
      BY <1>1, <1>2, <2>0 DEF Level, Nested, n, id
    <3>2. PICK x \in Seg : id = Append(f.id, x) /\ IsDone(f, x)
      BY <3>1, CalledIs
    <3>3. ~IsPrefix(id, f.id)
      <4>1. Len(id) = Len(f.id) + 1 /\ Len(f.id) \in Nat
        BY <3>1, <3>2, Child DEF Id
      <4> HIDE DEF f
      <4> QED BY <3>1, <4>1, PrefixUp
    <3>4. Self(s2, f)
      <4>1. Untouched(s, s2, f.id)
        BY <3>1, <3>3 DEF id, n
      <4> QED BY <3>1, <4>1 DEF Self, Untouched
    <3>5. ASSUME NEW j \in Id, IsPrefix(f.id, j), j # f.id PROVE Sided(s2, f, j)
      <4>1. CASE IsPrefix(id, j)
        <5>1. j[Len(f.id) + 1] = x
          BY <3>1, <3>2, <4>1, PrefixChild
        <5>2. Agrees(s2, j, tree)
          BY <4>1 DEF id, n
        <5> QED BY <3>2, <5>1, <5>2 DEF Sided
      <4>2. CASE ~IsPrefix(id, j)
        <5>1. Mine(w, n - 1, j)
          BY <2>0, <3>5, <4>2 DEF Mine, id
        <5>2. Sided(s, f, j)
          BY <1>2, <2>0, <5>1 DEF Level
        <5>3. Untouched(s, s2, j)
          BY <4>2 DEF id, n
        <5> QED BY <5>2, <5>3 DEF Sided, Agrees, Untouched
      <4> QED BY <4>1, <4>2
    <3>6. w2[n - 1] = f
      BY <1>3, <2>0, <1>5
    <3>7. \A j \in Id : Mine(w2, n - 1, j) => IsPrefix(f.id, j) /\ j # f.id
      BY <3>6 DEF Mine
    <3> HIDE DEF f
    <3> QED BY <3>1, <3>4, <3>5, <3>6, <3>7 DEF Level
  <2>3. ASSUME NEW k \in 1..(n - 2) PROVE Level(s2, w2, k)
    <3>0. k \in Nat /\ k \in 1..n /\ k + 1 \in 1..n /\ k < n /\ k < n - 1 /\ k \in 1..(n - 1)
          /\ k + 1 \in 1..(n - 1) /\ k + 1 < n
      BY <1>1
    <3>1. Called(w[k], w[k + 1].id) /\ Level(s, w, k) /\ IsPrefix(w[k + 1].id, id)
      BY <1>1, <1>2, <3>0 DEF Nested, n, id
    <3>2. w2[k] = w[k] /\ w2[k + 1] = w[k + 1]
      BY <1>3, <3>0
    <3>3. \A j \in Id : ~IsPrefix(w[k + 1].id, j) => Untouched(s, s2, j)
      <4>1. w[k + 1].id \in Id /\ id \in Id
        BY <1>1, <1>2, <3>0 DEF id
      <4>2. \A j \in Id : ~IsPrefix(w[k + 1].id, j) => ~IsPrefix(id, j)
        BY <3>1, <4>1, PrefixTrans
      <4> QED BY <4>2 DEF id, n
    <3>4. k < Len(w) /\ k < Len(w2) /\ Len(w) \in Nat /\ Len(w2) \in Nat
      BY <1>1, <1>3, <2>0, <3>0 DEF n
    <3>5. w2[k + 1].id = w[k + 1].id
      BY <3>2
    <3> QED BY <3>0, <3>1, <3>2, <3>3, <3>4, <3>5, LevelKept
  <2>4. \A k \in 1..(n - 1) : Level(s2, w2, k)
    <3>1. \A k \in 1..(n - 1) : k = n - 1 \/ k \in 1..(n - 2)
      BY <1>1
    <3> QED BY <2>2, <2>3, <3>1
  <2> QED BY <1>3, <2>0, <2>1, <2>4 DEF Walked, w2
<1> QED BY <1>1, <1>4, <1>5

\* The last frame calls the walk of a kid that is still of the old tree.
LEMMA Entered ==
    ASSUME TreeOK(before), TreeOK(tree), NEW s, NEW w, Walked(s, w), w # <<>>,
           NEW g, FrameOK(g), g.id = w[Len(w)].id, Self(s, g), NEW x \in Seg,
           NEW h, h = Frame(Append(g.id, x), Append(g.id, x), Append(g.id, x)),
           FrameOK(h), Called(g, h.id), ~IsDone(w[Len(w)], x),
           \A y \in Seg : y # x => (IsDone(g, y) <=> IsDone(w[Len(w)], y))
    PROVE  Walked(s, Append([w EXCEPT ![Len(w)] = g], h))
<1> DEFINE n == Len(w)
           f == w[n]
           v == [w EXCEPT ![n] = g]
           w2 == Append(v, h)
           c == Append(g.id, x)
<1>1. w \in Seq(Frames) /\ n \in Nat /\ n >= 1 /\ n \in 1..n /\ g \in Frames /\ h \in Frames
  BY DEF Walked, FrameOK
<1>2. v \in Seq(Frames) /\ Len(v) = n /\ v[n] = g /\ \A k \in 1..n : k # n => v[k] = w[k]
  BY <1>1
<1>3. Nested(w) /\ \A k \in 1..n : Level(s, w, k)
  BY DEF Walked
<1> HIDE DEF v, n, f
<1>4. /\ w2 \in Seq(Frames) /\ Len(w2) = n + 1 /\ w2[n + 1] = h /\ w2[n] = g
      /\ \A k \in 1..n : k # n => w2[k] = w[k]
  <2>1. /\ w2 \in Seq(Frames) /\ Len(w2) = Len(v) + 1 /\ w2[Len(v) + 1] = h
        /\ \A k \in 1..Len(v) : w2[k] = v[k]
    BY <1>1, <1>2, Appended
  <2> HIDE DEF w2
  <2> QED BY <1>1, <1>2, <2>1
<1>5. /\ h.id = c /\ h.at = "node" /\ c \in Id /\ g.id \in Id /\ Len(g.id) \in Nat
      /\ IsPrefix(g.id, c) /\ c # g.id /\ c[Len(g.id) + 1] = x
  <2>1. g.id \in Id
    BY FrameIs
  <2> QED BY <2>1, Child DEF Frame, Id
<1> HIDE DEF w2
<1>6. \A k \in 1..n : w2[k].id = w[k].id /\ w[k].id \in Id
  BY <1>1, <1>4, FramesOf DEF n
<1>7. Nested(w2)
  <2>1. w2[1].id = Root
    BY <1>1, <1>3, <1>6 DEF Nested
  <2>2. ASSUME NEW k \in 1..(n + 1), NEW l \in 1..(n + 1), k < l PROVE IsPrefix(w2[k].id, w2[l].id)
    <3>1. CASE l \in 1..n
      <4>1. k \in 1..n
        BY <1>1, <2>2, <3>1
      <4> QED BY <1>3, <1>6, <2>2, <3>1, <4>1 DEF Nested, n
    <3>2. CASE l = n + 1
      <4>1. k \in 1..n /\ w2[l].id = c
        BY <1>1, <1>4, <1>5, <2>2, <3>2
      <4>2. CASE k = n
        BY <1>4, <1>5, <4>1, <4>2
      <4>3. CASE k # n
        <5>1. k < n
          BY <1>1, <4>1, <4>3
        <5>2. IsPrefix(w2[k].id, g.id) /\ w2[k].id \in Id
          BY <1>1, <1>3, <1>6, <4>1, <5>1 DEF Nested, n
        <5> QED BY <1>5, <4>1, <5>2, PrefixTrans
      <4> QED BY <4>2, <4>3
    <3> QED BY <1>1, <3>1, <3>2
  <2>3. ASSUME NEW k \in 1..n PROVE Called(w2[k], w2[k + 1].id)
    <3>1. CASE k = n
      BY <1>4, <3>1
    <3>2. CASE k # n
      <4>1. k \in 1..(n - 1) /\ k + 1 \in 1..n
        BY <1>1, <3>2
      <4> QED BY <1>3, <1>4, <1>6, <3>2, <4>1 DEF Nested, n
    <3> QED BY <3>1, <3>2
  <2>4. (n + 1) - 1 = n
    BY <1>1
  <2> QED BY <1>4, <2>1, <2>2, <2>3, <2>4 DEF Nested
<1>8. \A j \in Id : IsPrefix(c, j) => Agrees(s, j, before)
  <2> SUFFICES ASSUME NEW j \in Id, IsPrefix(c, j) PROVE Agrees(s, j, before)
    OBVIOUS
  <2>1. IsPrefix(g.id, j) /\ Len(j) > Len(g.id) /\ j[Len(g.id) + 1] = x
    BY <1>5, PrefixChild
  <2>2. j # g.id
    BY <1>5, <2>1
  <2>3. Mine(w, n, j) /\ f.id = g.id
    BY <1>1, <2>1, <2>2 DEF Mine, n, f
  <2>4. Sided(s, f, j)
    BY <1>1, <1>3, <2>3 DEF Level, f
  <2> QED BY <2>1, <2>3, <2>4 DEF Sided, f, n
<1>9. Level(s, w2, n + 1)
  <2>1. Self(s, h)
    <3>1. Agrees(s, c, before) /\ c \in DOMAIN before
      BY <1>5, <1>8, PrefixSelf DEF FrameOK
    <3>2. Row(h) = before[c].kids
      BY <1>5 DEF Row, Was
    <3> QED BY <1>5, <3>1, <3>2 DEF Self, Agrees
  <2>2. ASSUME NEW j \in Id, Mine(w2, n + 1, j) PROVE Sided(s, h, j)
    <3>1. IsPrefix(c, j)
      BY <1>4, <1>5, <2>2 DEF Mine
    <3>2. ~IsDone(h, j[Len(h.id) + 1])
      BY <1>5 DEF IsDone
    <3> QED BY <1>8, <3>1, <3>2 DEF Sided
  <2> QED BY <1>4, <2>1, <2>2 DEF Level
<1>10. Level(s, w2, n)
  <2>1. ASSUME NEW j \in Id, Mine(w2, n, j) PROVE Sided(s, g, j)
    <3>1. IsPrefix(g.id, j) /\ j # g.id /\ ~IsPrefix(c, j)
      BY <1>1, <1>4, <1>5, <2>1 DEF Mine
    <3>2. Len(j) \in Nat /\ Len(j) > Len(g.id)
      BY <1>5, <3>1, PrefixBoth DEF Id
    <3>3. j[Len(g.id) + 1] # x
      BY <1>5, <3>1, <3>2, PrefixChild
    <3>4. j[Len(g.id) + 1] \in Seg
      BY <1>5, <3>2 DEF Id
    <3>5. Mine(w, n, j) /\ f.id = g.id
      BY <1>1, <3>1 DEF Mine, n, f
    <3>6. Sided(s, f, j)
      BY <1>1, <1>3, <3>5 DEF Level, f
    <3> QED BY <3>3, <3>4, <3>5, <3>6 DEF Sided, f, n
  <2> QED BY <1>4, <2>1 DEF Level
<1>11. ASSUME NEW k \in 1..(n - 1) PROVE Level(s, w2, k)
  <2>0. k \in Nat /\ k \in 1..n /\ k + 1 \in 1..n /\ k < n /\ k # n
    BY <1>1
  <2>1. Called(w[k], w[k + 1].id) /\ Level(s, w, k)
    BY <1>3, <2>0 DEF Nested, n
  <2>2. w2[k] = w[k] /\ w2[k + 1].id = w[k + 1].id
    BY <1>4, <1>6, <2>0
  <2>3. \A j \in Id : ~IsPrefix(w[k + 1].id, j) => Untouched(s, s, j)
    BY DEF Untouched
  <2>4. k < Len(w) /\ k < Len(w2) /\ Len(w) \in Nat /\ Len(w2) \in Nat
    BY <1>1, <1>4, <2>0 DEF n
  <2> QED BY <2>0, <2>1, <2>2, <2>3, <2>4, LevelKept
<1>12. \A k \in 1..(n + 1) : Level(s, w2, k)
  <2>1. \A k \in 1..(n + 1) : k = n + 1 \/ k = n \/ k \in 1..(n - 1)
    BY <1>1
  <2> QED BY <1>9, <1>10, <1>11, <2>1
<1>13. w2 # <<>>
  BY <1>1, <1>4
<1> QED BY <1>4, <1>7, <1>12, <1>13 DEF Walked, w2, v, n

-----------------------------------------------------------------------------
(* A step of the walk: what it answers fits the host's store, and takes    *)
(* the store along with the walk                                           *)

\* A patch the host can apply.
Fits(p) ==
    \/ p.op = "mount" /\ p.node = Serialized(tree, Root, Root)
    \/ /\ p.op = "insert"
       /\ p.id \in DOMAIN store /\ \E x \in Seg : p.name = Append(p.id, x)
       /\ p.name \notin DOMAIN store /\ p.name \in DOMAIN tree
       /\ p.node = Serialized(tree, p.name, p.name)
       /\ p.index \in 1..(Len(store[p.id].kids) + 1)
    \/ p.op = "remove" /\ p.id \in DOMAIN store /\ p.id # Root
    \/ /\ p.op = "move" /\ p.parent \in DOMAIN store
       /\ p.id \in ToSet(store[p.parent].kids) /\ p.index \in 1..Len(store[p.parent].kids)
    \/ /\ p.op = "replace"
       /\ p.id \in DOMAIN store /\ p.id \in DOMAIN tree
       /\ p.node = Serialized(tree, p.id, p.id)
    \/ p.op \in {"setText", "setArgs", "setModifiers"} /\ p.id \in DOMAIN store

Walking ==
    /\ before \in TreeRoots /\ TreeOK(before) /\ tree \in TreeRoots /\ TreeOK(tree)
    /\ before # None /\ Linked(store) /\ Survive(store)
    /\ walk # <<>> /\ Walked(store, walk)

Answer(q, w) ==
    \/ q = <<>> /\ Walked(store, w)
    \/ \E p : q = <<p>> /\ Fits(p) /\ Walked(After(p), w) /\ Survive(After(p))

LEMMA TopIs ==
    ASSUME Walking
    PROVE  /\ FrameOK(Top) /\ Top \in Frames /\ Top.id \in Id /\ Top.id \in DOMAIN store
           /\ Self(store, Top) /\ Top = walk[Len(walk)]
           /\ Top.old = Top.id /\ Top.new = Top.id /\ Top.i \in Nat /\ Top.order \in Seq(Seg)
           /\ Old = before[Top.id] /\ New = tree[Top.id]
           /\ Old.kids = Was(Top) /\ New.kids = Will(Top)
           /\ \A j \in Id : IsPrefix(Top.id, j) /\ j # Top.id => Sided(store, Top, j)
<1>1. /\ walk \in Seq(Frames) /\ Len(walk) \in 1..Len(walk)
      /\ \A k \in 1..Len(walk) : Level(store, walk, k)
  BY DEF Walking, Walked
<1>2. Level(store, walk, Len(walk)) /\ Top = walk[Len(walk)] /\ ~(Len(walk) < Len(walk))
  BY <1>1 DEF Top
<1>3. FrameOK(Top) /\ Self(store, Top)
  BY <1>2 DEF Level
<1>4. Top \in Frames /\ Top.old = Top.id /\ Top.new = Top.id
  BY <1>3 DEF FrameOK
<1>6. Top.id \in Id /\ Top.i \in Nat /\ Top.order \in Seq(Seg)
  BY <1>4 DEF Frames
<1>5. \A j \in Id : IsPrefix(Top.id, j) /\ j # Top.id => Sided(store, Top, j)
  BY <1>2 DEF Level, Mine
<1> QED BY <1>2, <1>3, <1>4, <1>5, <1>6 DEF Self, Old, New, Was, Will

\* Nothing of a tree is below a path that is not a kid's.
LEMMA NoKid ==
    ASSUME NEW t, TreeOK(t), NEW id \in DOMAIN t, NEW j \in Id, IsPrefix(id, j), j # id,
           j[Len(id) + 1] \notin ToSet(t[id].kids)
    PROVE  j \notin DOMAIN t
<1> DEFINE y == j[Len(id) + 1]
           c == Append(id, y)
<1>1. id \in Id /\ Len(id) \in Nat /\ Len(j) \in Nat
  BY TreeIs DEF Id
<1>2. Len(j) > Len(id)
  BY <1>1, PrefixBoth
<1>3. y \in Seg
  BY <1>1, <1>2 DEF Id
<1>4. c \in Id /\ Len(c) = Len(id) + 1
  BY <1>1, <1>3, Child
<1>5. IsPrefix(c, j)
  BY <1>1, <1>2, <1>3, PrefixChild
<1> HIDE DEF c
<1>6. Up(j, Len(c)) = c /\ Len(c) \in 0..Len(j)
  BY <1>1, <1>2, <1>4, <1>5, PrefixUp
<1>7. c \notin DOMAIN t
  BY <1>3, TreeKid DEF c
<1> QED BY <1>6, <1>7, TreeUp

\* The walk goes on, and nothing changes but the node's own record.
LEMMA Went ==
    ASSUME Walking, NEW g, FrameOK(g), g.id = Top.id, NEW s2,
           \A j \in Id : j # Top.id => Untouched(store, s2, j), Self(s2, g),
           \A y \in ToSet(Was(Top)) \cup ToSet(Will(Top)) : IsDone(g, y) <=> IsDone(Top, y)
    PROVE  Walked(s2, [walk EXCEPT ![Len(walk)] = g])
<1>1. \A j \in Id : ~IsPrefix(g.id, j) => Untouched(store, s2, j)
  BY TopIs, PrefixSelf
<1>2. ASSUME NEW j \in Id, IsPrefix(g.id, j), j # g.id PROVE Sided(s2, g, j)
  <2> DEFINE y == j[Len(g.id) + 1]
  <2>1. Sided(store, Top, j) /\ Untouched(store, s2, j)
    BY <1>2, TopIs
  <2>2. CASE y \in ToSet(Was(Top)) \cup ToSet(Will(Top))
    <3>1. IsDone(g, y) <=> IsDone(Top, y)
      BY <2>2
    <3> QED BY <2>1, <3>1 DEF Sided, Agrees, Untouched
  <2>3. CASE y \notin ToSet(Was(Top)) \cup ToSet(Will(Top))
    <3>1. Top.id \in DOMAIN before /\ Top.id \in DOMAIN tree
      BY TopIs DEF FrameOK
    <3>2. j \notin DOMAIN before
      BY <1>2, <2>3, <3>1, NoKid DEF Walking, Was
    <3>3. j \notin DOMAIN tree
      BY <1>2, <2>3, <3>1, NoKid DEF Walking, Will
    <3> QED BY <2>1, <3>2, <3>3 DEF Sided, Agrees, Untouched
  <2> QED BY <2>2, <2>3
<1> QED BY <1>1, <1>2, TopIs, Continued DEF Walking

LEMMA GraftAgrees ==
    ASSUME NEW s, NEW j, Grafted(s, tree, j)
    PROVE  Agrees(s, j, tree)
<1>1. CASE j \in DOMAIN tree
  <2>1. j \in DOMAIN s /\ s[j] = Record(tree, j)
    BY <1>1 DEF Grafted
  <2> QED BY <1>1, <2>1 DEF Agrees, Record
<1>2. CASE j \notin DOMAIN tree
  BY <1>2 DEF Grafted, Agrees
<1> QED BY <1>1, <1>2

LEMMA FrameShape ==
    ASSUME NEW f \in Frames
    PROVE  f = [id |-> f.id, old |-> f.old, new |-> f.new, at |-> f.at, i |-> f.i, order |-> f.order]
BY DEF Frames

LEMMA FrameMade ==
    ASSUME NEW f \in Frames, NEW a \in Stages, NEW i \in Nat, NEW o \in Seq(Seg), NEW g,
           g = [id |-> f.id, old |-> f.old, new |-> f.new, at |-> a, i |-> i, order |-> o]
    PROVE  /\ g \in Frames /\ g.id = f.id /\ g.old = f.old /\ g.new = f.new
           /\ g.at = a /\ g.i = i /\ g.order = o
BY DEF Frames

LEMMA SurviveKept ==
    ASSUME Survive(store), NEW s2,
           \A j \in DOMAIN s2 : s2[j].new => (j \in DOMAIN store /\ store[j].new) \/ ~Same(j)
    PROVE  Survive(s2)
BY DEF Survive

\* A node of another kind is replaced, and the walk of it is over.
LEMMA DiffNodeAnswers ==
    ASSUME Walking, DiffNode, NEW q, q = inbox', NEW w, w = walk'
    PROVE  Answer(q, w)
<1>1. /\ FrameOK(Top) /\ Top \in Frames /\ Top.id \in Id /\ Top.id \in DOMAIN store
      /\ Self(store, Top) /\ Top = walk[Len(walk)] /\ Top.at = "node" /\ Top.new = Top.id
      /\ Old = before[Top.id] /\ New = tree[Top.id]
      /\ Top.id \in DOMAIN before /\ Top.id \in DOMAIN tree
  BY TopIs DEF DiffNode, FrameOK
<1>2. CASE Changes(Old, New)
  <2> DEFINE p == [op |-> "replace", id |-> Top.id, node |-> Serialized(tree, Top.new, Top.id)]
  <2>1. q = <<p>> /\ w = Front(walk)
    BY <1>2 DEF DiffNode, Return
  <2>2. p.op = "replace" /\ p.id = Top.id /\ p.node = Serialized(tree, Top.id, Top.id)
    BY <1>1
  <2> HIDE DEF p
  <2>3. Fits(p)
    BY <1>1, <2>2 DEF Fits
  <2>4. /\ Linked(After(p))
        /\ \A j \in Id : IF IsPrefix(Top.id, j) THEN Grafted(After(p), tree, j)
                         ELSE Untouched(store, After(p), j)
    BY <1>1, <2>2, ReplacedIs DEF Walking
  <2>5. \A j \in Id : IsPrefix(Top.id, j) => Agrees(After(p), j, tree)
    BY <2>4, GraftAgrees
  <2>6. Walked(After(p), Front(walk))
    BY <1>1, <2>4, <2>5, Returned DEF Walking
  <2>7. ASSUME NEW j \in DOMAIN After(p), After(p)[j].new
        PROVE  (j \in DOMAIN store /\ store[j].new) \/ ~Same(j)
    <3>1. j \in Id
      BY <2>4 DEF Linked, RecordOK
    <3>2. CASE IsPrefix(Top.id, j)
      <4>1. Len(Top.id) \in 0..Len(j) /\ Up(j, Len(Top.id)) = Top.id
        BY <1>1, <3>1, <3>2, PrefixUp DEF Id
      <4> QED BY <1>1, <1>2, <4>1 DEF Same, Changes
    <3>3. CASE ~IsPrefix(Top.id, j)
      BY <2>4, <2>7, <3>1, <3>3 DEF Untouched
    <3> QED BY <3>2, <3>3
  <2>8. Survive(After(p))
    BY <2>7, SurviveKept DEF Walking
  <2> QED BY <2>1, <2>3, <2>6, <2>8 DEF Answer
<1>3. CASE ~Changes(Old, New)
  <2> DEFINE g == [Top EXCEPT !.at = "mods"]
             p == [op |-> IF New.kind = "Text" THEN "setText" ELSE "setArgs",
                   id |-> Top.id, args |-> New.args]
  <2>1. w = [walk EXCEPT ![Len(walk)] = g] /\ q = IF Old.args = New.args THEN <<>> ELSE <<p>>
    BY <1>3 DEF DiffNode, Continue
  <2>2. /\ g \in Frames /\ g.id = Top.id /\ g.old = Top.old /\ g.new = Top.new
        /\ g.at = "mods" /\ g.i = Top.i /\ g.order = Top.order
    <3>1. g = [id |-> Top.id, old |-> Top.old, new |-> Top.new, at |-> "mods",
               i |-> Top.i, order |-> Top.order]
      BY <1>1, FrameShape
    <3>2. Top.i \in Nat /\ Top.order \in Seq(Seg) /\ "mods" \in Stages
      BY TopIs DEF Stages
    <3> HIDE DEF g
    <3> QED BY <1>1, <3>1, <3>2, FrameMade
  <2>3. p.op \in {"setText", "setArgs"} /\ p.id = Top.id /\ p.args = New.args
    OBVIOUS
  <2> HIDE DEF g, p
  <2>4. FrameOK(g)
    BY <1>1, <1>3, <2>2 DEF FrameOK
  <2>5. Row(g) = Row(Top) /\ \A y : IsDone(g, y) <=> IsDone(Top, y)
    BY <1>1, <2>2 DEF Row, IsDone, Was
  <2>6. CASE Old.args = New.args
    <3>1. Self(store, g)
      BY <1>1, <2>2, <2>5, <2>6 DEF Self
    <3>2. \A j \in Id : j # Top.id => Untouched(store, store, j)
      BY DEF Untouched
    <3>3. Walked(store, w)
      BY <2>1, <2>2, <2>4, <2>5, <3>1, <3>2, Went
    <3> QED BY <2>1, <2>6, <3>3 DEF Answer
  <2>7. CASE Old.args # New.args
    <3>1. Fits(p)
      BY <1>1, <2>3 DEF Fits
    <3>2. LET r == store[p.id]
              r2 == After(p)[p.id]
          IN  /\ Linked(After(p)) /\ p.id \in DOMAIN After(p)
              /\ r2.kind = r.kind /\ r2.kids = r.kids /\ r2.new = r.new
              /\ r2.args = p.args /\ r2.mods = r.mods
              /\ \A j \in Id : j # p.id => Untouched(store, After(p), j)
      <4>1. p.op \in {"setText", "setArgs", "setModifiers"} /\ p.op # "setModifiers" /\ p.id \in DOMAIN store
        BY <1>1, <2>3
      <4> QED BY <4>1, SetIs DEF Walking
    <3>3. Self(After(p), g)
      BY <1>1, <2>2, <2>3, <2>5, <3>2 DEF Self
    <3>4. Walked(After(p), w)
      BY <2>1, <2>2, <2>3, <2>4, <2>5, <3>2, <3>3, Went
    <3>5. Survive(After(p))
      <4>1. ASSUME NEW j \in DOMAIN After(p), After(p)[j].new PROVE j \in DOMAIN store /\ store[j].new
        <5>1. j \in Id
          BY <3>2 DEF Linked, RecordOK
        <5> QED BY <1>1, <2>3, <3>2, <4>1, <5>1 DEF Untouched
      <4> QED BY <4>1, SurviveKept DEF Walking
    <3> QED BY <2>1, <2>7, <3>1, <3>4, <3>5 DEF Answer
  <2> QED BY <2>6, <2>7
<1> QED BY <1>2, <1>3

LEMMA IndicesIs ==
    ASSUME NEW n \in Nat
    PROVE  /\ Indices(n) \in Seq(Seg) /\ Len(Indices(n)) = n /\ Inj(Indices(n))
           /\ \A m \in 1..n : Indices(n)[m] = m - 1
           /\ \A x : x \in ToSet(Indices(n)) <=> \E m \in 1..n : x = m - 1
<1>1. \A m \in 1..n : m - 1 \in Seg
  BY DEF Seg
<1>2. Indices(n) \in Seq(Seg) /\ Len(Indices(n)) = n /\ \A m \in 1..n : Indices(n)[m] = m - 1
  BY <1>1 DEF Indices
<1>3. DOMAIN Indices(n) = 1..n
  BY DEF Indices
<1> HIDE DEF Indices
<1>4. Inj(Indices(n))
  BY <1>2, <1>3 DEF Inj
<1>5. ToSet(Indices(n)) = {Indices(n)[m] : m \in 1..n}
  BY <1>2, Ranges
<1> QED BY <1>2, <1>4, <1>5

\* An unkeyed child is named by its index.
LEMMA PositionalIs ==
    ASSUME NEW t, TreeOK(t), NEW id \in DOMAIN t, NoneKeyed(t, id)
    PROVE  t[id].kids = Indices(Len(t[id].kids))
<1> DEFINE kids == t[id].kids
           n == Len(kids)
<1>1. kids \in Seq(Seg) /\ n \in Nat /\ DOMAIN kids = 1..n
  BY TreeIs, Ranges
<1>2. \A i \in 1..n : kids[i] = i - 1
  BY <1>1 DEF TreeOK, NoneKeyed
<1>3. Indices(n) \in Seq(Seg) /\ Len(Indices(n)) = n /\ \A m \in 1..n : Indices(n)[m] = m - 1
  BY <1>1, IndicesIs
<1> HIDE DEF kids, n
<1>4. Len(kids) = Len(Indices(n)) /\ \A m \in 1..Len(kids) : kids[m] = Indices(n)[m]
  BY <1>2, <1>3 DEF n
<1>5. kids = Indices(n)
  BY <1>1, <1>3, <1>4, SameSeq
<1> QED BY <1>5 DEF kids, n

LEMMA DiffModifiersAnswers ==
    ASSUME ListsStay, Walking, DiffModifiers, NEW q, q = inbox', NEW w, w = walk'
    PROVE  Answer(q, w)
<1> DEFINE stage == IF AllKeyed(before, Top.old) /\ AllKeyed(tree, Top.new) THEN "gone" ELSE "each"
           g == [Top EXCEPT !.at = stage]
           p == [op |-> "setModifiers", id |-> Top.id, mods |-> New.mods]
<1>1. /\ FrameOK(Top) /\ Top \in Frames /\ Top.id \in Id /\ Top.id \in DOMAIN store
      /\ Self(store, Top) /\ Top.at = "mods" /\ Top.new = Top.id /\ Top.old = Top.id
      /\ Old = before[Top.id] /\ New = tree[Top.id] /\ Top.i \in Nat /\ Top.order \in Seq(Seg)
      /\ Top.id \in DOMAIN before /\ Top.id \in DOMAIN tree
  BY TopIs DEF DiffModifiers, FrameOK
<1>2. Top.i = 1 /\ Top.order = <<>> /\ ~Changes(before[Top.id], tree[Top.id])
  BY <1>1 DEF FrameOK
<1>3. w = [walk EXCEPT ![Len(walk)] = g] /\ q = IF Old.mods = New.mods THEN <<>> ELSE <<p>>
  BY DEF DiffModifiers, Continue
<1>4. p.op = "setModifiers" /\ p.id = Top.id /\ p.mods = New.mods
  OBVIOUS
<1>5. /\ g \in Frames /\ g.id = Top.id /\ g.old = Top.id /\ g.new = Top.id
      /\ g.at = stage /\ g.i = 1 /\ g.order = <<>>
  <2>1. g = [id |-> Top.id, old |-> Top.old, new |-> Top.new, at |-> stage,
             i |-> Top.i, order |-> Top.order]
    BY <1>1, FrameShape
  <2>2. stage \in Stages
    BY DEF Stages
  <2> HIDE DEF g, stage
  <2>3. /\ g \in Frames /\ g.id = Top.id /\ g.old = Top.old /\ g.new = Top.new
        /\ g.at = stage /\ g.i = Top.i /\ g.order = Top.order
    BY <1>1, <2>1, <2>2, FrameMade
  <2> QED BY <1>1, <1>2, <2>3
<1> HIDE DEF g, p
<1>6. /\ Was(g) = Was(Top) /\ Will(g) = Will(Top)
      /\ Was(g) \in Seq(Seg) /\ Len(Was(g)) \in Nat /\ Will(g) \in Seq(Seg) /\ Len(Will(g)) \in Nat
  <2>1. Was(g) = Was(Top) /\ Will(g) = Will(Top)
    BY <1>5 DEF Was, Will
  <2> QED BY <1>1, <2>1, FrameIs DEF Walking
<1>7. FrameOK(g) /\ Row(g) = Was(Top) /\ \A y : ~IsDone(g, y)
  <2>1. CASE AllKeyed(before, Top.id) /\ AllKeyed(tree, Top.id)
    <3>1. g.at = "gone"
      BY <1>1, <1>5, <2>1
    <3>2. Inj(g.order) /\ ToSet(g.order) = {} /\ FirstOf(Was(g), g.i - 1) = {}
      BY <1>5 DEF Inj, ToSet, FirstOf
    <3>3. g.i \in 1..(Len(Was(g)) + 1)
      BY <1>5, <1>6
    <3>4. FrameOK(g)
      BY <1>1, <1>2, <1>5, <3>1, <3>2, <3>3 DEF FrameOK
    <3>5. Row(g) = Was(g)
      <4>1. Row(g) = <<>> \o SubSeq(Was(g), 1, Len(Was(g)))
        BY <1>5, <3>1 DEF Row, Then
      <4>2. SubSeq(Was(g), 1, Len(Was(g))) = Was(g)
        BY <1>6
      <4> QED BY <1>6, <4>1, <4>2
    <3>6. \A y : ~IsDone(g, y)
      BY <3>1, <3>2 DEF IsDone
    <3> QED BY <1>6, <3>4, <3>5, <3>6
  <2>2. CASE ~(AllKeyed(before, Top.id) /\ AllKeyed(tree, Top.id))
    <3>1. g.at = "each"
      BY <1>1, <1>5, <2>2
    <3>2. NoneKeyed(before, Top.id) /\ NoneKeyed(tree, Top.id)
      BY <1>1, <1>2, <2>2 DEF ListsStay, Walking
    <3>3. Positional(g)
      BY <1>1, <1>5, <3>2, PositionalIs DEF Positional, Was, Will, Walking
    <3>4. g.i \in 1..(Len(Will(g)) + 1)
      BY <1>5, <1>6
    <3>5. FrameOK(g)
      BY <1>1, <1>2, <1>5, <3>1, <3>3, <3>4 DEF FrameOK
    <3>6. Row(g) = Was(g)
      <4>1. Larger(Len(Was(g)), g.i - 1) = Len(Was(g))
        BY <1>5, <1>6 DEF Larger
      <4> QED BY <3>1, <3>3, <4>1 DEF Row, Positional
    <3>7. \A y : ~IsDone(g, y)
      <4>1. 1..(g.i - 1) = {}
        BY <1>5
      <4> QED BY <3>1, <4>1 DEF IsDone
    <3> QED BY <1>6, <3>5, <3>6, <3>7
  <2> QED BY <2>1, <2>2
<1>8. Row(Top) = Was(Top) /\ \A y : ~IsDone(Top, y)
  BY <1>1 DEF Row, IsDone
<1>9. g.at # "node" /\ g.at # "mods"
  BY <1>5
<1> HIDE DEF stage
<1>10. CASE Old.mods = New.mods
  <2>1. Self(store, g)
    BY <1>1, <1>5, <1>7, <1>8, <1>9, <1>10 DEF Self
  <2>2. \A j \in Id : j # Top.id => Untouched(store, store, j)
    BY DEF Untouched
  <2>3. Walked(store, w)
    BY <1>3, <1>5, <1>7, <1>8, <2>1, <2>2, Went
  <2> QED BY <1>3, <1>10, <2>3 DEF Answer
<1>11. CASE Old.mods # New.mods
  <2>1. Fits(p)
    BY <1>1, <1>4 DEF Fits
  <2>2. LET r == store[p.id]
            r2 == After(p)[p.id]
        IN  /\ Linked(After(p)) /\ p.id \in DOMAIN After(p)
            /\ r2.kind = r.kind /\ r2.kids = r.kids /\ r2.new = r.new
            /\ r2.mods = p.mods /\ r2.args = r.args
            /\ \A j \in Id : j # p.id => Untouched(store, After(p), j)
    <3>1. p.op \in {"setText", "setArgs", "setModifiers"} /\ p.id \in DOMAIN store
      BY <1>1, <1>4
    <3> QED BY <1>4, <3>1, SetIs DEF Walking
  <2>3. Self(After(p), g)
    BY <1>1, <1>4, <1>5, <1>7, <1>8, <1>9, <2>2 DEF Self
  <2>4. Walked(After(p), w)
    BY <1>3, <1>4, <1>5, <1>7, <1>8, <2>2, <2>3, Went
  <2>5. Survive(After(p))
    <3>1. ASSUME NEW j \in DOMAIN After(p), After(p)[j].new PROVE j \in DOMAIN store /\ store[j].new
      <4>1. j \in Id
        BY <2>2 DEF Linked, RecordOK
      <4> QED BY <1>1, <1>4, <2>2, <3>1, <4>1 DEF Untouched
    <3> QED BY <3>1, SurviveKept DEF Walking
  <2> QED BY <1>3, <1>11, <2>1, <2>4, <2>5 DEF Answer
<1> QED BY <1>10, <1>11

\* A kid of the last frame's node comes to be of the new tree, in one patch.
LEMMA Refit ==
    ASSUME Walking, NEW g, FrameOK(g), g.id = Top.id, g.at = Top.at,
           Top.at # "node", Top.at # "mods", NEW x \in Seg, IsDone(g, x),
           \A y \in Seg : y # x => (IsDone(g, y) <=> IsDone(Top, y)),
           NEW s2, Amended(store, s2, Top.id, Named(Top.id, Row(g))),
           \A j \in Id : IF IsPrefix(Append(Top.id, x), j) THEN Agrees(s2, j, tree)
                         ELSE j # Top.id => Untouched(store, s2, j)
    PROVE  Walked(s2, [walk EXCEPT ![Len(walk)] = g])
<1> DEFINE id == Top.id
           c == Append(id, x)
<1>1. id \in Id /\ Len(id) \in Nat /\ Self(store, Top) /\ id = walk[Len(walk)].id
  BY TopIs DEF Id
<1>2. Self(s2, g)
  BY <1>1 DEF Self, Amended
<1>3. IsPrefix(id, c)
  BY <1>1, Child
<1>4. \A j \in Id : ~IsPrefix(id, j) => Untouched(store, s2, j)
  <2> SUFFICES ASSUME NEW j \in Id, ~IsPrefix(id, j) PROVE Untouched(store, s2, j)
    OBVIOUS
  <2>1. j # id
    BY <1>1, PrefixSelf
  <2>2. ~IsPrefix(c, j)
    BY <1>1, PrefixChild
  <2> QED BY <2>1, <2>2
<1>5. ASSUME NEW j \in Id, IsPrefix(id, j), j # id PROVE Sided(s2, g, j)
  <2>1. Len(j) \in Nat /\ Len(j) > Len(id)
    BY <1>1, <1>5, PrefixBoth DEF Id
  <2>2. CASE IsPrefix(c, j)
    <3>1. j[Len(id) + 1] = x
      BY <1>1, <2>2, PrefixChild
    <3> QED BY <2>2, <3>1 DEF Sided
  <2>3. CASE ~IsPrefix(c, j)
    <3>1. j[Len(id) + 1] # x
      BY <1>1, <1>5, <2>1, <2>3, PrefixChild
    <3>2. j[Len(id) + 1] \in Seg
      BY <1>1, <2>1 DEF Id
    <3>3. Untouched(store, s2, j)
      BY <1>5, <2>3
    <3>4. Sided(store, Top, j)
      BY <1>5, TopIs
    <3> QED BY <3>1, <3>2, <3>3, <3>4 DEF Sided, Agrees, Untouched
  <2> QED BY <2>2, <2>3
<1> QED BY <1>1, <1>2, <1>4, <1>5, Continued DEF Walking

\* A kid that only the old tree has goes.
LEMMA Dropped ==
    ASSUME Walking, NEW g, FrameOK(g), g.id = Top.id, g.at = Top.at,
           Top.at # "node", Top.at # "mods", Row(Top) \in Seq(Seg),
           NEW n \in 1..Len(Row(Top)), Row(g) = RemoveAt(Row(Top), n),
           Row(Top)[n] \notin ToSet(Will(Top)), IsDone(g, Row(Top)[n]),
           \A y \in Seg : y # Row(Top)[n] => (IsDone(g, y) <=> IsDone(Top, y)),
           NEW p, p = [op |-> "remove", id |-> Append(Top.id, Row(Top)[n])]
    PROVE  Answer(<<p>>, [walk EXCEPT ![Len(walk)] = g])
<1> DEFINE id == Top.id
           row == Row(Top)
           x == row[n]
           c == Append(id, x)
           kids == store[id].kids
<1>1. /\ id \in Id /\ id \in DOMAIN store /\ Self(store, Top) /\ id \in DOMAIN tree
  BY TopIs DEF FrameOK
<1>2. p.op = "remove" /\ p.id = c /\ x \in Seg
  OBVIOUS
<1>3. kids = Named(id, row) /\ kids \in Seq(Id) /\ Inj(kids)
  BY <1>1 DEF Self, Walking, Linked, RecordOK
<1>4. n \in 1..Len(kids) /\ kids[n] = c /\ DOMAIN kids = 1..Len(kids)
  BY <1>1, <1>3, NamedIs
<1>5. c # Root /\ Front(c) = id
  BY <1>1, <1>2, Child
<1> HIDE DEF row, x, kids, c, id
<1>6. c \in ToSet(kids) /\ ToSet(kids) = {kids[m] : m \in 1..Len(kids)}
  BY <1>3, <1>4, Ranges
<1>7. c \in DOMAIN store
  BY <1>1, <1>6 DEF Walking, Linked, RecordOK, kids
<1>8. Position(kids, c) = n
  <2>1. Position(kids, c) \in 1..Len(kids) /\ kids[Position(kids, c)] = c
    BY <1>3, <1>6, PositionIs
  <2> QED BY <1>3, <1>4, <2>1 DEF Inj
<1>9. Fits(p)
  BY <1>2, <1>5, <1>7 DEF Fits
<1>10. /\ Linked(After(p)) /\ Amended(store, After(p), id, RemoveAt(kids, n))
       /\ \A j \in Id : IF IsPrefix(c, j) THEN j \notin DOMAIN After(p)
                        ELSE j # id => Untouched(store, After(p), j)
  BY <1>2, <1>5, <1>7, <1>8, RemovedIs DEF Walking, kids
<1>11. RemoveAt(kids, n) = Named(id, Row(g))
  BY <1>1, <1>3, NamedRemove DEF row
<1>12. \A j \in Id : IF IsPrefix(c, j) THEN Agrees(After(p), j, tree)
                     ELSE j # id => Untouched(store, After(p), j)
  <2>1. ASSUME NEW j \in Id, IsPrefix(c, j) PROVE j \notin DOMAIN tree
    <3>1. IsPrefix(id, j) /\ Len(j) > Len(id) /\ j[Len(id) + 1] = x
      BY <1>1, <1>2, <2>1, PrefixChild DEF c
    <3>2. j # id
      BY <1>1, <3>1 DEF Id
    <3>3. x \notin ToSet(tree[id].kids)
      BY DEF x, row, id, Will
    <3> QED BY <1>1, <3>1, <3>2, <3>3, NoKid DEF Walking
  <2> QED BY <1>10, <2>1 DEF Agrees
<1>13. Walked(After(p), [walk EXCEPT ![Len(walk)] = g])
  BY <1>2, <1>10, <1>11, <1>12, Refit DEF c, x, row, id
<1>14. Survive(After(p))
  <2>1. ASSUME NEW j \in DOMAIN After(p), After(p)[j].new PROVE j \in DOMAIN store /\ store[j].new
    <3>1. j \in Id
      BY <1>10 DEF Linked, RecordOK
    <3> QED BY <1>1, <1>10, <2>1, <3>1 DEF Untouched, Amended
  <2> QED BY <2>1, SurviveKept DEF Walking
<1> QED BY <1>9, <1>13, <1>14 DEF Answer

\* A kid that only the new tree has comes.
LEMMA Placed ==
    ASSUME Walking, NEW g, FrameOK(g), g.id = Top.id, g.at = Top.at,
           Top.at # "node", Top.at # "mods", Row(Top) \in Seq(Seg),
           NEW i \in 1..(Len(Row(Top)) + 1), NEW x \in ToSet(Will(Top)), x \notin ToSet(Was(Top)),
           Row(g) = InsertAt(Row(Top), i, x), IsDone(g, x), ~IsDone(Top, x),
           \A y \in Seg : y # x => (IsDone(g, y) <=> IsDone(Top, y)),
           NEW p, p = [op |-> "insert", id |-> Top.id, index |-> i, name |-> Append(Top.id, x),
                       node |-> Serialized(tree, Append(Top.id, x), Append(Top.id, x))]
    PROVE  Answer(<<p>>, [walk EXCEPT ![Len(walk)] = g])
<1> DEFINE id == Top.id
           row == Row(Top)
           c == Append(id, x)
           kids == store[id].kids
<1>1. /\ id \in Id /\ id \in DOMAIN store /\ Self(store, Top) /\ id \in DOMAIN tree
      /\ id \in DOMAIN before /\ Len(id) \in Nat
  BY TopIs DEF FrameOK, Id
<1>2. x \in Seg /\ c \in DOMAIN tree
  BY <1>1, TreeIs DEF Walking, Will
<1>3. /\ p.op = "insert" /\ p.id = id /\ p.index = i /\ p.name = c
      /\ p.node = Serialized(tree, c, c)
  OBVIOUS
<1>4. kids = Named(id, row) /\ Len(kids) = Len(row)
  BY <1>1, NamedIs DEF Self
<1>5. /\ c \in Id /\ IsPrefix(id, c) /\ c # id /\ c[Len(id) + 1] = x /\ Len(c) = Len(id) + 1
  BY <1>1, <1>2, Child
<1> HIDE DEF row, kids, c, id
<1>6. c \notin DOMAIN before
  BY <1>1, <1>2, TreeKid DEF Walking, Was, c, id
<1>7. c \notin DOMAIN store
  <2>1. Sided(store, Top, c)
    BY <1>5, TopIs DEF id
  <2> QED BY <1>5, <1>6, <2>1 DEF Sided, Agrees, id
<1>8. i \in 1..(Len(kids) + 1)
  BY <1>4 DEF row
<1>9. Fits(p)
  BY <1>1, <1>2, <1>3, <1>7, <1>8 DEF Fits, kids, c
<1>10. /\ Linked(After(p)) /\ Amended(store, After(p), id, InsertAt(kids, i, c))
       /\ \A j \in Id : IF IsPrefix(c, j) THEN Grafted(After(p), tree, j)
                        ELSE j # id => Untouched(store, After(p), j)
  <2>1. /\ p.id \in DOMAIN store /\ p.name = Append(p.id, x) /\ p.name \notin DOMAIN store
        /\ p.name \in DOMAIN tree /\ p.node = Serialized(tree, p.name, p.name)
        /\ p.index \in 1..(Len(store[p.id].kids) + 1)
    BY <1>1, <1>2, <1>3, <1>7, <1>8 DEF kids, c
  <2>2. /\ Linked(After(p))
        /\ Amended(store, After(p), p.id, InsertAt(store[p.id].kids, p.index, p.name))
        /\ \A j \in Id : IF IsPrefix(p.name, j) THEN Grafted(After(p), tree, j)
                         ELSE j # p.id => Untouched(store, After(p), j)
    BY <1>2, <1>3, <2>1, InsertedIs DEF Walking
  <2> QED BY <1>3, <2>2 DEF kids
<1>11. InsertAt(kids, i, c) = Named(id, Row(g))
  BY <1>1, <1>2, <1>4, NamedInsert DEF row, c
<1>12. \A j \in Id : IF IsPrefix(c, j) THEN Agrees(After(p), j, tree)
                     ELSE j # id => Untouched(store, After(p), j)
  BY <1>10, GraftAgrees
<1>13. Walked(After(p), [walk EXCEPT ![Len(walk)] = g])
  BY <1>2, <1>10, <1>11, <1>12, Refit DEF c, id
<1>14. Survive(After(p))
  <2>1. ASSUME NEW j \in DOMAIN After(p), After(p)[j].new
        PROVE  (j \in DOMAIN store /\ store[j].new) \/ ~Same(j)
    <3>1. j \in Id
      BY <1>10 DEF Linked, RecordOK
    <3>2. CASE IsPrefix(c, j)
      <4>1. Len(c) \in 0..Len(j) /\ Up(j, Len(c)) = c
        BY <1>1, <1>5, <3>1, <3>2, PrefixUp DEF Id
      <4> QED BY <1>6, <4>1 DEF Same
    <3>3. CASE ~IsPrefix(c, j)
      BY <1>1, <1>10, <2>1, <3>1, <3>3 DEF Untouched, Amended
    <3> QED BY <3>2, <3>3
  <2> QED BY <2>1, SurviveKept DEF Walking
<1> QED BY <1>9, <1>13, <1>14 DEF Answer

LEMMA ThenIs ==
    ASSUME NEW S, NEW o \in Seq(S), NEW s \in Seq(S), NEW i \in 1..(Len(s) + 1)
    PROVE  /\ Then(o, s, i) \in Seq(S) /\ Len(Then(o, s, i)) = Len(o) + (Len(s) - i + 1)
           /\ \A m \in 1..Len(o) : Then(o, s, i)[m] = o[m]
           /\ \A m \in 1..(Len(s) - i + 1) : Then(o, s, i)[Len(o) + m] = s[i + m - 1]
<1> DEFINE r == SubSeq(s, i, Len(s))
<1>1. i \in Nat /\ Len(s) \in Nat /\ i >= 1 /\ i <= Len(s) + 1
  OBVIOUS
<1>2. /\ r \in Seq(S) /\ Len(r) = Len(s) - i + 1
      /\ \A m \in 1..(Len(s) - i + 1) : r[m] = s[i + m - 1]
  BY <1>1, Subs
<1>3. Then(o, s, i) = o \o r
  BY DEF Then
<1> HIDE DEF r
<1>4. /\ Then(o, s, i) \in Seq(S) /\ Len(Then(o, s, i)) = Len(o) + Len(r)
      /\ \A m \in 1..Len(o) : Then(o, s, i)[m] = o[m]
      /\ \A m \in 1..Len(r) : Then(o, s, i)[Len(o) + m] = r[m]
  <2>1. r \in Seq(S)
    BY <1>2
  <2> QED BY <1>3, <2>1, Joined
<1> QED BY <1>2, <1>4

LEMMA Shifted ==
    ASSUME NEW S, NEW o \in Seq(S), NEW s \in Seq(S), NEW i \in 1..Len(s)
    PROVE  /\ Then(o, s, i) \in Seq(S) /\ Len(o) + 1 \in 1..Len(Then(o, s, i))
           /\ Then(o, s, i)[Len(o) + 1] = s[i]
           /\ Then(Append(o, s[i]), s, i + 1) = Then(o, s, i)
           /\ RemoveAt(Then(o, s, i), Len(o) + 1) = Then(o, s, i + 1)
<1> DEFINE n == Len(o)
           k == Len(s) - i
           j == i + 1
           a == Then(o, s, i)
           d == Then(o, s, j)
           e == Append(o, s[i])
           b == Then(e, s, j)
<1>1. /\ i \in Nat /\ Len(s) \in Nat /\ n \in Nat /\ i >= 1 /\ i <= Len(s) /\ k \in Nat
      /\ i \in 1..(Len(s) + 1) /\ j \in 1..(Len(s) + 1) /\ s[i] \in S
      /\ Len(s) - i + 1 = k + 1 /\ Len(s) - j + 1 = k /\ j = i + 1
  OBVIOUS
<1> HIDE DEF j, k
<1>2. /\ a \in Seq(S) /\ Len(a) = n + (k + 1)
      /\ \A m \in 1..n : a[m] = o[m]
      /\ \A m \in 1..(k + 1) : a[n + m] = s[i + m - 1]
  <2>1. /\ a \in Seq(S) /\ Len(a) = Len(o) + (Len(s) - i + 1)
        /\ \A m \in 1..Len(o) : a[m] = o[m]
        /\ \A m \in 1..(Len(s) - i + 1) : a[Len(o) + m] = s[i + m - 1]
    <3>1. i \in 1..(Len(s) + 1)
      BY <1>1
    <3>2. a \in Seq(S)
      BY <3>1, ThenIs
    <3>5. Len(a) = Len(o) + (Len(s) - i + 1)
      BY <3>1, ThenIs
    <3>3. \A m \in 1..Len(o) : a[m] = o[m]
      BY <3>1, ThenIs
    <3>4. \A m \in 1..(Len(s) - i + 1) : a[Len(o) + m] = s[i + m - 1]
      BY <3>1, ThenIs
    <3> QED BY <3>2, <3>3, <3>4, <3>5
  <2> HIDE DEF a
  <2> QED BY <1>1, <2>1
<1>3. /\ d \in Seq(S) /\ Len(d) = n + k
      /\ \A m \in 1..n : d[m] = o[m]
      /\ \A m \in 1..k : d[n + m] = s[j + m - 1]
  <2>1. /\ d \in Seq(S) /\ Len(d) = Len(o) + (Len(s) - j + 1)
        /\ \A m \in 1..Len(o) : d[m] = o[m]
        /\ \A m \in 1..(Len(s) - j + 1) : d[Len(o) + m] = s[j + m - 1]
    <3>1. j \in 1..(Len(s) + 1)
      BY <1>1
    <3>2. d \in Seq(S)
      BY <3>1, ThenIs
    <3>5. Len(d) = Len(o) + (Len(s) - j + 1)
      BY <3>1, ThenIs
    <3>3. \A m \in 1..Len(o) : d[m] = o[m]
      BY <3>1, ThenIs
    <3>4. \A m \in 1..(Len(s) - j + 1) : d[Len(o) + m] = s[j + m - 1]
      BY <3>1, ThenIs
    <3> QED BY <3>2, <3>3, <3>4, <3>5
  <2> HIDE DEF d
  <2> QED BY <1>1, <2>1
<1>4. e \in Seq(S) /\ Len(e) = n + 1 /\ (\A m \in 1..n : e[m] = o[m]) /\ e[n + 1] = s[i]
  BY <1>1, Appended
<1> HIDE DEF e, a, d, n
<1>5. /\ b \in Seq(S) /\ Len(b) = (n + 1) + k
      /\ \A m \in 1..(n + 1) : b[m] = e[m]
      /\ \A m \in 1..k : b[(n + 1) + m] = s[j + m - 1]
  <2>1. /\ b \in Seq(S) /\ Len(b) = Len(e) + (Len(s) - j + 1)
        /\ \A m \in 1..Len(e) : b[m] = e[m]
        /\ \A m \in 1..(Len(s) - j + 1) : b[Len(e) + m] = s[j + m - 1]
    <3>1. j \in 1..(Len(s) + 1) /\ e \in Seq(S)
      BY <1>1, <1>4
    <3>2. b \in Seq(S)
      BY <3>1, ThenIs
    <3>5. Len(b) = Len(e) + (Len(s) - j + 1)
      BY <3>1, ThenIs
    <3>3. \A m \in 1..Len(e) : b[m] = e[m]
      BY <3>1, ThenIs
    <3>4. \A m \in 1..(Len(s) - j + 1) : b[Len(e) + m] = s[j + m - 1]
      BY <3>1, ThenIs
    <3> QED BY <3>2, <3>3, <3>4, <3>5
  <2> HIDE DEF b
  <2> QED BY <1>1, <1>4, <2>1
<1> HIDE DEF b
<1>6. n + 1 \in 1..Len(a) /\ Len(a) \in Nat
  BY <1>1, <1>2
<1>7. a[n + 1] = s[i]
  <2>1. 1 \in 1..(k + 1) /\ i + 1 - 1 = i
    BY <1>1
  <2> QED BY <1>2, <2>1
<1>8. b = a
  <2>1. Len(b) = Len(a)
    BY <1>1, <1>2, <1>5
  <2>2. ASSUME NEW m \in 1..Len(a) PROVE b[m] = a[m]
    <3>0. m \in Nat /\ m >= 1 /\ m <= n + (k + 1)
      BY <1>1, <1>2
    <3>1. CASE m <= n
      <4>1. m \in 1..n /\ m \in 1..(n + 1)
        BY <1>1, <3>0, <3>1
      <4> QED BY <1>2, <1>4, <1>5, <4>1
    <3>2. CASE m = n + 1
      <4>1. m \in 1..(n + 1)
        BY <1>1, <3>2
      <4> QED BY <1>4, <1>5, <1>7, <3>2, <4>1
    <3>3. CASE m > n + 1
      <4> DEFINE l == m - (n + 1)
      <4>1. l \in 1..k /\ l + 1 \in 1..(k + 1) /\ (n + 1) + l = m /\ n + (l + 1) = m
            /\ i + (l + 1) - 1 = j + l - 1
        BY <1>1, <3>0, <3>3
      <4> HIDE DEF l
      <4>2. b[m] = s[j + l - 1]
        BY <1>5, <4>1
      <4>3. a[m] = s[i + (l + 1) - 1]
        BY <1>2, <4>1
      <4> QED BY <4>1, <4>2, <4>3
    <3> QED BY <1>1, <3>0, <3>1, <3>2, <3>3
  <2> QED BY <1>2, <1>5, <2>1, <2>2, SameSeq
<1>9. RemoveAt(a, n + 1) = d
  <2> DEFINE r == RemoveAt(a, n + 1)
  <2>1. /\ r \in Seq(S) /\ Len(r) = Len(a) - 1
        /\ \A m \in 1..((n + 1) - 1) : r[m] = a[m]
        /\ \A m \in (n + 1)..(Len(a) - 1) : r[m] = a[m + 1]
    BY <1>2, <1>6, RemovedAt
  <2> HIDE DEF r
  <2>2. Len(r) = Len(d)
    BY <1>1, <1>2, <1>3, <2>1
  <2>3. ASSUME NEW m \in 1..Len(r) PROVE r[m] = d[m]
    <3>0. m \in Nat /\ m >= 1 /\ m <= n + k /\ Len(a) - 1 = n + k
      BY <1>1, <1>2, <1>3, <2>2
    <3>1. CASE m <= n
      <4>1. m \in 1..n /\ m \in 1..((n + 1) - 1)
        BY <1>1, <3>0, <3>1
      <4> QED BY <1>2, <1>3, <2>1, <4>1
    <3>2. CASE m > n
      <4> DEFINE l == m - n
      <4>1. m \in (n + 1)..(Len(a) - 1) /\ l \in 1..k /\ l + 1 \in 1..(k + 1) /\ n + l = m
            /\ n + (l + 1) = m + 1 /\ i + (l + 1) - 1 = j + l - 1
        BY <1>1, <3>0, <3>2
      <4> HIDE DEF l
      <4>2. d[m] = s[j + l - 1]
        BY <1>3, <4>1
      <4>3. a[m + 1] = s[i + (l + 1) - 1]
        BY <1>2, <4>1
      <4> QED BY <2>1, <4>1, <4>2, <4>3
    <3> QED BY <1>1, <3>0, <3>1, <3>2
  <2>4. r = d
    BY <1>3, <2>1, <2>2, <2>3, SameSeq
  <2> QED BY <2>4 DEF r
<1> QED BY <1>1, <1>2, <1>6, <1>7, <1>8, <1>9 DEF a, b, d, e, n

LEMMA FirstIs ==
    ASSUME NEW S, NEW s \in Seq(S), NEW i \in 1..Len(s)
    PROVE  /\ FirstOf(s, i) = FirstOf(s, i - 1) \cup {s[i]}
           /\ Inj(s) => s[i] \notin FirstOf(s, i - 1)
           /\ FirstOf(s, 0) = {} /\ FirstOf(s, Len(s)) = ToSet(s)
           /\ FirstOf(s, i) \subseteq ToSet(s) /\ s[i] \in ToSet(s) /\ s[i] \in S
<1>1. /\ i \in Nat /\ i >= 1 /\ i <= Len(s) /\ Len(s) \in Nat /\ DOMAIN s = 1..Len(s) /\ s[i] \in S
      /\ ToSet(s) = {s[m] : m \in 1..Len(s)}
  BY Ranges
<1>2. \A m : m \in 1..i <=> m \in 1..(i - 1) \/ m = i
  BY <1>1
<1>3. FirstOf(s, i) = FirstOf(s, i - 1) \cup {s[i]}
  BY <1>2 DEF FirstOf
<1>4. Inj(s) => s[i] \notin FirstOf(s, i - 1)
  <2> SUFFICES ASSUME Inj(s), NEW m \in 1..(i - 1), s[i] = s[m] PROVE FALSE
    BY DEF FirstOf
  <2>1. m \in DOMAIN s /\ i \in DOMAIN s /\ m # i
    BY <1>1
  <2> QED BY <2>1 DEF Inj
<1>5. FirstOf(s, 0) = {} /\ FirstOf(s, Len(s)) = ToSet(s)
  BY <1>1 DEF FirstOf
<1>6. \A m \in 1..i : m \in 1..Len(s)
  BY <1>1
<1> QED BY <1>1, <1>3, <1>4, <1>5, <1>6 DEF FirstOf

LEMMA TopLists ==
    ASSUME Walking
    PROVE  /\ Was(Top) \in Seq(Seg) /\ Len(Was(Top)) \in Nat /\ Inj(Was(Top))
           /\ ToSet(Was(Top)) = {Was(Top)[m] : m \in 1..Len(Was(Top))}
           /\ Will(Top) \in Seq(Seg) /\ Len(Will(Top)) \in Nat /\ Inj(Will(Top))
           /\ ToSet(Will(Top)) = {Will(Top)[m] : m \in 1..Len(Will(Top))}
           /\ Top.order \in Seq(Seg) /\ Len(Top.order) \in Nat
           /\ DOMAIN Top.order = 1..Len(Top.order)
           /\ ToSet(Top.order) = {Top.order[m] : m \in 1..Len(Top.order)}
<1>1. TreeOK(before) /\ TreeOK(tree) /\ FrameOK(Top)
  BY TopIs DEF Walking
<1> QED BY <1>1, FrameIs

LEMMA FrameSet ==
    ASSUME NEW f \in Frames, NEW a, NEW i, NEW o
    PROVE  [f EXCEPT !.at = a, !.i = i, !.order = o]
             = [id |-> f.id, old |-> f.old, new |-> f.new, at |-> a, i |-> i, order |-> o]
<1> DEFINE g == [f EXCEPT !.at = a, !.i = i, !.order = o]
<1>1. DOMAIN f = {"id", "old", "new", "at", "i", "order"}
  BY FrameShape
<1>2. g = [x \in DOMAIN f |-> IF x = "order" THEN o ELSE IF x = "i" THEN i ELSE IF x = "at" THEN a ELSE f[x]]
  BY <1>1
<1>3. /\ g.id = f.id /\ g.old = f.old /\ g.new = f.new /\ g.at = a /\ g.i = i /\ g.order = o
  BY <1>1, <1>2
<1> QED BY <1>1, <1>2, <1>3

\* The last frame, come to another place.
Stepped(a, i, o) == [Top EXCEPT !.at = a, !.i = i, !.order = o]

LEMMA Advanced ==
    ASSUME Walking, NEW a \in Stages, NEW i \in Nat, NEW o \in Seq(Seg)
    PROVE  LET g == Stepped(a, i, o)
           IN  /\ g \in Frames /\ g.id = Top.id /\ g.old = Top.id /\ g.new = Top.id
               /\ g.at = a /\ g.i = i /\ g.order = o
               /\ Was(g) = Was(Top) /\ Will(g) = Will(Top)
               /\ g.id \in DOMAIN before /\ g.id \in DOMAIN tree
               /\ Top.at # "node" => ~Changes(before[g.id], tree[g.id])
<1> DEFINE g == Stepped(a, i, o)
<1>1. Top \in Frames /\ Top.old = Top.id /\ Top.new = Top.id
  BY TopIs
<1>2. /\ Top.id \in DOMAIN before /\ Top.id \in DOMAIN tree
      /\ Top.at # "node" => ~Changes(before[Top.id], tree[Top.id])
  BY TopIs DEF FrameOK
<1>3. g = [id |-> Top.id, old |-> Top.old, new |-> Top.new, at |-> a, i |-> i, order |-> o]
  BY <1>1, FrameSet DEF Stepped
<1> HIDE DEF g
<1>4. /\ g \in Frames /\ g.id = Top.id /\ g.old = Top.old /\ g.new = Top.new
      /\ g.at = a /\ g.i = i /\ g.order = o
  BY <1>1, <1>3 DEF Frames
<1> QED BY <1>1, <1>2, <1>4 DEF g, Was, Will

\* A step that answers no patch.
LEMMA WentOn ==
    ASSUME Walking, NEW g, FrameOK(g), g.id = Top.id, Row(g) = Row(Top),
           Top.at \notin {"node", "mods"}, g.at \notin {"node", "mods"},
           \A y \in ToSet(Was(Top)) \cup ToSet(Will(Top)) : IsDone(g, y) <=> IsDone(Top, y)
    PROVE  Answer(<<>>, [walk EXCEPT ![Len(walk)] = g])
<1>1. Self(store, g)
  BY TopIs DEF Self
<1>2. \A j \in Id : j # Top.id => Untouched(store, store, j)
  BY DEF Untouched
<1>3. Walked(store, [walk EXCEPT ![Len(walk)] = g])
  BY <1>1, <1>2, Went
<1> QED BY <1>3 DEF Answer

\* A key of both trees is kept; one that is gone is removed.
LEMMA DropGoneAnswers ==
    ASSUME Walking, DropGone, NEW q, q = inbox', NEW w, w = walk'
    PROVE  Answer(q, w)
<1> DEFINE was == Was(Top)
           will == Will(Top)
           i == Top.i
           o == Top.order
<1>1. /\ FrameOK(Top) /\ Top.at = "gone" /\ i \in Nat /\ Old.kids = was /\ New.kids = will
  BY TopIs DEF DropGone
<1>2. /\ was \in Seq(Seg) /\ Len(was) \in Nat /\ Inj(was) /\ o \in Seq(Seg) /\ Len(o) \in Nat
      /\ will \in Seq(Seg) /\ Len(will) \in Nat
      /\ ToSet(was) = {was[m] : m \in 1..Len(was)} /\ ToSet(o) = {o[m] : m \in 1..Len(o)}
      /\ DOMAIN o = 1..Len(o)
  BY TopLists
<1>3. i \in 1..(Len(was) + 1) /\ Inj(o) /\ ToSet(o) = FirstOf(was, i - 1) \cap ToSet(will)
  BY <1>1 DEF FrameOK
<1>4. Row(Top) = Then(o, was, i) /\ \A x : IsDone(Top, x) <=> x \in FirstOf(was, i - 1) \ ToSet(will)
  BY <1>1 DEF Row, IsDone
<1>5. CASE i > Len(was)
  <2> DEFINE g == [Top EXCEPT !.at = "place", !.i = 1]
  <2>1. w = [walk EXCEPT ![Len(walk)] = g] /\ q = <<>>
    BY <1>1, <1>5 DEF DropGone, Continue
  <2>2. g = Stepped("place", 1, o) /\ "place" \in Stages
    BY TopIs DEF Stages, Frames, Stepped
  <2> HIDE DEF g
  <2>3. /\ g \in Frames /\ g.id = Top.id /\ g.old = Top.id /\ g.new = Top.id
        /\ g.at = "place" /\ g.i = 1 /\ g.order = o /\ Was(g) = was /\ Will(g) = will
        /\ g.id \in DOMAIN before /\ g.id \in DOMAIN tree /\ ~Changes(before[g.id], tree[g.id])
    BY <1>1, <1>2, <2>2, Advanced
  <2> HIDE DEF was, will, i, o
  <2>4. i - 1 = Len(was) /\ FirstOf(was, i - 1) = ToSet(was) /\ FirstOf(will, 0) = {}
    BY <1>2, <1>3, <1>5 DEF FirstOf
  <2>5. FrameOK(g)
    <3>1. Running(g)
      BY <1>3, <2>3, <2>4 DEF Running
    <3>2. g.i \in 1..(Len(will) + 1)
      BY <1>2, <2>3
    <3> QED BY <2>3, <3>1, <3>2 DEF FrameOK
  <2>6. Row(g) = Row(Top)
    <3>1. SubSeq(was, i, Len(was)) = <<>>
      <4>1. i >= 1 /\ i <= Len(was) + 1 /\ Len(was) - i + 1 = 0
        BY <1>1, <1>2, <1>3, <1>5
      <4>2. SubSeq(was, i, Len(was)) \in Seq(Seg) /\ Len(SubSeq(was, i, Len(was))) = Len(was) - i + 1
        BY <1>1, <1>2, <4>1, Subs
      <4> QED BY <4>1, <4>2
    <3>2. Then(o, was, i) = o
      BY <1>2, <3>1 DEF Then
    <3> QED BY <1>4, <2>3, <3>2 DEF Row
  <2>7. \A y : IsDone(g, y) <=> IsDone(Top, y)
    <3>1. FirstOf(Will(g), g.i - 1) = {}
      BY <2>3, <2>4
    <3> QED BY <1>4, <2>3, <2>4, <3>1 DEF IsDone
  <2> QED BY <1>1, <2>1, <2>3, <2>5, <2>6, <2>7, WentOn
<1>6. CASE ~(i > Len(was))
  <2> DEFINE key == was[i]
  <2>0. i \in 1..Len(was) /\ i + 1 \in 1..(Len(was) + 1) /\ (i + 1) - 1 = i
    BY <1>2, <1>3, <1>6
  <2>1. /\ FirstOf(was, i) = FirstOf(was, i - 1) \cup {key} /\ key \notin FirstOf(was, i - 1)
        /\ key \in ToSet(was) /\ key \in Seg
    BY <1>2, <2>0, FirstIs
  <2>2. /\ Then(o, was, i) \in Seq(Seg) /\ Len(o) + 1 \in 1..Len(Then(o, was, i))
        /\ Then(o, was, i)[Len(o) + 1] = key
        /\ Then(Append(o, key), was, i + 1) = Then(o, was, i)
        /\ RemoveAt(Then(o, was, i), Len(o) + 1) = Then(o, was, i + 1)
    <3> HIDE DEF was, o, i
    <3>1. Then(o, was, i) \in Seq(Seg) /\ Len(o) + 1 \in 1..Len(Then(o, was, i))
      BY <1>2, <2>0, Shifted
    <3>2. Then(o, was, i)[Len(o) + 1] = key
      BY <1>2, <2>0, Shifted
    <3>3. Then(Append(o, key), was, i + 1) = Then(o, was, i)
      BY <1>2, <2>0, Shifted
    <3>4. RemoveAt(Then(o, was, i), Len(o) + 1) = Then(o, was, i + 1)
      BY <1>2, <2>0, Shifted
    <3> QED BY <3>1, <3>2, <3>3, <3>4
  <2>3. CASE Kept(key)
    <3> DEFINE o2 == Append(o, key)
               g == [Top EXCEPT !.i = @ + 1, !.order = o2]
    <3>1. w = [walk EXCEPT ![Len(walk)] = g] /\ q = <<>>
      BY <1>1, <1>6, <2>3 DEF DropGone, Continue
    <3>2. g = Stepped("gone", i + 1, o2) /\ "gone" \in Stages
      BY <1>1, TopIs DEF Stages, Frames, Stepped
    <3>3. o2 \in Seq(Seg) /\ Len(o2) = Len(o) + 1 /\ (\A m \in 1..Len(o) : o2[m] = o[m]) /\ o2[Len(o) + 1] = key
      BY <1>2, <2>1, Appended
    <3> HIDE DEF g, o2
    <3>4. /\ g \in Frames /\ g.id = Top.id /\ g.old = Top.id /\ g.new = Top.id
          /\ g.at = "gone" /\ g.i = i + 1 /\ g.order = o2 /\ Was(g) = was /\ Will(g) = will
          /\ g.id \in DOMAIN before /\ g.id \in DOMAIN tree /\ ~Changes(before[g.id], tree[g.id])
      BY <1>1, <2>0, <3>2, <3>3, Advanced
    <3>5. key \in ToSet(will)
      BY <1>1, <2>3 DEF Kept
    <3> HIDE DEF key, was, will, i, o
    <3>6. Inj(o2) /\ ToSet(o2) = ToSet(o) \cup {key}
      <4>1. DOMAIN o2 = 1..(Len(o) + 1) /\ ToSet(o2) = {o2[m] : m \in 1..(Len(o) + 1)}
        BY <3>3, Ranges
      <4>2. \A m \in 1..(Len(o) + 1) : m \in 1..Len(o) \/ m = Len(o) + 1
        BY <1>2
      <4>3. key \notin ToSet(o)
        BY <1>3, <2>1
      <4>4. \A m \in 1..Len(o) : o2[m] \in ToSet(o) /\ m \in 1..(Len(o) + 1)
        BY <1>2, <3>3
      <4>5. Len(o) + 1 \in 1..(Len(o) + 1)
        BY <1>2
      <4>6. Inj(o2)
        BY <1>2, <1>3, <3>3, <4>1, <4>2, <4>3, <4>4 DEF Inj
      <4>7. ToSet(o2) = ToSet(o) \cup {key}
        BY <1>2, <3>3, <4>1, <4>2, <4>4, <4>5
      <4> QED BY <4>6, <4>7
    <3>7. FrameOK(g)
      <4>1. ToSet(g.order) = FirstOf(Was(g), g.i - 1) \cap ToSet(Will(g))
        BY <1>3, <2>0, <2>1, <3>4, <3>5, <3>6
      <4> QED BY <2>0, <3>4, <3>6, <4>1 DEF FrameOK
    <3>8. Row(g) = Row(Top)
      BY <1>4, <2>2, <3>4 DEF Row, o2
    <3>9. \A y : IsDone(g, y) <=> IsDone(Top, y)
      BY <1>4, <2>0, <2>1, <3>4, <3>5 DEF IsDone
    <3> QED BY <1>1, <3>1, <3>4, <3>7, <3>8, <3>9, WentOn
  <2>4. CASE ~Kept(key)
    <3> DEFINE g == [Top EXCEPT !.i = @ + 1]
               p == [op |-> "remove", id |-> Append(Top.id, key)]
    <3>1. w = [walk EXCEPT ![Len(walk)] = g] /\ q = <<p>>
      BY <1>1, <1>6, <2>4 DEF DropGone, Continue
    <3>2. g = Stepped("gone", i + 1, o) /\ "gone" \in Stages
      BY <1>1, TopIs DEF Stages, Frames, Stepped
    <3> HIDE DEF g
    <3>4. /\ g \in Frames /\ g.id = Top.id /\ g.old = Top.id /\ g.new = Top.id
          /\ g.at = "gone" /\ g.i = i + 1 /\ g.order = o /\ Was(g) = was /\ Will(g) = will
          /\ g.id \in DOMAIN before /\ g.id \in DOMAIN tree /\ ~Changes(before[g.id], tree[g.id])
      BY <1>1, <1>2, <2>0, <3>2, Advanced
    <3>5. key \notin ToSet(will)
      BY <1>1, <2>4 DEF Kept
    <3>6. p = [op |-> "remove", id |-> Append(Top.id, Row(Top)[Len(o) + 1])]
      BY <1>4, <2>2
    <3> HIDE DEF key, was, will, i, o, p
    <3>7. FrameOK(g)
      <4>1. ToSet(g.order) = FirstOf(Was(g), g.i - 1) \cap ToSet(Will(g))
        BY <1>3, <2>0, <2>1, <3>4, <3>5
      <4>2. Inj(g.order)
        BY <1>3, <3>4
      <4> QED BY <2>0, <3>4, <4>1, <4>2 DEF FrameOK
    <3>8. Row(g) = RemoveAt(Row(Top), Len(o) + 1)
      BY <1>4, <2>2, <3>4 DEF Row
    <3>9. IsDone(g, key) /\ \A y : y # key => (IsDone(g, y) <=> IsDone(Top, y))
      BY <1>4, <2>0, <2>1, <3>4, <3>5 DEF IsDone
    <3>10. /\ Row(Top) \in Seq(Seg) /\ Len(o) + 1 \in 1..Len(Row(Top)) /\ Row(Top)[Len(o) + 1] = key
           /\ g.at = Top.at /\ Top.at # "node" /\ Top.at # "mods" /\ g.id = Top.id
      BY <1>1, <1>4, <2>2, <3>4
    <3>11. Answer(<<p>>, [walk EXCEPT ![Len(walk)] = g])
      BY <3>5, <3>6, <3>7, <3>8, <3>9, <3>10, Dropped DEF will
    <3> QED BY <3>1, <3>11
  <2> QED BY <2>3, <2>4
<1> QED BY <1>5, <1>6

\* The last frame has nothing left to do.
LEMMA Finished ==
    ASSUME Walking, Top.at \notin {"node", "mods"}, Row(Top) = Will(Top),
           \A y \in ToSet(Was(Top)) \cup ToSet(Will(Top)) : IsDone(Top, y)
    PROVE  Answer(<<>>, Front(walk))
<1> DEFINE id == Top.id
<1>1. /\ id \in Id /\ Self(store, Top) /\ id = walk[Len(walk)].id
      /\ id \in DOMAIN before /\ id \in DOMAIN tree /\ ~Changes(before[id], tree[id])
  BY TopIs DEF FrameOK
<1>2. ASSUME NEW j \in Id, IsPrefix(id, j) PROVE Agrees(store, j, tree)
  <2>1. CASE j = id
    BY <1>1, <2>1 DEF Self, Agrees, Changes, Will
  <2>2. CASE j # id
    <3> DEFINE y == j[Len(id) + 1]
    <3>1. Sided(store, Top, j)
      BY <1>2, <2>2, TopIs
    <3>2. CASE y \in ToSet(Was(Top)) \cup ToSet(Will(Top))
      BY <3>1, <3>2 DEF Sided
    <3>3. CASE y \notin ToSet(Was(Top)) \cup ToSet(Will(Top))
      <4>1. j \notin DOMAIN before
        BY <1>1, <1>2, <2>2, <3>3, NoKid DEF Walking, Was
      <4>2. j \notin DOMAIN tree
        BY <1>1, <1>2, <2>2, <3>3, NoKid DEF Walking, Will
      <4> QED BY <3>1, <4>1, <4>2 DEF Sided, Agrees
    <3> QED BY <3>2, <3>3
  <2> QED BY <2>1, <2>2
<1>3. \A j \in Id : ~IsPrefix(id, j) => Untouched(store, store, j)
  BY DEF Untouched
<1>4. Walked(store, Front(walk))
  BY <1>1, <1>2, <1>3, Returned DEF Walking
<1> QED BY <1>4 DEF Answer

\* The last frame calls the walk of a kid of both trees.
LEMMA Enters ==
    ASSUME Walking, NEW g, FrameOK(g), g.id = Top.id, Row(g) = Row(Top),
           Top.at \notin {"node", "mods"}, g.at \notin {"node", "mods"},
           NEW x \in ToSet(Was(Top)), x \in ToSet(Will(Top)),
           Called(g, Append(Top.id, x)), ~IsDone(Top, x),
           \A y \in Seg : y # x => (IsDone(g, y) <=> IsDone(Top, y)),
           NEW h, h = Frame(Append(Top.id, x), Append(Top.id, x), Append(Top.id, x))
    PROVE  Answer(<<>>, Append([walk EXCEPT ![Len(walk)] = g], h))
<1> DEFINE c == Append(Top.id, x)
<1>1. Top.id \in DOMAIN before /\ Top.id \in DOMAIN tree /\ Top = walk[Len(walk)] /\ Top.id \in Id
  BY TopIs DEF FrameOK
<1>2. x \in Seg /\ c \in DOMAIN before
  BY <1>1, TreeIs DEF Walking, Was
<1>3. c \in DOMAIN tree
  BY <1>1, TreeIs DEF Walking, Will
<1>4. c \in Id
  BY <1>1, <1>2, Child
<1> HIDE DEF c
<1>5. h = [id |-> c, old |-> c, new |-> c, at |-> "node", i |-> 1, order |-> <<>>]
  BY DEF Frame, c
<1>6. /\ h.id = c /\ h.old = c /\ h.new = c /\ h.at = "node" /\ h.i = 1 /\ h.order = <<>>
  BY <1>5
<1>7. h \in Frames
  <2>1. <<>> \in Seq(Seg) /\ "node" \in Stages /\ 1 \in Nat
    BY DEF Stages
  <2> QED BY <1>4, <1>5, <2>1 DEF Frames
<1>8. FrameOK(h)
  BY <1>2, <1>3, <1>6, <1>7 DEF FrameOK
<1>9. Self(store, g)
  BY TopIs DEF Self
<1>10. Called(g, h.id) /\ ~IsDone(walk[Len(walk)], x)
       /\ \A y \in Seg : y # x => (IsDone(g, y) <=> IsDone(walk[Len(walk)], y))
  BY <1>1, <1>6 DEF c
<1>11. g.id = walk[Len(walk)].id /\ h = Frame(Append(g.id, x), Append(g.id, x), Append(g.id, x))
  BY <1>1
<1>12. Walked(store, Append([walk EXCEPT ![Len(walk)] = g], h))
  BY <1>2, <1>8, <1>9, <1>10, <1>11, Entered DEF Walking
<1> QED BY <1>12 DEF Answer

LEMMA PlaceKeyAnswers ==
    ASSUME Walking, PlaceKey, NEW q, q = inbox', NEW w, w = walk'
    PROVE  Answer(q, w)
<1> DEFINE was == Was(Top)
           will == Will(Top)
           i == Top.i
           o == Top.order
<1>1. /\ FrameOK(Top) /\ Top.at = "place" /\ i \in Nat /\ Old.kids = was /\ New.kids = will
      /\ Top.old = Top.id /\ Top.new = Top.id
  BY TopIs DEF PlaceKey
<1>2. /\ was \in Seq(Seg) /\ Len(was) \in Nat /\ o \in Seq(Seg) /\ Len(o) \in Nat
      /\ will \in Seq(Seg) /\ Len(will) \in Nat /\ Inj(will)
      /\ ToSet(will) = {will[m] : m \in 1..Len(will)} /\ ToSet(o) = {o[m] : m \in 1..Len(o)}
      /\ DOMAIN o = 1..Len(o)
  BY TopLists
<1>3. i \in 1..(Len(will) + 1) /\ Running(Top)
  BY <1>1 DEF FrameOK
<1>4. /\ Inj(o) /\ ToSet(o) = (ToSet(was) \cap ToSet(will)) \cup FirstOf(will, i - 1)
      /\ \A m \in 1..(i - 1) : m \in 1..Len(o) /\ o[m] = will[m]
  BY <1>3 DEF Running
<1>5. /\ Row(Top) = o
      /\ \A x : IsDone(Top, x) <=> x \in (ToSet(was) \ ToSet(will)) \cup FirstOf(will, i - 1)
  BY <1>1 DEF Row, IsDone
<1>6. i \in 1..(Len(o) + 1)
  <2>1. CASE i = 1
    BY <1>2, <2>1
  <2>2. CASE i # 1
    <3>1. i - 1 \in 1..(i - 1)
      BY <1>2, <1>3, <2>2
    <3>2. i - 1 \in 1..Len(o)
      BY <1>4, <3>1
    <3> QED BY <1>2, <1>3, <3>2
  <2> QED BY <2>1, <2>2
<1>7. CASE i > Len(will)
  <2>1. q = <<>> /\ w = Front(walk)
    BY <1>1, <1>7 DEF PlaceKey, Return
  <2> HIDE DEF was, will, i, o
  <2>2. i - 1 = Len(will) /\ FirstOf(will, i - 1) = ToSet(will)
    BY <1>2, <1>3, <1>7 DEF FirstOf
  <2>3. ToSet(o) = ToSet(will)
    BY <1>4, <2>2
  <2>4. Len(will) <= Len(o)
    BY <1>2, <1>6, <2>2
  <2>5. ~(Len(will) < Len(o))
    <3> SUFFICES ASSUME Len(will) < Len(o) PROVE FALSE
      OBVIOUS
    <3>1. Len(o) \in 1..Len(o)
      BY <1>2
    <3>2. o[Len(o)] \in ToSet(will)
      BY <1>2, <2>3, <3>1
    <3>3. PICK m \in 1..Len(will) : will[m] = o[Len(o)]
      BY <1>2, <3>2
    <3>4. m \in 1..Len(o) /\ o[m] = o[Len(o)] /\ m # Len(o)
      <4>1. m \in 1..(i - 1)
        BY <2>2
      <4>2. m \in 1..Len(o) /\ o[m] = will[m]
        BY <1>4, <4>1
      <4>3. m # Len(o)
        BY <1>2
      <4> QED BY <3>3, <4>2, <4>3
    <3> QED BY <1>2, <1>4, <3>1, <3>4 DEF Inj
  <2>6. Len(o) = Len(will)
    BY <1>2, <2>4, <2>5
  <2>7. o = will
    BY <1>2, <1>4, <2>2, <2>6, SameSeq
  <2>8. \A y \in ToSet(was) \cup ToSet(will) : IsDone(Top, y)
    BY <1>5, <2>2
  <2> QED BY <1>1, <1>5, <2>1, <2>7, <2>8, Finished DEF was, will
<1>8. CASE ~(i > Len(will))
  <2> DEFINE key == will[i]
  <2>0. i \in 1..Len(will) /\ i + 1 \in 1..(Len(will) + 1) /\ (i + 1) - 1 = i
    BY <1>2, <1>3, <1>8
  <2>1. /\ FirstOf(will, i) = FirstOf(will, i - 1) \cup {key} /\ key \notin FirstOf(will, i - 1)
        /\ key \in ToSet(will) /\ key \in Seg
    BY <1>2, <2>0, FirstIs
  <2>2. CASE key \in ToSet(was)
    <3> DEFINE g == [Top EXCEPT !.at = "move"]
               h == Frame(Append(Top.id, key), Append(Top.old, key), Append(Top.new, key))
    <3>1. w = Append([walk EXCEPT ![Len(walk)] = g], h) /\ q = <<>>
      BY <1>1, <1>8, <2>2 DEF PlaceKey, Call
    <3>2. g = Stepped("move", i, o) /\ "move" \in Stages
      BY <1>1, TopIs DEF Stages, Frames, Stepped
    <3>3. h = Frame(Append(Top.id, key), Append(Top.id, key), Append(Top.id, key))
      BY <1>1
    <3> HIDE DEF g, h
    <3>4. /\ g \in Frames /\ g.id = Top.id /\ g.old = Top.id /\ g.new = Top.id
          /\ g.at = "move" /\ g.i = i /\ g.order = o /\ Was(g) = was /\ Will(g) = will
          /\ g.id \in DOMAIN before /\ g.id \in DOMAIN tree /\ ~Changes(before[g.id], tree[g.id])
      BY <1>1, <1>2, <3>2, Advanced
    <3> HIDE DEF key, was, will, i, o
    <3>5. FrameOK(g)
      <4>1. Running(g)
        BY <1>4, <3>4 DEF Running
      <4>2. Will(g)[g.i] \in ToSet(Was(g))
        BY <2>2, <3>4 DEF key
      <4> QED BY <2>0, <3>4, <4>1, <4>2 DEF FrameOK
    <3>6. Row(g) = Row(Top) /\ Called(g, Append(Top.id, key))
      BY <1>5, <3>4 DEF Row, Called, key
    <3>7. ~IsDone(Top, key)
      BY <1>5, <2>1
    <3>8. \A y \in Seg : y # key => (IsDone(g, y) <=> IsDone(Top, y))
      BY <1>5, <2>1, <3>4 DEF IsDone
    <3>9. Top.at \notin {"node", "mods"} /\ g.at \notin {"node", "mods"}
      BY <1>1, <3>4
    <3>10. Answer(<<>>, Append([walk EXCEPT ![Len(walk)] = g], h))
      BY <2>1, <2>2, <3>3, <3>4, <3>5, <3>6, <3>7, <3>8, <3>9, Enters DEF was, will
    <3> QED BY <3>1, <3>10
  <2>3. CASE key \notin ToSet(was)
    <3> DEFINE o2 == InsertAt(o, i, key)
               g == [Top EXCEPT !.i = @ + 1, !.order = InsertAt(@, Top.i, key)]
               p == InsertChild(i)
    <3>1. w = [walk EXCEPT ![Len(walk)] = g] /\ q = <<p>>
      BY <1>1, <1>8, <2>3 DEF PlaceKey, Continue
    <3>2. g = Stepped("place", i + 1, o2) /\ "place" \in Stages
      BY <1>1, TopIs DEF Stages, Frames, Stepped
    <3>3. p = [op |-> "insert", id |-> Top.id, index |-> i, name |-> Append(Top.id, key),
               node |-> Serialized(tree, Append(Top.id, key), Append(Top.id, key))]
      BY <1>1 DEF InsertChild
    <3> HIDE DEF g, p
    <3>4. /\ o2 \in Seq(Seg) /\ Len(o2) = Len(o) + 1 /\ o2[i] = key
          /\ \A m \in 1..(i - 1) : o2[m] = o[m]
      <4> HIDE DEF key, was, will, i, o
      <4>1. o \in Seq(Seg) /\ key \in Seg /\ i \in 1..(Len(o) + 1)
        BY <1>2, <1>6, <2>1
      <4> QED BY <4>1, InsertedAt
    <3>5. key \notin ToSet(o)
      BY <1>4, <2>1, <2>3
    <3>6. ToSet(o2) = ToSet(o) \cup {key} /\ Inj(o2)
      <4> HIDE DEF key, was, will, i, o
      <4>1. o \in Seq(Seg) /\ key \in Seg /\ i \in 1..(Len(o) + 1) /\ Inj(o)
        BY <1>2, <1>4, <1>6, <2>1
      <4> QED BY <3>5, <4>1, InsertedSet
    <3> HIDE DEF o2
    <3>7. /\ g \in Frames /\ g.id = Top.id /\ g.old = Top.id /\ g.new = Top.id
          /\ g.at = "place" /\ g.i = i + 1 /\ g.order = o2 /\ Was(g) = was /\ Will(g) = will
          /\ g.id \in DOMAIN before /\ g.id \in DOMAIN tree /\ ~Changes(before[g.id], tree[g.id])
      BY <1>1, <2>0, <3>2, <3>4, Advanced
    <3> HIDE DEF was, will, i, o
    <3>8. FrameOK(g)
      <4>1. ASSUME NEW m \in 1..i PROVE m \in 1..Len(o2) /\ o2[m] = will[m]
        <5>1. CASE m = i
          BY <1>2, <1>6, <3>4, <5>1
        <5>2. CASE m # i
          <6>1. m \in 1..(i - 1)
            BY <2>0, <5>2
          <6>2. m \in 1..Len(o) /\ o[m] = will[m]
            BY <1>4, <6>1
          <6> QED BY <1>2, <3>4, <6>1, <6>2
        <5> QED BY <5>1, <5>2
      <4>2. ToSet(o2) = (ToSet(was) \cap ToSet(will)) \cup FirstOf(will, i)
        BY <1>4, <2>1, <3>6
      <4>3. Running(g)
        BY <2>0, <3>6, <3>7, <4>1, <4>2 DEF Running
      <4> QED BY <2>0, <3>7, <4>3 DEF FrameOK
    <3>9. Row(g) = InsertAt(Row(Top), i, key)
      BY <1>5, <3>7 DEF Row, o2
    <3>10. IsDone(g, key) /\ ~IsDone(Top, key) /\ \A y : y # key => (IsDone(g, y) <=> IsDone(Top, y))
      BY <1>5, <2>0, <2>1, <2>3, <3>7 DEF IsDone
    <3>11. /\ Row(Top) \in Seq(Seg) /\ i \in 1..(Len(Row(Top)) + 1)
           /\ g.at = Top.at /\ Top.at # "node" /\ Top.at # "mods" /\ g.id = Top.id
      BY <1>1, <1>2, <1>5, <1>6, <3>7
    <3> HIDE DEF key
    <3>12. Answer(<<p>>, [walk EXCEPT ![Len(walk)] = g])
      BY <2>1, <2>3, <3>3, <3>8, <3>9, <3>10, <3>11, Placed DEF was, will
    <3> QED BY <3>1, <3>12
  <2> QED BY <2>2, <2>3
<1> QED BY <1>7, <1>8

LEMMA SplicedFront ==
    ASSUME NEW S, NEW s \in Seq(S), Inj(s), NEW from \in 1..Len(s), NEW to \in 1..from
    PROVE  /\ \A m \in 1..(to - 1) : Spliced(s, from, to)[m] = s[m]
           /\ Spliced(s, from, to)[to] = s[from]
           /\ from = to => Spliced(s, from, to) = s
<1> DEFINE r == RemoveAt(s, from)
           a == InsertAt(r, to, s[from])
<1>1. from \in Nat /\ to \in 1..Len(s) /\ Len(s) \in Nat /\ s[from] \in S
  OBVIOUS
<1>2. Spliced(s, from, to) = a
  BY <1>1, SplicedIs
<1>3. /\ r \in Seq(S) /\ Len(r) = Len(s) - 1
      /\ \A m \in 1..(from - 1) : r[m] = s[m]
      /\ \A m \in from..(Len(s) - 1) : r[m] = s[m + 1]
  BY RemovedAt
<1> HIDE DEF r
<1>4. /\ a \in Seq(S) /\ Len(a) = Len(r) + 1 /\ a[to] = s[from]
      /\ \A m \in 1..(to - 1) : a[m] = r[m]
      /\ \A m \in to..Len(r) : a[m + 1] = r[m]
  <2>1. to \in 1..(Len(r) + 1) /\ r \in Seq(S)
    BY <1>1, <1>3
  <2> QED BY <1>1, <2>1, InsertedAt
<1> HIDE DEF a
<1>5. \A m \in 1..(to - 1) : a[m] = s[m]
  <2> SUFFICES ASSUME NEW m \in 1..(to - 1) PROVE a[m] = s[m]
    OBVIOUS
  <2>1. m \in 1..(from - 1)
    BY <1>1
  <2> QED BY <1>3, <1>4, <2>1
<1>6. ASSUME from = to PROVE a = s
  <2>1. Len(a) = Len(s)
    BY <1>1, <1>3, <1>4
  <2>2. ASSUME NEW m \in 1..Len(a) PROVE a[m] = s[m]
    <3>1. CASE m < to
      <4>1. m \in 1..(to - 1)
        BY <1>1, <3>1
      <4> QED BY <1>5, <4>1
    <3>2. CASE m = to
      BY <1>4, <1>6, <3>2
    <3>3. CASE m > to
      <4>1. m - 1 \in to..Len(r) /\ m - 1 \in from..(Len(s) - 1) /\ (m - 1) + 1 = m
        BY <1>1, <1>3, <1>6, <2>1, <3>3
      <4> QED BY <1>3, <1>4, <4>1
    <3> QED BY <1>1, <2>1, <3>1, <3>2, <3>3
  <2> QED BY <1>4, <2>1, <2>2, SameSeq
<1> QED BY <1>2, <1>4, <1>5, <1>6

\* The key is moved to its place if the host's list has it elsewhere.
LEMMA MoveKeyAnswers ==
    ASSUME Walking, MoveKey, NEW q, q = inbox', NEW w, w = walk'
    PROVE  Answer(q, w)
<1> DEFINE was == Was(Top)
           will == Will(Top)
           i == Top.i
           o == Top.order
           id == Top.id
           key == will[i]
           from == Position(o, key)
           o2 == InsertAt(RemoveAt(o, from), i, key)
           g == [Top EXCEPT !.at = "place", !.i = @ + 1, !.order = InsertAt(RemoveAt(@, from), i, key)]
           p == [op |-> "move", parent |-> id, id |-> Append(id, key), index |-> i]
<1>1. /\ FrameOK(Top) /\ Top.at = "move" /\ i \in Nat /\ New.kids = will
      /\ id \in Id /\ id \in DOMAIN store /\ Self(store, Top)
  BY TopIs DEF MoveKey
<1>2. w = [walk EXCEPT ![Len(walk)] = g] /\ q = IF from = i THEN <<>> ELSE <<p>>
  BY <1>1 DEF MoveKey, Continue
<1>3. g = Stepped("place", i + 1, o2) /\ "place" \in Stages
  BY <1>1, TopIs DEF Stages, Frames, Stepped
<1>4. p.op = "move" /\ p.parent = id /\ p.id = Append(id, key) /\ p.index = i
  OBVIOUS
<1>5. /\ was \in Seq(Seg) /\ Len(was) \in Nat /\ o \in Seq(Seg) /\ Len(o) \in Nat
      /\ will \in Seq(Seg) /\ Len(will) \in Nat /\ Inj(will)
      /\ ToSet(o) = {o[m] : m \in 1..Len(o)} /\ DOMAIN o = 1..Len(o)
  BY TopLists
<1>6. i \in 1..Len(will) /\ Running(Top) /\ key \in ToSet(was)
  BY <1>1 DEF FrameOK
<1>7. /\ Inj(o) /\ ToSet(o) = (ToSet(was) \cap ToSet(will)) \cup FirstOf(will, i - 1)
      /\ \A m \in 1..(i - 1) : m \in 1..Len(o) /\ o[m] = will[m]
  BY <1>6 DEF Running
<1>8. /\ Row(Top) = o
      /\ \A x : IsDone(Top, x) <=> x \in (ToSet(was) \ ToSet(will)) \cup FirstOf(will, i)
  BY <1>1 DEF Row, IsDone
<1>9. /\ FirstOf(will, i) = FirstOf(will, i - 1) \cup {key} /\ key \notin FirstOf(will, i - 1)
      /\ key \in ToSet(will) /\ key \in Seg
  BY <1>5, <1>6, FirstIs
<1>10. store[id].kids = Named(id, o)
  BY <1>1, <1>8 DEF Self
<1> HIDE DEF g, p, o2
<1>11. key \in ToSet(o)
  BY <1>6, <1>7, <1>9
<1> HIDE DEF was, will, i, o, id
<1>12. from \in 1..Len(o) /\ o[from] = key
  BY <1>5, <1>11, PositionIs
<1>13. i \in 1..from /\ i \in 1..Len(o)
  <2>1. ASSUME from < i PROVE FALSE
    <3>1. from \in 1..(i - 1)
      BY <1>1, <1>12, <2>1
    <3>2. will[from] = key /\ o[from] = will[from]
      BY <1>7, <1>12, <3>1
    <3>3. from \in DOMAIN will /\ i \in DOMAIN will /\ from # i
      BY <1>5, <1>6, <3>1
    <3> QED BY <1>5, <3>2, <3>3 DEF Inj
  <2> QED BY <1>5, <1>6, <1>12, <2>1
<1> HIDE DEF from
<1>14. /\ Spliced(o, from, i) = o2 /\ o2 \in Seq(Seg) /\ Len(o2) = Len(o)
       /\ ToSet(o2) = ToSet(o) /\ Inj(o2)
  <2>1. /\ Spliced(o, from, i) = InsertAt(RemoveAt(o, from), i, o[from])
        /\ Spliced(o, from, i) \in Seq(Seg) /\ Len(Spliced(o, from, i)) = Len(o)
        /\ ToSet(Spliced(o, from, i)) = ToSet(o) /\ Inj(Spliced(o, from, i))
    BY <1>5, <1>7, <1>12, <1>13, SplicedIs
  <2> QED BY <1>12, <2>1 DEF o2
<1>15. (\A m \in 1..(i - 1) : o2[m] = o[m]) /\ o2[i] = key /\ (from = i => o2 = o)
  <2>1. /\ \A m \in 1..(i - 1) : Spliced(o, from, i)[m] = o[m]
        /\ Spliced(o, from, i)[i] = o[from]
        /\ from = i => Spliced(o, from, i) = o
    BY <1>5, <1>7, <1>12, <1>13, SplicedFront
  <2> QED BY <1>12, <1>14, <2>1
<1>16. /\ g \in Frames /\ g.id = Top.id /\ g.old = Top.id /\ g.new = Top.id
       /\ g.at = "place" /\ g.i = i + 1 /\ g.order = o2 /\ Was(g) = was /\ Will(g) = will
       /\ g.id \in DOMAIN before /\ g.id \in DOMAIN tree /\ ~Changes(before[g.id], tree[g.id])
  <2>1. i + 1 \in Nat
    BY <1>1
  <2> QED BY <1>1, <1>3, <1>14, <2>1, Advanced DEF was, will
<1>17. FrameOK(g)
  <2>1. ASSUME NEW m \in 1..i PROVE m \in 1..Len(o2) /\ o2[m] = will[m]
    <3>1. CASE m = i
      BY <1>13, <1>14, <1>15, <3>1
    <3>2. CASE m # i
      <4>1. m \in 1..(i - 1)
        BY <1>1, <3>2
      <4> QED BY <1>7, <1>14, <1>15, <4>1
    <3> QED BY <3>1, <3>2
  <2>2. ToSet(o2) = (ToSet(was) \cap ToSet(will)) \cup FirstOf(will, i)
    BY <1>6, <1>7, <1>9, <1>14
  <2>3. g.i - 1 = i /\ g.i \in 1..(Len(will) + 1)
    BY <1>1, <1>5, <1>6, <1>16
  <2>4. Running(g)
    BY <1>14, <1>16, <2>1, <2>2, <2>3 DEF Running
  <2> QED BY <1>16, <2>3, <2>4 DEF FrameOK
<1>18. Row(g) = o2
  BY <1>16 DEF Row
<1>19. \A y : IsDone(g, y) <=> IsDone(Top, y)
  <2>1. g.i - 1 = i
    BY <1>1, <1>16
  <2> QED BY <1>8, <1>16, <2>1 DEF IsDone
<1>20. CASE from = i
  <2>1. Row(g) = Row(Top) /\ Top.at \notin {"node", "mods"} /\ g.at \notin {"node", "mods"}
    BY <1>1, <1>8, <1>15, <1>16, <1>18, <1>20
  <2> QED BY <1>2, <1>16, <1>17, <1>19, <1>20, <2>1, WentOn
<1>21. CASE from # i
  <2> DEFINE kids == store[id].kids
  <2>1. Position(kids, p.id) = from /\ p.id \in ToSet(kids) /\ Len(kids) = Len(o)
    <3>1. Position(Named(id, o), Append(id, key)) = from
      BY <1>1, <1>5, <1>7, <1>11, NamedPosition DEF from
    <3>2. Append(id, key) \in ToSet(Named(id, o)) /\ Len(Named(id, o)) = Len(o)
      BY <1>1, <1>5, <1>9, <1>11, NamedIs
    <3> QED BY <1>4, <1>10, <3>1, <3>2
  <2>2. Spliced(kids, from, i) = Named(id, o2)
    BY <1>1, <1>5, <1>7, <1>10, <1>12, <1>13, <1>14, NamedSpliced
  <2> HIDE DEF kids
  <2>3. Fits(p)
    BY <1>1, <1>4, <1>13, <2>1 DEF Fits, kids
  <2>4. /\ Linked(After(p)) /\ Amended(store, After(p), id, Named(id, o2))
        /\ \A j \in Id : j # id => Untouched(store, After(p), j)
    BY <1>1, <1>4, <1>13, <2>1, <2>2, MovedIs DEF Walking, kids
  <2>5. Self(After(p), g)
    BY <1>1, <1>16, <1>18, <2>4 DEF Self, Amended, id
  <2>6. Walked(After(p), [walk EXCEPT ![Len(walk)] = g])
    BY <1>16, <1>17, <1>19, <2>4, <2>5, Went DEF id
  <2>7. Survive(After(p))
    <3>1. ASSUME NEW j \in DOMAIN After(p), After(p)[j].new PROVE j \in DOMAIN store /\ store[j].new
      <4>1. j \in Id
        BY <2>4 DEF Linked, RecordOK
      <4> QED BY <1>1, <2>4, <3>1, <4>1 DEF Untouched, Amended
    <3> QED BY <3>1, SurviveKept DEF Walking
  <2> QED BY <1>2, <1>21, <2>3, <2>6, <2>7 DEF Answer
<1> QED BY <1>20, <1>21

LEMMA IndicesNext ==
    ASSUME NEW n \in Nat
    PROVE  /\ InsertAt(Indices(n), n + 1, n) = Indices(n + 1)
           /\ RemoveAt(Indices(n + 1), n + 1) = Indices(n)
<1> DEFINE s == Indices(n)
           s2 == Indices(n + 1)
           a == InsertAt(s, n + 1, n)
           r == RemoveAt(s2, n + 1)
<1>1. /\ s \in Seq(Seg) /\ Len(s) = n /\ \A m \in 1..n : s[m] = m - 1
  BY IndicesIs
<1>2. n + 1 \in Nat
  OBVIOUS
<1>3. /\ s2 \in Seq(Seg) /\ Len(s2) = n + 1 /\ \A m \in 1..(n + 1) : s2[m] = m - 1
  BY <1>2, IndicesIs
<1>4. n \in Seg
  BY DEF Seg
<1> HIDE DEF s, s2
<1>5. a = s2
  <2>1. n + 1 \in 1..(Len(s) + 1)
    BY <1>1
  <2>2. /\ a \in Seq(Seg) /\ Len(a) = Len(s) + 1 /\ a[n + 1] = n
        /\ \A m \in 1..((n + 1) - 1) : a[m] = s[m]
    BY <1>1, <1>4, <2>1, InsertedAt
  <2> HIDE DEF a
  <2>3. ASSUME NEW m \in 1..Len(a) PROVE a[m] = s2[m]
    <3>1. m \in 1..(n + 1)
      BY <1>1, <2>2
    <3>2. CASE m = n + 1
      BY <1>3, <2>2, <3>1, <3>2
    <3>3. CASE m # n + 1
      <4>1. m \in 1..n /\ m \in 1..((n + 1) - 1)
        BY <3>1, <3>3
      <4> QED BY <1>1, <1>3, <2>2, <3>1, <4>1
    <3> QED BY <3>2, <3>3
  <2>4. Len(a) = Len(s2)
    BY <1>1, <1>3, <2>2
  <2> QED BY <1>3, <2>2, <2>3, <2>4, SameSeq
<1>6. r = s
  <2>1. n + 1 \in 1..Len(s2)
    BY <1>3
  <2>2. /\ r \in Seq(Seg) /\ Len(r) = Len(s2) - 1
        /\ \A m \in 1..((n + 1) - 1) : r[m] = s2[m]
    BY <1>3, <2>1, RemovedAt
  <2> HIDE DEF r
  <2>3. Len(r) = n
    BY <1>3, <2>2
  <2>4. ASSUME NEW m \in 1..Len(r) PROVE r[m] = s[m]
    <3>1. m \in 1..n /\ m \in 1..((n + 1) - 1) /\ m \in 1..(n + 1)
      BY <2>3
    <3> QED BY <1>1, <1>3, <2>2, <3>1
  <2> QED BY <1>1, <2>2, <2>3, <2>4, SameSeq
<1> QED BY <1>5, <1>6 DEF a, r, s, s2

\* Children of both trees are diffed index for index; a longer tail is inserted.
LEMMA DiffEachAnswers ==
    ASSUME Walking, DiffEach, NEW q, q = inbox', NEW w, w = walk'
    PROVE  Answer(q, w)
<1> DEFINE was == Was(Top)
           will == Will(Top)
           i == Top.i
           k == i - 1
           o == Top.order
           a == Len(was)
           b == Len(will)
<1>1. /\ FrameOK(Top) /\ Top.at = "each" /\ i \in Nat /\ Old.kids = was /\ New.kids = will
      /\ Top.old = Top.id /\ Top.new = Top.id /\ o \in Seq(Seg)
  BY TopIs DEF DiffEach
<1>2. was \in Seq(Seg) /\ a \in Nat /\ will \in Seq(Seg) /\ b \in Nat
  BY TopLists
<1>3. i \in 1..(b + 1) /\ was = Indices(a) /\ will = Indices(b)
  BY <1>1 DEF FrameOK, Positional
<1>4. /\ \A x : x \in ToSet(was) <=> \E m \in 1..a : x = m - 1
      /\ \A x : x \in ToSet(will) <=> \E m \in 1..b : x = m - 1
      /\ \A m \in 1..a : was[m] = m - 1
      /\ \A m \in 1..b : will[m] = m - 1
  <2> HIDE DEF a, b
  <2>1. /\ \A x : x \in ToSet(Indices(a)) <=> \E m \in 1..a : x = m - 1
        /\ \A m \in 1..a : Indices(a)[m] = m - 1
    BY <1>2, IndicesIs
  <2>2. /\ \A x : x \in ToSet(Indices(b)) <=> \E m \in 1..b : x = m - 1
        /\ \A m \in 1..b : Indices(b)[m] = m - 1
    BY <1>2, IndicesIs
  <2> QED BY <1>3, <2>1, <2>2
<1>5. /\ Row(Top) = Indices(Larger(a, k))
      /\ \A x : IsDone(Top, x) <=> \E m \in 1..k : x = m - 1
  BY <1>1 DEF Row, IsDone
<1>6. k \in Nat /\ i = k + 1
  BY <1>3
<1>7. CASE i > Len(New.kids)
  <2> DEFINE g == [Top EXCEPT !.at = "tail", !.i = Len(Old.kids)]
  <2>1. w = [walk EXCEPT ![Len(walk)] = g] /\ q = <<>>
    BY <1>1, <1>7 DEF DiffEach, Continue
  <2>2. g = Stepped("tail", a, o) /\ "tail" \in Stages
    BY <1>1, TopIs DEF Stages, Frames, Stepped
  <2> HIDE DEF g
  <2>3. /\ g \in Frames /\ g.id = Top.id /\ g.old = Top.id /\ g.new = Top.id
        /\ g.at = "tail" /\ g.i = a /\ g.order = o /\ Was(g) = was /\ Will(g) = will
        /\ g.id \in DOMAIN before /\ g.id \in DOMAIN tree /\ ~Changes(before[g.id], tree[g.id])
    BY <1>1, <1>2, <2>2, Advanced
  <2>4. k = b
    BY <1>1, <1>2, <1>3, <1>6, <1>7
  <2>5. FrameOK(g)
    <3>1. Positional(g)
      BY <1>3, <2>3 DEF Positional
    <3>2. g.i <= Len(Was(g)) /\ g.i = Len(Was(g))
      BY <1>2, <2>3
    <3> QED BY <2>3, <3>1, <3>2 DEF FrameOK
  <2>6. Row(g) = Row(Top)
    BY <1>5, <2>3, <2>4 DEF Row
  <2>7. ASSUME NEW y \in ToSet(was) \cup ToSet(will) PROVE IsDone(g, y) <=> IsDone(Top, y)
    <3>1. IsDone(g, y) <=> ~\E m \in (b + 1)..a : y = m - 1
      BY <2>3 DEF IsDone
    <3>2. IsDone(Top, y) <=> \E m \in 1..b : y = m - 1
      BY <1>5, <2>4
    <3>3. PICK n \in Nat : y = n - 1 /\ (n \in 1..a \/ n \in 1..b)
      BY <1>4
    <3> HIDE DEF a, b
    <3>4. CASE n <= b
      <4>1. n \in 1..b /\ \A m \in (b + 1)..a : m - 1 # n - 1
        BY <1>2, <3>3, <3>4
      <4> QED BY <3>1, <3>2, <3>3, <4>1
    <3>5. CASE n > b
      <4>1. n \in (b + 1)..a /\ \A m \in 1..b : m - 1 # n - 1
        BY <1>2, <3>3, <3>5
      <4> QED BY <3>1, <3>2, <3>3, <4>1
    <3> QED BY <1>2, <3>4, <3>5
  <2>8. Top.at \notin {"node", "mods"} /\ g.at \notin {"node", "mods"}
    BY <1>1, <2>3
  <2> QED BY <2>1, <2>3, <2>5, <2>6, <2>7, <2>8, WentOn
<1>8. CASE ~(i > Len(New.kids)) /\ i > Len(Old.kids)
  <2> DEFINE g == [Top EXCEPT !.i = @ + 1]
             p == InsertChild(i)
  <2>1. w = [walk EXCEPT ![Len(walk)] = g] /\ q = <<p>>
    BY <1>1, <1>8 DEF DiffEach, Continue
  <2>2. g = Stepped("each", i + 1, o) /\ "each" \in Stages
    BY <1>1, TopIs DEF Stages, Frames, Stepped
  <2>3. i \in 1..b /\ k >= a
    BY <1>1, <1>2, <1>3, <1>8
  <2>4. will[i] = k
    BY <1>4, <2>3
  <2>5. p = [op |-> "insert", id |-> Top.id, index |-> i, name |-> Append(Top.id, k),
             node |-> Serialized(tree, Append(Top.id, k), Append(Top.id, k))]
    BY <1>1, <2>4 DEF InsertChild
  <2> HIDE DEF g, p
  <2>6. /\ g \in Frames /\ g.id = Top.id /\ g.old = Top.id /\ g.new = Top.id
        /\ g.at = "each" /\ g.i = i + 1 /\ g.order = o /\ Was(g) = was /\ Will(g) = will
        /\ g.id \in DOMAIN before /\ g.id \in DOMAIN tree /\ ~Changes(before[g.id], tree[g.id])
    <3>1. i + 1 \in Nat
      BY <1>1
    <3> QED BY <1>1, <2>2, <3>1, Advanced
  <2> HIDE DEF a, b, k
  <2>7. FrameOK(g)
    <3>1. Positional(g)
      BY <1>3, <2>6 DEF Positional, a, b
    <3>2. g.i \in 1..(Len(Will(g)) + 1)
      BY <1>2, <2>3, <2>6 DEF b
    <3> QED BY <2>6, <3>1, <3>2 DEF FrameOK
  <2>8. Row(Top) = Indices(k)
    <3>1. Larger(a, k) = k
      BY <1>2, <1>6, <2>3 DEF Larger
    <3> QED BY <1>5, <3>1
  <2>9. Row(g) = Indices(k + 1)
    <3>1. Larger(a, g.i - 1) = k + 1
      BY <1>2, <1>6, <2>3, <2>6 DEF Larger
    <3> QED BY <2>6, <3>1 DEF Row, a
  <2>10. /\ Row(Top) \in Seq(Seg) /\ Len(Row(Top)) = k /\ Row(g) = InsertAt(Row(Top), i, k)
    <3>1. Indices(k) \in Seq(Seg) /\ Len(Indices(k)) = k
      BY <1>6, IndicesIs
    <3>2. InsertAt(Indices(k), k + 1, k) = Indices(k + 1)
      BY <1>6, IndicesNext
    <3> QED BY <1>6, <2>8, <2>9, <3>1, <3>2
  <2>11. i \in 1..(Len(Row(Top)) + 1) /\ k \in ToSet(will) /\ k \notin ToSet(was)
    <3>1. i \in 1..(Len(Row(Top)) + 1)
      BY <1>6, <2>10
    <3>2. k \in ToSet(will)
      BY <1>4, <1>6, <2>3
    <3>3. k \notin ToSet(was)
      <4>1. \A m \in 1..a : m - 1 # k
        BY <1>2, <1>6, <2>3
      <4> QED BY <1>4, <4>1
    <3> QED BY <3>1, <3>2, <3>3
  <2>12. IsDone(g, k) /\ ~IsDone(Top, k) /\ \A y : y # k => (IsDone(g, y) <=> IsDone(Top, y))
    <3>1. \A x : IsDone(g, x) <=> \E m \in 1..i : x = m - 1
      <4>1. g.i - 1 = i
        BY <1>1, <2>6
      <4> QED BY <2>6, <4>1 DEF IsDone
    <3>2. i \in 1..i /\ i - 1 = k /\ \A m \in 1..k : m - 1 # k
      BY <1>6
    <3>3. \A m : m \in 1..i <=> m \in 1..k \/ m = i
      BY <1>6
    <3> QED BY <1>5, <3>1, <3>2, <3>3
  <2>13. g.at = Top.at /\ Top.at # "node" /\ Top.at # "mods"
    BY <1>1, <2>6
  <2>14. Answer(<<p>>, [walk EXCEPT ![Len(walk)] = g])
    BY <2>5, <2>6, <2>7, <2>10, <2>11, <2>12, <2>13, Placed
  <2> QED BY <2>1, <2>14
<1>9. CASE ~(i > Len(New.kids)) /\ ~(i > Len(Old.kids))
  <2> DEFINE g == [Top EXCEPT !.i = @ + 1]
             h == Frame(Append(Top.id, i - 1), Append(Top.old, Old.kids[i]), Append(Top.new, New.kids[i]))
  <2>1. w = Append([walk EXCEPT ![Len(walk)] = g], h) /\ q = <<>>
    BY <1>1, <1>9 DEF DiffEach, Call
  <2>2. g = Stepped("each", i + 1, o) /\ "each" \in Stages
    BY <1>1, TopIs DEF Stages, Frames, Stepped
  <2>3. i \in 1..b /\ i \in 1..a
    BY <1>1, <1>2, <1>3, <1>9
  <2>4. will[i] = k /\ was[i] = k
    BY <1>4, <2>3
  <2>5. h = Frame(Append(Top.id, k), Append(Top.id, k), Append(Top.id, k))
    BY <1>1, <2>4
  <2> HIDE DEF g, h
  <2>6. /\ g \in Frames /\ g.id = Top.id /\ g.old = Top.id /\ g.new = Top.id
        /\ g.at = "each" /\ g.i = i + 1 /\ g.order = o /\ Was(g) = was /\ Will(g) = will
        /\ g.id \in DOMAIN before /\ g.id \in DOMAIN tree /\ ~Changes(before[g.id], tree[g.id])
    <3>1. i + 1 \in Nat
      BY <1>1
    <3> QED BY <1>1, <2>2, <3>1, Advanced
  <2> HIDE DEF a, b, k
  <2>7. FrameOK(g)
    <3>1. Positional(g)
      BY <1>3, <2>6 DEF Positional, a, b
    <3>2. g.i \in 1..(Len(Will(g)) + 1)
      BY <1>2, <2>3, <2>6 DEF b
    <3> QED BY <2>6, <3>1, <3>2 DEF FrameOK
  <2>8. Row(g) = Row(Top)
    <3>1. Larger(a, k) = a /\ Larger(a, g.i - 1) = a
      BY <1>2, <1>6, <2>3, <2>6 DEF Larger
    <3> QED BY <1>5, <2>6, <3>1 DEF Row, a
  <2>9. k \in ToSet(will) /\ k \in ToSet(was)
    BY <1>4, <1>6, <2>3
  <2>10. ~IsDone(Top, k) /\ \A y : y # k => (IsDone(g, y) <=> IsDone(Top, y))
    <3>1. \A x : IsDone(g, x) <=> \E m \in 1..i : x = m - 1
      <4>1. g.i - 1 = i
        BY <1>1, <2>6
      <4> QED BY <2>6, <4>1 DEF IsDone
    <3>2. i - 1 = k /\ \A m \in 1..k : m - 1 # k
      BY <1>6
    <3>3. \A m : m \in 1..i <=> m \in 1..k \/ m = i
      BY <1>6
    <3> QED BY <1>5, <3>1, <3>2, <3>3
  <2>11. Called(g, Append(Top.id, k))
    <3>1. g.i > 1 /\ g.i - 2 = k
      BY <1>6, <2>3, <2>6
    <3> QED BY <2>6, <3>1 DEF Called
  <2>12. Top.at \notin {"node", "mods"} /\ g.at \notin {"node", "mods"}
    BY <1>1, <2>6
  <2>13. Answer(<<>>, Append([walk EXCEPT ![Len(walk)] = g], h))
    BY <2>5, <2>6, <2>7, <2>8, <2>9, <2>10, <2>11, <2>12, Enters
  <2> QED BY <2>1, <2>13
<1> QED BY <1>7, <1>8, <1>9

\* What is left of the old list goes, the last child first.
LEMMA DropTailAnswers ==
    ASSUME Walking, DropTail, NEW q, q = inbox', NEW w, w = walk'
    PROVE  Answer(q, w)
<1> DEFINE was == Was(Top)
           will == Will(Top)
           i == Top.i
           k == i - 1
           o == Top.order
           a == Len(was)
           b == Len(will)
<1>1. /\ FrameOK(Top) /\ Top.at = "tail" /\ i \in Nat /\ New.kids = will /\ o \in Seq(Seg)
  BY TopIs DEF DropTail
<1>2. was \in Seq(Seg) /\ a \in Nat /\ will \in Seq(Seg) /\ b \in Nat
  BY TopLists
<1>3. /\ i <= a /\ (i = a \/ i >= b) /\ Positional(Top)
      /\ was = Indices(a) /\ will = Indices(b)
  BY <1>1 DEF FrameOK, Positional
<1>4. \A x : x \in ToSet(will) <=> \E m \in 1..b : x = m - 1
  <2> HIDE DEF b
  <2>1. \A x : x \in ToSet(Indices(b)) <=> \E m \in 1..b : x = m - 1
    BY <1>2, IndicesIs
  <2> QED BY <1>3, <2>1
<1>5. /\ Row(Top) = Indices(Larger(i, b))
      /\ \A x : IsDone(Top, x) <=> ~\E m \in (b + 1)..i : x = m - 1
  BY <1>1 DEF Row, IsDone
<1>6. CASE i > Len(New.kids)
  <2> DEFINE g == [Top EXCEPT !.i = @ - 1]
             p == [op |-> "remove", id |-> Append(Top.id, i - 1)]
  <2>1. w = [walk EXCEPT ![Len(walk)] = g] /\ q = <<p>>
    BY <1>1, <1>6 DEF DropTail, Continue
  <2>2. g = Stepped("tail", k, o) /\ "tail" \in Stages
    BY <1>1, TopIs DEF Stages, Frames, Stepped
  <2> HIDE DEF g
  <2>3. i > b /\ k \in Nat /\ i = k + 1 /\ k >= b /\ k <= a
    BY <1>1, <1>2, <1>3, <1>6
  <2>4. /\ g \in Frames /\ g.id = Top.id /\ g.old = Top.id /\ g.new = Top.id
        /\ g.at = "tail" /\ g.i = k /\ g.order = o /\ Was(g) = was /\ Will(g) = will
        /\ g.id \in DOMAIN before /\ g.id \in DOMAIN tree /\ ~Changes(before[g.id], tree[g.id])
    BY <1>1, <2>2, <2>3, Advanced
  <2> HIDE DEF a, b, k
  <2>5. FrameOK(g)
    <3>1. Positional(g)
      BY <1>3, <2>4 DEF Positional, a, b
    <3>2. g.i <= Len(Was(g)) /\ g.i >= Len(Will(g))
      BY <2>3, <2>4 DEF a, b
    <3> QED BY <2>4, <3>1, <3>2 DEF FrameOK
  <2>6. Row(Top) = Indices(k + 1) /\ Row(g) = Indices(k)
    <3>1. Larger(i, b) = k + 1 /\ Larger(k, b) = k
      BY <1>2, <2>3 DEF Larger
    <3> QED BY <1>5, <2>4, <3>1 DEF Row, b
  <2>7. /\ Row(Top) \in Seq(Seg) /\ i \in 1..Len(Row(Top)) /\ Row(Top)[i] = k
        /\ Row(g) = RemoveAt(Row(Top), i)
    <3>0. k + 1 \in Nat /\ k + 1 \in 1..(k + 1)
      BY <2>3
    <3>1. /\ Indices(k + 1) \in Seq(Seg) /\ Len(Indices(k + 1)) = k + 1
          /\ \A m \in 1..(k + 1) : Indices(k + 1)[m] = m - 1
      BY <3>0, IndicesIs
    <3>2. RemoveAt(Indices(k + 1), k + 1) = Indices(k)
      BY <2>3, IndicesNext
    <3>3. Indices(k + 1)[k + 1] = k
      BY <2>3, <3>0, <3>1
    <3> QED BY <2>3, <2>6, <3>0, <3>1, <3>2, <3>3
  <2>8. k \notin ToSet(will)
    <3>1. \A m \in 1..b : m - 1 # k
      BY <1>2, <2>3
    <3> QED BY <1>4, <3>1
  <2>9. IsDone(g, k) /\ \A y : y # k => (IsDone(g, y) <=> IsDone(Top, y))
    <3>1. \A x : IsDone(g, x) <=> ~\E m \in (b + 1)..k : x = m - 1
      BY <2>4 DEF IsDone, b
    <3>2. i - 1 = k /\ \A m \in (b + 1)..k : m - 1 # k
      BY <1>2, <2>3
    <3>3. \A m : m \in (b + 1)..i <=> m \in (b + 1)..k \/ m = i
      BY <1>2, <2>3
    <3> QED BY <1>5, <3>1, <3>2, <3>3
  <2>10. p = [op |-> "remove", id |-> Append(Top.id, Row(Top)[i])]
    BY <2>7 DEF k
  <2> HIDE DEF p
  <2>11. g.at = Top.at /\ Top.at # "node" /\ Top.at # "mods"
    BY <1>1, <2>4
  <2>12. Answer(<<p>>, [walk EXCEPT ![Len(walk)] = g])
    BY <2>4, <2>5, <2>7, <2>8, <2>9, <2>10, <2>11, Dropped
  <2> QED BY <2>1, <2>12
<1>7. CASE ~(i > Len(New.kids))
  <2>1. w = Front(walk) /\ q = <<>>
    BY <1>1, <1>7 DEF DropTail, Return
  <2>2. i <= b
    BY <1>1, <1>2, <1>7
  <2> HIDE DEF a, b
  <2>3. Row(Top) = Will(Top)
    <3>1. Larger(i, b) = b
      BY <1>1, <1>2, <2>2 DEF Larger
    <3> QED BY <1>3, <1>5, <3>1
  <2>4. \A y : IsDone(Top, y)
    <3>1. (b + 1)..i = {}
      BY <1>1, <1>2, <2>2
    <3> QED BY <1>5, <3>1
  <2>5. Top.at \notin {"node", "mods"}
    BY <1>1
  <2> QED BY <2>1, <2>3, <2>4, <2>5, Finished
<1> QED BY <1>6, <1>7

-----------------------------------------------------------------------------
(* The host follows the walk                                               *)

Shown == IF inbox = <<>> THEN store ELSE After(Head(inbox))

HostInv ==
    /\ tree \in TreeRoots
    /\ before = None \/ before \in TreeRoots
    /\ walk # <<>> => before # None
    /\ ~broken
    /\ Linked(store)
    /\ inbox = <<>> \/ \E p : inbox = <<p>> /\ Fits(p)
    /\ Walked(Shown, walk)
    /\ Survive(Shown)

LEMMA FitsIs ==
    ASSUME Linked(store), TreeOK(tree), NEW p, Fits(p)
    PROVE  Resolves(p) /\ Linked(After(p))
<1>1. CASE p.op = "mount"
  <2>1. p.node = Serialized(tree, Root, Root)
    BY <1>1 DEF Fits
  <2> QED BY <1>1, <2>1, MountedIs DEF Resolves
<1>2. CASE p.op = "insert"
  <2>1. /\ p.id \in DOMAIN store /\ \E x \in Seg : p.name = Append(p.id, x)
        /\ p.name \notin DOMAIN store /\ p.name \in DOMAIN tree
        /\ p.node = Serialized(tree, p.name, p.name)
        /\ p.index \in 1..(Len(store[p.id].kids) + 1)
    BY <1>2 DEF Fits
  <2> QED BY <1>2, <2>1, InsertedIs DEF Resolves
<1>3. CASE p.op = "remove"
  <2>1. p.id \in DOMAIN store /\ p.id # Root
    BY <1>3 DEF Fits
  <2> QED BY <1>3, <2>1, RemovedIs DEF Resolves
<1>4. CASE p.op = "move"
  <2>1. /\ p.parent \in DOMAIN store /\ p.id \in ToSet(store[p.parent].kids)
        /\ p.index \in 1..Len(store[p.parent].kids)
    BY <1>4 DEF Fits
  <2>2. p.id \in DOMAIN store
    BY <2>1 DEF Linked, RecordOK
  <2> QED BY <1>4, <2>1, <2>2, MovedIs DEF Resolves
<1>5. CASE p.op = "replace"
  <2>1. /\ p.id \in DOMAIN store /\ p.id \in DOMAIN tree
        /\ p.node = Serialized(tree, p.id, p.id)
    BY <1>5 DEF Fits
  <2> QED BY <1>5, <2>1, ReplacedIs DEF Resolves
<1>6. CASE p.op \in {"setText", "setArgs", "setModifiers"}
  <2>1. p.id \in DOMAIN store
    BY <1>6 DEF Fits
  <2> QED BY <1>6, <2>1, SetIs DEF Resolves
<1>7. p.op \in {"mount", "insert", "remove", "move", "replace", "setText", "setArgs", "setModifiers"}
  BY DEF Fits
<1> QED BY <1>1, <1>2, <1>3, <1>4, <1>5, <1>6, <1>7

\* What the walk is at depends on the trees alone.
LEMMA WalkedNext ==
    ASSUME UNCHANGED <<tree, before>>, NEW s, NEW w, Walked(s, w), Survive(s),
           s = Shown', w = walk'
    PROVE  Walked(Shown, walk)' /\ Survive(Shown)'
<1>1. \A f, x : IsDone(f, x)' <=> IsDone(f, x)
  BY DEF IsDone, Was, Will
<1>2. \A u, j : Agrees(u, j, tree)' <=> Agrees(u, j, tree)
  BY DEF Agrees
<1>3. \A u, j : Agrees(u, j, before)' <=> Agrees(u, j, before)
  BY DEF Agrees
<1>4. \A u, f, j : Sided(u, f, j)' <=> Sided(u, f, j)
  BY <1>1, <1>2, <1>3 DEF Sided, Agrees
<1>5. \A u, f : Self(u, f)' <=> Self(u, f)
  BY DEF Self, Row, Was, Will
<1>6. \A f : FrameOK(f)' <=> FrameOK(f)
  BY DEF FrameOK, Was, Will, Positional, Running
<1>7. Nested(walk)' <=> Nested(w)
  BY DEF Nested, Called, Will
<1>8. \A k : Level(Shown, walk, k)' <=> Level(s, w, k)
  BY <1>4, <1>5, <1>6 DEF Level, Mine
<1>9. Walked(Shown, walk)'
  BY <1>7, <1>8, <1>2 DEF Walked
<1>10. Survive(Shown)'
  BY DEF Survive, Same
<1> QED BY <1>9, <1>10

\* The records of one store, none of them marked as new.
AllOld(s, s2) ==
    /\ DOMAIN s2 = DOMAIN s
    /\ \A j \in DOMAIN s :
        /\ s2[j].kind = s[j].kind /\ s2[j].args = s[j].args
        /\ s2[j].mods = s[j].mods /\ s2[j].kids = s[j].kids
        /\ s2[j].new = FALSE

LEMMA Aged ==
    ASSUME NEW s, Linked(s), NEW s2, s2 = [i \in DOMAIN s |-> [s[i] EXCEPT !.new = FALSE]]
    PROVE  Linked(s2) /\ AllOld(s, s2)
<1>1. DOMAIN s2 = DOMAIN s
  OBVIOUS
<1>2. ASSUME NEW j \in DOMAIN s
      PROVE  /\ s2[j].kind = s[j].kind /\ s2[j].args = s[j].args
             /\ s2[j].mods = s[j].mods /\ s2[j].kids = s[j].kids
             /\ s2[j].new = FALSE /\ Shaped(s2[j])
  <2> DEFINE r == s[j]
  <2>1. r = [kind |-> r.kind, args |-> r.args, mods |-> r.mods, kids |-> r.kids, new |-> r.new]
    BY DEF Linked, RecordOK, Shaped
  <2>2. s2[j] = [r EXCEPT !.new = FALSE]
    OBVIOUS
  <2> HIDE DEF r
  <2>3. s2[j] = [kind |-> r.kind, args |-> r.args, mods |-> r.mods, kids |-> r.kids, new |-> FALSE]
    BY <2>1, <2>2
  <2> QED BY <2>3 DEF Shaped, r
<1>3. Linked(s2)
  <2> SUFFICES ASSUME NEW j \in DOMAIN s2 PROVE RecordOK(s2, j, {})
    BY DEF Linked
  <2>1. j \in DOMAIN s /\ RecordOK(s, j, {})
    BY <1>1 DEF Linked
  <2>2. Shaped(s2[j]) /\ s2[j].kids = s[j].kids
    BY <1>2, <2>1
  <2>3. Descends(s2, j)
    BY <1>1, <1>2, <2>1 DEF RecordOK, Descends
  <2> QED BY <1>1, <2>1, <2>2, <2>3 DEF RecordOK
<1>4. AllOld(s, s2)
  BY <1>1, <1>2 DEF AllOld
<1> QED BY <1>3, <1>4

LEMMA HostInit ==
    Init => HostInv
<1> SUFFICES ASSUME Init PROVE HostInv
  OBVIOUS
<1> DEFINE p == [op |-> "mount", node |-> Serialized(tree, Root, Root)]
<1>1. /\ tree \in TreeRoots /\ before = None /\ walk = <<>> /\ inbox = <<p>>
      /\ store = << >> /\ ~broken
  BY DEF Init
<1>2. p.op = "mount" /\ p.node = Serialized(tree, Root, Root)
  OBVIOUS
<1> HIDE DEF p
<1>3. Fits(p)
  BY <1>2 DEF Fits
<1>4. \A j \in Id : Grafted(After(p), tree, j)
  BY <1>1, <1>2, TreesAssumption, MountedIs
<1>5. Shown = After(p)
  BY <1>1 DEF Shown
<1>6. Walked(Shown, walk)
  <2>1. \A j \in Id : Agrees(Shown, j, tree)
    BY <1>4, <1>5, GraftAgrees
  <2> QED BY <1>1, <2>1 DEF Walked
<1>7. Linked(store)
  BY <1>1 DEF Linked
<1>8. Survive(Shown)
  BY <1>1 DEF Survive
<1> QED BY <1>1, <1>3, <1>6, <1>7, <1>8 DEF HostInv

\* A render: the walk begins at the root, where the host shows the tree before.
LEMMA RenderKeeps ==
    ASSUME HostInv, Render
    PROVE  HostInv'
<1> DEFINE h == Frame(Root, Root, Root)
<1>1. /\ walk = <<>> /\ inbox = <<>> /\ tree' \in TreeRoots /\ before' = tree /\ walk' = <<h>>
      /\ inbox' = <<>> /\ broken' = broken
      /\ store' = [i \in DOMAIN store |-> [store[i] EXCEPT !.new = FALSE]]
  BY DEF Render, Settled
<1>2. /\ h.id = Root /\ h.old = Root /\ h.new = Root /\ h.at = "node" /\ h.i = 1 /\ h.order = <<>>
      /\ h = [id |-> Root, old |-> Root, new |-> Root, at |-> "node", i |-> 1, order |-> <<>>]
  BY DEF Frame
<1> HIDE DEF h
<1>3. /\ tree \in TreeRoots /\ TreeOK(tree) /\ TreeOK(tree') /\ before' # None
  BY <1>1, TreesAssumption DEF HostInv
<1>4. /\ Linked(store') /\ DOMAIN store' = DOMAIN store
      /\ \A j \in DOMAIN store : /\ store'[j].kind = store[j].kind /\ store'[j].args = store[j].args
                                 /\ store'[j].mods = store[j].mods /\ store'[j].kids = store[j].kids
                                 /\ store'[j].new = FALSE
  <2>1. PICK s, s2 : s = store /\ s2 = store'
    OBVIOUS
  <2>2. Linked(s)
    BY <2>1 DEF HostInv
  <2>3. s2 = [i \in DOMAIN s |-> [s[i] EXCEPT !.new = FALSE]]
    BY <1>1, <2>1
  <2>4. Linked(s2) /\ AllOld(s, s2)
    BY <2>2, <2>3, Aged
  <2>5. Linked(store')
    BY <2>1, <2>4
  <2>6. AllOld(store, store')
    BY <2>1, <2>4
  <2> QED BY <2>5, <2>6 DEF AllOld
<1>5. Shown = store /\ Shown' = store'
  BY <1>1 DEF Shown
<1>6. \A j \in Id : Agrees(store, j, tree)
  BY <1>1, <1>5 DEF HostInv, Walked
<1>7. \A j \in Id : Agrees(store', j, before')
  BY <1>1, <1>4, <1>6 DEF Agrees
<1>8. Root \in Id /\ Root \in DOMAIN tree /\ Root \in DOMAIN tree' /\ h \in Frames
  <2>1. Root \in Id
    BY DEF Root, Id
  <2>2. <<>> \in Seq(Seg) /\ "node" \in Stages /\ 1 \in Nat
    BY DEF Stages
  <2>3. h \in Frames
    BY <1>2, <2>1, <2>2 DEF Frames
  <2> QED BY <1>3, <2>1, <2>3, TreeIs
<1>9. FrameOK(h)'
  BY <1>1, <1>2, <1>8 DEF FrameOK
<1>10. /\ Root \in DOMAIN store' /\ store'[Root].kind = before'[Root].kind
       /\ store'[Root].args = before'[Root].args /\ store'[Root].mods = before'[Root].mods
       /\ store'[Root].kids = Named(Root, before'[Root].kids)
  BY <1>1, <1>7, <1>8 DEF Agrees
<1>11. \A u : u = store' => Self(u, h)'
  BY <1>2, <1>10 DEF Self, Row, Was
<1>12. \A u, j : u = store' /\ j \in Id => Sided(u, h, j)'
  BY <1>2, <1>7 DEF Sided, IsDone
<1>13. Walked(Shown, walk)'
  <2>1. walk' \in Seq(Frames) /\ walk' # <<>> /\ Len(walk') = 1 /\ walk'[1] = h
    BY <1>1, <1>8
  <2>2. \A k \in 1..Len(walk') : k = 1
    BY <2>1
  <2>3. Nested(walk)'
    <3>1. \A m \in 1..(Len(walk') - 1) : FALSE
      BY <2>1
    <3>2. \A k, l \in 1..Len(walk') : ~(k < l)
      BY <2>1
    <3> QED BY <1>2, <2>1, <3>1, <3>2 DEF Nested
  <2>4. \A k : k = 1 => Level(Shown, walk, k)'
    BY <1>5, <1>9, <1>11, <1>12, <2>1 DEF Level
  <2> QED BY <2>1, <2>2, <2>3, <2>4 DEF Walked
<1>14. Survive(Shown)'
  BY <1>4, <1>5 DEF Survive
<1> QED BY <1>1, <1>3, <1>4, <1>13, <1>14 DEF HostInv

LEMMA DiffKeeps ==
    ASSUME ListsStay, HostInv, Diff
    PROVE  HostInv'
<1>1. /\ walk # <<>> /\ inbox = <<>> /\ UNCHANGED <<tree, before, store, broken>>
  BY DEF Diff
<1>2. Shown = store
  BY <1>1 DEF Shown
<1>3. Walking
  BY <1>1, <1>2, TreesAssumption DEF HostInv, Walking
<1>4. PICK q, w : q = inbox' /\ w = walk'
  OBVIOUS
<1>5. Answer(q, w)
  <2>1. DiffNode \/ DiffModifiers \/ DropGone \/ PlaceKey \/ MoveKey \/ DiffEach \/ DropTail
    BY DEF Diff
  <2> QED BY <1>3, <1>4, <2>1, DiffNodeAnswers, DiffModifiersAnswers, DropGoneAnswers,
             PlaceKeyAnswers, MoveKeyAnswers, DiffEachAnswers, DropTailAnswers
<1>6. \A p : Fits(p)' <=> Fits(p)
  BY <1>1 DEF Fits
<1>7. \A p : After(p)' = After(p)
  BY <1>1 DEF After, Inserted, Unlinked, Removed, Below, Moved, Replaced
<1>8. /\ tree' \in TreeRoots /\ (before' = None \/ before' \in TreeRoots) /\ before' # None
      /\ ~broken' /\ Linked(store')
  BY <1>1 DEF HostInv
<1>9. CASE q = <<>> /\ Walked(store, w)
  <2>1. PICK s : s = store
    OBVIOUS
  <2>2. s = Shown' /\ inbox' = <<>>
    BY <1>1, <1>4, <1>9, <2>1 DEF Shown
  <2>3. Walked(s, w) /\ Survive(s)
    BY <1>2, <1>9, <2>1 DEF HostInv
  <2>4. Walked(Shown, walk)' /\ Survive(Shown)'
    BY <1>1, <1>4, <2>2, <2>3, WalkedNext
  <2> QED BY <1>8, <2>2, <2>4 DEF HostInv
<1>10. CASE \E p : q = <<p>> /\ Fits(p) /\ Walked(After(p), w) /\ Survive(After(p))
  <2>1. PICK p : q = <<p>> /\ Fits(p) /\ Walked(After(p), w) /\ Survive(After(p))
    BY <1>10
  <2>2. PICK s : s = After(p)
    OBVIOUS
  <2>3. inbox' = <<p>> /\ Fits(p)'
    BY <1>4, <1>6, <2>1
  <2>4. s = Shown'
    BY <1>7, <2>2, <2>3 DEF Shown
  <2>5. Walked(Shown, walk)' /\ Survive(Shown)'
    BY <1>1, <1>4, <2>1, <2>2, <2>4, WalkedNext
  <2> QED BY <1>8, <2>3, <2>5 DEF HostInv
<1> QED BY <1>5, <1>9, <1>10 DEF Answer

LEMMA ApplyKeeps ==
    ASSUME HostInv, Apply
    PROVE  HostInv'
<1>1. inbox # <<>> /\ inbox' = <<>> /\ UNCHANGED <<tree, before>>
  BY DEF Apply
<1>2. PICK p : inbox = <<p>> /\ Fits(p)
  BY <1>1 DEF HostInv
<1>3. Resolves(p) /\ Linked(After(p)) /\ Head(inbox) = p
  BY <1>2, FitsIs, TreesAssumption DEF HostInv
<1>4. store' = After(p) /\ UNCHANGED <<walk, broken>>
  BY <1>3 DEF Apply
<1>5. Shown = After(p) /\ Shown' = After(p)
  BY <1>1, <1>3, <1>4 DEF Shown
<1>6. Walked(Shown, walk)' /\ Survive(Shown)'
  <2>1. PICK s, w : s = Shown /\ w = walk
    OBVIOUS
  <2>2. s = Shown' /\ w = walk' /\ Walked(s, w) /\ Survive(s)
    BY <1>4, <1>5, <2>1 DEF HostInv
  <2> QED BY <1>1, <2>2, WalkedNext
<1> QED BY <1>1, <1>3, <1>4, <1>6 DEF HostInv

\* In lists that stay keyed or stay unkeyed the host knows every patch's node,
\* and with the patches it has taken it shows each node as the walk left it.
THEOREM HostFollows ==
    ASSUME ListsStay
    PROVE  Spec => []HostInv
<1>1. Init => HostInv
  BY HostInit
<1>2. HostInv /\ [Next]_vars => HostInv'
  <2> SUFFICES ASSUME HostInv, [Next]_vars PROVE HostInv'
    OBVIOUS
  <2>1. CASE Render
    BY <2>1, RenderKeeps
  <2>2. CASE Diff
    BY <2>2, DiffKeeps
  <2>3. CASE Apply
    BY <2>3, ApplyKeeps
  <2>4. CASE UNCHANGED vars
    <3>1. /\ UNCHANGED <<tree, before, walk, inbox, store, broken>>
      BY <2>4 DEF vars
    <3>2. \A p : After(p)' = After(p)
      BY <3>1 DEF After, Inserted, Unlinked, Removed, Below, Moved, Replaced
    <3>3. PICK s, w : s = Shown /\ w = walk
      OBVIOUS
    <3>4. s = Shown'
      BY <3>1, <3>2, <3>3 DEF Shown
    <3>5. w = walk' /\ Walked(s, w) /\ Survive(s)
      BY <3>1, <3>3 DEF HostInv
    <3>6. Walked(Shown, walk)' /\ Survive(Shown)'
      BY <3>1, <3>4, <3>5, WalkedNext
    <3>7. \A p : Fits(p)' <=> Fits(p)
      BY <3>1 DEF Fits
    <3> QED BY <3>1, <3>6, <3>7 DEF HostInv
  <2> QED BY <2>1, <2>2, <2>3, <2>4 DEF Next
<1> QED BY <1>1, <1>2, PTL DEF Spec

LEMMA SettledShows ==
    ASSUME HostInv, Settled
    PROVE  TreeOK(tree) /\ Linked(store) /\ (\A j \in Id : Agrees(store, j, tree)) /\ Survive(store)
<1>1. walk = <<>> /\ Shown = store
  BY DEF Settled, Shown
<1> QED BY <1>1, TreesAssumption DEF HostInv, Walked

\* The patches of a diff, applied, leave the host with the nodes, the order and
\* the ids of the new tree.
THEOREM PatchesReach ==
    ASSUME ListsStay
    PROVE  Spec => []PatchesReachTree
<1>1. HostInv => PatchesReachTree
  <2> SUFFICES ASSUME HostInv, Settled PROVE ~broken /\ Content(store) = Content(Serialized(tree, Root, Root))
    BY DEF PatchesReachTree
  <2> DEFINE built == Serialized(tree, Root, Root)
  <2>1. TreeOK(tree) /\ Linked(store) /\ \A j \in Id : Agrees(store, j, tree)
    BY SettledShows
  <2>2. Root \in DOMAIN tree /\ \A j \in DOMAIN tree : j \in Id /\ IsPrefix(Root, j)
    BY <2>1, TreeIs, PrefixSelf
  <2>3. DOMAIN built = DOMAIN tree /\ \A j \in DOMAIN tree : built[j] = Record(tree, j)
    BY <2>1, <2>2, SerializedIs
  <2> HIDE DEF built
  <2>4. DOMAIN store = DOMAIN tree
    <3>1. \A j \in DOMAIN store : j \in Id
      BY <2>1 DEF Linked, RecordOK
    <3> QED BY <2>1, <2>2, <3>1 DEF Agrees
  <2>5. \A j \in DOMAIN tree : /\ store[j].kind = built[j].kind /\ store[j].args = built[j].args
                               /\ store[j].mods = built[j].mods /\ store[j].kids = built[j].kids
    BY <2>1, <2>2, <2>3 DEF Agrees, Record
  <2>6. Content(store) = Content(built)
    BY <2>3, <2>4, <2>5 DEF Content
  <2> QED BY <2>6 DEF HostInv, built
<1>2. Spec => []HostInv
  BY HostFollows
<1> QED BY <1>1, <1>2, PTL

\* A node of both trees keeps its element, whatever happens around it.
THEOREM ElementsKept ==
    ASSUME ListsStay
    PROVE  Spec => []ElementsSurvive
<1>1. HostInv => ElementsSurvive
  <2> SUFFICES ASSUME HostInv, Settled, before # None, NEW id \in DOMAIN before \cap DOMAIN tree, Same(id)
               PROVE  ~store[id].new
    BY DEF ElementsSurvive
  <2>1. TreeOK(tree) /\ Survive(store) /\ \A j \in Id : Agrees(store, j, tree)
    BY SettledShows
  <2>2. id \in Id
    BY <2>1, TreeIs
  <2>3. id \in DOMAIN store
    BY <2>1, <2>2 DEF Agrees
  <2> QED BY <2>1, <2>3 DEF Survive
<1>2. Spec => []HostInv
  BY HostFollows
<1> QED BY <1>1, <1>2, PTL
-----------------------------------------------------------------------------
(* The elements of the web host                                            *)

Elements == [name : Id, fades : BOOLEAN, leaving : BOOLEAN, shown : BOOLEAN]

\* Each child has one element that is not leaving.
Stands(c, kids) ==
    /\ c \in Seq(Elements)
    /\ \A m \in 1..Len(c) : ~c[m].leaving => c[m].name \in ToSet(kids)
    /\ \A x \in ToSet(kids) : \E m \in 1..Len(c) : Is(x, c[m])
    /\ \A m, n \in 1..Len(c) :
          ~c[m].leaving /\ ~c[n].leaving /\ c[m].name = c[n].name => m = n

InOrder(c, kids) ==
    \A m, n \in 1..Len(c) :
        ~c[m].leaving /\ ~c[n].leaving /\ m < n
          => Position(kids, c[m].name) < Position(kids, c[n].name)

LEMMA ElementIs ==
    ASSUME NEW id \in Id, NEW node
    PROVE  Element(id, node) \in Elements /\ Element(id, node).name = id /\ ~Element(id, node).leaving
BY DEF Element, Elements

LEMMA AtIs ==
    ASSUME NEW c, NEW kids, Stands(c, kids), NEW x \in ToSet(kids)
    PROVE  /\ At(c, x) \in 1..Len(c) /\ c[At(c, x)].name = x /\ ~c[At(c, x)].leaving
           /\ c[At(c, x)] \in Elements
<1>1. c \in Seq(Elements) /\ DOMAIN c = 1..Len(c)
  BY DEF Stands
<1>2. \E m \in DOMAIN c : Is(x, c[m])
  BY <1>1 DEF Stands
<1>3. At(c, x) \in DOMAIN c /\ Is(x, c[At(c, x)])
  BY <1>2 DEF At
<1> QED BY <1>1, <1>3 DEF Is

LEMMA Pigeons ==
    ASSUME NEW m \in Nat, NEW k \in Nat, k < m, NEW g \in [1..m -> 1..k]
    PROVE  \E y, z \in 1..m : y # z /\ g[y] = g[z]
<1> DEFINE S == 1..m  T == 1..k
<1>1. IsFiniteSet(S) /\ IsFiniteSet(T) /\ Cardinality(S) = m /\ Cardinality(T) = k
  BY FS_Interval
<1>2. Cardinality(T) < Cardinality(S) /\ g \in [S -> T]
  BY <1>1
<1> HIDE DEF S, T
<1>3. \E y, z \in S : y # z /\ g[y] = g[z]
  BY <1>1, <1>2, FS_PigeonHole
<1> QED BY <1>3 DEF S

\* A list counted through in order, none of it left out, is counted from one.
Counting(f, n, k) ==
    /\ n \in Nat /\ k \in Nat /\ f \in [1..n -> 1..k]
    /\ \A a, b \in 1..n : a < b => f[a] < f[b]
    /\ \A y \in 1..k : \E a \in 1..n : f[a] = y

LEMMA Counted ==
    ASSUME NEW f, NEW n, NEW k, Counting(f, n, k)
    PROVE  n = k /\ \A a \in 1..n : f[a] = a
<1>0. /\ n \in Nat /\ k \in Nat /\ f \in [1..n -> 1..k]
      /\ \A a, b \in 1..n : a < b => f[a] < f[b]
      /\ \A y \in 1..k : \E a \in 1..n : f[a] = y
  BY DEF Counting
<1>1. \A a \in 1..n : a \in Nat /\ f[a] \in 1..k /\ f[a] \in Nat /\ f[a] >= 1
  BY <1>0
<1>2. ASSUME NEW a \in 1..n PROVE ~(f[a] < a)
  <2> SUFFICES ASSUME f[a] < a PROVE FALSE
    OBVIOUS
  <2> DEFINE g == [b \in 1..a |-> f[b]]
  <2>1. ASSUME NEW b \in 1..a PROVE b \in 1..n /\ g[b] = f[b] /\ g[b] \in 1..f[a]
    <3>1. b \in 1..n /\ (b < a \/ b = a) /\ g[b] = f[b]
      BY <1>0
    <3> HIDE DEF g
    <3>2. CASE b < a
      <4>1. f[b] < f[a]
        BY <1>0, <3>1, <3>2
      <4> QED BY <1>1, <3>1, <4>1
    <3>3. CASE b = a
      BY <1>1, <3>1, <3>3
    <3> QED BY <3>1, <3>2, <3>3
  <2>2. g \in [1..a -> 1..f[a]]
    BY <2>1
  <2> HIDE DEF g
  <2>3. PICK b, d \in 1..a : b # d /\ g[b] = g[d]
    BY <1>1, <2>2, Pigeons
  <2>4. b < d \/ d < b
    BY <2>3
  <2>5. f[b] < f[d] \/ f[d] < f[b]
    BY <1>0, <2>1, <2>4
  <2>6. f[b] \in Nat /\ f[d] \in Nat /\ f[b] = f[d]
    BY <1>1, <2>1, <2>3
  <2> QED BY <2>5, <2>6
<1>3. ASSUME NEW a \in 1..n PROVE ~(a < f[a])
  <2> SUFFICES ASSUME a < f[a] PROVE FALSE
    OBVIOUS
  <2> DEFINE g == [y \in 1..f[a] |-> CHOOSE b \in 1..n : f[b] = y]
  <2>1. ASSUME NEW y \in 1..f[a] PROVE g[y] \in 1..a /\ f[g[y]] = y
    <3>1. y \in 1..k
      BY <1>0, <1>1
    <3>2. g[y] \in 1..n /\ f[g[y]] = y
      BY <1>0, <3>1
    <3> HIDE DEF g
    <3>3. a < g[y] => f[a] < f[g[y]]
      BY <1>0, <3>2
    <3>4. ~(f[a] < y)
      BY <1>1
    <3> QED BY <3>2, <3>3, <3>4
  <2>2. g \in [1..f[a] -> 1..a]
    BY <2>1
  <2> HIDE DEF g
  <2>3. \E y, z \in 1..f[a] : y # z /\ g[y] = g[z]
    BY <1>1, <2>2, Pigeons
  <2> QED BY <2>1, <2>3
<1>4. \A a \in 1..n : f[a] = a
  BY <1>1, <1>2, <1>3
<1>5. ~(n < k)
  BY <1>0, <1>4
<1>6. ~(k < n)
  <2> SUFFICES ASSUME k < n PROVE FALSE
    OBVIOUS
  <2>1. n \in 1..n
    BY <1>0
  <2>2. f[n] = n /\ f[n] \in 1..k
    BY <1>1, <1>4, <2>1
  <2> QED BY <1>0, <2>2
<1> QED BY <1>0, <1>4, <1>5, <1>6

\* With none leaving, and in order, the elements are the children's one by one.
LEMMA AllHere ==
    ASSUME NEW c, NEW kids \in Seq(Id), Inj(kids), Stands(c, kids), InOrder(c, kids), ~OneLeaves(c)
    PROVE  Len(c) = Len(kids) /\ \A m \in 1..Len(c) : c[m].name = kids[m]
<1> DEFINE n == Len(c)
           f == [m \in 1..n |-> Position(kids, c[m].name)]
<1>1. c \in Seq(Elements) /\ n \in Nat /\ Len(kids) \in Nat /\ \A m \in 1..n : ~c[m].leaving
  BY DEF Stands, OneLeaves
<1>2. ASSUME NEW m \in 1..n PROVE f[m] \in 1..Len(kids) /\ kids[f[m]] = c[m].name
  <2>1. c[m].name \in ToSet(kids)
    BY <1>1 DEF Stands
  <2> QED BY <2>1, PositionIs
<1>3. f \in [1..n -> 1..Len(kids)]
  BY <1>2
<1>4. \A a, b \in 1..n : a < b => f[a] < f[b]
  BY <1>1 DEF InOrder
<1> HIDE DEF f
<1>5. ASSUME NEW y \in 1..Len(kids) PROVE \E a \in 1..n : f[a] = y
  <2>1. kids[y] \in ToSet(kids)
    BY DEF ToSet
  <2>2. PICK a \in 1..n : c[a].name = kids[y]
    BY <2>1 DEF Stands, Is
  <2>3. f[a] = y
    BY <1>2, <2>2 DEF Inj
  <2> QED BY <2>2, <2>3
<1>6. n = Len(kids) /\ \A a \in 1..n : f[a] = a
  <2>1. Counting(f, n, Len(kids))
    BY <1>1, <1>3, <1>4, <1>5 DEF Counting
  <2> HIDE DEF n
  <2> QED BY <2>1, Counted
<1> QED BY <1>2, <1>6

LEMMA Pointed ==
    ASSUME NEW c \in Seq(Elements), NEW kids \in Seq(Id), Inj(kids), Len(c) = Len(kids),
           \A m \in 1..Len(c) : c[m].name = kids[m] /\ ~c[m].leaving
    PROVE  Stands(c, kids) /\ InOrder(c, kids)
<1>1. Len(c) \in Nat /\ DOMAIN kids = 1..Len(c) /\ ToSet(kids) = {kids[m] : m \in 1..Len(c)}
  BY Ranges
<1>2. Stands(c, kids)
  BY <1>1 DEF Stands, Is, Inj
<1>3. ASSUME NEW m \in 1..Len(c) PROVE Position(kids, c[m].name) = m
  <2>1. kids[m] \in ToSet(kids)
    BY <1>1
  <2>2. Position(kids, kids[m]) \in 1..Len(kids) /\ kids[Position(kids, kids[m])] = kids[m]
    BY <2>1, PositionIs
  <2> QED BY <1>1, <2>2 DEF Inj
<1>4. InOrder(c, kids)
  BY <1>1, <1>3 DEF InOrder
<1> QED BY <1>2, <1>4

\* What a list stands for when one of its elements is put in, taken out or marked.
LEMMA StandsMore ==
    ASSUME NEW c, NEW kids, Stands(c, kids), NEW e \in Elements, ~e.leaving, e.name \notin ToSet(kids),
           NEW i \in 1..(Len(c) + 1), NEW more, ToSet(more) = ToSet(kids) \cup {e.name}
    PROVE  Stands(InsertAt(c, i, e), more)
<1> DEFINE r == InsertAt(c, i, e)
<1>1. c \in Seq(Elements) /\ Len(c) \in Nat
  BY DEF Stands
<1>2. /\ r \in Seq(Elements) /\ Len(r) = Len(c) + 1 /\ r[i] = e
      /\ \A m \in 1..(i - 1) : r[m] = c[m]
      /\ \A m \in i..Len(c) : r[m + 1] = c[m]
  BY <1>1, InsertedAt
<1> HIDE DEF r
<1> DEFINE at(m) == IF m < i THEN m ELSE m - 1
           to(m) == IF m < i THEN m ELSE m + 1
<1>3. ASSUME NEW m \in 1..Len(r), m # i
      PROVE  at(m) \in 1..Len(c) /\ r[m] = c[at(m)]
  <2>1. CASE m < i
    BY <1>1, <1>2, <2>1
  <2>2. CASE m > i
    <3>1. m - 1 \in i..Len(c) /\ (m - 1) + 1 = m
      BY <1>1, <1>2, <2>2
    <3> QED BY <1>1, <1>2, <2>2, <3>1
  <2> QED BY <1>1, <1>2, <1>3, <2>1, <2>2
<1>4. ASSUME NEW m \in 1..Len(c)
      PROVE  to(m) \in 1..Len(r) /\ r[to(m)] = c[m]
  <2>1. CASE m < i
    BY <1>1, <1>2, <2>1
  <2>2. CASE m >= i
    <3>1. m \in i..Len(c)
      BY <1>1, <2>2
    <3> QED BY <1>1, <1>2, <2>2, <3>1
  <2> QED BY <1>1, <2>1, <2>2
<1>5. \A m, n \in 1..Len(r) : m # i /\ n # i /\ at(m) = at(n) => m = n
  BY <1>1, <1>2
<1> HIDE DEF at, to
<1>6. \A m \in 1..Len(r) : ~r[m].leaving => r[m].name \in ToSet(more)
  BY <1>2, <1>3 DEF Stands
<1>7. ASSUME NEW x \in ToSet(more) PROVE \E m \in 1..Len(r) : Is(x, r[m])
  <2>1. CASE x = e.name
    BY <1>1, <1>2, <2>1 DEF Is
  <2>2. CASE x \in ToSet(kids)
    <3>1. PICK m \in 1..Len(c) : Is(x, c[m])
      BY <2>2 DEF Stands
    <3> QED BY <3>1, <1>4
  <2> QED BY <2>1, <2>2
<1>8. ASSUME NEW m \in 1..Len(r), NEW n \in 1..Len(r),
             ~r[m].leaving, ~r[n].leaving, r[m].name = r[n].name
      PROVE  m = n
  <2>1. CASE m # i /\ n # i
    BY <1>3, <1>5, <1>8, <2>1 DEF Stands
  <2>2. CASE m = i \/ n = i
    BY <1>2, <1>3, <1>8, <2>2 DEF Stands
  <2> QED BY <2>1, <2>2
<1>9. Stands(r, more)
  BY <1>2, <1>6, <1>7, <1>8 DEF Stands
<1> QED BY <1>9 DEF r

\* The places of a list without one of its elements, in the list.
LEMMA WithoutAt ==
    ASSUME NEW c \in Seq(Elements), NEW i \in 1..Len(c)
    PROVE  LET r == RemoveAt(c, i)
               at(m) == IF m < i THEN m ELSE m + 1
           IN  /\ r \in Seq(Elements) /\ Len(r) = Len(c) - 1
               /\ \A m \in 1..Len(r) : at(m) \in 1..Len(c) /\ at(m) # i /\ r[m] = c[at(m)]
               /\ \A m \in 1..Len(c) : m # i => \E n \in 1..Len(r) : r[n] = c[m]
               /\ \A m, n \in 1..Len(r) : m < n => at(m) < at(n)
               /\ \A m, n \in 1..Len(r) : at(m) = at(n) => m = n
<1> DEFINE r == RemoveAt(c, i)
           at(m) == IF m < i THEN m ELSE m + 1
<1>1. /\ r \in Seq(Elements) /\ Len(r) = Len(c) - 1 /\ Len(c) \in Nat
      /\ \A m \in 1..(i - 1) : r[m] = c[m]
      /\ \A m \in i..(Len(c) - 1) : r[m] = c[m + 1]
  BY RemovedAt
<1> HIDE DEF r
<1>2. ASSUME NEW m \in 1..Len(r) PROVE at(m) \in 1..Len(c) /\ at(m) # i /\ r[m] = c[at(m)]
  <2>1. CASE m < i
    BY <1>1, <2>1
  <2>2. CASE m >= i
    BY <1>1, <2>2
  <2> QED BY <1>1, <2>1, <2>2
<1>3. ASSUME NEW m \in 1..Len(c), m # i PROVE \E n \in 1..Len(r) : r[n] = c[m]
  <2>1. CASE m < i
    BY <1>1, <2>1
  <2>2. CASE m > i
    <3>1. m - 1 \in i..(Len(c) - 1) /\ m - 1 \in 1..Len(r) /\ (m - 1) + 1 = m
      BY <1>1, <2>2
    <3> QED BY <1>1, <3>1
  <2> QED BY <1>1, <1>3, <2>1, <2>2
<1>4. \A m, n \in 1..Len(r) : m < n => at(m) < at(n)
  BY <1>1
<1>5. \A m, n \in 1..Len(r) : at(m) = at(n) => m = n
  BY <1>1
<1> QED BY <1>1, <1>2, <1>3, <1>4, <1>5 DEF r

LEMMA StandsLess ==
    ASSUME NEW c, NEW kids, Stands(c, kids), NEW i \in 1..Len(c), ~c[i].leaving,
           NEW less, ToSet(less) = ToSet(kids) \ {c[i].name}
    PROVE  Stands(RemoveAt(c, i), less)
<1> DEFINE r == RemoveAt(c, i)
           at(m) == IF m < i THEN m ELSE m + 1
<1>1. c \in Seq(Elements)
  BY DEF Stands
<1>2. /\ r \in Seq(Elements) /\ Len(r) = Len(c) - 1
      /\ \A m \in 1..Len(r) : at(m) \in 1..Len(c) /\ at(m) # i /\ r[m] = c[at(m)]
      /\ \A m \in 1..Len(c) : m # i => \E n \in 1..Len(r) : r[n] = c[m]
      /\ \A m, n \in 1..Len(r) : at(m) = at(n) => m = n
  BY <1>1, WithoutAt
<1> HIDE DEF r, at
<1>3. \A m \in 1..Len(r) : ~r[m].leaving => r[m].name \in ToSet(less)
  BY <1>2 DEF Stands
<1>4. ASSUME NEW x \in ToSet(less) PROVE \E m \in 1..Len(r) : Is(x, r[m])
  <2>1. PICK m \in 1..Len(c) : Is(x, c[m])
    BY DEF Stands
  <2>2. m # i
    BY <2>1 DEF Is
  <2>3. PICK n \in 1..Len(r) : r[n] = c[m]
    BY <1>2, <2>2
  <2> QED BY <2>1, <2>3
<1>5. ASSUME NEW m \in 1..Len(r), NEW n \in 1..Len(r),
             ~r[m].leaving, ~r[n].leaving, r[m].name = r[n].name
      PROVE  m = n
  <2>1. at(m) \in 1..Len(c) /\ r[m] = c[at(m)] /\ at(n) \in 1..Len(c) /\ r[n] = c[at(n)]
    BY <1>2
  <2>2. at(m) = at(n)
    BY <1>5, <2>1 DEF Stands
  <2> QED BY <1>2, <2>2
<1>6. Stands(r, less)
  BY <1>2, <1>3, <1>4, <1>5 DEF Stands
<1> QED BY <1>6 DEF r

\* Where the others stand when one of the children is gone.
LEMMA OrderLess ==
    ASSUME NEW kids \in Seq(Id), Inj(kids), NEW q \in 1..Len(kids), NEW y, NEW z,
           y \in ToSet(kids) \ {kids[q]}, z \in ToSet(kids) \ {kids[q]},
           Position(kids, y) < Position(kids, z)
    PROVE  Position(RemoveAt(kids, q), y) < Position(RemoveAt(kids, q), z)
<1> DEFINE r == RemoveAt(kids, q)
<1>0. Len(kids) \in Nat
  OBVIOUS
<1>1. /\ r \in Seq(Id) /\ Len(r) = Len(kids) - 1
      /\ \A m \in 1..(q - 1) : r[m] = kids[m]
      /\ \A m \in q..(Len(kids) - 1) : r[m] = kids[m + 1]
  BY RemovedAt
<1>2. ToSet(r) = ToSet(kids) \ {kids[q]}
  BY RemovedSet
<1> HIDE DEF r
<1>3. /\ Position(r, y) \in 1..Len(r) /\ r[Position(r, y)] = y
      /\ Position(r, z) \in 1..Len(r) /\ r[Position(r, z)] = z
  BY <1>1, <1>2, PositionIs
<1>4. /\ Position(kids, y) \in 1..Len(kids) /\ kids[Position(kids, y)] = y
      /\ Position(kids, z) \in 1..Len(kids) /\ kids[Position(kids, z)] = z
  BY PositionIs
<1>5. \A m \in 1..Len(r) : r[m] = IF m < q THEN kids[m] ELSE kids[m + 1]
  BY <1>0, <1>1
<1>6. ASSUME NEW m \in 1..Len(r), NEW p \in 1..Len(kids), r[m] = kids[p]
      PROVE  p = IF m < q THEN m ELSE m + 1
  <2>1. (IF m < q THEN m ELSE m + 1) \in 1..Len(kids)
    BY <1>0, <1>1
  <2> QED BY <1>5, <1>6, <2>1, Ranges DEF Inj
<1>7. /\ Position(kids, y) = IF Position(r, y) < q THEN Position(r, y) ELSE Position(r, y) + 1
      /\ Position(kids, z) = IF Position(r, z) < q THEN Position(r, z) ELSE Position(r, z) + 1
  BY <1>3, <1>4, <1>6
<1>8. Position(r, y) < Position(r, z)
  BY <1>0, <1>1, <1>3, <1>4, <1>7
<1> QED BY <1>8 DEF r

\* The elements are those of the children, one by one.
Matching(c, kids) ==
    /\ c \in Seq(Elements) /\ kids \in Seq(Id) /\ Len(c) = Len(kids)
    /\ \A m \in 1..Len(c) : c[m].name = kids[m] /\ ~c[m].leaving

LEMMA MatchingMore ==
    ASSUME NEW c, NEW kids, Matching(c, kids), NEW e \in Elements, ~e.leaving, NEW i \in 1..(Len(c) + 1)
    PROVE  Matching(InsertAt(c, i, e), InsertAt(kids, i, e.name))
<1> DEFINE r == InsertAt(c, i, e)
           more == InsertAt(kids, i, e.name)
<1>0. c \in Seq(Elements) /\ kids \in Seq(Id) /\ Len(c) \in Nat /\ e.name \in Id /\ Len(c) = Len(kids)
  BY DEF Matching, Elements
<1>1. /\ r \in Seq(Elements) /\ Len(r) = Len(c) + 1 /\ r[i] = e
      /\ \A m \in 1..(i - 1) : r[m] = c[m]
      /\ \A m \in i..Len(c) : r[m + 1] = c[m]
  BY <1>0, InsertedAt
<1>2. i \in 1..(Len(kids) + 1)
  BY <1>0
<1>3. /\ more \in Seq(Id) /\ Len(more) = Len(kids) + 1 /\ more[i] = e.name
      /\ \A m \in 1..(i - 1) : more[m] = kids[m]
      /\ \A m \in i..Len(kids) : more[m + 1] = kids[m]
  <2>1. kids \in Seq(Id) /\ e.name \in Id
    BY <1>0
  <2>2. more \in Seq(Id)
    BY <1>2, <2>1, InsertedAt
  <2>3. Len(more) = Len(kids) + 1
    BY <1>2, <2>1, InsertedAt
  <2>4. more[i] = e.name /\ \A m \in 1..(i - 1) : more[m] = kids[m]
    BY <1>2, <2>1, InsertedAt
  <2>5. \A m \in i..Len(kids) : more[m + 1] = kids[m]
    BY <1>2, <2>1, InsertedAt
  <2> QED BY <2>2, <2>3, <2>4, <2>5
<1> HIDE DEF r, more
<1>4. ASSUME NEW m \in 1..Len(r) PROVE r[m].name = more[m] /\ ~r[m].leaving
  <2>1. CASE m = i
    BY <1>1, <1>3, <2>1
  <2>2. CASE m < i
    BY <1>0, <1>1, <1>3, <2>2 DEF Matching
  <2>3. CASE m > i
    <3>1. m - 1 \in i..Len(c) /\ m - 1 \in 1..Len(c) /\ (m - 1) + 1 = m
      BY <1>0, <1>1, <2>3
    <3>2. r[m] = c[m - 1] /\ more[m] = kids[m - 1]
      BY <1>0, <1>1, <1>3, <3>1
    <3> QED BY <3>1, <3>2 DEF Matching
  <2> QED BY <1>0, <1>1, <2>1, <2>2, <2>3
<1>5. Matching(r, more)
  BY <1>0, <1>1, <1>3, <1>4 DEF Matching
<1> QED BY <1>5 DEF r, more

LEMMA MatchingLess ==
    ASSUME NEW c, NEW kids, Matching(c, kids), NEW i \in 1..Len(c)
    PROVE  Matching(RemoveAt(c, i), RemoveAt(kids, i))
<1> DEFINE r == RemoveAt(c, i)
           less == RemoveAt(kids, i)
<1>0. c \in Seq(Elements) /\ kids \in Seq(Id) /\ Len(c) \in Nat /\ Len(c) = Len(kids) /\ i \in 1..Len(kids)
  BY DEF Matching
<1>1. /\ r \in Seq(Elements) /\ Len(r) = Len(c) - 1
      /\ \A m \in 1..(i - 1) : r[m] = c[m]
      /\ \A m \in i..(Len(c) - 1) : r[m] = c[m + 1]
  BY <1>0, RemovedAt
<1>2. /\ less \in Seq(Id) /\ Len(less) = Len(kids) - 1
      /\ \A m \in 1..(i - 1) : less[m] = kids[m]
      /\ \A m \in i..(Len(kids) - 1) : less[m] = kids[m + 1]
  BY <1>0, RemovedAt
<1> HIDE DEF r, less
<1>3. ASSUME NEW m \in 1..Len(r) PROVE r[m].name = less[m] /\ ~r[m].leaving
  <2>1. CASE m < i
    <3>1. m \in 1..(i - 1) /\ m \in 1..Len(c)
      BY <1>0, <1>1, <2>1
    <3>2. r[m] = c[m] /\ less[m] = kids[m]
      BY <1>1, <1>2, <3>1
    <3> QED BY <3>1, <3>2 DEF Matching
  <2>2. CASE m >= i
    <3>1. m \in i..(Len(c) - 1) /\ m + 1 \in 1..Len(c)
      BY <1>0, <1>1, <2>2
    <3>2. r[m] = c[m + 1] /\ less[m] = kids[m + 1]
      BY <1>0, <1>1, <1>2, <3>1
    <3> QED BY <3>1, <3>2 DEF Matching
  <2> QED BY <1>0, <1>1, <2>1, <2>2
<1>4. Matching(r, less)
  BY <1>0, <1>1, <1>2, <1>3 DEF Matching
<1> QED BY <1>4 DEF r, less

LEMMA MatchingIs ==
    ASSUME NEW c, NEW kids, kids \in Seq(Id), Inj(kids)
    PROVE  /\ Stands(c, kids) /\ InOrder(c, kids) /\ ~OneLeaves(c) => Matching(c, kids)
           /\ Matching(c, kids) => Stands(c, kids) /\ InOrder(c, kids)
<1>1. ASSUME Stands(c, kids), InOrder(c, kids), ~OneLeaves(c) PROVE Matching(c, kids)
  <2>1. c \in Seq(Elements) /\ \A m \in 1..Len(c) : ~c[m].leaving
    BY <1>1 DEF Stands, OneLeaves
  <2>2. Len(c) = Len(kids) /\ \A m \in 1..Len(c) : c[m].name = kids[m]
    BY <1>1, AllHere
  <2> QED BY <2>1, <2>2 DEF Matching
<1>2. ASSUME Matching(c, kids) PROVE Stands(c, kids) /\ InOrder(c, kids)
  <2>1. /\ c \in Seq(Elements) /\ Len(c) = Len(kids)
        /\ \A m \in 1..Len(c) : c[m].name = kids[m] /\ ~c[m].leaving
    BY <1>2 DEF Matching
  <2> QED BY <2>1, Pointed
<1> QED BY <1>1, <1>2

LEMMA ListInserted ==
    ASSUME NEW c, NEW kids \in Seq(Id), Inj(kids), Stands(c, kids),
           NEW e \in Elements, ~e.leaving, e.name \notin ToSet(kids),
           NEW index \in 1..(Len(kids) + 1)
    PROVE  LET r == InsertAt(c, Clamped(c, index), e)
               more == InsertAt(kids, index, e.name)
           IN  /\ Stands(r, more)
               /\ InOrder(c, kids) /\ ~OneLeaves(c) => InOrder(r, more)
<1> DEFINE r == InsertAt(c, Clamped(c, index), e)
           more == InsertAt(kids, index, e.name)
<1>0. c \in Seq(Elements) /\ Len(c) \in Nat /\ Len(kids) \in Nat /\ e.name \in Id
  BY DEF Stands, Elements
<1>1. Clamped(c, index) \in 1..(Len(c) + 1)
  BY <1>0 DEF Clamped
<1>2. more \in Seq(Id)
  BY <1>0, InsertedAt
<1>3. ToSet(more) = ToSet(kids) \cup {e.name} /\ Inj(more)
  BY <1>0, InsertedSet
<1>4. Stands(r, more)
  <2> HIDE DEF more
  <2> QED BY <1>1, <1>3, StandsMore
<1>5. ASSUME InOrder(c, kids), ~OneLeaves(c) PROVE InOrder(r, more)
  <2>1. Matching(c, kids)
    BY <1>5, MatchingIs
  <2>2. Clamped(c, index) = index /\ index \in 1..(Len(c) + 1)
    BY <1>0, <2>1 DEF Matching, Clamped
  <2>3. Matching(r, more)
    BY <2>1, <2>2, MatchingMore
  <2> HIDE DEF r, more
  <2> QED BY <1>2, <1>3, <2>3, MatchingIs
<1> QED BY <1>4, <1>5

LEMMA ListMoved ==
    ASSUME NEW c, NEW kids \in Seq(Id), Inj(kids), Stands(c, kids),
           NEW x \in ToSet(kids), NEW to \in 1..Len(kids)
    PROVE  LET r == Spliced(c, At(c, x), to)
               other == Spliced(kids, Position(kids, x), to)
           IN  /\ Stands(r, other)
               /\ InOrder(c, kids) /\ ~OneLeaves(c) => InOrder(r, other)
<1> DEFINE at == At(c, x)
           from == Position(kids, x)
           rest == RemoveAt(c, at)
           others == RemoveAt(kids, from)
           r == Spliced(c, at, to)
           other == Spliced(kids, from, to)
           e == c[at]
<1>0. c \in Seq(Elements) /\ Len(c) \in Nat /\ Len(kids) \in Nat
  BY DEF Stands
<1>1. at \in 1..Len(c) /\ e.name = x /\ ~e.leaving /\ e \in Elements
  BY AtIs
<1>2. from \in 1..Len(kids) /\ kids[from] = x
  BY PositionIs
<1> HIDE DEF at, from
<1>3. /\ other = InsertAt(others, to, x) /\ other \in Seq(Id)
      /\ ToSet(other) = ToSet(kids) /\ Inj(other)
  BY <1>2, SplicedIs
<1>4. others \in Seq(Id) /\ Len(others) = Len(kids) - 1
  BY <1>2, RemovedAt
<1>5. ToSet(others) = ToSet(kids) \ {x} /\ Inj(others)
  BY <1>2, RemovedSet
<1>6. rest \in Seq(Elements) /\ Len(rest) = Len(c) - 1
  BY <1>0, <1>1, RemovedAt
<1>7. Stands(rest, others)
  <2> HIDE DEF others, e
  <2> QED BY <1>1, <1>5, StandsLess DEF e
<1>8. r = InsertAt(rest, Clamped(rest, to), e)
  BY DEF Spliced
<1>9. to \in 1..(Len(others) + 1)
  BY <1>0, <1>4
<1> HIDE DEF r, other, rest, others, e
<1>10. Stands(r, other)
  <2>1. e.name \notin ToSet(others)
    BY <1>1, <1>5
  <2> QED BY <1>1, <1>3, <1>4, <1>5, <1>7, <1>8, <1>9, <2>1, ListInserted
<1>11. ASSUME InOrder(c, kids), ~OneLeaves(c) PROVE InOrder(r, other)
  <2>1. Matching(c, kids)
    BY <1>11, MatchingIs
  <2>2. at = from
    BY <1>0, <1>1, <1>2, <2>1 DEF Matching, Inj, e
  <2>3. Matching(rest, others)
    BY <1>1, <2>1, <2>2, MatchingLess DEF rest, others
  <2>4. Clamped(rest, to) = to /\ to \in 1..(Len(rest) + 1)
    BY <1>0, <1>6, <2>1 DEF Clamped, Matching
  <2>5. Matching(r, other)
    BY <1>1, <1>3, <1>8, <2>3, <2>4, MatchingMore
  <2> QED BY <1>3, <2>5, MatchingIs
<1> QED BY <1>10, <1>11 DEF r, other, at, from

LEMMA ListTaken ==
    ASSUME NEW c, NEW kids \in Seq(Id), Inj(kids), Stands(c, kids), NEW x \in ToSet(kids)
    PROVE  LET r == Taken(c, x)
               less == RemoveAt(kids, Position(kids, x))
           IN  /\ Stands(r, less)
               /\ InOrder(c, kids) => InOrder(r, less)
<1> DEFINE at == At(c, x)
           q == Position(kids, x)
           r == Taken(c, x)
           less == RemoveAt(kids, q)
<1>0. c \in Seq(Elements) /\ Len(c) \in Nat /\ DOMAIN c = 1..Len(c) /\ \A m \in 1..Len(c) : c[m] \in Elements
  BY DEF Stands
<1>1. at \in 1..Len(c) /\ c[at].name = x /\ ~c[at].leaving
  BY AtIs
<1>2. q \in 1..Len(kids) /\ kids[q] = x
  BY PositionIs
<1> HIDE DEF at, q
<1>3. ToSet(less) = ToSet(kids) \ {x}
  BY <1>2, RemovedSet
<1>4. \A y, z \in ToSet(kids) \ {x} :
          Position(kids, y) < Position(kids, z) => Position(less, y) < Position(less, z)
  BY <1>2, OrderLess
<1> HIDE DEF less
<1>5. CASE c[at].fades
  <2>1. r = [c EXCEPT ![at].leaving = TRUE]
    BY <1>5 DEF Taken, at
  <2>2. /\ Len(r) = Len(c) /\ \A m \in 1..Len(c) : m # at => r[m] = c[m]
        /\ r[at] = [c[at] EXCEPT !.leaving = TRUE]
    BY <1>0, <1>1, <2>1
  <2>3. r[at] \in Elements /\ r[at].leaving
    BY <1>0, <1>1, <2>2 DEF Elements
  <2>4. r \in Seq(Elements)
    BY <1>0, <1>1, <2>1, <2>3
  <2> HIDE DEF r
  <2>5. ASSUME NEW m \in 1..Len(r), ~r[m].leaving PROVE m # at /\ r[m] = c[m] /\ c[m].name \in ToSet(less)
    <3>1. m # at /\ m \in 1..Len(c)
      BY <2>2, <2>3, <2>5
    <3>2. r[m] = c[m] /\ ~c[m].leaving
      BY <2>2, <2>5, <3>1
    <3>3. c[m].name \in ToSet(kids) /\ c[m].name # x
      BY <1>1, <3>1, <3>2 DEF Stands
    <3> QED BY <1>3, <3>1, <3>2, <3>3
  <2>6. ASSUME NEW y \in ToSet(less) PROVE \E m \in 1..Len(r) : Is(y, r[m])
    <3>1. PICK m \in 1..Len(c) : Is(y, c[m])
      BY <1>3 DEF Stands
    <3>2. m # at
      BY <1>1, <1>3, <3>1 DEF Is
    <3> QED BY <2>2, <3>1, <3>2
  <2>7. Stands(r, less)
    BY <2>2, <2>4, <2>5, <2>6 DEF Stands
  <2>8. ASSUME InOrder(c, kids) PROVE InOrder(r, less)
    <3> SUFFICES ASSUME NEW m \in 1..Len(r), NEW n \in 1..Len(r), ~r[m].leaving, ~r[n].leaving, m < n
                 PROVE  Position(less, r[m].name) < Position(less, r[n].name)
      BY DEF InOrder
    <3>1. /\ r[m] = c[m] /\ c[m].name \in ToSet(kids) \ {x}
          /\ r[n] = c[n] /\ c[n].name \in ToSet(kids) \ {x}
      BY <1>3, <2>5
    <3>2. Position(kids, c[m].name) < Position(kids, c[n].name)
      BY <2>2, <2>8, <3>1 DEF InOrder
    <3> QED BY <1>4, <3>1, <3>2
  <2> QED BY <2>7, <2>8 DEF r, less, q
<1>6. CASE ~c[at].fades
  <2>1. r = RemoveAt(c, at)
    BY <1>6 DEF Taken, at
  <2>2. Stands(r, less)
    BY <1>1, <1>3, <2>1, StandsLess
  <2>3. ASSUME InOrder(c, kids) PROVE InOrder(r, less)
    <3> DEFINE to(m) == IF m < at THEN m ELSE m + 1
    <3>1. LET rest == RemoveAt(c, at)
          IN  /\ \A m \in 1..Len(rest) : to(m) \in 1..Len(c) /\ to(m) # at /\ rest[m] = c[to(m)]
              /\ \A m, n \in 1..Len(rest) : m < n => to(m) < to(n)
      BY <1>0, <1>1, WithoutAt
    <3> HIDE DEF to, r
    <3> SUFFICES ASSUME NEW m \in 1..Len(r), NEW n \in 1..Len(r), ~r[m].leaving, ~r[n].leaving, m < n
                 PROVE  Position(less, r[m].name) < Position(less, r[n].name)
      BY DEF InOrder
    <3>2. /\ to(m) \in 1..Len(c) /\ r[m] = c[to(m)] /\ to(n) \in 1..Len(c) /\ r[n] = c[to(n)]
          /\ to(m) < to(n)
      BY <2>1, <3>1
    <3>3. Position(kids, r[m].name) < Position(kids, r[n].name)
      BY <2>3, <3>2 DEF InOrder
    <3>4. r[m].name \in ToSet(kids) \ {x} /\ r[n].name \in ToSet(kids) \ {x}
      BY <1>3, <2>2 DEF Stands
    <3> QED BY <1>4, <3>3, <3>4
  <2> QED BY <2>2, <2>3 DEF r, less, q
<1> QED BY <1>5, <1>6

\* One element is another of the same node.
LEMMA ListStyled ==
    ASSUME NEW c, NEW kids, Stands(c, kids), NEW x \in ToSet(kids),
           NEW e \in Elements, e.name = x, ~e.leaving
    PROVE  LET r == [c EXCEPT ![At(c, x)] = e]
           IN  Stands(r, kids) /\ (InOrder(c, kids) => InOrder(r, kids))
<1> DEFINE at == At(c, x)
           r == [c EXCEPT ![at] = e]
<1>1. c \in Seq(Elements) /\ Len(c) \in Nat
  BY DEF Stands
<1>2. at \in 1..Len(c) /\ c[at].name = x /\ ~c[at].leaving
  BY AtIs
<1> HIDE DEF at
<1>3. r \in Seq(Elements) /\ Len(r) = Len(c)
  BY <1>1, <1>2
<1>4. ASSUME NEW m \in 1..Len(c) PROVE r[m].name = c[m].name /\ r[m].leaving = c[m].leaving
  <2>1. CASE m = at
    <3>1. r[at] = e
      BY <1>1, <1>2
    <3>2. c[at] \in Elements
      BY <1>1, <1>2
    <3>3. c[at].leaving = FALSE /\ e.leaving = FALSE
      BY <1>2, <3>2 DEF Elements
    <3> QED BY <1>2, <2>1, <3>1, <3>3
  <2>2. CASE m # at
    BY <1>1, <2>2
  <2> QED BY <2>1, <2>2
<1> HIDE DEF r
<1>5. Stands(r, kids)
  BY <1>3, <1>4 DEF Stands, Is
<1>6. InOrder(c, kids) => InOrder(r, kids)
  BY <1>3, <1>4 DEF InOrder
<1> QED BY <1>5, <1>6 DEF r, at

LEMMA ListTweened ==
    ASSUME NEW c, NEW kids, Stands(c, kids), NEW i \in DOMAIN c, c[i].leaving
    PROVE  /\ Stands(RemoveAt(c, i), kids)
           /\ InOrder(c, kids) => InOrder(RemoveAt(c, i), kids)
<1> DEFINE r == RemoveAt(c, i)
           to(m) == IF m < i THEN m ELSE m + 1
<1>1. c \in Seq(Elements) /\ i \in 1..Len(c)
  BY DEF Stands
<1>2. /\ r \in Seq(Elements)
      /\ \A m \in 1..Len(r) : to(m) \in 1..Len(c) /\ to(m) # i /\ r[m] = c[to(m)]
      /\ \A m \in 1..Len(c) : m # i => \E n \in 1..Len(r) : r[n] = c[m]
      /\ \A m, n \in 1..Len(r) : m < n => to(m) < to(n)
      /\ \A m, n \in 1..Len(r) : to(m) = to(n) => m = n
  BY <1>1, WithoutAt
<1> HIDE DEF r, to
<1>3. \A m \in 1..Len(r) : ~r[m].leaving => r[m].name \in ToSet(kids)
  BY <1>2 DEF Stands
<1>4. ASSUME NEW x \in ToSet(kids) PROVE \E m \in 1..Len(r) : Is(x, r[m])
  <2>1. PICK m \in 1..Len(c) : Is(x, c[m])
    BY DEF Stands
  <2>2. m # i
    BY <2>1 DEF Is
  <2> QED BY <1>2, <2>1, <2>2
<1>5. ASSUME NEW m \in 1..Len(r), NEW n \in 1..Len(r),
             ~r[m].leaving, ~r[n].leaving, r[m].name = r[n].name
      PROVE  m = n
  <2>1. to(m) \in 1..Len(c) /\ r[m] = c[to(m)] /\ to(n) \in 1..Len(c) /\ r[n] = c[to(n)]
    BY <1>2
  <2>2. to(m) = to(n)
    BY <1>5, <2>1 DEF Stands
  <2> QED BY <1>2, <2>2
<1>6. Stands(r, kids)
  BY <1>2, <1>3, <1>4, <1>5 DEF Stands
<1>7. ASSUME InOrder(c, kids) PROVE InOrder(r, kids)
  <2> SUFFICES ASSUME NEW m \in 1..Len(r), NEW n \in 1..Len(r), ~r[m].leaving, ~r[n].leaving, m < n
               PROVE  Position(kids, r[m].name) < Position(kids, r[n].name)
    BY DEF InOrder
  <2>1. /\ to(m) \in 1..Len(c) /\ r[m] = c[to(m)] /\ to(n) \in 1..Len(c) /\ r[n] = c[to(n)]
        /\ to(m) < to(n)
    BY <1>2
  <2> QED BY <1>7, <2>1 DEF InOrder
<1> QED BY <1>6, <1>7 DEF r

-----------------------------------------------------------------------------
(* The page after a patch                                                  *)

\* The list of a node is that of its children, in their order unless excused.
ListOK(c, node, excused) ==
    /\ node.kind # "NavigationStack"
    /\ Stands(c, node.kids)
    /\ ~excused => InOrder(c, node.kids)
Shows(d, s, b) ==
    /\ DOMAIN d = DOMAIN s
    /\ \A id \in DOMAIN s : ListOK(d[id], s[id], id \in b)

LEMMA BuiltIs ==
    ASSUME TreeOK(tree), Unstacked(tree), NEW id \in DOMAIN tree,
           NEW records, records = Serialized(tree, id, id)
    PROVE  /\ DOMAIN Built(records) = {j \in DOMAIN tree : IsPrefix(id, j)}
           /\ \A j \in DOMAIN tree, b \in BOOLEAN :
                 IsPrefix(id, j) => ListOK(Built(records)[j], Record(tree, j), b)
<1>1. /\ DOMAIN records = {j \in DOMAIN tree : IsPrefix(id, j)}
      /\ \A j \in DOMAIN tree : IsPrefix(id, j) => records[j] = Record(tree, j)
  BY SerializedIs
<1>2. DOMAIN Built(records) = DOMAIN records
  BY DEF Built
<1>3. ASSUME NEW j \in DOMAIN tree, IsPrefix(id, j), NEW b \in BOOLEAN
      PROVE  ListOK(Built(records)[j], Record(tree, j), b)
  <2> DEFINE kids == Named(j, tree[j].kids)
             c == [k \in DOMAIN kids |-> Element(kids[k], records[kids[k]])]
  <2>1. records[j].kids = kids /\ records[j].kind # "NavigationStack" /\ j \in DOMAIN records
    BY <1>1, <1>3 DEF Record, Unstacked
  <2>2. Built(records)[j] = c
    BY <2>1 DEF Built
  <2>3. j \in Id /\ tree[j].kids \in Seq(Seg) /\ Inj(tree[j].kids)
    BY TreeIs
  <2>4. kids \in Seq(Id) /\ Inj(kids)
    BY <2>3, NamedIs
  <2> HIDE DEF kids
  <2>5. Len(kids) \in Nat /\ DOMAIN kids = 1..Len(kids) /\ \A k \in 1..Len(kids) : kids[k] \in Id
    BY <2>4
  <2>6. \A k \in 1..Len(kids) :
            c[k] \in Elements /\ c[k].name = kids[k] /\ ~c[k].leaving
    BY <2>5, ElementIs
  <2>7. c \in Seq(Elements) /\ Len(c) = Len(kids)
    BY <2>5, <2>6
  <2> HIDE DEF c
  <2>8. Matching(c, kids)
    BY <2>4, <2>6, <2>7 DEF Matching
  <2>9. Stands(c, kids) /\ InOrder(c, kids)
    BY <2>4, <2>8, MatchingIs
  <2>10. Record(tree, j).kids = kids /\ Record(tree, j).kind # "NavigationStack"
    BY <1>1, <1>3, <2>1
  <2> QED BY <2>2, <2>9, <2>10 DEF ListOK
<1> QED BY <1>1, <1>2, <1>3

LEMMA ChangedAlone ==
    ASSUME NEW id \in DOMAIN dom, NEW c
    PROVE  /\ DOMAIN Changed(id, c, << >>) = DOMAIN dom
           /\ \A j \in DOMAIN dom : Changed(id, c, << >>)[j] = IF j = id THEN c ELSE dom[j]
<1>1. DOMAIN << >> = {}
  OBVIOUS
<1> QED BY <1>1 DEF Changed, With

\* Every list but one is as it was.
LEMMA OneList ==
    ASSUME Shows(dom, store, beside), NEW s, NEW d, NEW b, NEW id \in DOMAIN s,
           ListOK(d[id], s[id], id \in b),
           DOMAIN d = DOMAIN s, beside \subseteq b, b \subseteq beside \cup {id},
           \A j \in DOMAIN s : j # id => /\ j \in DOMAIN store /\ d[j] = dom[j]
                                         /\ s[j].kids = store[j].kids /\ s[j].kind = store[j].kind
    PROVE  Shows(d, s, b)
<1>1. ASSUME NEW j \in DOMAIN s, j # id PROVE ListOK(d[j], s[j], j \in b)
  <2>1. ListOK(dom[j], store[j], j \in beside)
    BY <1>1 DEF Shows
  <2>2. j \in b <=> j \in beside
    BY <1>1
  <2> QED BY <1>1, <2>1, <2>2 DEF ListOK
<1> QED BY <1>1 DEF Shows

LEMMA ShownMove ==
    ASSUME Linked(store), Shows(dom, store, beside), NEW p, p.op = "move",
           p.parent \in DOMAIN store, p.id \in ToSet(store[p.parent].kids),
           p.index \in 1..Len(store[p.parent].kids), ProjectMove(p),
           NEW s, s = After(p), NEW d, d = dom', NEW b, b = beside'
    PROVE  Shows(d, s, b)
<1> DEFINE up == p.parent
           c == dom[up]
           kids == store[up].kids
           r == Spliced(c, At(c, p.id), p.index)
           other == Spliced(kids, Position(kids, p.id), p.index)
<1>1. /\ d = Changed(up, r, << >>)
      /\ b = IF OneLeaves(c) THEN beside \cup {up} ELSE beside
  BY DEF ProjectMove
<1>2. DOMAIN dom = DOMAIN store /\ ListOK(c, store[up], up \in beside)
  BY DEF Shows
<1>3. Linked(s) /\ Amended(store, s, up, other) /\ \A j \in Id : j # up => Untouched(store, s, j)
  BY MovedIs
<1>4. DOMAIN s = DOMAIN store
  <2>1. \A j \in DOMAIN s \cup DOMAIN store : j \in Id
    BY <1>3 DEF Linked, RecordOK
  <2> QED BY <1>3, <2>1 DEF Untouched, Amended
<1>5. DOMAIN d = DOMAIN dom /\ \A j \in DOMAIN dom : d[j] = IF j = up THEN r ELSE dom[j]
  BY <1>1, <1>2, ChangedAlone
<1>6. kids \in Seq(Id) /\ Inj(kids) /\ Stands(c, kids)
  BY <1>2 DEF Linked, RecordOK, ListOK
<1>7. Stands(r, other) /\ (InOrder(c, kids) /\ ~OneLeaves(c) => InOrder(r, other))
  <2> HIDE DEF c, kids
  <2> QED BY <1>6, ListMoved DEF kids
<1> HIDE DEF r, other, c, kids
<1>8. ListOK(d[up], s[up], up \in b)
  BY <1>1, <1>2, <1>3, <1>5, <1>7 DEF ListOK, Amended, kids
<1>9. \A j \in DOMAIN s : j # up => /\ j \in DOMAIN store /\ d[j] = dom[j]
                                    /\ s[j].kids = store[j].kids /\ s[j].kind = store[j].kind
  BY <1>2, <1>3, <1>4, <1>5 DEF Linked, RecordOK, Untouched
<1> QED BY <1>1, <1>2, <1>4, <1>5, <1>8, <1>9, OneList

LEMMA ShownInsert ==
    ASSUME Linked(store), TreeOK(tree), Unstacked(tree), Shows(dom, store, beside), NEW p, p.op = "insert",
           p.id \in DOMAIN store, NEW x \in Seg, p.name = Append(p.id, x),
           p.name \notin DOMAIN store, p.name \in DOMAIN tree,
           p.node = Serialized(tree, p.name, p.name),
           p.index \in 1..(Len(store[p.id].kids) + 1), ProjectInsert(p),
           NEW s, s = After(p), NEW d, d = dom', NEW b, b = beside'
    PROVE  Shows(d, s, b)
<1> DEFINE up == p.id
           c == dom[up]
           kids == store[up].kids
           e == Element(p.name, p.node[p.name])
           r == InsertAt(c, Clamped(c, p.index), e)
           more == InsertAt(kids, p.index, p.name)
           built == Built(p.node)
<1>1. DOMAIN dom = DOMAIN store /\ ListOK(c, store[up], up \in beside)
  BY DEF Shows
<1>2. ~IsStack(up)
  BY <1>1 DEF ListOK, IsStack
<1>3. /\ d = Changed(up, r, built)
      /\ b = IF OneLeaves(c) THEN beside \cup {up} ELSE beside
  BY <1>2 DEF ProjectInsert
<1>4. Linked(s) /\ Amended(store, s, up, more)
  BY InsertedIs
<1>5. \A j \in Id : IF IsPrefix(p.name, j) THEN Grafted(s, tree, j)
                    ELSE j # up => Untouched(store, s, j)
  BY InsertedIs
<1>6. /\ DOMAIN built = {j \in DOMAIN tree : IsPrefix(p.name, j)}
      /\ \A j \in DOMAIN tree, f \in BOOLEAN : IsPrefix(p.name, j) => ListOK(built[j], Record(tree, j), f)
  BY BuiltIs
<1>7. up \in DOMAIN dom
  BY <1>1
<1>8. /\ DOMAIN d = DOMAIN dom \cup DOMAIN built
      /\ \A j \in DOMAIN built : d[j] = built[j]
      /\ \A j \in DOMAIN dom \ DOMAIN built : d[j] = IF j = up THEN r ELSE dom[j]
  <2> HIDE DEF r, built, up
  <2>1. d = With([dom EXCEPT ![up] = r], built)
    BY <1>3 DEF Changed
  <2> QED BY <1>7, <2>1 DEF With
<1>9. DOMAIN s = DOMAIN store \cup DOMAIN built
  <2>1. DOMAIN Serialized(tree, p.name, p.name) = {j \in DOMAIN tree : IsPrefix(p.name, j)}
    BY SerializedIs
  <2>2. DOMAIN p.node = DOMAIN built
    BY <1>6, <2>1
  <2> HIDE DEF built
  <2> QED BY <2>2 DEF After, Inserted, With
<1>10. kids \in Seq(Id) /\ Inj(kids) /\ Stands(c, kids) /\ p.name \notin ToSet(kids)
  BY <1>1 DEF Linked, RecordOK, ListOK
<1>11. e \in Elements /\ e.name = p.name /\ ~e.leaving
  <2>1. p.name \in Id
    BY TreeIs
  <2> QED BY <2>1, ElementIs
<1>12. Stands(r, more) /\ (InOrder(c, kids) /\ ~OneLeaves(c) => InOrder(r, more))
  <2> HIDE DEF c, kids, e
  <2>1. p.index \in 1..(Len(kids) + 1)
    BY DEF kids
  <2> QED BY <1>10, <1>11, <2>1, ListInserted
<1> HIDE DEF r, more, c, kids, e, built
<1>13. up \in Id /\ ~IsPrefix(p.name, up)
  <2>1. up \in Id
    BY DEF Linked, RecordOK
  <2>2. /\ Len(up) \in Nat /\ Len(p.name) = Len(up) + 1 /\ p.name \in Id
    BY <2>1, Child DEF Id
  <2>3. IsPrefix(p.name, up) => Len(p.name) <= Len(up)
    BY <2>1, <2>2, PrefixIs
  <2> QED BY <2>1, <2>2, <2>3
<1>14. ASSUME NEW j \in DOMAIN s PROVE ListOK(d[j], s[j], j \in b)
  <2>1. j \in Id
    BY <1>4 DEF Linked, RecordOK
  <2>2. CASE IsPrefix(p.name, j)
    <3>1. j \in DOMAIN tree /\ s[j] = Record(tree, j)
      BY <1>5, <2>1, <2>2 DEF Grafted
    <3>2. j \in DOMAIN built /\ d[j] = built[j]
      BY <1>6, <1>8, <2>2, <3>1
    <3>3. (j \in b) \in BOOLEAN
      OBVIOUS
    <3> QED BY <1>6, <2>2, <3>1, <3>2, <3>3
  <2>3. CASE j = up
    <3>1. d[j] = r
      BY <1>1, <1>6, <1>8, <1>13, <2>3
    <3> QED BY <1>1, <1>3, <1>4, <1>12, <2>3, <3>1 DEF ListOK, Amended, kids
  <2>4. CASE ~IsPrefix(p.name, j) /\ j # up
    <3>1. j \in DOMAIN store /\ s[j] = store[j]
      BY <1>5, <2>1, <2>4 DEF Untouched
    <3>2. d[j] = dom[j]
      BY <1>1, <1>6, <1>8, <2>4, <3>1
    <3>3. j \in b <=> j \in beside
      BY <1>3, <2>4
    <3>4. ListOK(dom[j], store[j], j \in beside)
      BY <3>1 DEF Shows
    <3> QED BY <3>1, <3>2, <3>3, <3>4 DEF ListOK
  <2> QED BY <2>2, <2>3, <2>4
<1> QED BY <1>1, <1>8, <1>9, <1>14 DEF Shows

LEMMA ShownRemove ==
    ASSUME Linked(store), Shows(dom, store, beside), NEW p, p.op = "remove", p.id \in DOMAIN store, p.id # Root,
           ProjectRemove(p),
           NEW s, s = After(p), NEW d, d = dom', NEW b, b = beside'
    PROVE  Shows(d, s, b)
<1> DEFINE up == Front(p.id)
           c == dom[up]
           kids == store[up].kids
           r == Taken(c, p.id)
           less == RemoveAt(kids, Position(kids, p.id))
<1>0. up \in DOMAIN store /\ up \in Id /\ p.id \in ToSet(kids) /\ ~IsPrefix(p.id, up)
  BY ParentIs
<1>1. DOMAIN dom = DOMAIN store /\ ListOK(c, store[up], up \in beside)
  BY <1>0 DEF Shows
<1>2. ~IsStack(up)
  BY <1>1 DEF ListOK, IsStack
<1>3. d = Without(Changed(up, r, << >>), Below(p.id)) /\ b = beside
  BY <1>2 DEF ProjectRemove
<1>4. Linked(s) /\ Amended(store, s, up, less)
  BY RemovedIs
<1>5. \A j \in Id : IF IsPrefix(p.id, j) THEN j \notin DOMAIN s
                    ELSE j # up => Untouched(store, s, j)
  BY RemovedIs
<1>6. Below(p.id) = {j \in DOMAIN store : IsPrefix(p.id, j)} /\ \A j \in DOMAIN store : j \in Id
  <2>1. p.id \in Id /\ \A j \in DOMAIN store : j \in Id
    BY DEF Linked, RecordOK
  <2> QED BY <2>1, BelowIs
<1>7. /\ DOMAIN Changed(up, r, << >>) = DOMAIN dom
      /\ \A j \in DOMAIN dom : Changed(up, r, << >>)[j] = IF j = up THEN r ELSE dom[j]
  BY <1>0, <1>1, ChangedAlone
<1>8. /\ DOMAIN d = {j \in DOMAIN store : ~IsPrefix(p.id, j)}
      /\ \A j \in DOMAIN d : d[j] = IF j = up THEN r ELSE dom[j]
  <2> HIDE DEF r, up
  <2> QED BY <1>1, <1>3, <1>6, <1>7 DEF Without
<1>9. kids \in Seq(Id) /\ Inj(kids) /\ Stands(c, kids)
  BY <1>0, <1>1 DEF Linked, RecordOK, ListOK
<1>10. Stands(r, less) /\ (InOrder(c, kids) => InOrder(r, less))
  <2> HIDE DEF c, kids
  <2> QED BY <1>0, <1>9, ListTaken
<1> HIDE DEF r, less, c, kids
<1>11. DOMAIN s = DOMAIN d
  <2>1. \A j \in DOMAIN s : j \in Id
    BY <1>4 DEF Linked, RecordOK
  <2>2. up \in DOMAIN s
    BY <1>4 DEF Amended
  <2> HIDE DEF up
  <2> QED BY <1>0, <1>5, <1>6, <1>8, <2>1, <2>2 DEF Untouched
<1>12. ListOK(d[up], s[up], up \in b)
  <2>1. d[up] = r
    BY <1>0, <1>8
  <2> QED BY <1>1, <1>3, <1>4, <1>10, <2>1 DEF ListOK, Amended, kids
<1>13. \A j \in DOMAIN s : j # up => /\ j \in DOMAIN store /\ d[j] = dom[j]
                                     /\ s[j].kids = store[j].kids /\ s[j].kind = store[j].kind
  <2> HIDE DEF up
  <2> QED BY <1>5, <1>6, <1>8, <1>11 DEF Untouched
<1>14. up \in DOMAIN s
  BY <1>0, <1>8, <1>11
<1> QED BY <1>3, <1>11, <1>12, <1>13, <1>14, OneList

LEMMA ShownMount ==
    ASSUME TreeOK(tree), Unstacked(tree), NEW p, p.op = "mount", p.node = Serialized(tree, Root, Root),
           NEW s, s = After(p), NEW d, d = Built(p.node), NEW b
    PROVE  Shows(d, s, b)
<1>1. Root \in DOMAIN tree /\ \A j \in DOMAIN tree : IsPrefix(Root, j)
  BY TreeIs, PrefixSelf
<1>2. /\ DOMAIN d = {j \in DOMAIN tree : IsPrefix(Root, j)}
      /\ \A j \in DOMAIN tree, f \in BOOLEAN : IsPrefix(Root, j) => ListOK(d[j], Record(tree, j), f)
  BY <1>1, BuiltIs
<1>3. s = p.node
  BY DEF After
<1>4. /\ DOMAIN Serialized(tree, Root, Root) = {j \in DOMAIN tree : IsPrefix(Root, j)}
      /\ \A j \in DOMAIN tree : IsPrefix(Root, j) => Serialized(tree, Root, Root)[j] = Record(tree, j)
  BY <1>1, SerializedIs
<1>5. ASSUME NEW j \in DOMAIN s PROVE ListOK(d[j], s[j], j \in b)
  <2>1. j \in DOMAIN tree /\ s[j] = Record(tree, j)
    BY <1>1, <1>3, <1>4
  <2>2. (j \in b) \in BOOLEAN
    OBVIOUS
  <2> QED BY <1>1, <1>2, <2>1, <2>2
<1> QED BY <1>2, <1>3, <1>4, <1>5 DEF Shows

\* An element of a node that has a parent.
LEMMA StyledIs ==
    ASSUME Linked(store), Shows(dom, store, beside), NEW id \in DOMAIN store, id # Root
    PROVE  /\ Front(id) \in DOMAIN store /\ Front(id) \in DOMAIN dom /\ ~IsStack(Front(id))
           /\ id \in ToSet(store[Front(id)].kids) /\ ~IsPrefix(id, Front(id))
           /\ Stands(dom[Front(id)], store[Front(id)].kids)
           /\ Styled(id) \in Elements /\ Styled(id).name = id /\ ~Styled(id).leaving
<1>1. Front(id) \in DOMAIN store /\ id \in ToSet(store[Front(id)].kids) /\ ~IsPrefix(id, Front(id))
  BY ParentIs
<1>2. DOMAIN dom = DOMAIN store /\ ListOK(dom[Front(id)], store[Front(id)], Front(id) \in beside)
  BY <1>1 DEF Shows
<1>3. Stands(dom[Front(id)], store[Front(id)].kids) /\ ~IsStack(Front(id))
  BY <1>2 DEF ListOK, IsStack
<1>4. PICK c, kids : c = dom[Front(id)] /\ kids = store[Front(id)].kids
  OBVIOUS
<1>5. /\ c[At(c, id)].name = id /\ ~c[At(c, id)].leaving
      /\ c[At(c, id)] \in Elements
  BY <1>1, <1>3, <1>4, AtIs
<1> QED BY <1>1, <1>2, <1>3, <1>4, <1>5 DEF Styled

\* One element is restyled, and its node's record changes below its kids.
LEMMA ShownStyled ==
    ASSUME Linked(store), Shows(dom, store, beside),
           NEW p, p.op \in {"setText", "setArgs", "setModifiers"}, p.id \in DOMAIN store, p.id # Root,
           NEW e \in Elements, e.name = p.id, ~e.leaving,
           NEW s, s = After(p), NEW d, d = Changed(Front(p.id), Restyled(p.id, e), << >>)
    PROVE  Shows(d, s, beside)
<1> DEFINE up == Front(p.id)
           r == Restyled(p.id, e)
<1>1. /\ up \in DOMAIN store /\ up \in DOMAIN dom /\ p.id \in ToSet(store[up].kids)
      /\ Stands(dom[up], store[up].kids)
  BY StyledIs
<1>2. DOMAIN d = DOMAIN dom /\ \A j \in DOMAIN dom : d[j] = IF j = up THEN r ELSE dom[j]
  BY <1>1, ChangedAlone
<1>3. /\ Linked(s) /\ p.id \in DOMAIN s /\ s[p.id].kind = store[p.id].kind /\ s[p.id].kids = store[p.id].kids
      /\ \A j \in Id : j # p.id => Untouched(store, s, j)
  BY SetIs
<1>4. DOMAIN s = DOMAIN store /\ \A j \in DOMAIN s : s[j].kids = store[j].kids /\ s[j].kind = store[j].kind
  <2>1. \A j \in DOMAIN s \cup DOMAIN store : j \in Id
    BY <1>3 DEF Linked, RecordOK
  <2> QED BY <1>3, <2>1 DEF Untouched
<1>5. PICK c, kids : c = dom[up] /\ kids = store[up].kids
  OBVIOUS
<1>6. r = [c EXCEPT ![At(c, p.id)] = e]
  BY <1>5 DEF Restyled
<1>7. LET r2 == [c EXCEPT ![At(c, p.id)] = e]
      IN  Stands(r2, kids) /\ (InOrder(c, kids) => InOrder(r2, kids))
  BY <1>1, <1>5, ListStyled
<1> HIDE DEF r
<1>8. ListOK(dom[up], store[up], up \in beside) /\ DOMAIN dom = DOMAIN store
  BY <1>1 DEF Shows
<1> HIDE DEF up
<1>9. ListOK(d[up], s[up], up \in beside)
  <2>1. d[up] = r /\ s[up].kids = kids /\ s[up].kind = store[up].kind
    BY <1>1, <1>2, <1>4, <1>5
  <2> QED BY <1>5, <1>6, <1>7, <1>8, <2>1 DEF ListOK
<1>10. \A j \in DOMAIN s : j # up => /\ j \in DOMAIN store /\ d[j] = dom[j]
                                     /\ s[j].kids = store[j].kids /\ s[j].kind = store[j].kind
  BY <1>2, <1>4, <1>8
<1>11. up \in DOMAIN s /\ DOMAIN d = DOMAIN s /\ beside \subseteq beside /\ beside \subseteq beside \cup {up}
  BY <1>1, <1>2, <1>4, <1>8
<1> QED BY <1>9, <1>10, <1>11, OneList

\* Nothing of what the page shows changes.
LEMMA ShownSame ==
    ASSUME Linked(store), Shows(dom, store, beside),
           NEW p, p.op \in {"setText", "setArgs", "setModifiers"}, p.id \in DOMAIN store,
           NEW s, s = After(p)
    PROVE  Shows(dom, s, beside)
<1>1. /\ Linked(s) /\ p.id \in DOMAIN s /\ s[p.id].kind = store[p.id].kind /\ s[p.id].kids = store[p.id].kids
      /\ \A j \in Id : j # p.id => Untouched(store, s, j)
  BY SetIs
<1>2. DOMAIN s = DOMAIN store /\ \A j \in DOMAIN s : s[j].kids = store[j].kids /\ s[j].kind = store[j].kind
  <2>1. \A j \in DOMAIN s \cup DOMAIN store : j \in Id
    BY <1>1 DEF Linked, RecordOK
  <2> QED BY <1>1, <2>1 DEF Untouched
<1> QED BY <1>2 DEF Shows, ListOK

LEMMA ShownReplace ==
    ASSUME Linked(store), TreeOK(tree), Unstacked(tree), Shows(dom, store, beside), NEW p, p.op = "replace",
           p.id \in DOMAIN store, p.id \in DOMAIN tree, p.node = Serialized(tree, p.id, p.id),
           ProjectReplace(p), p.id # Root,
           NEW s, s = After(p), NEW d, d = dom'
    PROVE  Shows(d, s, beside)
<1> DEFINE up == Front(p.id)
           e == Element(p.id, p.node[p.id])
           r == Restyled(p.id, e)
           built == Built(p.node)
<1>1. /\ up \in DOMAIN store /\ up \in DOMAIN dom /\ p.id \in ToSet(store[up].kids)
      /\ Stands(dom[up], store[up].kids) /\ ~IsPrefix(p.id, up)
  BY StyledIs
<1>2. d = With(Without(Changed(up, r, << >>), Below(p.id)), built)
  BY DEF ProjectReplace
<1>3. Linked(s) /\ \A j \in Id : IF IsPrefix(p.id, j) THEN Grafted(s, tree, j)
                                 ELSE Untouched(store, s, j)
  BY ReplacedIs
<1>4. /\ DOMAIN built = {j \in DOMAIN tree : IsPrefix(p.id, j)}
      /\ \A j \in DOMAIN tree, f \in BOOLEAN : IsPrefix(p.id, j) => ListOK(built[j], Record(tree, j), f)
  BY BuiltIs
<1>5. p.id \in Id /\ \A j \in DOMAIN store \cup DOMAIN s \cup DOMAIN tree : j \in Id
  BY <1>3, TreeIs DEF Linked, RecordOK
<1>6. Below(p.id) = {j \in DOMAIN store : IsPrefix(p.id, j)}
  BY <1>5, BelowIs
<1>7. /\ DOMAIN Changed(up, r, << >>) = DOMAIN dom
      /\ \A j \in DOMAIN dom : Changed(up, r, << >>)[j] = IF j = up THEN r ELSE dom[j]
  BY <1>1, ChangedAlone
<1>8. DOMAIN dom = DOMAIN store /\ ListOK(dom[up], store[up], up \in beside)
  BY <1>1 DEF Shows
<1>9. e \in Elements /\ e.name = p.id /\ ~e.leaving
  BY <1>5, ElementIs
<1>10. PICK c, kids : c = dom[up] /\ kids = store[up].kids
  OBVIOUS
<1>11. r = [c EXCEPT ![At(c, p.id)] = e]
  BY <1>10 DEF Restyled
<1> HIDE DEF r, e, built
<1>12. LET r2 == [c EXCEPT ![At(c, p.id)] = e]
       IN  Stands(r2, kids) /\ (InOrder(c, kids) => InOrder(r2, kids))
  BY <1>1, <1>9, <1>10, ListStyled
<1> HIDE DEF up
<1>13. /\ DOMAIN d = (DOMAIN store \ Below(p.id)) \cup DOMAIN built
       /\ \A j \in DOMAIN built : d[j] = built[j]
       /\ \A j \in DOMAIN d \ DOMAIN built : d[j] = IF j = up THEN r ELSE dom[j]
  BY <1>2, <1>7, <1>8 DEF With, Without
<1>14. DOMAIN d = DOMAIN s
  BY <1>3, <1>4, <1>5, <1>6, <1>13 DEF Grafted, Untouched
<1>15. ASSUME NEW j \in DOMAIN s PROVE ListOK(d[j], s[j], j \in beside)
  <2>1. CASE IsPrefix(p.id, j)
    <3>1. j \in DOMAIN tree /\ s[j] = Record(tree, j)
      BY <1>3, <1>5, <2>1 DEF Grafted
    <3>2. j \in DOMAIN built /\ d[j] = built[j]
      BY <1>4, <1>13, <2>1, <3>1
    <3>3. (j \in beside) \in BOOLEAN
      OBVIOUS
    <3> QED BY <1>4, <2>1, <3>1, <3>2, <3>3
  <2>2. CASE ~IsPrefix(p.id, j)
    <3>1. j \in DOMAIN store /\ s[j] = store[j]
      BY <1>3, <1>5, <2>2 DEF Untouched
    <3>2. d[j] = IF j = up THEN r ELSE dom[j]
      BY <1>4, <1>13, <1>14, <2>2
    <3>3. CASE j = up
      BY <1>8, <1>10, <1>11, <1>12, <3>1, <3>2, <3>3 DEF ListOK
    <3>4. CASE j # up
      BY <3>1, <3>2, <3>4 DEF Shows
    <3> QED BY <3>3, <3>4
  <2> QED BY <2>1, <2>2
<1> QED BY <1>14, <1>15 DEF Shows

\* What the page shows for the host's nodes.
DomInv == Shows(dom, store, beside)

LEMMA RootReplaced ==
    ASSUME Linked(store), TreeOK(tree), NEW p, p.op = "replace", p.id = Root,
           p.node = Serialized(tree, p.id, p.id), NEW s, s = After(p)
    PROVE  s = p.node
<1>0. \A j \in DOMAIN store : j \in Id
  BY DEF Linked, RecordOK
<1>1. Root \in Id /\ \A j \in DOMAIN store : IsPrefix(Root, j)
  <2>1. Root \in Id
    BY DEF Root, Id
  <2> QED BY <1>0, <2>1, PrefixSelf
<1>2. Below(p.id) = DOMAIN store
  BY <1>1, BelowIs
<1>3. DOMAIN Without(store, Below(p.id)) = {}
  BY <1>2 DEF Without
<1>4. p.node = [i \in DOMAIN p.node |-> p.node[i]]
  BY DEF Serialized
<1>5. With(Without(store, Below(p.id)), p.node) = [i \in DOMAIN p.node |-> p.node[i]]
  BY <1>3 DEF With
<1> QED BY <1>4, <1>5 DEF After, Replaced

LEMMA Refaded ==
    ASSUME NEW r \in Elements, NEW f \in BOOLEAN
    PROVE  LET e == [r EXCEPT !.fades = @ \/ f]
           IN  e \in Elements /\ e.name = r.name /\ e.leaving = r.leaving
BY DEF Elements

LEMMA ApplyShows ==
    ASSUME NoStacks, HostInv, DomInv, ApplyToDom
    PROVE  DomInv'
<1>1. Apply /\ inbox # <<>>
  BY DEF ApplyToDom, Apply
<1>2. PICK p : inbox = <<p>> /\ Fits(p)
  BY <1>1 DEF HostInv
<1>3. TreeOK(tree) /\ Unstacked(tree) /\ Linked(store) /\ Shows(dom, store, beside)
  BY TreesAssumption DEF HostInv, NoStacks, DomInv
<1>4. Resolves(p) /\ Head(inbox) = p
  BY <1>2, <1>3, FitsIs
<1>5. store' = After(p) /\ Project(p)
  BY <1>1, <1>4 DEF Apply, ApplyToDom
<1>6. PICK s, d, b : s = store' /\ d = dom' /\ b = beside'
  OBVIOUS
<1>7. s = After(p)
  BY <1>5, <1>6
<1>8. CASE p.op = "mount"
  <2>1. p.node = Serialized(tree, Root, Root) /\ d = Built(p.node)
    BY <1>2, <1>5, <1>6, <1>8 DEF Fits, Project
  <2>2. Shows(d, s, b)
    BY <1>3, <1>7, <1>8, <2>1, ShownMount
  <2> QED BY <1>6, <2>2 DEF DomInv
<1>9. CASE p.op = "insert"
  <2>1. PICK x \in Seg : p.name = Append(p.id, x)
    BY <1>2, <1>9 DEF Fits
  <2>2. /\ p.id \in DOMAIN store /\ p.name \notin DOMAIN store /\ p.name \in DOMAIN tree
        /\ p.node = Serialized(tree, p.name, p.name)
        /\ p.index \in 1..(Len(store[p.id].kids) + 1)
    BY <1>2, <1>9 DEF Fits
  <2>3. ProjectInsert(p)
    BY <1>5, <1>9 DEF Project
  <2>4. Shows(d, s, b)
    BY <1>3, <1>6, <1>7, <1>9, <2>1, <2>2, <2>3, ShownInsert
  <2> QED BY <1>6, <2>4 DEF DomInv
<1>10. CASE p.op = "remove"
  <2>1. p.id \in DOMAIN store /\ p.id # Root /\ ProjectRemove(p)
    BY <1>2, <1>5, <1>10 DEF Fits, Project
  <2>2. Shows(d, s, b)
    BY <1>3, <1>6, <1>7, <1>10, <2>1, ShownRemove
  <2> QED BY <1>6, <2>2 DEF DomInv
<1>11. CASE p.op = "move"
  <2>1. /\ p.parent \in DOMAIN store /\ p.id \in ToSet(store[p.parent].kids)
        /\ p.index \in 1..Len(store[p.parent].kids) /\ ProjectMove(p)
    BY <1>2, <1>5, <1>11 DEF Fits, Project
  <2>2. Shows(d, s, b)
    BY <1>3, <1>6, <1>7, <1>11, <2>1, ShownMove
  <2> QED BY <1>6, <2>2 DEF DomInv
<1>12. CASE p.op = "replace"
  <2>1. /\ p.id \in DOMAIN store /\ p.id \in DOMAIN tree /\ p.node = Serialized(tree, p.id, p.id)
        /\ ProjectReplace(p)
    BY <1>2, <1>5, <1>12 DEF Fits, Project
  <2>2. b = beside
    BY <1>6, <2>1 DEF ProjectReplace
  <2>3. CASE p.id # Root
    <3>1. Shows(d, s, beside)
      BY <1>3, <1>6, <1>7, <1>12, <2>1, <2>3, ShownReplace
    <3> QED BY <1>6, <2>2, <3>1 DEF DomInv
  <2>4. CASE p.id = Root
    <3>1. d = Built(p.node) /\ p.node = Serialized(tree, Root, Root)
      BY <1>6, <2>1, <2>4 DEF ProjectReplace
    <3>2. s = p.node
      BY <1>3, <1>7, <1>12, <2>1, <2>4, RootReplaced
    <3>3. PICK q : q = [op |-> "mount", node |-> p.node]
      OBVIOUS
    <3>4. q.op = "mount" /\ q.node = Serialized(tree, Root, Root) /\ s = After(q) /\ d = Built(q.node)
      BY <3>1, <3>2, <3>3 DEF After
    <3>5. Shows(d, s, b)
      BY <1>3, <3>4, ShownMount
    <3> QED BY <1>6, <3>5 DEF DomInv
  <2> QED BY <2>3, <2>4
<1>13. CASE p.op \in {"setText", "setArgs", "setModifiers"}
  <2>1. p.id \in DOMAIN store
    BY <1>2, <1>13 DEF Fits
  <2>2. CASE p.op = "setModifiers" /\ p.id # Root
    <3> DEFINE e == [Styled(p.id) EXCEPT !.fades = @ \/ p.mods = "fade"]
    <3>1. /\ ~IsStack(Front(p.id))
          /\ Styled(p.id) \in Elements /\ Styled(p.id).name = p.id /\ ~Styled(p.id).leaving
      BY <1>3, <2>1, <2>2, StyledIs
    <3>2. d = Changed(Front(p.id), Restyled(p.id, e), << >>) /\ b = beside
      BY <1>5, <1>6, <2>2, <3>1 DEF Project, ProjectModifiers
    <3>3. e \in Elements /\ e.name = p.id /\ ~e.leaving
      BY <3>1, Refaded
    <3> HIDE DEF e
    <3>4. Shows(d, s, beside)
      BY <1>3, <1>7, <1>13, <2>1, <2>2, <3>2, <3>3, ShownStyled
    <3> QED BY <1>6, <3>2, <3>4 DEF DomInv
  <2>3. CASE p.op = "setArgs" /\ p.id # Root
    <3> DEFINE e == [Styled(p.id) EXCEPT !.shown = TRUE]
    <3>1. Styled(p.id) \in Elements /\ Styled(p.id).name = p.id /\ ~Styled(p.id).leaving
      BY <1>3, <2>1, <2>3, StyledIs
    <3>2. d = Changed(Front(p.id), Restyled(p.id, e), << >>) /\ b = beside
      BY <1>5, <1>6, <2>3 DEF Project, ProjectArgs
    <3>3. e \in Elements /\ e.name = p.id /\ ~e.leaving
      BY <3>1 DEF Elements
    <3> HIDE DEF e
    <3>4. Shows(d, s, beside)
      BY <1>3, <1>7, <1>13, <2>1, <2>3, <3>2, <3>3, ShownStyled
    <3> QED BY <1>6, <3>2, <3>4 DEF DomInv
  <2>4. CASE p.op = "setText" \/ p.id = Root
    <3>1. d = dom /\ b = beside
      BY <1>5, <1>6, <1>13, <2>4 DEF Project, domVars
    <3>2. Shows(dom, s, beside)
      BY <1>3, <1>7, <1>13, <2>1, ShownSame
    <3> QED BY <1>6, <3>1, <3>2 DEF DomInv
  <2> QED BY <1>13, <2>2, <2>3, <2>4
<1>14. p.op \in {"mount", "insert", "remove", "move", "replace", "setText", "setArgs", "setModifiers"}
  BY <1>2 DEF Fits
<1> QED BY <1>8, <1>9, <1>10, <1>11, <1>12, <1>13, <1>14

\* A tween takes one element out, and no child's.
LEMMA TweenShows ==
    ASSUME HostInv, DomInv, TweenEnds
    PROVE  DomInv'
<1>0. PICK id \in DOMAIN dom : \E i \in DOMAIN dom[id] :
          /\ dom[id][i].leaving
          /\ LET rest == RemoveAt(dom[id], i)
             IN  dom' = Changed(id, IF IsStack(id) THEN Synced(rest) ELSE rest, << >>)
  BY DEF TweenEnds
<1>1. PICK i \in DOMAIN dom[id] :
          /\ dom[id][i].leaving
          /\ LET rest == RemoveAt(dom[id], i)
             IN  dom' = Changed(id, IF IsStack(id) THEN Synced(rest) ELSE rest, << >>)
  BY <1>0
<1>2. UNCHANGED <<store, beside>> /\ Shows(dom, store, beside)
  BY DEF TweenEnds, vars, DomInv
<1>3. DOMAIN dom = DOMAIN store /\ ListOK(dom[id], store[id], id \in beside)
  BY <1>2 DEF Shows
<1>4. dom' = Changed(id, RemoveAt(dom[id], i), << >>)
  BY <1>1, <1>3 DEF ListOK, IsStack
<1>5. PICK c, r, kids : c = dom[id] /\ r = RemoveAt(c, i) /\ kids = store[id].kids
  OBVIOUS
<1>6. DOMAIN dom' = DOMAIN dom /\ \A j \in DOMAIN dom : dom'[j] = IF j = id THEN r ELSE dom[j]
  BY <1>4, <1>5, ChangedAlone
<1>7. i \in DOMAIN c /\ c[i].leaving /\ Stands(c, kids)
  BY <1>1, <1>3, <1>5 DEF ListOK
<1>8. Stands(r, kids) /\ (InOrder(c, kids) => InOrder(r, kids))
  BY <1>5, <1>7, ListTweened
<1>9. PICK d : d = dom'
  OBVIOUS
<1>10. ListOK(d[id], store[id], id \in beside)
  BY <1>3, <1>5, <1>6, <1>8, <1>9 DEF ListOK
<1>11. ASSUME NEW j \in DOMAIN store, j # id PROVE ListOK(d[j], store[j], j \in beside)
  BY <1>2, <1>3, <1>6, <1>9, <1>11 DEF Shows
<1>12. Shows(d, store, beside)
  BY <1>3, <1>6, <1>9, <1>10, <1>11 DEF Shows
<1> QED BY <1>2, <1>9, <1>12 DEF DomInv

\* A render ages the records, and the diff reads them.
LEMMA RenderShows ==
    ASSUME HostInv, DomInv, Render, UNCHANGED domVars
    PROVE  DomInv'
<1>1. PICK s, s2 : s = store /\ s2 = store'
  OBVIOUS
<1>2. Linked(s) /\ s2 = [i \in DOMAIN s |-> [s[i] EXCEPT !.new = FALSE]]
  BY <1>1 DEF HostInv, Render
<1>3. AllOld(s, s2)
  BY <1>2, Aged
<1>4. Shows(dom, s, beside)
  BY <1>1 DEF DomInv
<1>5. Shows(dom, s2, beside)
  BY <1>3, <1>4 DEF Shows, ListOK, AllOld
<1> QED BY <1>1, <1>5 DEF DomInv, domVars

\* The page that shows the nodes changes nothing about them.
LEMMA WebRefines ==
    WebSpec => Spec
<1>1. WebInit => Init
  BY DEF WebInit
<1>2. [WebNext]_<<vars, domVars>> => [Next]_vars
  BY DEF WebNext, Next, ApplyToDom, TweenEnds
<1> QED BY <1>1, <1>2, PTL DEF WebSpec, Spec


LEMMA WebFollows ==
    ASSUME ListsStay
    PROVE  WebSpec => []HostInv
BY WebRefines, HostFollows, PTL

\* With the page, too, the host reaches the tree and keeps its elements.
THEOREM PageFollows ==
    ASSUME ListsStay
    PROVE  WebSpec => [](PatchesReachTree /\ ElementsSurvive)
<1>1. Spec => []PatchesReachTree
  BY PatchesReach
<1>2. Spec => []ElementsSurvive
  BY ElementsKept
<1> QED BY <1>1, <1>2, WebRefines, PTL

\* Every child of every node has its one element, and they stand in the order
\* of the children, whatever the patches before did to them.
THEOREM ElementsFollow ==
    ASSUME ListsStay, NoStacks
    PROVE  WebSpec => []DomInOrder
<1>1. WebInit => DomInv
  <2> SUFFICES ASSUME WebInit PROVE DomInv
    OBVIOUS
  <2>1. dom = << >> /\ store = << >> /\ DOMAIN << >> = {}
    BY DEF WebInit, Init
  <2> QED BY <2>1 DEF DomInv, Shows
<1>2. HostInv /\ DomInv /\ [WebNext]_<<vars, domVars>> => DomInv'
  <2> SUFFICES ASSUME HostInv, DomInv, [WebNext]_<<vars, domVars>> PROVE DomInv'
    OBVIOUS
  <2>1. CASE Render /\ UNCHANGED domVars
    BY <2>1, RenderShows
  <2>2. CASE Diff /\ UNCHANGED domVars
    BY <2>2 DEF Diff, DomInv, domVars
  <2>3. CASE ApplyToDom
    BY <2>3, ApplyShows
  <2>4. CASE TweenEnds
    BY <2>4, TweenShows
  <2>5. CASE UNCHANGED <<vars, domVars>>
    BY <2>5 DEF vars, domVars, DomInv
  <2> QED BY <2>1, <2>2, <2>3, <2>4, <2>5 DEF WebNext
<1>3. HostInv /\ DomInv => DomInOrder
  <2> SUFFICES ASSUME HostInv, DomInv, NEW id \in DOMAIN store
               PROVE  /\ Matched(dom[id], store[id].kids)
                      /\ id \notin beside => Ordered(dom[id], store[id].kids)
    BY DEF DomInOrder
  <2>1. PICK c, kids : c = dom[id] /\ kids = store[id].kids
    OBVIOUS
  <2>2. ListOK(c, store[id], id \in beside) /\ kids \in Seq(Id)
    BY <2>1 DEF DomInv, Shows, HostInv, Linked, RecordOK
  <2>3. Stands(c, kids) /\ (id \notin beside => InOrder(c, kids))
    BY <2>1, <2>2 DEF ListOK
  <2>4. c \in Seq(Elements) /\ DOMAIN c = 1..Len(c)
    BY <2>3 DEF Stands
  <2>5. \A x \in ToSet(kids) : x # None
    BY <2>2, NoneAssumption, Ranges DEF Id
  <2>6. Live(c) = {m \in 1..Len(c) : ~c[m].leaving}
    BY <2>3, <2>4, <2>5 DEF Live, Stands
  <2>7. {c[m].name : m \in Live(c)} = ToSet(kids)
    BY <2>3, <2>6 DEF Stands, Is
  <2>8. Matched(c, kids)
    BY <2>3, <2>6, <2>7 DEF Matched, Stands
  <2>9. InOrder(c, kids) => Ordered(c, kids)
    BY <2>6 DEF InOrder, Ordered
  <2> QED BY <2>1, <2>3, <2>8, <2>9
<1>4. WebSpec => []HostInv
  BY WebFollows
<1> QED BY <1>1, <1>2, <1>3, <1>4, PTL DEF WebSpec
=============================================================================

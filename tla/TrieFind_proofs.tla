-------------------------- MODULE TrieFind_proofs --------------------------
(***************************************************************************)
(* Proof that a descent finds every stored key at the one node that holds  *)
(* it, in whatever order the keys came and however the nodes were split,   *)
(* for keys of every length and for every set of keys and values.          *)
(***************************************************************************)
EXTENDS TrieMap_proofs

-----------------------------------------------------------------------------
(* One step of a descent *)

\* Where the descent along k goes from node n, if f says where it ends from the
\* nodes below.
LocateStep(k, f, n) ==
  LET Child == heap[n].children[k[Len(heap[n].at) + 1]]
      whole == heap[n].at \o heap[n].path
  IN  CASE heap[n].type = "BRANCH" -> IF Child = Null THEN Null ELSE f[Child]
        [] heap[n].type = "EXTENSION" ->
             IF whole = SubSeq(k, 1, Len(whole)) THEN f[heap[n].next] ELSE Null
        [] OTHER -> IF KeyAt(n) = k THEN n ELSE Null

Descent(k, f) == f = [n \in DOMAIN heap |-> LocateStep(k, f, n)]

\* Locate follows a function that satisfies the equation, if there is one.
LEMMA LocateIs ==
  ASSUME NEW k
  PROVE  Locate(k) = IF root = Null THEN Null ELSE (CHOOSE f : Descent(k, f))[root]
  BY Zenon DEF Locate, LocateStep, Descent

\* A stored key is a sequence of HexLen nibbles, at or below the place of its node.
LEMMA StoredKey ==
  ASSUME Held, NEW x \in Stored
  PROVE  /\ x \in DOMAIN heap /\ Holder(heap[x])
         /\ KeyAt(x) \in Seq(Nibble) /\ Len(KeyAt(x)) = HexLen /\ HexLen \in Nat
         /\ Len(heap[x].at) \in Nat /\ Extends(KeyAt(x), heap[x].at)
<1>1. /\ x \in DOMAIN heap /\ Holder(heap[x]) /\ Full(heap[x]) /\ TypeOK /\ LeafNibbles
      /\ HexLen \in Nat
  BY HexLenTyped DEF Held, Inv, NodesOK, Places, FullNodes, Stored, Holder
<1>2. heap[x].at \in Seq(Nibble) /\ Len(heap[x].at) \in Nat
  BY <1>1, PlaceTyped
<1>3. CASE heap[x].type = "VALUE"
  <2>1. KeyAt(x) = heap[x].at /\ Len(heap[x].at) = HexLen
    BY <1>1, <1>3 DEF KeyAt, Full
  <2> QED
    BY <1>1, <1>2, <2>1 DEF Extends
<1>4. CASE heap[x].type = "LEAF"
  <2> DEFINE s  == heap[x].at \o heap[x].path
             la == Len(heap[x].at)
             lp == Len(heap[x].path)
  <2>1. /\ lp \in Nat /\ Len(s) = la + lp
        /\ heap[x].at \in Seq(Nibble \cup {Junk}) /\ heap[x].path \in Seq(Nibble \cup {Junk})
        /\ \A j \in 1..la : s[j] = heap[x].at[j]
        /\ \A j \in 1..lp : s[la + j] = heap[x].path[j]
    BY <1>1, <1>4, PlaceTyped
  <2>2. /\ la \in Nat /\ la <= HexLen /\ la + lp >= HexLen
        /\ KeyAt(x) = SubSeq(s, 1, HexLen)
        /\ \A j \in 1..la : heap[x].at[j] \in Nibble
        /\ \A j \in 1..lp : la + j <= HexLen => heap[x].path[j] \in Nibble
    BY <1>1, <1>2, <1>4, ElementOfSeq DEF Full, LeafNibbles, KeyAt
  <2> HIDE DEF s, la, lp
  <2>3. ASSUME NEW j \in 1..HexLen PROVE s[j] \in Nibble
    <3>1. CASE j <= la
      BY <1>1, <2>1, <2>2, <3>1
    <3>2. CASE j > la
      <4>1. j - la \in 1..lp /\ la + (j - la) = j /\ la + (j - la) <= HexLen
        BY <1>1, <2>1, <2>2, <3>2
      <4> QED
        BY <2>1, <2>2, <4>1
    <3> QED
      BY <1>1, <2>2, <3>1, <3>2
  <2>4. /\ SubSeq(s, 1, HexLen) \in Seq(Nibble) /\ Len(SubSeq(s, 1, HexLen)) = HexLen
        /\ \A j \in 1..HexLen : SubSeq(s, 1, HexLen)[j] = s[j]
    BY <1>1, <2>3, SubSeqProperties
  <2>5. Extends(KeyAt(x), heap[x].at)
    BY <1>1, <2>1, <2>2, <2>4 DEF Extends, la
  <2> QED
    BY <1>1, <1>2, <2>2, <2>4, <2>5
<1> QED
  BY <1>1, <1>3, <1>4 DEF Holder

\* On the way to x: the nodes at or above its key.
OnWay(x, n) == n \in DOMAIN heap /\ Extends(KeyAt(x), heap[n].at)

\* The step of a descent along the key of x, from a branch.
LEMMA WayBranch ==
  ASSUME Held, NEW x \in Stored, NEW n \in DOMAIN heap, heap[n].type = "BRANCH"
  PROVE  LET c == heap[n].children[KeyAt(x)[Len(heap[n].at) + 1]]
         IN  /\ OnWay(x, n) => c # Null
             /\ c # Null => /\ c \in DOMAIN heap /\ (OnWay(x, c) <=> OnWay(x, n))
                            /\ Len(heap[c].at) = Len(heap[n].at) + 1
<1> DEFINE k == KeyAt(x)
           a == heap[n].at
           i == k[Len(a) + 1]
           c == heap[n].children[i]
<1>1. /\ TypeOK /\ TreeShape /\ k \in Seq(Nibble) /\ Len(k) = HexLen /\ HexLen \in Nat
      /\ a \in Seq(Nibble) /\ Len(a) \in Nat /\ Len(a) < HexLen
      /\ x \in DOMAIN heap /\ Len(heap[x].at) \in Nat /\ Extends(k, heap[x].at) /\ Holder(heap[x])
  BY StoredKey, PlaceTyped DEF Held, Inv, NodesOK, BranchDepth
<1>2. i \in Nibble
  <2>1. Len(a) + 1 \in 1..Len(k)
    BY <1>1
  <2> HIDE DEF k, a
  <2> QED
    BY <1>1, <2>1, ElementOfSeq
<1>3. ASSUME OnWay(x, n) PROVE c # Null
  <2>1. x # n /\ Beside(heap[x], heap[n]) /\ Beside(heap[n], heap[x])
    BY <1>1 DEF Held, Places, Apart, Holder
  <2>2. ~ Extends(a, heap[x].at)
    BY <1>1, <2>1 DEF Beside, Holder
  <2>3. Extends(heap[x].at, a)
    BY <1>1, <1>3, <2>2, Comparable DEF OnWay
  <2>4. Len(heap[x].at) > Len(a) /\ heap[n].children[heap[x].at[Len(a) + 1]] # Null
    BY <1>1, <2>1, <2>3 DEF Beside, Holder
  <2>5. heap[x].at[Len(a) + 1] = i
    BY <1>1, <2>4 DEF Extends
  <2> QED
    BY <2>4, <2>5
<1>4. ASSUME c # Null
      PROVE  /\ c \in DOMAIN heap /\ (OnWay(x, c) <=> OnWay(x, n))
             /\ Len(heap[c].at) = Len(a) + 1
  <2>1. /\ c \in DOMAIN heap /\ heap[c].at = a \o <<i>> /\ Len(heap[c].at) = Len(a) + 1
    BY <1>1, <1>2, <1>4, BranchChild
  <2>2. /\ \A j \in 1..Len(a) : heap[c].at[j] = a[j]
        /\ heap[c].at[Len(a) + 1] = i
    <3>1. <<i>> \in Seq(Nibble) /\ Len(<<i>>) = 1 /\ <<i>>[1] = i
      BY <1>2
    <3> HIDE DEF a, i, k
    <3>2. \A j \in 1..(Len(a) + 1) :
            (a \o <<i>>)[j] = IF j <= Len(a) THEN a[j] ELSE <<i>>[j - Len(a)]
      BY <1>1, <3>1, ConcatProperties
    <3>3. \A j \in 1..Len(a) : (a \o <<i>>)[j] = a[j]
      BY <1>1, <3>2
    <3>4. Len(a) + 1 \in 1..(Len(a) + 1) /\ ~ (Len(a) + 1 <= Len(a)) /\ (Len(a) + 1) - Len(a) = 1
      BY <1>1
    <3> QED
      BY <2>1, <3>1, <3>2, <3>3, <3>4
  <2> DEFINE b == heap[c].at
             l == Len(a)
  <2>3. /\ k[l + 1] = i /\ Len(b) = l + 1 /\ l \in Nat /\ Len(k) = HexLen /\ HexLen \in Nat
        /\ l + 1 <= HexLen
        /\ \A j \in 1..l : b[j] = a[j]
        /\ b[l + 1] = i
    <3>1. k[l + 1] = i
      OBVIOUS
    <3>2. l \in Nat /\ l < HexLen /\ Len(k) = HexLen /\ HexLen \in Nat
      BY <1>1
    <3>3. Len(b) = l + 1
      BY <2>1
    <3>4. (\A j \in 1..l : b[j] = a[j]) /\ b[l + 1] = i
      BY <2>2
    <3> HIDE DEF a, b, c, i, k, l
    <3>5. l + 1 <= HexLen
      BY <3>2
    <3> QED
      BY <3>1, <3>2, <3>3, <3>4, <3>5
  <2> HIDE DEF a, b, c, i, k, l
  <2>4. Extends(k, b) <=> \A j \in 1..(l + 1) : k[j] = b[j]
    BY <2>3 DEF Extends
  <2>5. Extends(k, a) <=> \A j \in 1..l : k[j] = a[j]
    BY <2>3 DEF Extends, l
  <2>6. (\A j \in 1..(l + 1) : k[j] = b[j]) <=> (\A j \in 1..l : k[j] = a[j])
    BY <2>3
  <2> QED
    BY <2>1, <2>4, <2>5, <2>6 DEF OnWay, a, b, c, i, k
<1> QED
  BY <1>3, <1>4

\* From an extension.
LEMMA WayExtension ==
  ASSUME Held, NEW x \in Stored, NEW n \in DOMAIN heap, heap[n].type = "EXTENSION"
  PROVE  LET c     == heap[n].next
             whole == heap[n].at \o heap[n].path
         IN  /\ c \in DOMAIN heap /\ heap[c].type = "BRANCH" /\ heap[c].at = whole
             /\ Len(heap[c].at) >= Len(heap[n].at)
             /\ OnWay(x, n) <=> whole = SubSeq(KeyAt(x), 1, Len(whole))
             /\ OnWay(x, n) => OnWay(x, c)
<1> DEFINE k == KeyAt(x)
           a == heap[n].at
           c == heap[n].next
           w == a \o heap[n].path
<1>1. /\ TypeOK /\ TreeShape /\ k \in Seq(Nibble) /\ Len(k) = HexLen /\ HexLen \in Nat
      /\ a \in Seq(Nibble) /\ Len(a) \in Nat
      /\ x \in DOMAIN heap /\ Len(heap[x].at) \in Nat /\ Extends(k, heap[x].at) /\ Holder(heap[x])
  BY StoredKey, PlaceTyped DEF Held, Inv, NodesOK
<1>2. /\ c \in DOMAIN heap /\ heap[c].type = "BRANCH" /\ heap[c].at = w
  BY <1>1, ExtensionNext
<1>3. w \in Seq(Nibble) /\ Len(w) \in Nat /\ Len(w) < HexLen
  BY <1>1, <1>2, PlaceTyped DEF Held, Inv, NodesOK, BranchDepth
<1>4. Len(w) >= Len(a) /\ Extends(w, a)
  <2>1. /\ Len(heap[n].path) \in Nat /\ Len(w) = Len(a) + Len(heap[n].path)
        /\ \A j \in 1..Len(a) : w[j] = a[j]
    BY <1>1, PlaceTyped
  <2> DEFINE lw == Len(w)
             la == Len(a)
             lp == Len(heap[n].path)
  <2>2. lw = la + lp /\ la \in Nat /\ lp \in Nat
    BY <1>1, <2>1, Zenon
  <2> HIDE DEF lw, la, lp
  <2>3. lw >= la
    BY <2>2
  <2> QED
    BY <2>1, <2>3 DEF Extends, lw, la
<1>5. w = SubSeq(k, 1, Len(w)) <=> Extends(k, w)
  <2> HIDE DEF k, w
  <2>1. \A j \in 1..Len(w) : k[j] \in Nibble
    BY <1>1, <1>3, ElementOfSeq
  <2>2. /\ SubSeq(k, 1, Len(w)) \in Seq(Nibble) /\ Len(SubSeq(k, 1, Len(w))) = Len(w)
        /\ \A j \in 1..Len(w) : SubSeq(k, 1, Len(w))[j] = k[j]
    BY <1>3, <2>1, SubSeqProperties
  <2>3. ASSUME Extends(k, w) PROVE w = SubSeq(k, 1, Len(w))
    BY <1>3, <2>2, <2>3, SeqEqual DEF Extends
  <2>4. ASSUME w = SubSeq(k, 1, Len(w)) PROVE Extends(k, w)
    BY <1>1, <1>3, <2>2, <2>4 DEF Extends
  <2> QED
    BY <2>3, <2>4
<1>6. ASSUME OnWay(x, n) PROVE Extends(k, w)
  <2>1. x # n /\ Beside(heap[x], heap[n]) /\ Beside(heap[n], heap[x])
    BY <1>1 DEF Held, Places, Apart, Holder
  <2>2. ~ Extends(a, heap[x].at)
    BY <1>1, <2>1 DEF Beside, Holder
  <2>3. Extends(heap[x].at, a)
    BY <1>1, <1>6, <2>2, Comparable DEF OnWay
  <2>4. Extends(heap[x].at, w)
    BY <2>1, <2>3 DEF Beside
  <2> QED
    BY <1>1, <1>3, <2>4, ExtendsTrans
<1>7. ASSUME Extends(k, w) PROVE OnWay(x, n)
  BY <1>1, <1>3, <1>4, <1>7, ExtendsTrans DEF OnWay
<1> QED
  BY <1>2, <1>4, <1>5, <1>6, <1>7 DEF OnWay

\* From a leaf or a value: on the way to x there is only x.
LEMMA WayEnd ==
  ASSUME Held, NEW x \in Stored, NEW n \in Stored
  PROVE  /\ OnWay(x, n) <=> n = x
         /\ KeyAt(n) = KeyAt(x) <=> n = x
<1>1. /\ x \in DOMAIN heap /\ Len(heap[x].at) \in Nat /\ Holder(heap[x]) /\ OnWay(x, x)
      /\ n \in DOMAIN heap /\ Len(heap[n].at) \in Nat /\ Holder(heap[n])
      /\ Len(KeyAt(x)) \in Nat
  BY StoredKey DEF OnWay
<1>2. ASSUME OnWay(x, n), n # x PROVE FALSE
  <2>1. Beside(heap[x], heap[n]) /\ Beside(heap[n], heap[x])
    BY <1>1, <1>2 DEF Held, Places, Apart
  <2>2. ~ Extends(heap[n].at, heap[x].at) /\ ~ Extends(heap[x].at, heap[n].at)
    BY <1>1, <2>1 DEF Beside, Holder
  <2> QED
    BY <1>1, <1>2, <2>2, Comparable DEF OnWay
<1>3. KeyAt(n) = KeyAt(x) => n = x
  BY HeldOnce DEF Held
<1> QED
  BY <1>1, <1>2, <1>3

-----------------------------------------------------------------------------
(* The whole descent *)

\* A set of numbers that is not empty has a least one.
LEMMA Least ==
  ASSUME NEW S \in SUBSET Nat, S # {}
  PROVE  \E d \in S : \A e \in S : d <= e
<1> DEFINE Low(d) == 0..(d - 1)
           T == {Low(d) : d \in S}
<1>1. \A d \in S : d \in Nat /\ Low(d) \in SUBSET Nat /\ IsFiniteSet(Low(d))
  BY FS_Interval
<1>2. T \subseteq FiniteSubsetsOf(Nat) /\ T # {}
  BY <1>1 DEF FiniteSubsetsOf
<1>3. PICK low \in T : \A lower \in T : <<lower, low>> \notin StrictSubsetOrdering(Nat)
  <2> HIDE DEF T
  <2> QED
    BY <1>2, FS_StrictSubsetOrderingWellFounded, WFMin
<1>4. PICK d \in S : low = Low(d)
  OBVIOUS
<1>5. ASSUME NEW e \in S, e < d PROVE FALSE
  <2>1. Low(e) \subseteq Low(d) /\ e \in Low(d) /\ e \notin Low(e)
    BY <1>1, <1>5
  <2>2. <<Low(e), low>> \in StrictSubsetOrdering(Nat)
    BY <1>1, <1>4, <2>1 DEF StrictSubsetOrdering
  <2> QED
    BY <1>3, <2>2
<1> QED
  BY <1>1, <1>5

\* The equation has a solution: from the nodes on the way to x the descent ends
\* at x, and from the others it finds nothing.
LEMMA DescentExists == ASSUME Held, NEW x \in Stored PROVE \E f : Descent(KeyAt(x), f)
<1> DEFINE g == [n \in DOMAIN heap |-> IF OnWay(x, n) THEN x ELSE Null]
<1>1. ASSUME NEW n \in DOMAIN heap PROVE g[n] = LocateStep(KeyAt(x), g, n)
  <2>1. CASE heap[n].type = "BRANCH"
    BY <2>1, WayBranch DEF LocateStep
  <2>2. CASE heap[n].type = "EXTENSION"
    BY <2>2, WayExtension DEF LocateStep
  <2>3. CASE heap[n].type \in {"LEAF", "VALUE"}
    <3>1. n \in Stored
      BY <2>3 DEF Stored
    <3> QED
      BY <2>3, <3>1, WayEnd DEF LocateStep
  <2> QED
    BY <2>1, <2>2, <2>3, NodeTypes DEF Held, Inv
<1> HIDE DEF g
<1>2. g = [n \in DOMAIN heap |-> g[n]]
  BY DEF g
<1> QED
  BY <1>1, <1>2 DEF Descent

\* What is left of a descent: two steps for every nibble of the key, and one for
\* an extension, which may have an empty path.
ToGo(n) == 2 * (HexLen - Len(heap[n].at)) + (IF heap[n].type = "BRANCH" THEN 0 ELSE 1)

LEMMA ToGoTyped ==
  ASSUME Held, NEW x \in Stored, NEW n, OnWay(x, n)
  PROVE  ToGo(n) \in Nat
<1>1. Len(KeyAt(x)) = HexLen /\ HexLen \in Nat
  BY StoredKey
<1>2. Len(heap[n].at) \in Nat /\ Len(heap[n].at) <= HexLen
  BY <1>1, PlaceTyped DEF OnWay, Extends, Held, Inv
<1> DEFINE l == Len(heap[n].at)
<1>3. l \in Nat /\ l <= HexLen
  BY <1>2
<1> HIDE DEF l
<1>4. 2 * (HexLen - l) \in Nat /\ 2 * (HexLen - l) + 1 \in Nat
  BY <1>1, <1>3
<1> QED
  BY <1>4 DEF ToGo, l

\* And only one: whoever satisfies it finds x from every node on the way.
LEMMA DescentEnds ==
  ASSUME Held, NEW x \in Stored, NEW f, Descent(KeyAt(x), f), NEW n, OnWay(x, n)
  PROVE  f[n] = x
<1> DEFINE S == {m \in DOMAIN heap : OnWay(x, m) /\ f[m] # x}
           G == {ToGo(m) : m \in S}
<1>1. SUFFICES ASSUME S # {} PROVE FALSE
  BY DEF OnWay
<1>2. G \in SUBSET Nat /\ G # {}
  BY <1>1, ToGoTyped
<1>3. PICK d \in G : \A e \in G : d <= e
  <2> HIDE DEF G
  <2> QED
    BY <1>2, Least
<1>4. PICK m \in S : d = ToGo(m)
  BY <1>3
<1>5. m \in DOMAIN heap /\ OnWay(x, m) /\ f[m] # x /\ f[m] = LocateStep(KeyAt(x), f, m)
  BY <1>4 DEF Descent
<1>6. ASSUME NEW c \in DOMAIN heap, OnWay(x, c), f[c] = f[m] PROVE ToGo(m) <= ToGo(c)
  BY <1>3, <1>4, <1>5, <1>6
<1>7. HexLen \in Nat
  BY HexLenTyped
<1>8. CASE heap[m].type = "BRANCH"
  <2> DEFINE c == heap[m].children[KeyAt(x)[Len(heap[m].at) + 1]]
  <2>1. /\ c \in DOMAIN heap /\ OnWay(x, c) /\ f[c] = f[m]
        /\ Len(heap[c].at) = Len(heap[m].at) + 1
    BY <1>5, <1>8, WayBranch DEF LocateStep
  <2>2. ToGo(m) <= ToGo(c) /\ Len(heap[m].at) \in Nat
    BY <1>5, <1>6, <2>1, PlaceTyped DEF Held, Inv
  <2> DEFINE l == Len(heap[m].at)
             b == Len(heap[c].at)
             z == IF heap[c].type = "BRANCH" THEN 0 ELSE 1
  <2>3. b = l + 1 /\ l \in Nat
    BY <2>1, <2>2
  <2>4. 2 * (HexLen - l) + 0 <= 2 * (HexLen - b) + z
    BY <1>8, <2>2, Zenon DEF ToGo
  <2>5. z \in {0, 1}
    OBVIOUS
  <2> HIDE DEF b, c, l, z
  <2> QED
    BY <1>7, <2>3, <2>4, <2>5
<1>9. CASE heap[m].type = "EXTENSION"
  <2> DEFINE c == heap[m].next
  <2>1. /\ c \in DOMAIN heap /\ OnWay(x, c) /\ f[c] = f[m] /\ heap[c].type = "BRANCH"
        /\ Len(heap[c].at) >= Len(heap[m].at)
    BY <1>5, <1>9, WayExtension DEF LocateStep
  <2>2. ToGo(m) <= ToGo(c) /\ Len(heap[m].at) \in Nat /\ Len(heap[c].at) \in Nat
    BY <1>5, <1>6, <2>1, PlaceTyped DEF Held, Inv
  <2> DEFINE l == Len(heap[m].at)
             b == Len(heap[c].at)
  <2>3. b >= l /\ l \in Nat /\ b \in Nat /\ 2 * (HexLen - l) + 1 <= 2 * (HexLen - b) + 0
    BY <1>9, <2>1, <2>2 DEF ToGo
  <2> HIDE DEF b, c, l
  <2> QED
    BY <1>7, <2>3
<1>10. CASE heap[m].type \in {"LEAF", "VALUE"}
  <2>1. m \in Stored
    BY <1>5, <1>10 DEF Stored
  <2>2. m = x
    BY <1>5, <2>1, WayEnd
  <2> QED
    BY <1>5, <1>10, <2>2 DEF LocateStep
<1> QED
  BY <1>5, <1>8, <1>9, <1>10, NodeTypes DEF Held, Inv

\* Every stored key is found.
LEMMA Located == Held => EveryKeyLocated
<1> SUFFICES ASSUME Held, NEW x \in Stored
             PROVE  Len(KeyAt(x)) = HexLen /\ Locate(KeyAt(x)) = x
  BY DEF EveryKeyLocated
<1>1. Len(KeyAt(x)) = HexLen /\ HexLen \in Nat /\ x \in DOMAIN heap
  BY StoredKey
<1>2. root # Null /\ root \in DOMAIN heap /\ heap[root].at = <<>>
  BY <1>1 DEF Held, Places, RootNode, Inv, NodesOK, TreeShape, RootOK
<1>3. OnWay(x, root)
  BY <1>1, <1>2 DEF OnWay, Extends
<1>4. Descent(KeyAt(x), CHOOSE f : Descent(KeyAt(x), f))
  BY DescentExists, Zenon
<1>5. (CHOOSE f : Descent(KeyAt(x), f))[root] = x
  BY <1>3, <1>4, DescentEnds
<1> QED
  BY <1>1, <1>2, <1>5, LocateIs

\* A descent that consumes the key one nibble per branch ends at the node that
\* holds the key, whatever was put and split before (the mismatch cases of
\* trie.h:129-291), and every stored key is whole.
THEOREM TrieEveryKeyLocated == Spec => []EveryKeyLocated
  BY Located, TrieHeld, PTL
=============================================================================

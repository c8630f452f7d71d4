--------------------------- MODULE TrieMap_proofs ---------------------------
(***************************************************************************)
(* Proof that the trie implements the write-once map of module OnceMap:    *)
(* whatever is put in whatever order, put adds its key and value if the    *)
(* key is new, changes nothing if it is not, and no other key is touched;  *)
(* for keys of every length and for every set of keys and values.          *)
(***************************************************************************)
EXTENDS Trie_proofs

-----------------------------------------------------------------------------
(* Where the nodes lie *)

\* The place s lies at or below the place t.
Extends(s, t) == Len(t) <= Len(s) /\ \A j \in 1..Len(t) : s[j] = t[j]

\* A key has a length.
LEMMA HexLenTyped == HexLen \in Nat
  BY TrieAssumption DEF HexLen

\* A place below a place below a third lies below that.
LEMMA ExtendsTrans ==
  ASSUME NEW s, NEW t, NEW u, Len(s) \in Nat, Len(t) \in Nat, Len(u) \in Nat,
         Extends(s, t), Extends(t, u)
  PROVE  Extends(s, u)
  BY DEF Extends

\* Two places above a third are above one another.
LEMMA Comparable ==
  ASSUME NEW s, NEW t, NEW u, Len(s) \in Nat, Len(t) \in Nat, Len(u) \in Nat,
         Extends(s, t), Extends(s, u), Len(t) <= Len(u)
  PROVE  Extends(u, t)
  BY DEF Extends

Holder(node) == node.type \in {"LEAF", "VALUE"}

KeyOf(node) == IF node.type = "VALUE" THEN node.at ELSE SubSeq(node.at \o node.path, 1, HexLen)

\* The key of a node depends on the node alone.
LEMMA KeyAtOf == ASSUME NEW n PROVE KeyAt(n) = KeyOf(heap[n]) /\ KeyAt(n)' = KeyOf(heap'[n])
  BY DEF KeyAt, KeyOf

\* A node that holds a value reaches to the end of the key.
Full(node) ==
  /\ node.type = "VALUE" => Len(node.at) = HexLen
  /\ node.type = "LEAF" => Len(node.at) <= HexLen /\ Len(node.at) + Len(node.path) >= HexLen

\* What may lie at or below the place of another node a: nothing below a leaf or
\* a value; below a branch what one of its children leads to (an extension with
\* an empty path has the place of its branch); and below an extension only what
\* has its whole path.
Beside(a, b) ==
  Extends(b.at, a.at) =>
    \/ a.type = "BRANCH" /\ Len(b.at) = Len(a.at) /\ b.type = "EXTENSION"
    \/ a.type = "BRANCH" /\ Len(b.at) > Len(a.at) /\ a.children[b.at[Len(a.at) + 1]] # Null
    \/ a.type = "EXTENSION" /\ Extends(b.at, a.at \o a.path)

RootNode  == root = Null => DOMAIN heap = {}
FullNodes == \A n \in Stored : Full(heap[n])
Apart     == \A n \in DOMAIN heap, k \in DOMAIN heap : n # k => Beside(heap[n], heap[k])

Places == RootNode /\ FullNodes /\ Apart

\* The nodes have their places, as sequences.
LEMMA PlaceTyped ==
  ASSUME TypeOK, NEW n \in DOMAIN heap
  PROVE  /\ heap[n].at \in Seq(Nibble) /\ Len(heap[n].at) \in Nat
         /\ heap[n].type \in {"LEAF", "EXTENSION"} =>
              /\ Len(heap[n].path) \in Nat
              /\ heap[n].at \in Seq(Nibble \cup {Junk}) /\ heap[n].path \in Seq(Nibble \cup {Junk})
              /\ Len(heap[n].at \o heap[n].path) = Len(heap[n].at) + Len(heap[n].path)
              /\ \A j \in 1..Len(heap[n].at) : (heap[n].at \o heap[n].path)[j] = heap[n].at[j]
              /\ \A j \in 1..Len(heap[n].path) :
                   (heap[n].at \o heap[n].path)[Len(heap[n].at) + j] = heap[n].path[j]
<1>1. heap[n].at \in Seq(Nibble) /\ Len(heap[n].at) \in Nat
  BY NodeTypes, LenProperties
<1>2. ASSUME heap[n].type \in {"LEAF", "EXTENSION"}
      PROVE  /\ Len(heap[n].path) \in Nat
             /\ heap[n].at \in Seq(Nibble \cup {Junk}) /\ heap[n].path \in Seq(Nibble \cup {Junk})
             /\ Len(heap[n].at \o heap[n].path) = Len(heap[n].at) + Len(heap[n].path)
             /\ \A j \in 1..Len(heap[n].at) : (heap[n].at \o heap[n].path)[j] = heap[n].at[j]
             /\ \A j \in 1..Len(heap[n].path) :
                  (heap[n].at \o heap[n].path)[Len(heap[n].at) + j] = heap[n].path[j]
  <2>1. heap[n].path \in Seq(Nibble \cup {Junk})
    <3>1. CASE heap[n].type = "LEAF"
      BY <3>1, NodeFields
    <3>2. CASE heap[n].type = "EXTENSION"
      BY <3>2, NodeFields, SeqMonotonic
    <3> QED
      BY <1>2, <3>1, <3>2
  <2>2. heap[n].at \in Seq(Nibble \cup {Junk})
    BY <1>1, SeqMonotonic
  <2> DEFINE a == heap[n].at
             q == heap[n].path
  <2>3. /\ a \in Seq(Nibble \cup {Junk}) /\ q \in Seq(Nibble \cup {Junk})
        /\ Len(a) \in Nat /\ Len(q) \in Nat
    BY <2>1, <2>2, LenProperties
  <2> HIDE DEF a, q
  <2>4. /\ Len(a \o q) = Len(a) + Len(q)
        /\ \A i \in 1..(Len(a) + Len(q)) : (a \o q)[i] = IF i <= Len(a) THEN a[i] ELSE q[i - Len(a)]
    BY <2>3, ConcatProperties
  <2>5. \A j \in 1..Len(a) : (a \o q)[j] = a[j]
    BY <2>3, <2>4
  <2>6. ASSUME NEW j \in 1..Len(q) PROVE (a \o q)[Len(a) + j] = q[j]
    <3>1. Len(a) + j \in 1..(Len(a) + Len(q)) /\ ~ (Len(a) + j <= Len(a)) /\ (Len(a) + j) - Len(a) = j
      BY <2>3
    <3> QED
      BY <2>4, <3>1
  <2> QED
    BY <2>3, <2>4, <2>5, <2>6 DEF a, q
<1> QED
  BY <1>1, <1>2

\* So does what follows the path of a leaf or of an extension.
LEMMA PlaceEnd ==
  ASSUME TypeOK, NEW n \in DOMAIN heap, heap[n].type \in {"LEAF", "EXTENSION"}
  PROVE  Len(heap[n].at \o heap[n].path) \in Nat
<1> DEFINE la == Len(heap[n].at)
           lp == Len(heap[n].path)
<1>1. la \in Nat /\ lp \in Nat /\ Len(heap[n].at \o heap[n].path) = la + lp
  BY PlaceTyped
<1> HIDE DEF la, lp
<1>2. la + lp \in Nat
  BY <1>1
<1> QED
  BY <1>1, <1>2

\* Every stored key is held once.
LEMMA HeldOnce ==
  ASSUME Inv, Places, NEW n \in Stored, NEW k \in Stored, KeyAt(n) = KeyAt(k)
  PROVE  n = k
<1>1. ASSUME NEW x \in Stored
      PROVE  /\ KeyAt(x) \in Seq(Nibble \cup {Junk}) /\ Len(KeyAt(x)) = HexLen
             /\ HexLen \in Nat /\ Len(heap[x].at) \in Nat /\ x \in DOMAIN heap
             /\ Extends(KeyAt(x), heap[x].at)
  <2>1. /\ x \in DOMAIN heap /\ Full(heap[x]) /\ heap[x].at \in Seq(Nibble)
        /\ Len(heap[x].at) \in Nat /\ HexLen \in Nat
    <3>1. x \in DOMAIN heap /\ Full(heap[x]) /\ TypeOK
      BY DEF Stored, Places, FullNodes, Inv
    <3>2. heap[x].at \in Seq(Nibble) /\ Len(heap[x].at) \in Nat
      BY <3>1, PlaceTyped
    <3> QED
      BY <3>1, <3>2, HexLenTyped
  <2>2. CASE heap[x].type = "VALUE"
    <3>1. KeyAt(x) = heap[x].at /\ Len(heap[x].at) = HexLen
      BY <2>1, <2>2 DEF KeyAt, Full
    <3>2. KeyAt(x) \in Seq(Nibble \cup {Junk})
      BY <2>1, <3>1, SeqMonotonic
    <3> QED
      BY <2>1, <3>1, <3>2 DEF Extends
  <2>3. CASE heap[x].type = "LEAF"
    <3> DEFINE s == heap[x].at \o heap[x].path
    <3>1. KeyAt(x) = SubSeq(s, 1, HexLen)
      BY <2>3 DEF KeyAt
    <3>2. /\ s \in Seq(Nibble \cup {Junk}) /\ Len(s) \in Nat /\ HexLen <= Len(s)
          /\ Len(heap[x].at) <= HexLen
          /\ \A j \in 1..Len(heap[x].at) : s[j] = heap[x].at[j]
      <4>1. /\ heap[x].at \in Seq(Nibble \cup {Junk}) /\ heap[x].path \in Seq(Nibble \cup {Junk})
            /\ Len(s) = Len(heap[x].at) + Len(heap[x].path) /\ Len(heap[x].path) \in Nat
            /\ \A j \in 1..Len(heap[x].at) : s[j] = heap[x].at[j]
        BY <2>1, <2>3, PlaceTyped DEF Inv
      <4>2. s \in Seq(Nibble \cup {Junk})
        BY <4>1, ConcatProperties
      <4>3. /\ Len(heap[x].at) <= HexLen
            /\ Len(heap[x].at) + Len(heap[x].path) >= HexLen
        BY <2>1, <2>3 DEF Full
      <4>4. /\ Len(s) = Len(heap[x].at) + Len(heap[x].path)
            /\ Len(heap[x].at) \in Nat /\ Len(heap[x].path) \in Nat /\ HexLen \in Nat
        BY <2>1, <4>1
      <4> DEFINE ls == Len(s)
                 la == Len(heap[x].at)
                 lp == Len(heap[x].path)
      <4>5. ls = la + lp /\ la \in Nat /\ lp \in Nat /\ HexLen \in Nat /\ la + lp >= HexLen
        BY <4>3, <4>4, Zenon
      <4> HIDE DEF s, ls, la, lp
      <4>6. ls \in Nat /\ HexLen <= ls
        BY <4>5
      <4> QED
        BY <4>1, <4>2, <4>3, <4>6 DEF ls
    <3> HIDE DEF s
    <3>3. \A j \in 1..HexLen : s[j] \in Nibble \cup {Junk}
      BY <2>1, <3>2, ElementOfSeq
    <3>4. /\ SubSeq(s, 1, HexLen) \in Seq(Nibble \cup {Junk}) /\ Len(SubSeq(s, 1, HexLen)) = HexLen
          /\ \A j \in 1..HexLen : SubSeq(s, 1, HexLen)[j] = s[j]
      BY <2>1, <3>2, <3>3, SubSeqProperties
    <3> QED
      BY <2>1, <3>1, <3>2, <3>4 DEF Extends
  <2> QED
    BY <2>2, <2>3 DEF Stored
<1>2. Extends(heap[n].at, heap[k].at) \/ Extends(heap[k].at, heap[n].at)
  <2>1. /\ Len(heap[n].at) \in Nat /\ Len(heap[k].at) \in Nat /\ Len(KeyAt(n)) \in Nat
        /\ Extends(KeyAt(n), heap[n].at) /\ Extends(KeyAt(n), heap[k].at)
    BY <1>1
  <2> QED
    BY <2>1, Comparable
<1>3. heap[n].type \in {"LEAF", "VALUE"} /\ heap[k].type \in {"LEAF", "VALUE"}
  BY DEF Stored
<1>4. n # k => Beside(heap[n], heap[k]) /\ Beside(heap[k], heap[n])
  BY <1>1 DEF Places, Apart
<1> QED
  BY <1>2, <1>3, <1>4 DEF Beside

-----------------------------------------------------------------------------
(* Steps that keep the nodes apart *)

\* The node is as it was, but for its counter and the target of a used pointer.
Same(new, node) ==
  /\ new.at = node.at /\ new.type = node.type
  /\ node.type = "EXTENSION" => new.path = node.path
  /\ node.type = "BRANCH" => \A i \in Nibble : node.children[i] # Null => new.children[i] # Null

\* Nodes that stay as they were stay beside one another.
LEMMA BesideSame ==
  ASSUME NEW a, NEW b, NEW a2, NEW b2, Same(a2, a), Same(b2, b), Beside(a, b),
         Len(a.at) \in Nat, b.at \in Seq(Nibble)
  PROVE  Beside(a2, b2)
<1>1. /\ a2.at = a.at /\ a2.type = a.type /\ b2.at = b.at /\ b2.type = b.type
  BY DEF Same
<1> SUFFICES ASSUME Extends(b.at, a.at)
             PROVE  \/ a2.type = "BRANCH" /\ Len(b2.at) = Len(a2.at) /\ b2.type = "EXTENSION"
                    \/ a2.type = "BRANCH" /\ Len(b2.at) > Len(a2.at) /\ a2.children[b2.at[Len(a2.at) + 1]] # Null
                    \/ a2.type = "EXTENSION" /\ Extends(b2.at, a2.at \o a2.path)
  BY <1>1 DEF Beside
<1>2. CASE a.type = "BRANCH" /\ Len(b.at) = Len(a.at) /\ b.type = "EXTENSION"
  BY <1>1, <1>2
<1>3. CASE a.type = "BRANCH" /\ Len(b.at) > Len(a.at) /\ a.children[b.at[Len(a.at) + 1]] # Null
  <2>1. Len(b.at) \in Nat /\ \A j \in 1..Len(b.at) : b.at[j] \in Nibble
    BY LenProperties, ElementOfSeq
  <2>2. Len(a.at) + 1 \in 1..Len(b.at)
    BY <1>3, <2>1
  <2>3. b.at[Len(a.at) + 1] \in Nibble
    BY <2>1, <2>2
  <2> QED
    BY <1>1, <1>3, <2>3 DEF Same
<1>4. CASE a.type = "EXTENSION" /\ Extends(b.at, a.at \o a.path)
  BY <1>1, <1>4 DEF Same
<1> QED
  BY <1>2, <1>3, <1>4 DEF Beside

\* Where the new nodes of a split lie.
OldAt(m) == Append(Prefix(m), OldNibble(m))
NewAt(m) == Append(Prefix(m), NewNibble(m))
Whole    == Here.at \o Here.path

\* They lie below the node that is split, one nibble apart, and the old one
\* above the end of its path.
LEMMA SplitPlaces ==
  ASSUME TypeOK, current \in DOMAIN heap, Here.type \in {"LEAF", "EXTENSION"},
         Len(Here.at) = start, NEW m, PartsAt(m)
  PROVE  /\ start \in Nat /\ m \in Nat /\ Len(Here.at) = start
         /\ Len(Prefix(m)) = start + m /\ Extends(Prefix(m), Here.at)
         /\ Len(OldAt(m)) = start + m + 1 /\ Extends(OldAt(m), Prefix(m))
         /\ Len(NewAt(m)) = start + m + 1 /\ Extends(NewAt(m), Prefix(m))
         /\ OldAt(m)[start + m + 1] = OldNibble(m) /\ NewAt(m)[start + m + 1] = NewNibble(m)
         /\ OldAt(m) \in Seq(Nibble) /\ NewAt(m) \in Seq(Nibble)
         /\ Len(Whole) \in Nat /\ Len(Whole) > start + m /\ Extends(Whole, OldAt(m))
<1>1. /\ m \in Nat /\ m < Len(Here.path)
      /\ Prefix(m) \in Seq(Nibble) /\ Len(Prefix(m)) = start + m
      /\ OldNibble(m) \in Nibble /\ NewNibble(m) \in Nibble
  BY DEF PartsAt
<1>2. /\ start \in Nat /\ Len(Here.path) \in Nat
      /\ Here.at \in Seq(Nibble \cup {Junk}) /\ Here.path \in Seq(Nibble \cup {Junk})
      /\ Len(Whole) = start + Len(Here.path)
      /\ \A j \in 1..start : Whole[j] = Here.at[j]
      /\ \A j \in 1..Len(Here.path) : Whole[start + j] = Here.path[j]
  <2>1. start \in Nat
    BY DEF TypeOK
  <2> QED
    BY <2>1, PlaceTyped DEF Here, Whole
<1>3. Len(Whole) \in Nat /\ Len(Whole) > start + m
  BY <1>1, <1>2
<1>4. /\ OldAt(m) \in Seq(Nibble) /\ Len(OldAt(m)) = start + m + 1
      /\ OldAt(m)[start + m + 1] = OldNibble(m)
      /\ \A j \in 1..(start + m) : OldAt(m)[j] = Prefix(m)[j]
  BY <1>1, AppendProperties DEF OldAt
<1>5. /\ NewAt(m) \in Seq(Nibble) /\ Len(NewAt(m)) = start + m + 1
      /\ NewAt(m)[start + m + 1] = NewNibble(m)
      /\ \A j \in 1..(start + m) : NewAt(m)[j] = Prefix(m)[j]
  BY <1>1, AppendProperties DEF NewAt
<1>6. /\ \A j \in 1..start : Prefix(m)[j] = Here.at[j]
      /\ \A j \in 1..(start + m) : Prefix(m)[j] = Whole[j]
  <2> DEFINE a == Here.at
             q == Here.path
             stem == SubSeq(q, 1, m)
  <2>1. \A j \in 1..m : q[j] \in Nibble \cup {Junk}
    BY <1>1, <1>2, ElementOfSeq
  <2>2. stem \in Seq(Nibble \cup {Junk}) /\ Len(stem) = m /\ \A j \in 1..m : stem[j] = q[j]
    BY <1>1, <2>1, SubSeqProperties
  <2>3. a \in Seq(Nibble \cup {Junk}) /\ Len(a) = start
    BY <1>2
  <2>4. Prefix(m) = a \o stem
    BY DEF Prefix
  <2> HIDE DEF a, stem
  <2>5. \A j \in 1..(start + m) : (a \o stem)[j] = IF j <= start THEN a[j] ELSE stem[j - start]
    BY <2>2, <2>3, ConcatProperties
  <2>6. \A j \in 1..start : Prefix(m)[j] = a[j]
    BY <1>1, <1>2, <2>4, <2>5
  <2>7. ASSUME NEW j \in 1..(start + m) PROVE Prefix(m)[j] = Whole[j]
    <3>1. CASE j <= start
      BY <1>2, <2>6, <3>1 DEF a
    <3>2. CASE j > start
      <4>1. /\ j - start \in 1..m /\ j - start \in 1..Len(q) /\ start + (j - start) = j
            /\ ~ (j <= start)
        BY <1>1, <1>2, <3>2
      <4>2. Prefix(m)[j] = stem[j - start]
        BY <2>4, <2>5, <4>1
      <4>3. stem[j - start] = q[j - start]
        BY <2>2, <4>1
      <4>4. Whole[j] = q[j - start]
        BY <1>2, <4>1
      <4> QED
        BY <4>2, <4>3, <4>4
    <3> QED
      BY <1>1, <1>2, <3>1, <3>2
  <2> QED
    BY <2>6, <2>7 DEF a
<1>7. Extends(Prefix(m), Here.at) /\ Extends(OldAt(m), Prefix(m)) /\ Extends(NewAt(m), Prefix(m))
  BY <1>1, <1>2, <1>4, <1>5, <1>6 DEF Extends
<1>8. Extends(Whole, OldAt(m))
  <2>1. m + 1 \in 1..Len(Here.path) /\ start + (m + 1) = start + m + 1
    BY <1>1, <1>2
  <2>2. Whole[start + m + 1] = OldNibble(m)
    BY <1>2, <2>1 DEF OldNibble
  <2>3. \A j \in 1..(start + m + 1) : Whole[j] = OldAt(m)[j]
    BY <1>1, <1>2, <1>4, <1>6, <2>2
  <2> QED
    BY <1>1, <1>2, <1>3, <1>4, <2>3 DEF Extends
<1> QED
  BY <1>1, <1>2, <1>3, <1>4, <1>5, <1>7, <1>8

\* The new nodes of a split.
AsFork(m, node) ==
  /\ node.type = "BRANCH" /\ node.at = Prefix(m)
  /\ node.children[OldNibble(m)] # Null /\ node.children[NewNibble(m)] # Null

AsTop(m, node) ==
  m # 0 /\ node.type = "EXTENSION" /\ node.at = Here.at /\ node.at \o node.path = Prefix(m)

AsNew(m, node) == node.type \in {"LEAF", "VALUE"} /\ node.at = NewAt(m)

AsOld(m, node) ==
  /\ node.at = OldAt(m)
  /\ IF Here.type = "EXTENSION" THEN node.type = "EXTENSION" /\ node.at \o node.path = Whole
                                ELSE node.type \in {"LEAF", "VALUE"}

Parting(m) ==
  /\ Inv /\ Places /\ pc = "put" /\ current # Null
  /\ Here.type \in {"LEAF", "EXTENSION"} /\ PartsAt(m)

\* What is known of the places when a path parts.
LEMMA PartingPlaces ==
  ASSUME NEW m, Parting(m)
  PROVE  /\ TypeOK /\ current \in DOMAIN heap /\ Len(Here.at) = start
         /\ start \in Nat /\ m \in Nat
         /\ Len(Prefix(m)) = start + m /\ Extends(Prefix(m), Here.at)
         /\ Len(OldAt(m)) = start + m + 1 /\ Extends(OldAt(m), Prefix(m)) /\ Extends(OldAt(m), Here.at)
         /\ Len(NewAt(m)) = start + m + 1 /\ Extends(NewAt(m), Prefix(m)) /\ Extends(NewAt(m), Here.at)
         /\ OldAt(m)[start + m + 1] = OldNibble(m) /\ NewAt(m)[start + m + 1] = NewNibble(m)
         /\ OldNibble(m) # NewNibble(m)
         /\ Len(Whole) \in Nat /\ Len(Whole) > start + m /\ Extends(Whole, OldAt(m))
<1>1. TypeOK /\ current \in DOMAIN heap /\ Len(Here.at) = start /\ PartsAt(m)
  BY PutCursor DEF Parting, Here, Inv
<1>2. OldNibble(m) # NewNibble(m)
  BY <1>1 DEF PartsAt
<1>3. /\ start \in Nat /\ m \in Nat
      /\ Len(Prefix(m)) = start + m /\ Extends(Prefix(m), Here.at)
      /\ Len(OldAt(m)) = start + m + 1 /\ Extends(OldAt(m), Prefix(m))
      /\ Len(NewAt(m)) = start + m + 1 /\ Extends(NewAt(m), Prefix(m))
      /\ OldAt(m)[start + m + 1] = OldNibble(m) /\ NewAt(m)[start + m + 1] = NewNibble(m)
      /\ Len(Whole) \in Nat /\ Len(Whole) > start + m /\ Extends(Whole, OldAt(m))
  BY <1>1, SplitPlaces DEF Parting
<1>4. Extends(OldAt(m), Here.at) /\ Extends(NewAt(m), Here.at)
  BY <1>1, <1>3, ExtendsTrans
<1> QED
  BY <1>1, <1>2, <1>3, <1>4

\* What lies below the path that parts lies below all of it.
LEMMA NothingBeside ==
  ASSUME NEW m, Parting(m), NEW n \in DOMAIN heap \ {current}, Extends(heap[n].at, Here.at)
  PROVE  /\ Here.type = "EXTENSION" /\ Len(heap[n].at) \in Nat
         /\ Extends(heap[n].at, Whole) /\ Len(heap[n].at) > start + m
         /\ Extends(heap[n].at, OldAt(m)) /\ heap[n].at[start + m + 1] = OldNibble(m)
<1>1. Here.type = "EXTENSION" /\ Extends(heap[n].at, Whole)
  <2>1. Beside(Here, heap[n]) /\ Here.type \in {"LEAF", "EXTENSION"}
    BY PartingPlaces DEF Parting, Places, Apart, Here
  <2> QED
    BY <2>1 DEF Beside, Whole
<1>2. Len(heap[n].at) \in Nat
  BY PartingPlaces, PlaceTyped
<1>3. /\ Len(Whole) \in Nat /\ Len(OldAt(m)) \in Nat /\ Extends(Whole, OldAt(m))
      /\ Len(Whole) > start + m /\ start \in Nat /\ m \in Nat
      /\ Len(OldAt(m)) = start + m + 1 /\ OldAt(m)[start + m + 1] = OldNibble(m)
  BY PartingPlaces
<1>4. Extends(heap[n].at, OldAt(m))
  BY <1>1, <1>2, <1>3, ExtendsTrans
<1>5. Len(heap[n].at) > start + m
  BY <1>1, <1>2, <1>3 DEF Extends
<1>6. heap[n].at[start + m + 1] = OldNibble(m)
  BY <1>3, <1>4 DEF Extends
<1> QED
  BY <1>1, <1>2, <1>4, <1>5, <1>6

\* The new nodes lie below the place of the node that is split.
LEMMA FreshPlace ==
  ASSUME NEW m, Parting(m), NEW b, AsFork(m, b) \/ AsTop(m, b) \/ AsNew(m, b) \/ AsOld(m, b)
  PROVE  /\ Len(b.at) \in Nat /\ Len(b.at) >= start /\ Len(b.at) <= start + m + 1
         /\ Extends(b.at, Here.at)
         /\ AsFork(m, b) => Len(b.at) = start + m
         /\ AsTop(m, b) => Len(b.at) = start
         /\ AsNew(m, b) => Len(b.at) = start + m + 1 /\ b.at[start + m + 1] = NewNibble(m)
         /\ AsOld(m, b) => Len(b.at) = start + m + 1 /\ b.at[start + m + 1] = OldNibble(m)
<1>1. /\ start \in Nat /\ m \in Nat /\ Len(Here.at) = start
      /\ Len(Prefix(m)) = start + m /\ Extends(Prefix(m), Here.at)
      /\ Len(OldAt(m)) = start + m + 1 /\ Extends(OldAt(m), Here.at)
      /\ Len(NewAt(m)) = start + m + 1 /\ Extends(NewAt(m), Here.at)
      /\ OldAt(m)[start + m + 1] = OldNibble(m) /\ NewAt(m)[start + m + 1] = NewNibble(m)
  BY PartingPlaces
<1>2. Extends(Here.at, Here.at)
  BY <1>1 DEF Extends
<1>3. AsFork(m, b) => b.at = Prefix(m) /\ b.type = "BRANCH"
  BY DEF AsFork
<1>4. AsTop(m, b) => b.at = Here.at /\ b.type = "EXTENSION" /\ m # 0
  BY DEF AsTop
<1>5. AsNew(m, b) => b.at = NewAt(m)
  BY DEF AsNew
<1>6. AsOld(m, b) => b.at = OldAt(m)
  BY DEF AsOld
<1>7. start + m \in Nat /\ start + m + 1 \in Nat /\ start <= start + m /\ start <= start + m + 1
  BY <1>1
<1>8. AsFork(m, b) => Len(b.at) = start + m /\ Extends(b.at, Here.at)
  BY <1>1, <1>3, Zenon
<1>9. AsTop(m, b) => Len(b.at) = start /\ Extends(b.at, Here.at)
  BY <1>1, <1>2, <1>4, Zenon
<1>10. AsNew(m, b) => /\ Len(b.at) = start + m + 1 /\ Extends(b.at, Here.at)
                      /\ b.at[start + m + 1] = NewNibble(m)
  BY <1>1, <1>5, Zenon
<1>11. AsOld(m, b) => /\ Len(b.at) = start + m + 1 /\ Extends(b.at, Here.at)
                      /\ b.at[start + m + 1] = OldNibble(m)
  BY <1>1, <1>6, Zenon
<1>12. Len(b.at) \in {start, start + m, start + m + 1} /\ Extends(b.at, Here.at)
  BY <1>8, <1>9, <1>10, <1>11
<1> DEFINE l == Len(b.at)
<1>13. l \in {start, start + m, start + m + 1}
  BY <1>12
<1> HIDE DEF l
<1>14. l \in Nat /\ l >= start /\ l <= start + m + 1
  BY <1>1, <1>13
<1> QED
  BY <1>8, <1>9, <1>10, <1>11, <1>12, <1>14 DEF l

\* The new nodes lie right of the old ones.
LEMMA KeptFresh ==
  ASSUME NEW m, Parting(m), NEW a \in DOMAIN heap \ {current}, NEW b,
         AsFork(m, b) \/ AsTop(m, b) \/ AsNew(m, b) \/ AsOld(m, b)
  PROVE  Beside(heap[a], b)
<1> SUFFICES ASSUME Extends(b.at, heap[a].at)
             PROVE  Beside(heap[a], b)
  BY DEF Beside
<1>1. /\ start \in Nat /\ m \in Nat /\ Len(Here.at) = start /\ current \in DOMAIN heap
      /\ Len(heap[a].at) \in Nat /\ TypeOK
  BY PartingPlaces, PlaceTyped
<1>2. /\ Len(b.at) \in Nat /\ Len(b.at) >= start /\ Len(b.at) <= start + m + 1
      /\ Extends(b.at, Here.at)
  BY FreshPlace
<1>3. CASE Len(heap[a].at) <= start
  <2>1. Extends(Here.at, heap[a].at)
    BY <1>1, <1>2, <1>3, Comparable
  <2>2. Len(heap[a].at) < start
    <3> SUFFICES ASSUME Len(heap[a].at) = start PROVE FALSE
      BY <1>1, <1>3
    <3>1. Extends(heap[a].at, Here.at)
      BY <1>1, <2>1 DEF Extends
    <3> QED
      BY <1>1, <3>1, NothingBeside
  <2>3. Beside(heap[a], Here)
    BY <1>1 DEF Parting, Places, Apart, Here
  <2>4. CASE /\ heap[a].type = "BRANCH"
             /\ heap[a].children[Here.at[Len(heap[a].at) + 1]] # Null
    <3>1. b.at[Len(heap[a].at) + 1] = Here.at[Len(heap[a].at) + 1]
      BY <1>1, <1>2, <2>2 DEF Extends
    <3> QED
      BY <1>1, <1>2, <2>2, <2>4, <3>1 DEF Beside
  <2>5. CASE heap[a].type = "EXTENSION" /\ Extends(Here.at, heap[a].at \o heap[a].path)
    <3>1. Len(heap[a].at \o heap[a].path) \in Nat
      BY <1>1, <2>5, PlaceEnd
    <3>2. Extends(b.at, heap[a].at \o heap[a].path)
      BY <1>1, <1>2, <2>5, <3>1, ExtendsTrans
    <3> QED
      BY <2>5, <3>2 DEF Beside
  <2> QED
    BY <1>1, <2>1, <2>2, <2>3, <2>4, <2>5 DEF Beside
<1>4. CASE Len(heap[a].at) > start
  <2>1. Extends(heap[a].at, Here.at)
    BY <1>1, <1>2, <1>4, Comparable
  <2>2. /\ Here.type = "EXTENSION" /\ Extends(heap[a].at, Whole)
        /\ Len(heap[a].at) > start + m /\ heap[a].at[start + m + 1] = OldNibble(m)
    BY <2>1, NothingBeside
  <2>3. Len(b.at) = start + m + 1 /\ Len(heap[a].at) = start + m + 1
    BY <1>1, <1>2, <2>2 DEF Extends
  <2>4. b.at[start + m + 1] = OldNibble(m)
    BY <1>1, <2>2, <2>3 DEF Extends
  <2>5. AsOld(m, b)
    <3>1. ~ AsFork(m, b) /\ ~ AsTop(m, b)
      BY <1>1, <2>3, FreshPlace
    <3>2. ~ AsNew(m, b)
      BY <2>4, FreshPlace, PartingPlaces
    <3> QED
      BY <3>1, <3>2
  <2>6. b.type = "EXTENSION" /\ b.at = OldAt(m)
    BY <2>2, <2>5 DEF AsOld
  <2> DEFINE x == Here.next
  <2>7. /\ x \in DOMAIN heap /\ heap[x].type = "BRANCH" /\ heap[x].at = Whole /\ x # current
    <3>1. /\ x \in DOMAIN heap /\ heap[x].type = "BRANCH" /\ heap[x].at = Whole
      BY <1>1, <2>2, ExtensionNext DEF Here, Whole, Parting, Inv, NodesOK
    <3> QED
      BY <2>2, <3>1 DEF Here
  <2>8. Len(Whole) = start + m + 1
    BY <1>1, <2>2, <2>3, PartingPlaces DEF Extends
  <2>9. Extends(Whole, heap[a].at)
    BY <2>2, <2>3, <2>8 DEF Extends
  <2>10. CASE a = x
    BY <2>3, <2>6, <2>7, <2>10 DEF Beside
  <2>11. CASE a # x
    <3>1. Beside(heap[a], heap[x])
      BY <2>7, <2>11 DEF Parting, Places, Apart
    <3>2. heap[a].type = "EXTENSION" /\ Extends(Whole, heap[a].at \o heap[a].path)
      BY <1>1, <2>3, <2>7, <2>8, <2>9, <3>1 DEF Beside
    <3>3. Extends(b.at, Whole)
      <4>1. Extends(Whole, OldAt(m)) /\ Len(OldAt(m)) = start + m + 1
        BY PartingPlaces
      <4> QED
        BY <1>1, <2>6, <2>8, <4>1 DEF Extends
    <3>4. Len(heap[a].at \o heap[a].path) \in Nat
      BY <1>1, <3>2, PlaceEnd
    <3>5. Extends(b.at, heap[a].at \o heap[a].path)
      BY <1>2, <2>8, <3>2, <3>3, <3>4, PartingPlaces, ExtendsTrans
    <3> QED
      BY <3>2, <3>5 DEF Beside
  <2> QED
    BY <2>10, <2>11
<1> QED
  BY <1>1, <1>3, <1>4

\* The old nodes lie right of the new ones.
LEMMA FreshKept ==
  ASSUME NEW m, Parting(m), NEW b \in DOMAIN heap \ {current}, NEW a,
         AsFork(m, a) \/ AsTop(m, a) \/ AsNew(m, a) \/ AsOld(m, a)
  PROVE  Beside(a, heap[b])
<1> SUFFICES ASSUME Extends(heap[b].at, a.at)
             PROVE  Beside(a, heap[b])
  BY DEF Beside
<1>1. /\ start \in Nat /\ m \in Nat /\ Len(Here.at) = start
      /\ Len(heap[b].at) \in Nat
  BY PartingPlaces, PlaceTyped
<1>2. Extends(heap[b].at, Here.at)
  <2>1. Len(a.at) \in Nat /\ Extends(a.at, Here.at)
    BY FreshPlace
  <2> QED
    BY <1>1, <2>1, ExtendsTrans
<1>3. /\ Here.type = "EXTENSION" /\ Extends(heap[b].at, Whole)
      /\ Len(heap[b].at) > start + m /\ Extends(heap[b].at, OldAt(m))
      /\ heap[b].at[start + m + 1] = OldNibble(m)
  BY <1>2, NothingBeside
<1>4. CASE AsFork(m, a)
  <2>1. Len(a.at) = start + m
    BY <1>4, PartingPlaces DEF AsFork
  <2> QED
    BY <1>1, <1>3, <1>4, <2>1 DEF AsFork, Beside
<1>5. CASE AsTop(m, a)
  <2>1. Extends(heap[b].at, Prefix(m))
    BY <1>1, <1>3, PartingPlaces, ExtendsTrans
  <2> QED
    BY <1>5, <2>1 DEF AsTop, Beside
<1>6. CASE AsNew(m, a)
  <2>1. heap[b].at[start + m + 1] = NewNibble(m)
    BY <1>1, <1>6, PartingPlaces DEF AsNew, Extends
  <2> QED
    BY <1>3, <2>1, PartingPlaces
<1>7. CASE AsOld(m, a)
  BY <1>3, <1>7 DEF AsOld, Beside
<1> QED
  BY <1>4, <1>5, <1>6, <1>7

\* The nodes after a split.
Divides(m, old) ==
  /\ old \in {brk + 3} \cup Orphans
  /\ DOMAIN heap' = (DOMAIN heap \ {current}) \cup Fork(m) \cup {brk + 2} \cup ({old} \ Orphans)
  /\ \A n \in DOMAIN heap \ {current} :
       Same(heap'[n], heap[n]) /\ (n \in Stored => heap'[n] = heap[n])
  /\ AsFork(m, heap'[brk]) /\ (m # 0 => AsTop(m, heap'[brk + 1]))
  /\ AsNew(m, heap'[brk + 2]) /\ (old \notin Orphans => AsOld(m, heap'[old]))
  /\ NewSon(m, heap'[brk + 2])
  /\ Here.type = "LEAF" => OldSon(m, heap'[brk + 3])
  /\ root' # Null

\* Their counters, and the pointers of the extensions.
Tallies(m, old) ==
  \E c \in Count, e \in Count :
    /\ Counts(c, e)
    /\ heap'[brk].leaves = c
    /\ m # 0 => heap'[brk + 1].leaves = c /\ heap'[brk + 1].next = brk
    /\ Here.type = "EXTENSION" /\ old \notin Orphans =>
         heap'[old].leaves = heap[Here.next].leaves /\ heap'[old].next = Here.next
    /\ \A n \in DOMAIN heap \ {current} :
         /\ n # father => heap'[n] = heap[n]
         /\ n = father => heap[n].type = "BRANCH" /\ heap'[n].leaves = e

\* A split makes those nodes.
LEMMA SplitNodes ==
  ASSUME Inv, Places, Splits, pc = "put", current # Null, Here.type \in {"LEAF", "EXTENSION"}
  PROVE  \E m, old : Parting(m) /\ Divides(m, old) /\ Tallies(m, old)
<1>1. PICK m, old, sons :
        /\ PartsAt(m) /\ SonsOK(m, old, sons)
        /\ NewSon(m, sons[brk + 2])
        /\ Here.type = "LEAF" => OldSon(m, sons[brk + 3])
        /\ Here.type = "EXTENSION" /\ old \notin Orphans =>
             sons[old].type = "EXTENSION" /\ sons[old].leaves = heap[Here.next].leaves
        /\ \E c \in Count, e \in Count : Spliced(m, old, sons, c, e) /\ Counts(c, e)
  BY DEF Splits
<1>2. PICK c \in Count, e \in Count : Spliced(m, old, sons, c, e) /\ Counts(c, e)
  BY <1>1
<1>3. Parting(m)
  BY <1>1 DEF Parting
<1>4. /\ brk \in Nat \ {0} /\ DOMAIN heap \subseteq 1..(brk - 1) /\ TypeOK
      /\ current \in DOMAIN heap
  BY PutCursor DEF Inv, TypeOK
<1>5. /\ old \in {brk + 3} \cup Orphans
      /\ DOMAIN sons \ {current} = {brk + 2} \cup ({old} \ Orphans)
      /\ brk + 2 \in DOMAIN sons \ {current}
      /\ old \notin Orphans => old \in DOMAIN sons \ {current} /\ old = brk + 3
  BY <1>1 DEF SonsOK
<1>6. DOMAIN heap' = (DOMAIN heap \ {current}) \cup Fork(m) \cup {brk + 2} \cup ({old} \ Orphans)
  <2>1. DOMAIN heap' = (DOMAIN heap \ {current}) \cup (DOMAIN sons \ {current}) \cup Fork(m)
    BY <1>2 DEF Spliced
  <2> QED
    BY <1>5, <2>1
<1>7. heap'[brk + 2] = sons[brk + 2] /\ (old \notin Orphans => heap'[old] = sons[old])
  BY <1>2, <1>5 DEF Spliced
<1>8. OldNibble(m) \in Nibble /\ NewNibble(m) \in Nibble
  BY <1>1 DEF PartsAt
<1>9. AsFork(m, heap'[brk])
  <2>1. heap'[brk] = Branch(Prefix(m), OldNibble(m), old, NewNibble(m), brk + 2, c)
    BY <1>2 DEF Spliced
  <2>2. brk + 2 # Null /\ old # Null
    <3>1. Here.type = "EXTENSION" => Here.next # Null
      BY <1>4, ExtensionNext DEF Inv, NodesOK, Here
    <3> QED
      BY <1>4, <1>5, <3>1 DEF Orphans, Null
  <2> QED
    BY <1>8, <2>1, <2>2 DEF AsFork, Branch
<1>10. m # 0 => AsTop(m, heap'[brk + 1])
  <2> SUFFICES ASSUME m # 0 PROVE AsTop(m, heap'[brk + 1])
    OBVIOUS
  <2>1. heap'[brk + 1] = Extension(Here.at, SubSeq(Here.path, 1, m), brk, c)
    BY <1>2 DEF Spliced
  <2>2. /\ heap'[brk + 1].type = "EXTENSION" /\ heap'[brk + 1].at = Here.at
        /\ heap'[brk + 1].path = SubSeq(Here.path, 1, m)
    <3> DEFINE stem == SubSeq(Here.path, 1, m)
               at   == Here.at
               x    == heap'[brk + 1]
    <3>1. x = Extension(at, stem, brk, c)
      BY <2>1
    <3> HIDE DEF stem, at, x
    <3>2. x.type = "EXTENSION" /\ x.at = at /\ x.path = stem
      BY <3>1 DEF Extension
    <3> QED
      BY <3>2 DEF stem, at, x
  <2> QED
    BY <2>2 DEF AsTop, Prefix
<1>11. AsNew(m, heap'[brk + 2])
  BY <1>1, <1>7 DEF SonsOK, AsNew, NewAt
<1>12. ASSUME old \notin Orphans PROVE AsOld(m, heap'[old])
  <2>1. /\ heap'[old] = sons[old] /\ sons[old].at = OldAt(m) /\ old = brk + 3
        /\ sons[old].type = "EXTENSION" =>
            /\ Here.type = "EXTENSION"
            /\ heap[Here.next].at = sons[old].at \o sons[old].path
    BY <1>1, <1>5, <1>7, <1>12 DEF SonsOK, OldAt
  <2>2. CASE Here.type = "EXTENSION"
    <3>1. sons[old].type = "EXTENSION"
      BY <1>1, <1>12, <2>2
    <3>2. heap[Here.next].at = Whole
      BY <1>4, <2>2, ExtensionNext DEF Here, Whole, Inv, NodesOK
    <3> QED
      BY <2>1, <2>2, <3>1, <3>2 DEF AsOld
  <2>3. CASE Here.type = "LEAF"
    <3>1. sons[old].type \in {"LEAF", "VALUE"}
      BY <1>1, <2>1, <2>3 DEF OldSon, Leaf, Value
    <3> QED
      BY <2>1, <2>3, <3>1 DEF AsOld
  <2> QED
    BY <2>2, <2>3
<1>13. ASSUME NEW n \in DOMAIN heap \ {current}
       PROVE  Same(heap'[n], heap[n]) /\ (n \in Stored => heap'[n] = heap[n])
  <2>1. heap'[n] = IF n = father THEN Redirect(heap[n], elIndex, Top(m), e) ELSE heap[n]
    BY <1>2, <1>13 DEF Spliced
  <2>2. CASE n = father
    <3>1. heap[n].type = "BRANCH" /\ heap[n] \in BranchNodes
      <4>1. father # Null
        BY <1>4, <1>13, <2>2 DEF Null
      <4> QED
        BY <1>4, <1>13, <2>2, <4>1, NodeTypes DEF Splits, FatherIsBranch
    <3>2. Top(m) # Null
      BY <1>4 DEF Top, Null
    <3>3. /\ heap'[n].at = heap[n].at /\ heap'[n].type = heap[n].type
          /\ heap'[n].children = [heap[n].children EXCEPT ![elIndex] = Top(m)]
          /\ heap[n].children \in [Nibble -> Nat]
      BY <2>1, <2>2, <3>1 DEF Redirect, BranchNodes
    <3> QED
      BY <3>1, <3>2, <3>3 DEF Same, Stored
  <2>3. CASE n # father
    BY <2>1, <2>3 DEF Same
  <2> QED
    BY <2>2, <2>3
<1>14. root' # Null
  <2>1. root' = IF father = Null THEN Top(m) ELSE root
    BY <1>2 DEF Spliced
  <2>2. Top(m) # Null
    BY <1>4 DEF Top, Null
  <2>3. root # Null
    BY <1>4 DEF Places, RootNode
  <2> QED
    BY <2>1, <2>2, <2>3
<1>15. /\ NewSon(m, heap'[brk + 2])
       /\ Here.type = "LEAF" => OldSon(m, heap'[brk + 3])
  <2>1. Here.type = "LEAF" => old \notin Orphans
    BY <1>4, <1>5 DEF Orphans
  <2> QED
    BY <1>1, <1>5, <1>7, <2>1
<1>16. Divides(m, old)
  BY <1>5, <1>6, <1>9, <1>10, <1>11, <1>12, <1>13, <1>14, <1>15 DEF Divides
<1>17. heap'[brk].leaves = c
  <2>1. heap'[brk] = Branch(Prefix(m), OldNibble(m), old, NewNibble(m), brk + 2, c)
    BY <1>2 DEF Spliced
  <2> QED
    BY <2>1 DEF Branch
<1>18. m # 0 => heap'[brk + 1].leaves = c /\ heap'[brk + 1].next = brk
  <2> DEFINE stem == SubSeq(Here.path, 1, m)
             x    == heap'[brk + 1]
  <2>1. m # 0 => x = Extension(Here.at, stem, brk, c)
    BY <1>2 DEF Spliced
  <2> HIDE DEF stem, x
  <2>2. m # 0 => x.leaves = c /\ x.next = brk
    BY <2>1 DEF Extension
  <2> QED
    BY <2>2 DEF x
<1>19. Here.type = "EXTENSION" /\ old \notin Orphans =>
         heap'[old].leaves = heap[Here.next].leaves /\ heap'[old].next = Here.next
  BY <1>1, <1>7 DEF SonsOK
<1>20. ASSUME NEW n \in DOMAIN heap \ {current}
       PROVE  /\ n # father => heap'[n] = heap[n]
              /\ n = father => heap[n].type = "BRANCH" /\ heap'[n].leaves = e
  <2>1. heap'[n] = IF n = father THEN Redirect(heap[n], elIndex, Top(m), e) ELSE heap[n]
    BY <1>2, <1>20 DEF Spliced
  <2>2. n = father => heap[n].type = "BRANCH" /\ heap[n] \in BranchNodes
    BY <1>4, <1>20, NodeTypes DEF Splits, FatherIsBranch, Null
  <2> QED
    BY <2>1, <2>2 DEF Redirect, BranchNodes
<1>21. Tallies(m, old)
  BY <1>2, <1>17, <1>18, <1>19, <1>20 DEF Tallies
<1> QED
  BY <1>3, <1>16, <1>21

\* The new nodes lie apart.
LEMMA FreshFresh ==
  ASSUME NEW m, NEW old, Parting(m), Divides(m, old),
         NEW n \in DOMAIN heap' \ DOMAIN heap, NEW k \in DOMAIN heap' \ DOMAIN heap, n # k
  PROVE  Beside(heap'[n], heap'[k])
<1> DEFINE a == heap'[n]
           b == heap'[k]
<1>1. /\ start \in Nat /\ m \in Nat /\ OldNibble(m) # NewNibble(m)
      /\ Len(Prefix(m)) = start + m
      /\ Extends(NewAt(m), Prefix(m)) /\ Extends(OldAt(m), Prefix(m)) /\ Extends(Prefix(m), Prefix(m))
  <2>1. /\ start \in Nat /\ m \in Nat /\ OldNibble(m) # NewNibble(m)
        /\ Len(Prefix(m)) = start + m
        /\ Extends(NewAt(m), Prefix(m)) /\ Extends(OldAt(m), Prefix(m))
    BY PartingPlaces
  <2>2. Len(Prefix(m)) \in Nat
    BY <2>1
  <2>3. Extends(Prefix(m), Prefix(m))
    BY <2>2 DEF Extends
  <2> QED
    BY <2>1, <2>3
<1>2. ASSUME NEW x \in DOMAIN heap' \ DOMAIN heap
      PROVE  \/ x = brk /\ AsFork(m, heap'[x])
             \/ x = brk + 1 /\ m # 0 /\ AsTop(m, heap'[x])
             \/ x = brk + 2 /\ AsNew(m, heap'[x])
             \/ x = brk + 3 /\ AsOld(m, heap'[x])
  <2>1. x \in Fork(m) \cup {brk + 2} \cup ({old} \ Orphans)
    BY <1>2 DEF Divides
  <2>2. x \in Fork(m) => x = brk \/ (x = brk + 1 /\ m # 0)
    BY DEF Fork
  <2>3. x \in {old} \ Orphans => x = brk + 3 /\ AsOld(m, heap'[x])
    BY DEF Divides
  <2> QED
    BY <2>1, <2>2, <2>3 DEF Divides
<1>3. CASE n = brk /\ AsFork(m, a)
  <2>1. Len(a.at) = start + m /\ a.type = "BRANCH"
    BY <1>3, FreshPlace DEF AsFork
  <2>2. CASE k = brk + 1 /\ m # 0 /\ AsTop(m, b)
    <3>1. Len(b.at) = start
      BY <2>2, FreshPlace
    <3> QED
      BY <1>1, <2>1, <2>2, <3>1 DEF Beside, Extends
  <2>3. CASE AsNew(m, b) \/ AsOld(m, b)
    <3>1. Len(b.at) = start + m + 1 /\ b.at[start + m + 1] \in {OldNibble(m), NewNibble(m)}
      BY <2>3, FreshPlace
    <3> QED
      BY <1>1, <1>3, <2>1, <3>1 DEF AsFork, Beside
  <2> QED
    BY <1>2, <1>3, <2>2, <2>3
<1>4. CASE n = brk + 1 /\ m # 0 /\ AsTop(m, a)
  <2>1. Extends(b.at, Prefix(m))
    BY <1>1, <1>2, <1>4 DEF AsFork, AsNew, AsOld
  <2> QED
    BY <1>4, <2>1 DEF AsTop, Beside
<1>5. CASE (n = brk + 2 /\ AsNew(m, a)) \/ (n = brk + 3 /\ AsOld(m, a))
  <2>1. Len(a.at) = start + m + 1
    BY <1>5, FreshPlace
  <2>2. CASE AsFork(m, b) \/ (m # 0 /\ AsTop(m, b))
    <3>1. Len(b.at) \in {start + m, start}
      BY <2>2, FreshPlace
    <3> QED
      BY <1>1, <2>1, <3>1 DEF Beside, Extends
  <2>3. CASE AsNew(m, a) /\ AsOld(m, b)
    <3>1. a.at[start + m + 1] = NewNibble(m) /\ b.at[start + m + 1] = OldNibble(m)
      BY <2>3, FreshPlace
    <3> QED
      BY <1>1, <2>1, <3>1 DEF Beside, Extends
  <2>4. CASE AsOld(m, a) /\ AsNew(m, b)
    <3>1. a.at[start + m + 1] = OldNibble(m) /\ b.at[start + m + 1] = NewNibble(m)
      BY <2>4, FreshPlace
    <3> QED
      BY <1>1, <2>1, <3>1 DEF Beside, Extends
  <2> QED
    BY <1>2, <1>5, <2>2, <2>3, <2>4
<1> QED
  BY <1>2, <1>3, <1>4, <1>5

\* A split keeps the nodes apart.
LEMMA ApartSplit == ASSUME NEW m, NEW old, Parting(m), Divides(m, old) PROVE Apart'
<1> DEFINE Kept == DOMAIN heap \ {current}
           Fresh == DOMAIN heap' \ DOMAIN heap
<1>1. brk \in Nat /\ DOMAIN heap \subseteq 1..(brk - 1) /\ TypeOK
  BY DEF Parting, Inv, TypeOK
<1>2. DOMAIN heap' = Kept \cup Fresh
  BY <1>1, PartingPlaces DEF Divides, Fork, Orphans, Parting, Inv, TypeOK
<1>3. \A n \in Kept : Same(heap'[n], heap[n])
  BY DEF Divides
<1>4. \A n \in DOMAIN heap : Len(heap[n].at) \in Nat /\ heap[n].at \in Seq(Nibble)
  BY <1>1, PlaceTyped
<1>5. \A n \in Fresh : Same(heap'[n], heap'[n])
  BY DEF Same
<1>6. ASSUME NEW n \in Fresh
      PROVE  /\ AsFork(m, heap'[n]) \/ AsTop(m, heap'[n]) \/ AsNew(m, heap'[n]) \/ AsOld(m, heap'[n])
             /\ Len(heap'[n].at) \in Nat
             /\ heap'[n].at \in Seq(Nibble)
  <2>1. AsFork(m, heap'[n]) \/ AsTop(m, heap'[n]) \/ AsNew(m, heap'[n]) \/ AsOld(m, heap'[n])
    <3>1. n \in Fork(m) \cup {brk + 2} \cup ({old} \ Orphans)
      BY <1>6 DEF Divides
    <3> QED
      BY <3>1 DEF Fork, Divides
  <2>2. /\ Prefix(m) \in Seq(Nibble) /\ Here.at \in Seq(Nibble)
        /\ OldAt(m) \in Seq(Nibble) /\ NewAt(m) \in Seq(Nibble)
    <3>1. TypeOK /\ current \in DOMAIN heap /\ Len(Here.at) = start
      BY PartingPlaces
    <3> QED
      BY <1>4, <3>1, SplitPlaces DEF Parting, PartsAt, Here
  <2>3. heap'[n].at \in Seq(Nibble)
    BY <2>1, <2>2 DEF AsFork, AsTop, AsNew, AsOld
  <2> QED
    BY <2>1, <2>3, FreshPlace
<1>7. ASSUME NEW n \in DOMAIN heap', NEW k \in DOMAIN heap', n # k
      PROVE  Beside(heap'[n], heap'[k])
  <2>1. CASE n \in Kept /\ k \in Kept
    <3>1. Beside(heap[n], heap[k])
      BY <1>7, <2>1 DEF Parting, Places, Apart
    <3>2. Same(heap'[n], heap[n]) /\ Same(heap'[k], heap[k])
      BY <1>3, <2>1
    <3>3. Len(heap[n].at) \in Nat /\ heap[k].at \in Seq(Nibble)
      BY <1>4, <2>1
    <3> HIDE DEF Kept, Fresh
    <3> QED
      BY <3>1, <3>2, <3>3, BesideSame
  <2>2. CASE n \in Kept /\ k \in Fresh
    <3>1. Beside(heap[n], heap'[k])
      BY <1>6, <2>2, KeptFresh
    <3>2. Same(heap'[n], heap[n]) /\ Same(heap'[k], heap'[k])
      BY <1>3, <1>5, <2>2
    <3>3. Len(heap[n].at) \in Nat /\ heap'[k].at \in Seq(Nibble)
      BY <1>4, <1>6, <2>2
    <3> HIDE DEF Kept, Fresh
    <3> QED
      BY <3>1, <3>2, <3>3, BesideSame
  <2>3. CASE n \in Fresh /\ k \in Kept
    <3>1. Beside(heap'[n], heap[k])
      BY <1>6, <2>3, FreshKept
    <3>2. Same(heap'[n], heap'[n]) /\ Same(heap'[k], heap[k])
      BY <1>3, <1>5, <2>3
    <3>3. Len(heap'[n].at) \in Nat /\ heap[k].at \in Seq(Nibble)
      BY <1>4, <1>6, <2>3
    <3> HIDE DEF Kept, Fresh
    <3> QED
      BY <3>1, <3>2, <3>3, BesideSame
  <2>4. CASE n \in Fresh /\ k \in Fresh
    BY <1>7, <2>4, FreshFresh
  <2> QED
    BY <1>2, <2>1, <2>2, <2>3, <2>4
<1> QED
  BY <1>7 DEF Apart

-----------------------------------------------------------------------------
(* What the new nodes hold *)

\* The key is put together from a prefix, the nibble after it and the rest.
LEMMA KeyParts ==
  ASSUME hex \in Seq(Nibble), Len(hex) = HexLen, NEW d \in Nat, d < HexLen
  PROVE  /\ hex = Append(SubSeq(hex, 1, d), hex[d + 1]) \o After(hex, d)
         /\ d = HexLen - 1 => hex = Append(SubSeq(hex, 1, d), hex[d + 1])
         /\ SubSeq(hex, 1, HexLen) = hex
<1>1. <<>> \in Seq(Nibble) /\ <<>> \o hex = hex
  BY ConcatEmptySeq, EmptySeq
<1>2. SubSeq(hex, 1, d) \in Seq(Nibble)
  <2>1. \A j \in 1..HexLen : hex[j] \in Nibble
    BY ElementOfSeq
  <2> QED
    BY <2>1, HexLenTyped, SubSeqProperties
<1>3. <<>> \o SubSeq(hex, 1, d) = SubSeq(hex, 1, d)
  BY <1>2, ConcatEmptySeq
<1>4. /\ <<>> \o hex = Append(<<>> \o SubSeq(hex, 1, d), hex[d + 1]) \o After(hex, d)
      /\ d = Len(hex) - 1 => <<>> \o hex = Append(<<>> \o SubSeq(hex, 1, d), hex[d + 1])
  BY <1>1, Rejoin
<1>5. SubSeq(hex, 1, HexLen) = hex
  BY SubSeqFull
<1> QED
  BY <1>1, <1>3, <1>4, <1>5

\* Up to nibble m the path is that of the key.
LEMMA PrefixOfKey ==
  ASSUME NEW m, Parting(m)
  PROVE  /\ Prefix(m) = SubSeq(hex, 1, start + m) /\ start + m \in Nat /\ start + m < HexLen
         /\ hex \in Seq(Nibble) /\ Len(hex) = HexLen
<1>1. /\ m \in Nat /\ start + m < HexLen /\ m < Len(Here.path)
      /\ \A j \in 1..m : Here.path[j] = hex[start + j]
      /\ SubSeq(Here.path, 1, m) \in Seq(Nibble)
      /\ Prefix(m) \in Seq(Nibble) /\ Len(Prefix(m)) = start + m
  BY DEF Parting, PartsAt
<1>2. /\ Here.at = SubSeq(hex, 1, start) /\ hex \in Seq(Nibble) /\ Len(hex) = HexLen
      /\ start \in Nat /\ HexLen \in Nat /\ current \in DOMAIN heap
  BY PutCursor DEF Parting, Here
<1> DEFINE q == SubSeq(Here.path, 1, m)
<1>3. Len(q) = m /\ \A j \in 1..m : q[j] = hex[start + j]
  <2>1. Here.path \in Seq(Nibble \cup {Junk}) /\ Len(Here.path) \in Nat
    BY <1>2, PlaceTyped DEF Parting, Inv, Here
  <2>2. \A j \in 1..m : Here.path[j] \in Nibble \cup {Junk}
    BY <1>1, <2>1, ElementOfSeq
  <2>3. Len(q) = m /\ \A j \in 1..m : q[j] = Here.path[j]
    BY <1>1, <2>2, SubSeqProperties
  <2> QED
    BY <1>1, <2>3
<1>4. q \in Seq(Nibble)
  BY <1>1
<1> HIDE DEF q
<1>5. start \in 0..Len(hex) /\ start + Len(q) <= Len(hex)
  BY <1>1, <1>2, <1>3
<1>6. SubSeq(hex, 1, start) \o q = SubSeq(hex, 1, start + Len(q))
  BY <1>2, <1>3, <1>4, <1>5, PrefixConcat
<1> QED
  BY <1>1, <1>2, <1>3, <1>6 DEF Prefix, q

\* The new node holds the key that is put.
LEMMA NewSonKey ==
  ASSUME NEW m, Parting(m), NEW node, NewSon(m, node)
  PROVE  Full(node) /\ KeyOf(node) = hex /\ node.value = value /\ Holder(node)
<1> DEFINE d  == start + m
           at == Append(Prefix(m), NewNibble(m))
           rest == After(hex, d)
<1>1. /\ Prefix(m) = SubSeq(hex, 1, d) /\ d \in Nat /\ d < HexLen
      /\ hex \in Seq(Nibble) /\ Len(hex) = HexLen /\ HexLen \in Nat
  BY PrefixOfKey, HexLenTyped
<1>2. at = Append(SubSeq(hex, 1, d), hex[d + 1])
  BY <1>1 DEF NewNibble
<1>3. Len(at) = d + 1
  BY PartingPlaces DEF NewAt
<1>4. /\ hex = at \o rest /\ SubSeq(hex, 1, HexLen) = hex
      /\ d = HexLen - 1 => hex = at
  BY <1>1, <1>2, KeyParts
<1>5. Len(rest) = HexLen - d - 1
  BY <1>1, AfterProperties
<1>6. node = Leaf(at, rest, value) \/ (node = Value(at, value) /\ Here.type = "LEAF" /\ m = Len(Here.path) - 1)
  BY DEF NewSon
<1>7. Here.type = "LEAF" /\ m = Len(Here.path) - 1 => d = HexLen - 1
  <2> SUFFICES ASSUME Here.type = "LEAF", m = Len(Here.path) - 1 PROVE d = HexLen - 1
    OBVIOUS
  <2> DEFINE lp == Len(Here.path)
  <2>1. current \in Stored /\ start \in Nat /\ m \in Nat /\ Len(Here.at) = start
    BY PartingPlaces DEF Stored, Here
  <2>2. Full(Here)
    BY <2>1 DEF Parting, Places, FullNodes, Here
  <2>3. start + lp >= HexLen /\ m = lp - 1
    BY <2>1, <2>2 DEF Full
  <2>4. lp \in Nat
    BY <2>1, PlaceTyped DEF Parting, Inv, Here, Stored
  <2> HIDE DEF lp
  <2> QED
    BY <1>1, <2>1, <2>3, <2>4
<1> HIDE DEF at, rest, d
<1>8. CASE node = Leaf(at, rest, value)
  <2>1. node.type = "LEAF" /\ node.at = at /\ node.path = rest /\ node.value = value
    BY <1>8 DEF Leaf
  <2> QED
    BY <1>1, <1>3, <1>4, <1>5, <2>1 DEF Full, KeyOf, Holder
<1>9. CASE node = Value(at, value) /\ d = HexLen - 1
  <2>1. node.type = "VALUE" /\ node.at = at /\ node.value = value
    BY <1>9 DEF Value
  <2> QED
    BY <1>1, <1>3, <1>4, <1>9, <2>1 DEF Full, KeyOf, Holder
<1> QED
  BY <1>6, <1>7, <1>8, <1>9

\* The other one holds the key of the leaf that is split.
LEMMA OldSonKey ==
  ASSUME NEW m, Parting(m), Here.type = "LEAF", NEW node, OldSon(m, node)
  PROVE  Full(node) /\ KeyOf(node) = KeyOf(Here) /\ node.value = Here.value /\ Holder(node)
<1> DEFINE a  == Here.at
           q  == Here.path
           lp == Len(q)
           at == Append(Prefix(m), OldNibble(m))
           rest == After(q, m)
<1>1. /\ current \in DOMAIN heap /\ current \in Stored /\ start \in Nat /\ m \in Nat
      /\ TypeOK /\ Len(a) = start
  BY PartingPlaces DEF Stored, Here
<1>2. /\ a \in Seq(Nibble \cup {Junk}) /\ q \in Seq(Nibble \cup {Junk}) /\ lp \in Nat
  BY <1>1, PlaceTyped DEF Here
<1>3. m < lp /\ start + m < HexLen
  BY DEF Parting, PartsAt
<1>4. start + lp >= HexLen
  BY <1>1 DEF Parting, Places, FullNodes, Full, Here
<1>5. Len(at) = start + m + 1
  BY PartingPlaces DEF OldAt
<1>6. at = Append(a \o SubSeq(q, 1, m), q[m + 1])
  BY DEF Prefix, OldNibble
<1>7. rest = After(q, m) /\ lp = Len(q)
  OBVIOUS
<1>8. Len(rest) = lp - m - 1
  BY <1>1, <1>2, <1>3, AfterProperties
<1>9. KeyOf(Here) = SubSeq(a \o q, 1, HexLen)
  BY DEF KeyOf
<1>10. node = Leaf(at, rest, Here.value) \/ (node = Value(at, Here.value) /\ m = lp - 1)
  BY DEF OldSon
<1>11. at \in Seq(Nibble)
  BY SplitPlaces, PartingPlaces DEF Parting, OldAt
<1> HIDE DEF a, q, lp, at, rest
<1>12. a \o q = at \o rest /\ (m = lp - 1 => a \o q = at)
  <2>1. m < Len(q)
    BY <1>3, <1>7
  <2>2. /\ a \o q = Append(a \o SubSeq(q, 1, m), q[m + 1]) \o After(q, m)
        /\ m = Len(q) - 1 => a \o q = Append(a \o SubSeq(q, 1, m), q[m + 1])
    BY <1>1, <1>2, <2>1, Rejoin
  <2> QED
    BY <1>6, <1>7, <2>2
<1>13. CASE node = Leaf(at, rest, Here.value)
  <2>1. node.type = "LEAF" /\ node.at = at /\ node.path = rest /\ node.value = Here.value
    BY <1>13 DEF Leaf
  <2>2. Len(node.at) <= HexLen /\ Len(node.at) + Len(node.path) >= HexLen
    BY <1>1, <1>2, <1>3, <1>4, <1>5, <1>8, <2>1, HexLenTyped
  <2>3. KeyOf(node) = KeyOf(Here)
    BY <1>12, <1>9, <2>1 DEF KeyOf
  <2> QED
    BY <2>1, <2>2, <2>3 DEF Full, Holder
<1>14. CASE node = Value(at, Here.value) /\ m = lp - 1
  <2>1. node.type = "VALUE" /\ node.at = at /\ node.value = Here.value
    BY <1>14 DEF Value
  <2>2. Len(at) = HexLen
    BY <1>1, <1>2, <1>3, <1>4, <1>5, <1>14, HexLenTyped
  <2>3. SubSeq(at, 1, HexLen) = at
    BY <1>11, <2>2, SubSeqFull
  <2> QED
    BY <1>12, <1>9, <1>14, <2>1, <2>2, <2>3 DEF Full, KeyOf, Holder
<1> QED
  BY <1>10, <1>13, <1>14

\* A split keeps the places.
LEMMA PlacesSplit == ASSUME NEW m, NEW old, Parting(m), Divides(m, old) PROVE Places'
<1>1. RootNode'
  BY DEF Divides, RootNode
<1>2. ASSUME NEW n \in DOMAIN heap', heap'[n].type \in {"LEAF", "VALUE"}
      PROVE  Full(heap'[n])
  <2>1. CASE n \in DOMAIN heap \ {current}
    <3>1. heap'[n].type = heap[n].type
      BY <2>1 DEF Divides, Same
    <3>2. n \in Stored /\ heap'[n] = heap[n]
      BY <1>2, <2>1, <3>1 DEF Divides, Stored
    <3> QED
      BY <3>2 DEF Parting, Places, FullNodes
  <2>2. CASE n = brk \/ (n = brk + 1 /\ m # 0)
    <3>1. heap'[n].type \in {"BRANCH", "EXTENSION"}
      BY <2>2 DEF Divides, AsFork, AsTop
    <3> QED
      BY <1>2, <3>1
  <2>3. CASE n = brk + 2
    BY <2>3, NewSonKey DEF Divides
  <2>4. CASE n \in {old} \ Orphans
    <3>1. n = brk + 3 /\ AsOld(m, heap'[n])
      BY <2>4 DEF Divides
    <3>2. Here.type = "LEAF"
      BY <1>2, <3>1 DEF AsOld, Parting
    <3> QED
      BY <3>1, <3>2, OldSonKey DEF Divides
  <2> QED
    BY <2>1, <2>2, <2>3, <2>4 DEF Divides, Fork
<1>3. FullNodes'
  BY <1>2 DEF FullNodes, Stored
<1> QED
  BY <1>1, <1>3, ApartSplit DEF Places

\* A put that only counts leaves the nodes where they are.
LEMMA PlacesCounted ==
  ASSUME Inv, Places, PutExtensionMatch \/ PutBranchDown
  PROVE  /\ Places' /\ Stored' = Stored
         /\ \A n \in Stored : heap'[n] = heap[n]
<1>1. /\ TypeOK /\ current \in DOMAIN heap /\ root' = root
      /\ heap[current].type \in {"BRANCH", "EXTENSION"}
      /\ heap' = [heap EXCEPT ![current].leaves = Wrap(@ + 1)]
  BY PutCursor DEF PutExtensionMatch, PutBranchDown, Node, Inv
<1>2. DOMAIN heap' = DOMAIN heap /\ \A n \in DOMAIN heap \ {current} : heap'[n] = heap[n]
  BY <1>1
<1>3. \A n \in DOMAIN heap : Same(heap'[n], heap[n])
  <2>1. heap'[current] = [heap[current] EXCEPT !.leaves = Wrap(@ + 1)]
    BY <1>1
  <2>2. heap[current] \in BranchNodes \/ heap[current] \in ExtensionNodes
    BY <1>1, NodeTypes
  <2>3. Same(heap'[current], heap[current])
    BY <2>1, <2>2 DEF Same, BranchNodes, ExtensionNodes
  <2>4. \A n \in DOMAIN heap \ {current} : Same(heap'[n], heap[n])
    BY <1>2 DEF Same
  <2> QED
    BY <2>3, <2>4
<1>4. Stored' = Stored /\ \A n \in Stored : heap'[n] = heap[n]
  <2>1. \A n \in DOMAIN heap : heap'[n].type = heap[n].type
    BY <1>3 DEF Same
  <2> QED
    BY <1>1, <1>2, <2>1 DEF Stored
<1>5. RootNode' /\ FullNodes'
  BY <1>1, <1>2, <1>4 DEF Places, RootNode, FullNodes
<1>6. ASSUME NEW n \in DOMAIN heap', NEW k \in DOMAIN heap', n # k
      PROVE  Beside(heap'[n], heap'[k])
  <2>1. /\ Same(heap'[n], heap[n]) /\ Same(heap'[k], heap[k]) /\ Beside(heap[n], heap[k])
    BY <1>2, <1>3, <1>6 DEF Places, Apart
  <2>2. Len(heap[n].at) \in Nat /\ heap[k].at \in Seq(Nibble)
    BY <1>1, <1>2, PlaceTyped
  <2> QED
    BY <2>1, <2>2, BesideSame
<1> QED
  BY <1>4, <1>5, <1>6 DEF Places, Apart

\* The first leaf is alone.
LEMMA PlacesRoot ==
  ASSUME Inv, Places, PutRoot
  PROVE  /\ Places' /\ brk \in Stored' /\ Stored' = Stored \cup {brk} /\ brk \notin Stored
         /\ \A n \in Stored : heap'[n] = heap[n]
         /\ KeyOf(heap'[brk]) = hex /\ heap'[brk].value = value
<1>1. /\ DOMAIN heap = {} /\ root' = brk /\ brk \in Nat \ {0}
      /\ hex \in Seq(Nibble) /\ Len(hex) = HexLen
  BY DEF PutRoot, Places, RootNode, Inv, TypeOK
<1>2. DOMAIN heap' = {brk} /\ heap'[brk] = Leaf(<<>>, hex, value)
  BY <1>1 DEF PutRoot, Overlay
<1>3. /\ heap'[brk].type = "LEAF" /\ heap'[brk].at = <<>> /\ heap'[brk].path = hex
      /\ heap'[brk].value = value
  BY <1>2 DEF Leaf
<1>4. Stored = {} /\ Stored' = {brk}
  BY <1>1, <1>2, <1>3 DEF Stored
<1>5. Full(heap'[brk])
  BY <1>1, <1>3, HexLenTyped DEF Full
<1>6. KeyOf(heap'[brk]) = hex
  <2>1. <<>> \o hex = hex /\ SubSeq(hex, 1, HexLen) = hex
    BY <1>1, ConcatEmptySeq, SubSeqFull
  <2> QED
    BY <1>3, <2>1 DEF KeyOf
<1>7. Places'
  BY <1>1, <1>2, <1>4, <1>5 DEF Places, RootNode, FullNodes, Apart, Null
<1> QED
  BY <1>3, <1>4, <1>6, <1>7

\* A leaf in an empty slot of a branch lies right of all others.
LEMMA PlacesBranchNew ==
  ASSUME Inv, Places, PutBranchNew
  PROVE  /\ Places' /\ brk \in Stored' /\ Stored' = Stored \cup {brk} /\ brk \notin Stored
         /\ \A n \in Stored : heap'[n] = heap[n]
         /\ KeyOf(heap'[brk]) = hex /\ heap'[brk].value = value
<1> DEFINE i    == hex[start + 1]
           at   == Append(Here.at, i)
           tail == [j \in 1..(start + 1) |-> Junk]
           path == After(hex, start) \o tail
<1>1. /\ TypeOK /\ current \in DOMAIN heap /\ Here.type = "BRANCH" /\ Here \in BranchNodes
      /\ pc = "put" /\ current # Null /\ root' = root
      /\ brk \in Nat \ {0} /\ DOMAIN heap \subseteq 1..(brk - 1)
  BY PutCursor, NodeTypes DEF PutBranchNew, Node, Inv, TypeOK, Here
<1>2. /\ start \in Nat /\ start < HexLen /\ HexLen \in Nat /\ i \in Nibble
      /\ hex \in Seq(Nibble) /\ Len(hex) = HexLen
      /\ Here.at = SubSeq(hex, 1, start) /\ Len(Here.at) = start
  <2>1. /\ start \in 0..HexLen /\ HexLen \in Nat
        /\ hex \in Seq(Nibble) /\ Len(hex) = HexLen
        /\ Here.at = SubSeq(hex, 1, start) /\ Len(Here.at) = start
        /\ \A j \in 1..HexLen : hex[j] \in Nibble
    BY <1>1, PutCursor DEF Here
  <2>2. start < HexLen
    BY <1>1, <2>1 DEF Inv, NodesOK, BranchDepth, Here
  <2> QED
    BY <2>1, <2>2
<1>3. /\ Here.children[i] = Null
      /\ heap' = Overlay(heap, [a \in {current, brk} |->
                   IF a = brk THEN Leaf(at, path, value)
                   ELSE [Here EXCEPT !.children[i] = brk, !.leaves = Wrap(@ + 1)]])
  BY DEF PutBranchNew, Here
<1>4. Here.at \in Seq(Nibble)
  BY <1>1, PlaceTyped DEF Here
<1>5. /\ at \in Seq(Nibble) /\ Len(at) = start + 1 /\ at[start + 1] = i
      /\ \A j \in 1..start : at[j] = Here.at[j]
  BY <1>2, <1>4, AppendProperties
<1>6. Extends(at, Here.at)
  BY <1>2, <1>5 DEF Extends
<1> DEFINE rest == After(hex, start)
<1>7. /\ rest \in Seq(Nibble) /\ Len(rest) = HexLen - start - 1
  BY <1>2, AfterProperties
<1>8. tail \in Seq({Junk}) /\ Len(tail) = start + 1
  BY <1>2
<1>9. rest \in Seq(Nibble \cup {Junk}) /\ tail \in Seq(Nibble \cup {Junk}) /\ at \in Seq(Nibble \cup {Junk})
  BY <1>5, <1>7, <1>8, SeqMonotonic
<1> HIDE DEF tail, i
<1>10. hex = at \o rest /\ SubSeq(hex, 1, HexLen) = hex
  <2>1. at = Append(SubSeq(hex, 1, start), hex[start + 1])
    BY <1>2 DEF i
  <2> QED
    BY <1>2, <2>1, KeyParts
<1> HIDE DEF at, rest
<1>11. Len(rest \o tail) = HexLen
  <2>1. Len(rest \o tail) = Len(rest) + Len(tail)
    BY <1>9, ConcatProperties
  <2> QED
    BY <1>2, <1>7, <1>8, <2>1
<1>12. SubSeq(at \o (rest \o tail), 1, HexLen) = hex
  <2>1. at \o (rest \o tail) = hex \o tail
    BY <1>9, <1>10, ConcatAssociative
  <2>2. hex \in Seq(Nibble \cup {Junk})
    BY <1>2, SeqMonotonic
  <2>3. 1 \in 1..Len(hex) /\ HexLen \in 1..Len(hex)
    BY <1>2
  <2>4. SubSeq(hex \o tail, 1, HexLen) = SubSeq(hex, 1, HexLen)
    BY <1>9, <2>2, <2>3, SubSeqOfConcat1
  <2> QED
    BY <1>10, <2>1, <2>4
<1>13. path = rest \o tail
  BY DEF rest
<1> HIDE DEF path
<1>14. brk \notin DOMAIN heap
  BY <1>1
<1>15. /\ DOMAIN heap' = DOMAIN heap \cup {brk} /\ heap'[brk] = Leaf(at, path, value)
       /\ heap'[current] = [Here EXCEPT !.children[i] = brk, !.leaves = Wrap(@ + 1)]
       /\ \A n \in DOMAIN heap \ {current} : heap'[n] = heap[n]
  BY <1>1, <1>3, <1>14 DEF Overlay
<1>16. /\ heap'[brk].type = "LEAF" /\ heap'[brk].at = at /\ heap'[brk].path = path
       /\ heap'[brk].value = value
  BY <1>15 DEF Leaf
<1>17. Full(heap'[brk]) /\ KeyOf(heap'[brk]) = hex
  <2>1. KeyOf(heap'[brk]) = hex
    BY <1>12, <1>13, <1>16 DEF KeyOf
  <2>2. Len(at) <= HexLen /\ Len(at) + Len(path) >= HexLen
    BY <1>2, <1>5, <1>11, <1>13
  <2> QED
    BY <1>16, <2>1, <2>2 DEF Full
<1>18. /\ heap'[current].type = "BRANCH" /\ heap'[current].at = Here.at
       /\ heap'[current].children = [Here.children EXCEPT ![i] = brk]
       /\ Here.children \in [Nibble -> Nat]
  BY <1>1, <1>15 DEF BranchNodes
<1>19. \A n \in DOMAIN heap : Same(heap'[n], heap[n])
  <2>1. Same(heap'[current], heap[current])
    BY <1>1, <1>18 DEF Same, Here, Null
  <2> QED
    BY <1>15, <2>1 DEF Same
<1>20. Stored' = Stored \cup {brk} /\ \A n \in Stored : heap'[n] = heap[n]
  <2>1. current \notin Stored /\ current \notin Stored'
    BY <1>1, <1>18 DEF Stored, Here
  <2> QED
    BY <1>14, <1>15, <1>16, <2>1 DEF Stored
<1>21. RootNode' /\ FullNodes'
  BY <1>1, <1>15, <1>17, <1>20 DEF Places, RootNode, FullNodes
<1>22. ASSUME NEW b, Beside(Here, b), Extends(b.at, Here.at), Len(b.at) > start, b.at[start + 1] = i
       PROVE  FALSE
  <2>1. Here.type = "BRANCH" /\ Len(Here.at) = start
    BY <1>1, <1>2
  <2>2. Len(b.at) # Len(Here.at)
    BY <1>2, <1>22, <2>1
  <2>3. Here.children[b.at[Len(Here.at) + 1]] # Null
    BY <1>22, <2>1, <2>2 DEF Beside
  <2> QED
    BY <1>3, <1>22, <2>1, <2>3
<1>23. ASSUME NEW n \in DOMAIN heap', NEW k \in DOMAIN heap', n # k
       PROVE  Beside(heap'[n], heap'[k])
  <2>1. CASE n \in DOMAIN heap /\ k \in DOMAIN heap
    <3>1. /\ Same(heap'[n], heap[n]) /\ Same(heap'[k], heap[k]) /\ Beside(heap[n], heap[k])
      BY <1>19, <1>23, <2>1 DEF Places, Apart
    <3>2. Len(heap[n].at) \in Nat /\ heap[k].at \in Seq(Nibble)
      BY <1>1, <2>1, PlaceTyped
    <3> QED
      BY <3>1, <3>2, BesideSame
  <2>2. CASE n = current /\ k = brk
    <3>1. heap'[current].children[i] = brk /\ brk # Null
      BY <1>1, <1>2, <1>18 DEF Null
    <3>2. Len(at) > Len(Here.at) /\ at[Len(Here.at) + 1] = i
      BY <1>2, <1>5
    <3> QED
      BY <1>16, <1>18, <2>2, <3>1, <3>2 DEF Beside
  <2>3. CASE n \in DOMAIN heap \ {current} /\ k = brk
    <3> SUFFICES ASSUME Extends(at, heap[n].at)
                 PROVE  Beside(heap[n], heap'[k])
      BY <1>15, <1>16, <2>3 DEF Beside
    <3>1. Len(heap[n].at) \in Nat /\ Beside(heap[n], Here) /\ Beside(Here, heap[n])
      BY <1>1, <2>3, PlaceTyped DEF Places, Apart, Here
    <3>2. CASE Len(heap[n].at) <= start
      <4>1. Extends(Here.at, heap[n].at)
        <5>1. Len(at) \in Nat /\ Len(Here.at) \in Nat /\ Len(heap[n].at) <= Len(Here.at)
          BY <1>2, <1>5, <3>2
        <5> QED
          BY <1>6, <3>1, <5>1, Comparable
      <4>2. CASE /\ heap[n].type = "BRANCH" /\ Len(heap[n].at) < start
                 /\ heap[n].children[Here.at[Len(heap[n].at) + 1]] # Null
        <5>1. at[Len(heap[n].at) + 1] = Here.at[Len(heap[n].at) + 1]
          BY <1>2, <1>5, <3>1, <4>2
        <5> QED
          BY <1>2, <1>5, <1>16, <2>3, <3>1, <4>2, <5>1 DEF Beside
      <4>3. CASE heap[n].type = "EXTENSION" /\ Extends(Here.at, heap[n].at \o heap[n].path)
        <5>1. Len(heap[n].at \o heap[n].path) \in Nat
          BY <1>1, <2>3, <4>3, PlaceEnd
        <5>2. Extends(at, heap[n].at \o heap[n].path)
          BY <1>2, <1>5, <1>6, <4>3, <5>1, ExtendsTrans
        <5> QED
          BY <1>16, <2>3, <4>3, <5>2 DEF Beside
      <4> QED
        BY <1>1, <1>2, <3>1, <4>1, <4>2, <4>3 DEF Beside
    <3>3. CASE Len(heap[n].at) > start
      <4>1. Extends(heap[n].at, Here.at)
        <5>1. Len(at) \in Nat /\ Len(Here.at) \in Nat /\ Len(Here.at) <= Len(heap[n].at)
          BY <1>2, <1>5, <3>1, <3>3
        <5> QED
          BY <1>6, <3>1, <5>1, Comparable
      <4>2. heap[n].at[start + 1] = i
        BY <1>2, <1>5, <3>1, <3>3 DEF Extends
      <4> QED
        BY <1>22, <3>1, <3>3, <4>1, <4>2
    <3> QED
      BY <1>2, <3>1, <3>2, <3>3
  <2>4. CASE n = brk /\ k \in DOMAIN heap
    <3>1. heap'[k].at = heap[k].at /\ Len(heap[k].at) \in Nat
      BY <1>1, <1>19, <2>4, PlaceTyped DEF Same
    <3>2. ASSUME Extends(heap[k].at, at) PROVE FALSE
      <4>1. Extends(heap[k].at, Here.at)
        BY <1>2, <1>5, <1>6, <3>1, <3>2, ExtendsTrans
      <4>2. Len(heap[k].at) > start /\ heap[k].at[start + 1] = i
        BY <1>2, <1>5, <3>1, <3>2 DEF Extends
      <4>3. k # current
        BY <1>2, <4>2 DEF Here
      <4>4. Beside(Here, heap[k])
        BY <1>1, <2>4, <4>3 DEF Places, Apart, Here
      <4> QED
        BY <1>22, <4>1, <4>2, <4>4
    <3> QED
      BY <1>16, <2>4, <3>1, <3>2 DEF Beside
  <2> QED
    BY <1>15, <1>23, <2>1, <2>2, <2>3, <2>4
<1> QED
  BY <1>14, <1>16, <1>17, <1>20, <1>21, <1>23 DEF Places, Apart, Stored

-----------------------------------------------------------------------------
(* What the trie holds *)

Once == \A n \in Stored, k \in Stored : KeyAt(n) = KeyAt(k) => n = k

\* No two nodes hold the same key.
LEMMA OnceHolds == Inv /\ Places => Once
  BY HeldOnce DEF Once

\* The trie holds the keys of its nodes, each with its node's value.
LEMMA ContentsOf ==
  ASSUME Once
  PROVE  /\ DOMAIN Contents = {KeyAt(n) : n \in Stored}
         /\ \A n \in Stored : Contents[KeyAt(n)] = heap[n].value
<1>1. DOMAIN Contents = {KeyAt(n) : n \in Stored}
  BY DEF Contents
<1>2. ASSUME NEW n \in Stored PROVE Contents[KeyAt(n)] = heap[n].value
  <2> DEFINE x == CHOOSE k \in Stored : KeyAt(k) = KeyAt(n)
  <2>1. x \in Stored /\ KeyAt(x) = KeyAt(n)
    OBVIOUS
  <2>2. x = n
    BY <2>1 DEF Once
  <2>3. Contents[KeyAt(n)] = heap[x].value
    BY <1>2 DEF Contents
  <2> QED
    BY <2>2, <2>3
<1> QED
  BY <1>1, <1>2

ContentsOK ==
  /\ Contents = [k \in DOMAIN Contents |-> Contents[k]]
  /\ DOMAIN Contents = {KeyAt(n) : n \in Stored}
  /\ \A n \in Stored : Contents[KeyAt(n)] = heap[n].value

\* It does so after every step.
LEMMA ContentsAre == Inv /\ Places => ContentsOK
<1> SUFFICES ASSUME Inv, Places PROVE ContentsOK
  OBVIOUS
<1>1. Contents = [k \in DOMAIN Contents |-> Contents[k]]
  BY DEF Contents
<1> QED
  BY <1>1, OnceHolds, ContentsOf DEF ContentsOK

\* The same keys and values in other nodes.
LEMMA ContentsSame ==
  ASSUME ContentsOK, ContentsOK',
         \A n \in Stored : \E k \in Stored' :
           KeyOf(heap'[k]) = KeyOf(heap[n]) /\ heap'[k].value = heap[n].value,
         \A k \in Stored' : \E n \in Stored :
           KeyOf(heap'[k]) = KeyOf(heap[n]) /\ heap'[k].value = heap[n].value
  PROVE  Contents' = Contents
<1>1. \A n : KeyAt(n) = KeyOf(heap[n]) /\ KeyAt(n)' = KeyOf(heap'[n])
  BY KeyAtOf
<1>2. /\ DOMAIN Contents = {KeyOf(heap[n]) : n \in Stored}
      /\ \A n \in Stored : Contents[KeyOf(heap[n])] = heap[n].value
      /\ Contents = [k \in DOMAIN Contents |-> Contents[k]]
  BY <1>1 DEF ContentsOK
<1>3. /\ DOMAIN Contents' = {KeyOf(heap'[n]) : n \in Stored'}
      /\ \A n \in Stored' : Contents'[KeyOf(heap'[n])] = heap'[n].value
      /\ Contents' = [k \in DOMAIN Contents' |-> Contents'[k]]
  BY <1>1 DEF ContentsOK
<1>4. DOMAIN Contents' = DOMAIN Contents
  BY <1>2, <1>3
<1>5. ASSUME NEW k \in DOMAIN Contents PROVE Contents'[k] = Contents[k]
  BY <1>2, <1>3
<1> QED
  BY <1>2, <1>3, <1>4, <1>5

\* One more.
LEMMA ContentsMore ==
  ASSUME ContentsOK, ContentsOK', Once', NEW new \in Stored',
         KeyOf(heap'[new]) = hex, heap'[new].value = value,
         \A n \in Stored : \E k \in Stored' \ {new} :
           KeyOf(heap'[k]) = KeyOf(heap[n]) /\ heap'[k].value = heap[n].value,
         \A k \in Stored' \ {new} : \E n \in Stored :
           KeyOf(heap'[k]) = KeyOf(heap[n]) /\ heap'[k].value = heap[n].value
  PROVE  /\ hex \notin DOMAIN Contents
         /\ Contents' = [k \in DOMAIN Contents \cup {hex} |->
                           IF k = hex THEN value ELSE Contents[k]]
<1>1. \A n : KeyAt(n) = KeyOf(heap[n]) /\ KeyAt(n)' = KeyOf(heap'[n])
  BY KeyAtOf
<1>2. /\ DOMAIN Contents = {KeyOf(heap[n]) : n \in Stored}
      /\ \A n \in Stored : Contents[KeyOf(heap[n])] = heap[n].value
  BY <1>1 DEF ContentsOK
<1>3. /\ DOMAIN Contents' = {KeyOf(heap'[n]) : n \in Stored'}
      /\ \A n \in Stored' : Contents'[KeyOf(heap'[n])] = heap'[n].value
      /\ Contents' = [k \in DOMAIN Contents' |-> Contents'[k]]
  BY <1>1 DEF ContentsOK
<1>4. \A n \in Stored', k \in Stored' : KeyOf(heap'[n]) = KeyOf(heap'[k]) => n = k
  BY <1>1 DEF Once
<1>5. hex \notin DOMAIN Contents
  BY <1>2, <1>4
<1>6. DOMAIN Contents' = DOMAIN Contents \cup {hex}
  BY <1>2, <1>3
<1>7. ASSUME NEW k \in DOMAIN Contents' PROVE Contents'[k] = IF k = hex THEN value ELSE Contents[k]
  BY <1>2, <1>3
<1> QED
  BY <1>3, <1>5, <1>6, <1>7

-----------------------------------------------------------------------------
(* The steps are those of the map *)

Held == Inv /\ Places

\* What put adds.
Adds ==
  /\ hex \notin DOMAIN Contents
  /\ Contents' = [k \in DOMAIN Contents \cup {hex} |-> IF k = hex THEN value ELSE Contents[k]]

\* A put that adds its key is a put of the map.
LEMMA MapAdds == ASSUME Adds, pc = "put", Return("done") PROVE Map!Next
  BY DEF Adds, Return, args, Map!Next, Map!Put, Map!End

\* A new leaf that leaves the others alone.
LEMMA AddsLeaf ==
  ASSUME Held, Held', ContentsOK, ContentsOK', Once',
         brk \in Stored', Stored' = Stored \cup {brk}, brk \notin Stored,
         \A n \in Stored : heap'[n] = heap[n],
         KeyOf(heap'[brk]) = hex, heap'[brk].value = value
  PROVE  Adds
<1>1. \A n \in Stored : \E k \in Stored' \ {brk} :
        KeyOf(heap'[k]) = KeyOf(heap[n]) /\ heap'[k].value = heap[n].value
  OBVIOUS
<1>2. \A k \in Stored' \ {brk} : \E n \in Stored :
        KeyOf(heap'[k]) = KeyOf(heap[n]) /\ heap'[k].value = heap[n].value
  OBVIOUS
<1>3. /\ hex \notin DOMAIN Contents
      /\ Contents' = [k \in DOMAIN Contents \cup {hex} |->
                        IF k = hex THEN value ELSE Contents[k]]
  BY <1>1, <1>2, ContentsMore
<1> QED
  BY <1>3 DEF Adds

\* A split adds the key and keeps that of the leaf that was split.
LEMMA AddsSplit ==
  ASSUME NEW m, NEW old, Parting(m), Divides(m, old), ContentsOK, ContentsOK', Once'
  PROVE  Adds
<1>1. brk \in Nat /\ DOMAIN heap \subseteq 1..(brk - 1) /\ current \in DOMAIN heap
  BY PartingPlaces DEF Parting, Inv, TypeOK
<1>2. /\ brk + 2 \in DOMAIN heap' /\ heap'[brk + 2].type \in {"LEAF", "VALUE"}
      /\ KeyOf(heap'[brk + 2]) = hex /\ heap'[brk + 2].value = value
  BY NewSonKey DEF Divides, Holder
<1>3. brk + 2 \in Stored'
  BY <1>2 DEF Stored
<1>4. Here.type = "LEAF" => /\ old = brk + 3 /\ brk + 3 \in DOMAIN heap' /\ brk + 3 \in Stored'
                            /\ KeyOf(heap'[brk + 3]) = KeyOf(Here)
                            /\ heap'[brk + 3].value = Here.value
  <2> SUFFICES ASSUME Here.type = "LEAF"
               PROVE  /\ old = brk + 3 /\ brk + 3 \in DOMAIN heap' /\ brk + 3 \in Stored'
                      /\ KeyOf(heap'[brk + 3]) = KeyOf(Here)
                      /\ heap'[brk + 3].value = Here.value
    OBVIOUS
  <2>1. old = brk + 3 /\ brk + 3 \in DOMAIN heap'
    BY DEF Divides, Orphans
  <2>2. /\ Holder(heap'[brk + 3]) /\ KeyOf(heap'[brk + 3]) = KeyOf(Here)
        /\ heap'[brk + 3].value = Here.value
    BY OldSonKey DEF Divides
  <2> QED
    BY <2>1, <2>2 DEF Holder, Stored
<1>5. ASSUME NEW n \in Stored
      PROVE  \E k \in Stored' \ {brk + 2} :
               KeyOf(heap'[k]) = KeyOf(heap[n]) /\ heap'[k].value = heap[n].value
  <2>1. CASE n = current
    <3>1. Here.type = "LEAF"
      BY <2>1 DEF Stored, Parting, Here
    <3>2. brk + 3 \in Stored' \ {brk + 2}
      BY <1>1, <1>4, <3>1
    <3> QED
      BY <1>4, <2>1, <3>1, <3>2 DEF Here
  <2>2. CASE n # current
    <3>1. n \in DOMAIN heap \ {current} /\ heap'[n] = heap[n] /\ n \in DOMAIN heap'
      BY <2>2 DEF Divides, Stored
    <3>2. n \in Stored' \ {brk + 2}
      BY <1>1, <3>1 DEF Stored
    <3> QED
      BY <3>1, <3>2
  <2> QED
    BY <2>1, <2>2
<1>6. ASSUME NEW k \in Stored' \ {brk + 2}
      PROVE  \E n \in Stored : KeyOf(heap'[k]) = KeyOf(heap[n]) /\ heap'[k].value = heap[n].value
  <2>1. k \in DOMAIN heap' /\ heap'[k].type \in {"LEAF", "VALUE"}
    BY <1>6 DEF Stored
  <2>2. CASE k \in DOMAIN heap \ {current}
    <3>1. heap'[k].type = heap[k].type
      BY <2>2 DEF Divides, Same
    <3>2. k \in Stored /\ heap'[k] = heap[k]
      BY <2>1, <2>2, <3>1 DEF Divides, Stored
    <3> QED
      BY <3>2
  <2>3. CASE k \in Fork(m)
    <3>1. heap'[k].type \in {"BRANCH", "EXTENSION"}
      BY <2>3 DEF Divides, AsFork, AsTop, Fork
    <3> QED
      BY <2>1, <3>1
  <2>4. CASE k \in {old} \ Orphans
    <3>1. k = brk + 3 /\ AsOld(m, heap'[k])
      BY <2>4 DEF Divides
    <3>2. Here.type = "LEAF" /\ current \in Stored
      BY <1>1, <2>1, <3>1 DEF AsOld, Parting, Stored, Here
    <3> QED
      BY <1>4, <3>1, <3>2 DEF Here
  <2> QED
    BY <1>6, <2>1, <2>2, <2>3, <2>4 DEF Divides
<1>7. /\ hex \notin DOMAIN Contents
      /\ Contents' = [k \in DOMAIN Contents \cup {hex} |->
                        IF k = hex THEN value ELSE Contents[k]]
  BY <1>2, <1>3, <1>5, <1>6, ContentsMore
<1> QED
  BY <1>7 DEF Adds

\* A split keeps the places and adds the key.
LEMMA HeldSplit ==
  ASSUME Held, Splits, pc = "put", current # Null, Here.type \in {"LEAF", "EXTENSION"}
  PROVE  Places' /\ (ContentsOK /\ ContentsOK' /\ Once' => Adds)
<1>1. PICK m, old : Parting(m) /\ Divides(m, old)
  BY SplitNodes DEF Held
<1> QED
  BY <1>1, PlacesSplit, AddsSplit

\* Every step keeps the places.
LEMMA PlacesStep == ASSUME Held, [Next]_vars PROVE Places'
<1>1. CASE UNCHANGED tree
  BY <1>1 DEF tree, Held, Places, RootNode, FullNodes, Apart, Stored
<1>2. CASE PutRoot
  BY <1>2, PlacesRoot DEF Held
<1>3. CASE PutExtensionMatch \/ PutBranchDown
  BY <1>3, PlacesCounted DEF Held
<1>4. CASE PutBranchNew
  BY <1>4, PlacesBranchNew DEF Held
<1>5. CASE PutLeafSplit
  BY <1>5, InvPutLeafSplit, HeldSplit DEF PutLeafSplit, Node, Held, Here
<1>6. CASE PutExtensionSplit
  BY <1>1, <1>6, InvPutExtensionSplit, HeldSplit DEF PutExtensionSplit, Node, Held, Here
<1>7. ASSUME \/ NullKey \/ GetStep \/ PutLeafThrow \/ PutValue \/ UNCHANGED vars
             \/ \E k \in Keys, v \in Values : PutCall(k, v)
             \/ \E k \in Asked : GetCall(k)
      PROVE  UNCHANGED tree
  BY <1>7 DEF NullKey, GetStep, GetNothing, GetExtension, GetBranch, GetLeaf, GetValue, Crash,
              PutLeafThrow, PutValue, PutCall, GetCall, vars
<1> QED
  BY <1>1, <1>2, <1>3, <1>4, <1>5, <1>6, <1>7 DEF Next, PutStep

\* The same tree holds the same.
LEMMA SameContents == ASSUME UNCHANGED tree PROVE Contents' = Contents
  BY DEF tree, Contents, Stored, KeyAt

\* put refuses a key only if it is there.
LEMMA LeafThrowHeld == ASSUME Held, ContentsOK, PutLeafThrow PROVE hex \in DOMAIN Contents
<1> DEFINE q  == Here.path
           lp == Len(q)
           s  == Here.at \o q
<1>1. /\ pc = "put" /\ current # Null /\ Here.type = "LEAF"
      /\ \E m \in Compare(q) : m = -1 \/ start + m >= HexLen
  BY DEF PutLeafThrow, Node, Here
<1>2. /\ current \in DOMAIN heap /\ Here.at = SubSeq(hex, 1, start) /\ start \in 0..HexLen
      /\ hex \in Seq(Nibble) /\ Len(hex) = HexLen /\ HexLen \in Nat /\ Len(Here.at) = start
  BY <1>1, PutCursor DEF Held, Here
<1>3. current \in Stored /\ TypeOK
  BY <1>1, <1>2 DEF Stored, Here, Held, Inv
<1>4. /\ lp \in Nat /\ start + lp >= HexLen
      /\ Here.at \in Seq(Nibble \cup {Junk}) /\ q \in Seq(Nibble \cup {Junk}) /\ Len(s) = start + lp
      /\ \A j \in 1..start : s[j] = Here.at[j]
      /\ \A j \in 1..lp : s[start + j] = q[j]
  <2>1. Full(Here)
    BY <1>3 DEF Held, Places, FullNodes, Here
  <2>2. start + lp >= HexLen
    BY <1>1, <1>2, <2>1 DEF Full
  <2>3. /\ lp \in Nat /\ Len(s) = start + lp
        /\ Here.at \in Seq(Nibble \cup {Junk}) /\ q \in Seq(Nibble \cup {Junk})
        /\ \A j \in 1..start : s[j] = Here.at[j]
        /\ \A j \in 1..lp : s[start + j] = q[j]
    BY <1>1, <1>2, <1>3, PlaceTyped DEF Here
  <2> QED
    BY <2>2, <2>3
<1> HIDE DEF q
<1>5. \A j \in 1..(HexLen - start) : q[j] = hex[start + j]
  <2>1. PICK m \in Compare(q) : m = -1 \/ start + m >= HexLen
    BY <1>1
  <2>2. CASE m = -1
    <3>1. \A j \in 1..lp : start + j > HexLen \/ q[j] = hex[start + j]
      BY <1>4, <2>1, <2>2 DEF Compare
    <3> QED
      BY <1>2, <1>4, <3>1
  <2>3. CASE m # -1
    <3>1. /\ m \in Int /\ m + 1 \in 1..lp
          /\ \A j \in 1..m : start + j > HexLen \/ q[j] = hex[start + j]
      BY <1>4, <2>1, <2>3 DEF Compare
    <3>2. m >= HexLen - start
      BY <1>2, <2>1, <2>3, <3>1
    <3>3. ASSUME NEW j \in 1..(HexLen - start) PROVE j \in 1..m /\ ~ (start + j > HexLen)
      BY <1>2, <3>1, <3>2, <3>3
    <3> QED
      BY <3>1, <3>3
  <2> QED
    BY <2>2, <2>3
<1> HIDE DEF s, lp
<1>6. s \in Seq(Nibble \cup {Junk})
  BY <1>4, ConcatProperties DEF s
<1>7. \A j \in 1..HexLen : s[j] = hex[j]
  <2>1. \A j \in 1..start : Here.at[j] = hex[j]
    <3>1. \A j \in 1..start : hex[j] \in Nibble
      BY <1>2, ElementOfSeq
    <3> QED
      BY <1>2, <3>1, SubSeqProperties
  <2>2. ASSUME NEW j \in 1..HexLen PROVE s[j] = hex[j]
    <3>1. CASE j <= start
      BY <1>2, <1>4, <2>1, <3>1
    <3>2. CASE j > start
      <4>1. /\ j - start \in 1..(HexLen - start) /\ j - start \in 1..lp
            /\ start + (j - start) = j
        BY <1>2, <1>4, <3>2
      <4> QED
        BY <1>4, <1>5, <4>1
    <3> QED
      BY <1>2, <3>1, <3>2
  <2> QED
    BY <2>2
<1>8. SubSeq(s, 1, HexLen) = hex
  <2>1. HexLen <= Len(s) /\ Len(s) \in Nat
    BY <1>2, <1>4
  <2>2. \A j \in 1..HexLen : s[j] \in Nibble
    BY <1>2, <1>7, ElementOfSeq
  <2>3. /\ SubSeq(s, 1, HexLen) \in Seq(Nibble) /\ Len(SubSeq(s, 1, HexLen)) = HexLen
        /\ \A j \in 1..HexLen : SubSeq(s, 1, HexLen)[j] = s[j]
    BY <1>2, <2>2, SubSeqProperties
  <2> QED
    BY <1>2, <1>7, <2>3, SeqEqual
<1>9. KeyAt(current) = hex
  BY <1>1, <1>8 DEF KeyAt, Here, s, q
<1> QED
  BY <1>3, <1>9 DEF ContentsOK

\* A value node has the whole key above it.
LEMMA ValueHeld == ASSUME Held, ContentsOK, PutValue PROVE hex \in DOMAIN Contents
<1>1. pc = "put" /\ current # Null /\ Here.type = "VALUE"
  BY DEF PutValue, Node, Here
<1>2. /\ current \in DOMAIN heap /\ Here.at = SubSeq(hex, 1, start)
      /\ hex \in Seq(Nibble) /\ Len(hex) = HexLen /\ Len(Here.at) = start
  BY <1>1, PutCursor DEF Held, Here
<1>3. current \in Stored
  BY <1>1, <1>2 DEF Stored, Here
<1>4. Len(Here.at) = HexLen
  BY <1>1, <1>3 DEF Held, Places, FullNodes, Full, Here
<1>5. SubSeq(hex, 1, Len(hex)) = hex
  BY <1>2, SubSeqFull
<1>6. KeyAt(current) = hex
  BY <1>1, <1>2, <1>4, <1>5 DEF KeyAt, Here
<1> QED
  BY <1>3, <1>6 DEF ContentsOK

\* put adds its key or finds it, or goes on, or dies.
LEMMA MapPut ==
  ASSUME Held, Held', ContentsOK, ContentsOK', Once', PutStep
  PROVE  Map!Next \/ UNCHANGED Map!vars
<1>1. CASE PutRoot
  <2>1. Adds
    BY <1>1, PlacesRoot, AddsLeaf DEF Held
  <2> QED
    BY <1>1, <2>1, MapAdds DEF PutRoot
<1>2. CASE PutBranchNew
  <2>1. Adds
    BY <1>2, PlacesBranchNew, AddsLeaf DEF Held
  <2> QED
    BY <1>2, <2>1, MapAdds DEF PutBranchNew, Node
<1>3. CASE PutLeafSplit
  <2>1. Splits /\ pc = "put" /\ current # Null /\ Here.type = "LEAF"
    BY <1>3, InvPutLeafSplit DEF PutLeafSplit, Node, Held, Here
  <2>2. Adds
    BY <2>1, HeldSplit
  <2>3. Return("done")
    BY <1>3 DEF PutLeafSplit, Splice
  <2> QED
    BY <2>1, <2>2, <2>3, MapAdds
<1>4. CASE PutExtensionSplit
  <2>1. pc = "put" /\ current # Null /\ Here.type = "EXTENSION"
    BY <1>4 DEF PutExtensionSplit, Node, Here
  <2>2. CASE Crash
    <3>1. Contents' = Contents
      BY <2>2, SameContents DEF Crash
    <3> QED
      BY <2>1, <2>2, <3>1 DEF Crash, args, Map!Next, Map!Crash
  <2>3. CASE ~ Crash
    <3>1. Return("done")
      BY <1>4, <2>3 DEF PutExtensionSplit, Splice
    <3>2. Splits
      <4>1. brk' # brk
        <5>1. brk' = brk + 4 /\ brk \in Nat
          BY <1>4, <2>3 DEF PutExtensionSplit, Splice, Held, Inv, TypeOK
        <5> QED
          BY <5>1
      <4>2. Splits \/ UNCHANGED tree
        BY <1>4, InvPutExtensionSplit DEF Held
      <4> QED
        BY <4>1, <4>2 DEF tree
    <3>3. Adds
      BY <2>1, <3>2, HeldSplit
    <3> QED
      BY <2>1, <3>1, <3>3, MapAdds
  <2> QED
    BY <2>2, <2>3
<1>5. CASE PutExtensionMatch \/ PutBranchDown
  <2>1. Contents' = Contents
    <3>1. Stored' = Stored /\ \A n \in Stored : heap'[n] = heap[n]
      BY <1>5, PlacesCounted DEF Held
    <3>2. /\ \A n \in Stored : \E k \in Stored' :
               KeyOf(heap'[k]) = KeyOf(heap[n]) /\ heap'[k].value = heap[n].value
          /\ \A k \in Stored' : \E n \in Stored :
               KeyOf(heap'[k]) = KeyOf(heap[n]) /\ heap'[k].value = heap[n].value
      BY <3>1
    <3> QED
      BY <3>2, ContentsSame
  <2> QED
    BY <1>5, <2>1 DEF PutExtensionMatch, PutBranchDown, args, Map!vars
<1>6. CASE PutLeafThrow \/ PutValue
  <2>1. hex \in DOMAIN Contents
    BY <1>6, LeafThrowHeld, ValueHeld
  <2>2. Contents' = Contents
    BY <1>6, SameContents DEF PutLeafThrow, PutValue
  <2>3. pc = "put" /\ (Return("done") \/ Return("threw"))
    BY <1>6 DEF PutLeafThrow, PutValue, Node
  <2> QED
    BY <2>1, <2>2, <2>3 DEF Return, args, Map!Next, Map!PutAgain, Map!End
<1> QED
  BY <1>1, <1>2, <1>3, <1>4, <1>5, <1>6 DEF PutStep

\* get changes nothing and answers the default or a value that is held.
LEMMA MapGet ==
  ASSUME Held, ContentsOK, GetStep
  PROVE  Map!Next \/ UNCHANGED Map!vars
<1>1. pc = "get" /\ UNCHANGED tree
  BY DEF GetStep, GetNothing, GetExtension, GetBranch, GetLeaf, GetValue, Crash, Node
<1>2. Contents' = Contents
  BY <1>1, SameContents
<1>3. ASSUME NEW r \in {Default} \cup {Contents[k] : k \in DOMAIN Contents}, Return(r)
      PROVE  Map!Next
  BY <1>1, <1>2, <1>3 DEF Return, args, Map!Next, Map!Get, Map!End
<1>4. ASSUME Crash PROVE Map!Next
  BY <1>1, <1>2, <1>4 DEF Crash, args, Map!Next, Map!Crash
<1>5. ASSUME UNCHANGED <<pc, args, ret>> PROVE UNCHANGED Map!vars
  BY <1>2, <1>5 DEF args, Map!vars
<1>6. ASSUME current # Null, heap[current].type \in {"LEAF", "VALUE"}
      PROVE  heap[current].value \in {Contents[k] : k \in DOMAIN Contents}
  <2>1. current \in Stored
    BY <1>1, <1>6 DEF Held, Inv, CallOK, GetCursor, Stored
  <2> QED
    BY <2>1 DEF ContentsOK
<1>7. CASE GetNothing
  BY <1>3, <1>7 DEF GetNothing
<1>8. CASE GetExtension
  BY <1>3, <1>5, <1>8 DEF GetExtension
<1>9. CASE GetBranch
  BY <1>3, <1>4, <1>5, <1>9 DEF GetBranch
<1>10. CASE GetLeaf
  BY <1>3, <1>6, <1>10 DEF GetLeaf, Node
<1>11. CASE GetValue
  BY <1>3, <1>6, <1>11 DEF GetValue, Node
<1> QED
  BY <1>7, <1>8, <1>9, <1>10, <1>11 DEF GetStep

\* Every step is one of the map, or one that the map does not see.
LEMMA MapStep ==
  ASSUME Held, Held', ContentsOK, ContentsOK', Once', [Next]_vars
  PROVE  [Map!Next]_(Map!vars)
<1>1. CASE NullKey
  <2>1. Contents' = Contents
    BY <1>1, SameContents DEF NullKey
  <2> QED
    BY <1>1, <2>1 DEF NullKey, args, Map!Next, Map!NullKey
<1>2. ASSUME NEW k \in Keys, NEW v \in Values, PutCall(k, v) PROVE Map!Next
  <2>1. Contents' = Contents
    BY <1>2, SameContents DEF PutCall
  <2> QED
    BY <1>2, <2>1 DEF PutCall, Begin, Map!Next, Map!Call
<1>3. ASSUME NEW k \in Asked, GetCall(k) PROVE Map!Next
  <2>1. Contents' = Contents
    BY <1>3, SameContents DEF GetCall
  <2> QED
    BY <1>3, <2>1 DEF GetCall, Begin, Map!Next, Map!Call
<1>4. CASE UNCHANGED vars
  <2>1. Contents' = Contents
    BY <1>4, SameContents DEF vars
  <2> QED
    BY <1>4, <2>1 DEF vars, args, Map!vars
<1> QED
  BY <1>1, <1>2, <1>3, <1>4, MapPut, MapGet DEF Next

\* The nodes have their places throughout.
LEMMA TrieHeld == Spec => []Held
<1>1. Init => Places
  BY DEF Init, Places, RootNode, FullNodes, Apart, Stored
<1>2. Inv /\ Places /\ [Next]_vars => Places'
  BY PlacesStep DEF Held
<1> QED
  BY <1>1, <1>2, TrieInvariant, PTL DEF Spec, Held

\* No two nodes ever hold the same key: put of a key that is there (trie.h:233
\* and 293) makes no second node for it, and no split does.
THEOREM TrieKeysOnce == Spec => []Once
<1>1. Held => Once
  BY OnceHolds DEF Held
<1> QED
  BY <1>1, TrieHeld, PTL

\* The trie implements the write-once map: whatever has been put in whatever
\* order, put adds its key and value if the key is new, changes nothing if it is
\* there (also when it throws, trie.h:233-283), and never disturbs another key;
\* get changes nothing and answers a stored value or the default.
THEOREM TrieImplementsOnceMap == Spec => ImplementsOnceMap
<1>1. Init => Map!Init
  <2> SUFFICES ASSUME Init PROVE Map!Init
    OBVIOUS
  <2>1. Stored = {}
    BY DEF Init, Stored
  <2>2. Contents = [k \in {} |-> Default]
    BY <2>1 DEF Contents
  <2> QED
    BY <2>2 DEF Init, Map!Init
<1>2. Held => ContentsOK /\ Once
  BY ContentsAre, OnceHolds DEF Held
<1>3. Held /\ Held' /\ ContentsOK /\ ContentsOK' /\ Once' /\ [Next]_vars => [Map!Next]_(Map!vars)
  BY MapStep
<1> QED
  BY <1>1, <1>2, <1>3, TrieHeld, PTL DEF Spec, ImplementsOnceMap, Map!Spec
=============================================================================

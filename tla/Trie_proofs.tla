---------------------------- MODULE Trie_proofs -----------------------------
(***************************************************************************)
(* Proofs that the nodes of the trie always form a tree, that no branch    *)
(* has fewer than two subtrees, and that put's cursor always names the     *)
(* pointer it will overwrite, for keys of every length and for every set   *)
(* of keys and values.                                                     *)
(***************************************************************************)
EXTENDS Trie, SequenceTheorems, FiniteSetTheorems, TLAPS

\* The bytes that an overlong leaf copied from behind key_hex lie behind its
\* key: what splits and compares within the key are nibbles.
LeafNibbles ==
  \A n \in DOMAIN heap : heap[n].type = "LEAF" =>
    \A i \in 1..Len(heap[n].path) : Len(heap[n].at) + i <= HexLen => heap[n].path[i] \in Nibble

\* A branch is left by a nibble of the key.
BranchDepth == \A n \in DOMAIN heap : heap[n].type = "BRANCH" => Len(heap[n].at) < HexLen

\* get counts the nibbles down to the node it is at, although it follows others
\* than those of its key.
GetCursor ==
  pc = "get" /\ current # Null => current \in DOMAIN heap /\ start = Len(heap[current].at)

PutArgs == pc = "put" => value \in Values

\* The nodes, and where the calls are in them.
NodesOK == TreeShape /\ LeafNibbles /\ BranchDepth
CallOK  == CursorLinked /\ GetCursor /\ PutArgs

\* TreeShape is not inductive without the cursor, which says what replace
\* overwrites, nor without the lengths, which say what the split cases compare.
Inv == TypeOK /\ NodesOK /\ CallOK

-----------------------------------------------------------------------------
(* Replacing one pointer of a tree *)

Edge(h, n, s) == Target(h[n], s) # Null

\* Slot 16 of an extension is its next pointer.
LEMMA ExtensionTarget ==
  ASSUME NEW node, node.type = "EXTENSION"
  PROVE  Target(node, 16) = node.next /\ 16 \in Slot
BY DEF Target, Slot, Nibble

\* A step keeps the nodes Kept as they were, except that slot i of node f (or
\* the root, for f = Null) now leads to the node top.  The nodes Fresh hang
\* below it as a tree and may adopt nodes whose old pointers are gone; what the
\* step drops is referred to by nothing any more.
Grafted(Kept, Fresh, top, f, i, Adopted) ==
  /\ DOMAIN heap' = Kept \cup Fresh /\ Kept \subseteq DOMAIN heap
  /\ Fresh \cap DOMAIN heap = {}
  /\ Null \notin DOMAIN heap \cup Fresh
  /\ top \in Fresh /\ Adopted \subseteq Kept /\ f \in Kept \cup {Null} /\ i \in Slot
  /\ \A n \in Kept : /\ heap'[n].at = heap[n].at /\ heap'[n].type = heap[n].type
                     /\ \A s \in Slot : Label(heap'[n], s) = Label(heap[n], s)
  /\ \A n \in Kept, s \in Slot :
       Target(heap'[n], s) = IF n = f /\ s = i THEN top ELSE Target(heap[n], s)
  /\ f # Null => /\ heap'[top].at = heap[f].at \o Label(heap[f], i)
                 /\ heap[f].type # "EXTENSION"
  /\ root' = IF f = Null THEN top ELSE root
  /\ f = Null => heap'[top].at = <<>>
  /\ f # Null => root \in Kept \cup {Null}
  /\ root' \notin Adopted
  /\ \A n \in Kept, s \in Slot : Edge(heap', n, s) =>
       Target(heap'[n], s) \in (Kept \ (Adopted \cup {root'})) \cup {top}
  /\ \A n \in Fresh, s \in Slot : Edge(heap', n, s) =>
       /\ Target(heap'[n], s) \in (Fresh \ {top}) \cup Adopted
       /\ heap'[Target(heap'[n], s)].at = heap'[n].at \o Label(heap'[n], s)
  /\ \A n \in Fresh, s \in Slot : Edge(heap', n, s) =>
       \A m \in Fresh, t \in Slot :
         Target(heap'[m], t) = Target(heap'[n], s) => m = n /\ t = s
  /\ \A n \in Fresh : heap'[n].type = "EXTENSION" =>
       heap'[n].next \in DOMAIN heap' /\ heap'[heap'[n].next].type = "BRANCH"

\* Such a step makes a tree of a tree.
LEMMA Surgery ==
  ASSUME NEW Kept, NEW Fresh, NEW top, NEW f, NEW i, NEW Adopted,
         TreeShape, Grafted(Kept, Fresh, top, f, i, Adopted)
  PROVE  TreeShape'
<1> USE DEF Edge, Grafted
<1>1. RootOK /\ PointersOK /\ NoSharing /\ ExtensionsOK
  BY DEF TreeShape
<1>2. /\ RootOK'
      /\ f = Null => root' = top
      /\ f # Null => root' \notin Fresh
  BY <1>1 DEF RootOK
<1>3. ASSUME NEW n \in DOMAIN heap', NEW s \in Slot, Target(heap'[n], s) # Null
      PROVE  /\ Target(heap'[n], s) \in DOMAIN heap' \ {root'}
             /\ heap'[Target(heap'[n], s)].at = heap'[n].at \o Label(heap'[n], s)
  <2>1. CASE n \in Fresh
    <3>1. /\ Target(heap'[n], s) \in (Fresh \ {top}) \cup Adopted
          /\ heap'[Target(heap'[n], s)].at = heap'[n].at \o Label(heap'[n], s)
      BY <1>3, <2>1
    <3> QED
      BY <1>2, <3>1
  <2>2. CASE n \in Kept /\ n = f /\ s = i
    <3>1. Target(heap'[n], s) = top /\ n # Null
      BY <2>2
    <3>2. heap'[n].at = heap[n].at /\ Label(heap'[n], s) = Label(heap[n], s)
      BY <2>2
    <3> QED
      BY <1>2, <2>2, <3>1, <3>2
  <2>3. CASE n \in Kept /\ ~(n = f /\ s = i)
    <3>1. Target(heap'[n], s) = Target(heap[n], s)
      BY <2>3
    <3>2. /\ Target(heap[n], s) \in DOMAIN heap
          /\ heap[Target(heap[n], s)].at = heap[n].at \o Label(heap[n], s)
      BY <1>1, <1>3, <2>3, <3>1 DEF PointersOK
    <3>3. Target(heap[n], s) \in (Kept \ (Adopted \cup {root'})) \cup {top}
      BY <1>3, <2>3, <3>1
    <3>4. Target(heap[n], s) \in Kept \ {root'}
      BY <3>2, <3>3
    <3>5. heap'[n].at = heap[n].at /\ Label(heap'[n], s) = Label(heap[n], s)
      BY <2>3
    <3>6. heap'[Target(heap[n], s)].at = heap[Target(heap[n], s)].at
      BY <3>4
    <3> QED
      BY <3>1, <3>2, <3>4, <3>5, <3>6
  <2> QED
    BY <1>3, <2>1, <2>2, <2>3
<1>4. ASSUME NEW n \in DOMAIN heap', NEW s \in Slot, Target(heap'[n], s) # Null,
             NEW m \in DOMAIN heap', NEW t \in Slot, Target(heap'[m], t) = Target(heap'[n], s)
      PROVE  m = n /\ t = s
  <2>1. CASE n \in Fresh /\ m \in Fresh
    BY <1>4, <2>1
  <2>2. ASSUME NEW k \in Kept, NEW r \in Slot, Target(heap'[k], r) # Null
        PROVE  /\ Target(heap'[k], r) \notin (Fresh \ {top}) \cup Adopted
               /\ Target(heap'[k], r) = top => k = f /\ r = i
    <3>1. Target(heap'[k], r) \in (Kept \ (Adopted \cup {root'})) \cup {top}
      BY <2>2
    <3>2. CASE k = f /\ r = i
      BY <3>1, <3>2
    <3>3. CASE ~(k = f /\ r = i)
      <4>1. Target(heap'[k], r) = Target(heap[k], r)
        BY <3>3
      <4>2. Target(heap[k], r) \in DOMAIN heap
        BY <1>1, <2>2, <4>1 DEF PointersOK
      <4> QED
        BY <3>1, <4>1, <4>2
    <3> QED
      BY <3>2, <3>3
  <2>3. CASE n \in Kept /\ m \in Kept
    <3>1. CASE n = f /\ s = i
      BY <1>4, <2>2, <2>3, <3>1
    <3>2. CASE m = f /\ t = i
      BY <1>4, <2>2, <2>3, <3>2
    <3>3. CASE ~(n = f /\ s = i) /\ ~(m = f /\ t = i)
      <4>1. /\ Target(heap[n], s) # Null /\ Target(heap[m], t) = Target(heap[n], s)
            /\ n \in DOMAIN heap /\ m \in DOMAIN heap
        BY <1>4, <2>3, <3>3
      <4> QED
        BY <1>1, <4>1 DEF NoSharing
    <3> QED
      BY <3>1, <3>2, <3>3
  <2>4. ASSUME NEW k \in Fresh, NEW r \in Slot, Target(heap'[k], r) # Null
        PROVE  Target(heap'[k], r) \in (Fresh \ {top}) \cup Adopted
    BY <2>4
  <2>5. CASE n \in Fresh /\ m \in Kept
    BY <1>4, <2>2, <2>4, <2>5
  <2>6. CASE n \in Kept /\ m \in Fresh
    BY <1>4, <2>2, <2>4, <2>6
  <2> QED
    BY <1>4, <2>1, <2>3, <2>5, <2>6
<1>5. ASSUME NEW n \in DOMAIN heap', heap'[n].type = "EXTENSION"
      PROVE  heap'[n].next \in DOMAIN heap' /\ heap'[heap'[n].next].type = "BRANCH"
  <2>1. CASE n \in Fresh
    BY <1>5, <2>1
  <2>2. CASE n \in Kept
    <3>1. n # f /\ heap[n].type = "EXTENSION" /\ n \in DOMAIN heap
      BY <1>5, <2>2
    <3>2. /\ heap'[n].next = Target(heap'[n], 16)
          /\ heap[n].next = Target(heap[n], 16)
          /\ 16 \in Slot
      BY <1>5, <3>1, ExtensionTarget
    <3>3. Target(heap'[n], 16) = Target(heap[n], 16)
      BY <2>2, <3>1, <3>2
    <3>4. heap[n].next \in DOMAIN heap /\ heap[heap[n].next].type = "BRANCH"
      BY <1>1, <3>1 DEF ExtensionsOK
    <3>5. heap[n].next # Null => heap[n].next \in Kept
      <4> SUFFICES ASSUME heap[n].next # Null PROVE heap[n].next \in Kept
        OBVIOUS
      <4>1. Target(heap'[n], 16) \in (Kept \ (Adopted \cup {root'})) \cup {top}
        BY <2>2, <3>2, <3>3
      <4> QED
        BY <3>2, <3>3, <3>4, <4>1
    <3> QED
      BY <2>2, <3>2, <3>3, <3>4, <3>5
  <2> QED
    BY <1>5, <2>1, <2>2
<1> QED
  BY <1>2, <1>3, <1>4, <1>5 DEF TreeShape, PointersOK, NoSharing, ExtensionsOK

-----------------------------------------------------------------------------
(* Types *)

\* The type of a node says which fields it has.
LEMMA NodeTypes ==
  ASSUME TypeOK, NEW n \in DOMAIN heap
  PROVE  /\ heap[n].type = "LEAF" => heap[n] \in LeafNodes
         /\ heap[n].type = "VALUE" => heap[n] \in ValueNodes
         /\ heap[n].type = "BRANCH" => heap[n] \in BranchNodes
         /\ heap[n].type = "EXTENSION" => heap[n] \in ExtensionNodes
         /\ heap[n].type \in {"LEAF", "VALUE", "BRANCH", "EXTENSION"}
         /\ heap[n].at \in Seq(Nibble)
         /\ n \in Nat /\ n # Null /\ n < brk
<1>1. heap[n] \in LeafNodes \cup ValueNodes \cup BranchNodes \cup ExtensionNodes
  BY DEF TypeOK, Nodes
<1>2. n \in Nat /\ n # Null /\ n < brk
  BY DEF TypeOK, Null
<1> QED
  BY <1>1, <1>2 DEF LeafNodes, ValueNodes, BranchNodes, ExtensionNodes

\* The fields of a node have their types.
LEMMA NodeFields ==
  ASSUME TypeOK, NEW n \in DOMAIN heap
  PROVE  /\ heap[n].type = "LEAF" =>
              heap[n].path \in Seq(Nibble \cup {Junk}) /\ heap[n].value \in Values
         /\ heap[n].type = "VALUE" => heap[n].value \in Values
         /\ heap[n].type = "BRANCH" => heap[n].children \in [Nibble -> Nat] /\ heap[n].leaves \in Count
         /\ heap[n].type = "EXTENSION" =>
              heap[n].path \in Seq(Nibble) /\ heap[n].next \in Nat /\ heap[n].leaves \in Count
<1>1. ASSUME heap[n].type = "LEAF"
      PROVE  heap[n].path \in Seq(Nibble \cup {Junk}) /\ heap[n].value \in Values
  <2>1. heap[n] \in LeafNodes
    BY <1>1, NodeTypes
  <2> QED
    BY <2>1 DEF LeafNodes
<1>2. ASSUME heap[n].type = "VALUE" PROVE heap[n].value \in Values
  <2>1. heap[n] \in ValueNodes
    BY <1>2, NodeTypes
  <2> QED
    BY <2>1 DEF ValueNodes
<1>3. ASSUME heap[n].type = "BRANCH"
      PROVE  heap[n].children \in [Nibble -> Nat] /\ heap[n].leaves \in Count
  <2>1. heap[n] \in BranchNodes
    BY <1>3, NodeTypes
  <2> QED
    BY <2>1 DEF BranchNodes
<1>4. ASSUME heap[n].type = "EXTENSION"
      PROVE  heap[n].path \in Seq(Nibble) /\ heap[n].next \in Nat /\ heap[n].leaves \in Count
  <2>1. heap[n] \in ExtensionNodes
    BY <1>4, NodeTypes
  <2> QED
    BY <2>1 DEF ExtensionNodes
<1> QED
  BY <1>1, <1>2, <1>3, <1>4

\* hex_encode gives HexLen nibbles.
LEMMA HexTyped ==
  ASSUME NEW k \in [1..KeyLen -> 0..255]
  PROVE  Hex(k) \in Seq(Nibble) /\ Len(Hex(k)) = HexLen
<1> USE TrieAssumption
<1>1. \A x \in 0..255 : x \div 16 \in Nibble /\ x % 16 \in Nibble
  BY DEF Nibble
<1>2. \A i \in 1..HexLen : i % 2 = 1 => (i + 1) \div 2 \in 1..KeyLen
  BY DEF HexLen
<1>3. \A i \in 1..HexLen : i % 2 # 1 => i \div 2 \in 1..KeyLen
  BY DEF HexLen
<1>4. \A i \in 1..HexLen :
        (IF i % 2 = 1 THEN k[(i + 1) \div 2] \div 16 ELSE k[i \div 2] % 16) \in Nibble
  BY <1>1, <1>2, <1>3
<1>5. Hex(k) \in [1..HexLen -> Nibble] /\ HexLen \in Nat
  BY <1>4 DEF Hex, HexLen
<1> QED
  BY <1>5

\* The counters stay within 16 bits.
LEMMA WrapTyped == ASSUME NEW n \in Int PROVE Wrap(n) \in Count
BY DEF Wrap, Count

\* They are numbers.
LEMMA CountIsNat == \A c \in Count : c \in Nat /\ c \in Int
BY DEF Count

\* A counter that counts one more is a counter.
LEMMA CountUp == ASSUME NEW n \in Count PROVE Wrap(n + 1) \in Count
<1>1. n + 1 \in Int
  BY CountIsNat
<1> QED
  BY <1>1, WrapTyped

\* leaves_count of a node is a number.
LEMMA LeavesCountTyped ==
  ASSUME TypeOK, NEW n \in DOMAIN heap
  PROVE  LeavesCount(heap[n]) \in Nat
<1>1. CASE heap[n].type \in {"LEAF", "VALUE"}
  BY <1>1 DEF LeavesCount
<1>2. CASE heap[n].type \in {"BRANCH", "EXTENSION"}
  <2>1. heap[n].leaves \in Count
    BY <1>2, NodeFields
  <2>2. LeavesCount(heap[n]) = heap[n].leaves
    BY <1>2 DEF LeavesCount
  <2>3. \A c \in Count : c \in Nat
    BY CountIsNat
  <2> QED
    BY <2>1, <2>2, <2>3
<1> QED
  BY <1>1, <1>2, NodeTypes

-----------------------------------------------------------------------------
(* Steps that leave the nodes alone *)

\* What is said of the nodes depends on nothing else.
LEMMA SameNodes == ASSUME NodesOK, UNCHANGED tree PROVE NodesOK'
BY DEF NodesOK, tree, TreeShape, RootOK, PointersOK, NoSharing, ExtensionsOK,
       LeafNibbles, BranchDepth

\* A call that has ended has no cursor.
LEMMA Idle == ASSUME pc' = "idle" PROVE CallOK'
BY DEF CallOK, CursorLinked, GetCursor, PutArgs

\* A null key is refused.
LEMMA InvNullKey == ASSUME Inv, NullKey PROVE Inv'
<1>1. NodesOK'
  BY SameNodes DEF Inv, NullKey
<1>2. CallOK'
  BY Idle DEF NullKey
<1>3. TypeOK'
  BY DEF Inv, NullKey, TypeOK, tree, args, cursor
<1> QED
  BY <1>1, <1>2, <1>3 DEF Inv

\* A call begins at the root.
LEMMA InvBegin ==
  ASSUME Inv, NEW op \in {"put", "get"}, NEW k \in [1..KeyLen -> 0..255],
         Begin(op, k), UNCHANGED tree,
         value' \in Values \cup {Default}, op = "put" => value' \in Values,
         puts' \in 0..MaxPuts
  PROVE  Inv'
<1>1. NodesOK'
  BY SameNodes DEF Inv
<1>2. hex' \in Seq(Nibble) /\ Len(hex') = HexLen
  BY HexTyped DEF Begin
<1>3. /\ pc' = op /\ start' = 0 /\ current' = root /\ father' = Null /\ elIndex' = 0
      /\ ret' = "none" /\ heap' = heap /\ root' = root /\ brk' = brk
  BY DEF Begin, tree
<1>4. TypeOK'
  BY <1>2, <1>3 DEF Inv, TypeOK, Nibble, Null
<1>5. ASSUME root # Null
      PROVE  /\ root \in DOMAIN heap /\ heap[root].at = <<>>
             /\ heap[root].type = "BRANCH" => 0 < HexLen
  BY <1>5, TrieAssumption DEF Inv, NodesOK, TreeShape, RootOK, HexLen
<1>6. SubSeq(hex', 1, 0) = <<>> /\ 0 <= HexLen /\ Len(<<>>) = 0
  BY SubSeqEmpty, TrieAssumption DEF HexLen
<1>7. CallOK'
  BY <1>3, <1>5, <1>6 DEF CallOK, CursorLinked, GetCursor, PutArgs
<1> QED
  BY <1>1, <1>4, <1>7 DEF Inv

\* A call begins with a key and a value that callers may pass.
LEMMA InvCalls ==
  ASSUME Inv, \/ \E k \in Keys, v \in Values : PutCall(k, v)
              \/ \E k \in Asked : GetCall(k)
  PROVE  Inv'
<1>1. ASSUME NEW k \in Keys, NEW v \in Values, PutCall(k, v) PROVE Inv'
  <2>1. k \in [1..KeyLen -> 0..255]
    BY TrieAssumption
  <2>2. puts' \in 0..MaxPuts
    <3>1. puts \in 0..MaxPuts
      BY DEF Inv, TypeOK
    <3>2. puts < MaxPuts /\ puts' = puts + 1
      BY <1>1 DEF PutCall
    <3> QED
      BY <3>1, <3>2, TrieAssumption
  <2> QED
    BY <1>1, <2>1, <2>2, InvBegin DEF PutCall
<1>2. ASSUME NEW k \in Asked, GetCall(k) PROVE Inv'
  <2>1. k \in [1..KeyLen -> 0..255]
    BY TrieAssumption
  <2>2. puts' \in 0..MaxPuts /\ value' \in Values \cup {Default}
    BY <1>2 DEF GetCall, Inv, TypeOK
  <2> QED
    BY <1>2, <2>1, <2>2, InvBegin DEF GetCall
<1> QED
  BY <1>1, <1>2

\* A call that ends without changing the nodes.
LEMMA InvReturn ==
  ASSUME Inv, NEW r \in Values \cup {Default, "done", "threw"}, Return(r), UNCHANGED tree
  PROVE  Inv'
<1>1. NodesOK' /\ CallOK'
  BY SameNodes, Idle DEF Inv, Return
<1>2. TypeOK'
  BY DEF Inv, Return, TypeOK, tree, args, Nibble, Null
<1> QED
  BY <1>1, <1>2 DEF Inv

\* The process dies.
LEMMA InvCrash == ASSUME Inv, Crash PROVE Inv'
<1>1. NodesOK'
  BY SameNodes DEF Inv, Crash
<1>2. TypeOK' /\ CallOK'
  BY DEF Inv, Crash, TypeOK, CallOK, CursorLinked, GetCursor, PutArgs, tree, args, cursor
<1> QED
  BY <1>1, <1>2 DEF Inv

-----------------------------------------------------------------------------
(* One pointer down *)

\* A child of a branch is one nibble below it.
LEMMA BranchChild ==
  ASSUME TypeOK, TreeShape, NEW n \in DOMAIN heap, heap[n].type = "BRANCH",
         NEW j \in Nibble
  PROVE  LET c == heap[n].children[j]
         IN  /\ j \in Slot /\ Target(heap[n], j) = c /\ Label(heap[n], j) = <<j>>
             /\ c # Null => /\ c \in DOMAIN heap /\ c # root
                            /\ heap[c].at = heap[n].at \o <<j>>
                            /\ Len(heap[c].at) = Len(heap[n].at) + 1
<1> DEFINE c == heap[n].children[j]
<1>1. j \in Slot /\ Target(heap[n], j) = c /\ Label(heap[n], j) = <<j>>
  BY DEF Slot, Nibble, Target, Label
<1>2. ASSUME c # Null
      PROVE  /\ c \in DOMAIN heap /\ c # root /\ heap[c].at = heap[n].at \o <<j>>
             /\ Len(heap[c].at) = Len(heap[n].at) + 1
  <2>1. c \in DOMAIN heap \ {root} /\ heap[c].at = heap[n].at \o <<j>>
    BY <1>1, <1>2 DEF TreeShape, PointersOK
  <2>2. heap[n].at \in Seq(Nibble) /\ <<j>> \in Seq(Nibble) /\ Len(<<j>>) = 1
    BY NodeTypes
  <2>3. Len(heap[n].at \o <<j>>) = Len(heap[n].at) + 1
    BY <2>2, ConcatProperties
  <2> QED
    BY <2>1, <2>3
<1> QED
  BY <1>1, <1>2

\* The branch of an extension is its path below it.
LEMMA ExtensionNext ==
  ASSUME TypeOK, TreeShape, NEW n \in DOMAIN heap, heap[n].type = "EXTENSION"
  PROVE  LET c == heap[n].next
         IN  /\ 16 \in Slot /\ Target(heap[n], 16) = c /\ Label(heap[n], 16) = heap[n].path
             /\ c \in DOMAIN heap /\ c # root /\ c # Null /\ heap[c].type = "BRANCH"
             /\ heap[c].at = heap[n].at \o heap[n].path
             /\ Len(heap[c].at) = Len(heap[n].at) + Len(heap[n].path)
<1> DEFINE c == heap[n].next
<1>1. 16 \in Slot /\ Target(heap[n], 16) = c /\ Label(heap[n], 16) = heap[n].path
  BY ExtensionTarget DEF Label
<1>2. c \in DOMAIN heap /\ heap[c].type = "BRANCH"
  BY DEF TreeShape, ExtensionsOK
<1>3. c # Null
  BY <1>2, NodeTypes
<1>4. c # root /\ heap[c].at = heap[n].at \o heap[n].path
  BY <1>1, <1>3 DEF TreeShape, PointersOK
<1>5. heap[n].at \in Seq(Nibble) /\ heap[n].path \in Seq(Nibble)
  BY NodeTypes, NodeFields
<1>6. Len(heap[n].at \o heap[n].path) = Len(heap[n].at) + Len(heap[n].path)
  BY <1>5, ConcatProperties
<1> QED
  BY <1>1, <1>2, <1>3, <1>4, <1>6

-----------------------------------------------------------------------------
(* get *)

\* get goes on with the node c, whatever led it there.
LEMMA InvFollow ==
  ASSUME Inv, pc = "get", NEW c, NEW d \in Nat,
         c # Null => c \in DOMAIN heap /\ d = Len(heap[c].at),
         current' = c, start' = d,
         UNCHANGED <<tree, pc, args, father, elIndex, ret, puts>>
  PROVE  Inv'
<1>1. NodesOK'
  BY SameNodes DEF Inv
<1>2. c \in Nat
  BY NodeTypes DEF Inv, Null
<1>3. TypeOK'
  BY <1>2 DEF Inv, TypeOK, tree, args
<1>4. CallOK'
  BY DEF CallOK, CursorLinked, GetCursor, PutArgs, tree
<1> QED
  BY <1>1, <1>3, <1>4 DEF Inv

\* get at an extension: on to its branch, or no such key.
LEMMA InvGetExtension == ASSUME Inv, GetExtension PROVE Inv'
<1> DEFINE ex == heap[current]
<1>1. /\ current \in DOMAIN heap /\ ex.type = "EXTENSION" /\ pc = "get"
      /\ start = Len(ex.at) /\ UNCHANGED tree
  BY DEF Inv, CallOK, GetCursor, GetExtension, Node
<1>2. PICK m \in Compare(ex.path) :
        IF m # -1 THEN Return(Default)
        ELSE /\ start' = start + Len(ex.path)
             /\ current' = ex.next
             /\ UNCHANGED <<pc, args, father, elIndex, ret, puts>>
  BY DEF GetExtension
<1>3. CASE m # -1
  BY <1>1, <1>2, <1>3, InvReturn
<1>4. CASE m = -1
  <2>1. /\ ex.next \in DOMAIN heap
        /\ Len(heap[ex.next].at) = start + Len(ex.path)
    BY <1>1, ExtensionNext DEF Inv, NodesOK
  <2>2. heap[ex.next].at \in Seq(Nibble)
    BY <2>1, NodeTypes DEF Inv
  <2>3. start + Len(ex.path) \in Nat
    BY <2>1, <2>2, LenProperties
  <2> QED
    BY <1>1, <1>2, <1>4, <2>1, <2>3, InvFollow
<1> QED
  BY <1>3, <1>4

\* get at a branch goes on with one of its children.
LEMMA InvGetBranch == ASSUME Inv, GetBranch PROVE Inv'
<1> DEFINE br == heap[current]
           Follow(c) == /\ current' = c
                        /\ start' = start + 1
                        /\ UNCHANGED <<tree, pc, args, father, elIndex, ret, puts>>
<1>1. /\ current \in DOMAIN heap /\ br.type = "BRANCH" /\ pc = "get"
      /\ start = Len(br.at) /\ start \in Nat
  BY DEF Inv, CallOK, GetCursor, GetBranch, Node, TypeOK
<1>2. ASSUME NEW j \in Nibble, Follow(br.children[j]) PROVE Inv'
  <2>1. br.children[j] # Null =>
          br.children[j] \in DOMAIN heap /\ start + 1 = Len(heap[br.children[j]].at)
    BY <1>1, BranchChild DEF Inv, NodesOK
  <2> QED
    BY <1>1, <1>2, <2>1, InvFollow
<1>3. CASE Return(Default) /\ UNCHANGED tree
  BY <1>3, InvReturn
<1>4. CASE Crash
  BY <1>4, InvCrash
<1>5. ASSUME start + 2 <= HexLen PROVE hex[start + 2] \in Nibble
  <2>1. hex \in Seq(Nibble) /\ Len(hex) = HexLen
    BY <1>1 DEF Inv, TypeOK
  <2> QED
    BY <1>1, <1>5, <2>1, ElementOfSeq, TrieAssumption DEF HexLen
<1> QED
  BY <1>2, <1>3, <1>4, <1>5 DEF GetBranch

\* No step of get disturbs the nodes.
LEMMA InvGet == ASSUME Inv, GetStep PROVE Inv'
<1>1. CASE GetNothing
  BY <1>1, InvReturn DEF GetNothing
<1>2. CASE GetLeaf
  <2>1. current \in DOMAIN heap /\ heap[current].type = "LEAF"
    BY <1>2 DEF GetLeaf, Node, Inv, CallOK, GetCursor
  <2>2. heap[current].value \in Values
    BY <2>1, NodeFields DEF Inv
  <2> QED
    BY <1>2, <2>2, InvReturn DEF GetLeaf
<1>3. CASE GetValue
  <2>1. current \in DOMAIN heap /\ heap[current].type = "VALUE"
    BY <1>3 DEF GetValue, Node, Inv, CallOK, GetCursor
  <2>2. heap[current].value \in Values
    BY <2>1, NodeFields DEF Inv
  <2> QED
    BY <1>3, <2>2, InvReturn DEF GetValue
<1> QED
  BY <1>1, <1>2, <1>3, InvGetExtension, InvGetBranch DEF GetStep

-----------------------------------------------------------------------------
(* put without a change of the tree's shape *)

\* A node keeps everything but its counter.
LEMMA Counted ==
  ASSUME TypeOK, NEW n \in DOMAIN heap, heap[n].type \in {"BRANCH", "EXTENSION"},
         NEW c \in Count
  PROVE  LET new == [heap[n] EXCEPT !.leaves = c]
         IN  /\ new \in Nodes /\ new.at = heap[n].at /\ new.type = heap[n].type
             /\ \A s \in Slot : /\ Target(new, s) = Target(heap[n], s)
                                /\ Label(new, s) = Label(heap[n], s)
<1> DEFINE new == [heap[n] EXCEPT !.leaves = c]
<1>1. CASE heap[n].type = "BRANCH"
  <2>1. heap[n] \in BranchNodes
    BY <1>1, NodeTypes
  <2>2. /\ new \in BranchNodes /\ new.at = heap[n].at /\ new.type = "BRANCH"
        /\ new.children = heap[n].children
    BY <2>1 DEF BranchNodes
  <2>3. \A s \in Slot : Target(new, s) = Target(heap[n], s)
    BY <1>1, <2>2 DEF Target
  <2>4. Label(new, 16) = Label(heap[n], 16)
    BY <2>1 DEF Label, BranchNodes
  <2>5. \A s \in Slot : Label(new, s) = Label(heap[n], s)
    BY <2>4 DEF Label
  <2> QED
    BY <1>1, <2>2, <2>3, <2>5 DEF Nodes
<1>2. CASE heap[n].type = "EXTENSION"
  <2>1. heap[n] \in ExtensionNodes
    BY <1>2, NodeTypes
  <2>2. /\ new \in ExtensionNodes /\ new.at = heap[n].at /\ new.type = "EXTENSION"
        /\ new.path = heap[n].path /\ new.next = heap[n].next
    BY <2>1 DEF ExtensionNodes
  <2>3. \A s \in Slot : /\ Target(new, s) = Target(heap[n], s)
                        /\ Label(new, s) = Label(heap[n], s)
    BY <1>2, <2>2 DEF Target, Label
  <2> QED
    BY <1>2, <2>2, <2>3 DEF Nodes
<1> QED
  BY <1>1, <1>2

\* Counting in one node leaves the nodes as they are.
LEMMA Recounted ==
  ASSUME TypeOK, NodesOK, NEW n \in DOMAIN heap, heap[n].type \in {"BRANCH", "EXTENSION"},
         NEW c \in Count, heap' = [heap EXCEPT ![n].leaves = c], UNCHANGED root
  PROVE  /\ NodesOK'
         /\ DOMAIN heap' = DOMAIN heap /\ heap' \in [DOMAIN heap' -> Nodes]
         /\ \A m \in DOMAIN heap :
              /\ heap'[m].at = heap[m].at /\ heap'[m].type = heap[m].type
              /\ \A s \in Slot : Target(heap'[m], s) = Target(heap[m], s)
<1>1. /\ DOMAIN heap' = DOMAIN heap
      /\ heap'[n] = [heap[n] EXCEPT !.leaves = c]
      /\ \A m \in DOMAIN heap : m # n => heap'[m] = heap[m]
  OBVIOUS
<1>2. /\ heap'[n] \in Nodes /\ heap'[n].at = heap[n].at /\ heap'[n].type = heap[n].type
      /\ \A s \in Slot : /\ Target(heap'[n], s) = Target(heap[n], s)
                         /\ Label(heap'[n], s) = Label(heap[n], s)
  <2> DEFINE new == [heap[n] EXCEPT !.leaves = c]
  <2>1. /\ new \in Nodes /\ new.at = heap[n].at /\ new.type = heap[n].type
        /\ \A s \in Slot : /\ Target(new, s) = Target(heap[n], s)
                           /\ Label(new, s) = Label(heap[n], s)
    BY Counted
  <2>2. heap'[n] = new
    BY <1>1
  <2> HIDE DEF new
  <2> QED
    BY <2>1, <2>2
<1>3. \A m \in DOMAIN heap :
        /\ heap'[m].at = heap[m].at /\ heap'[m].type = heap[m].type
        /\ \A s \in Slot : /\ Target(heap'[m], s) = Target(heap[m], s)
                           /\ Label(heap'[m], s) = Label(heap[m], s)
  BY <1>1, <1>2
<1>4. heap' \in [DOMAIN heap' -> Nodes]
  <2>1. \A m \in DOMAIN heap : heap'[m] \in Nodes
    BY <1>1, <1>2 DEF TypeOK
  <2> QED
    BY <1>1, <2>1
<1>5. RootOK' /\ PointersOK' /\ NoSharing'
  <2>1. RootOK'
    BY <1>1, <1>3 DEF NodesOK, TreeShape, RootOK
  <2>2. PointersOK'
    <3> SUFFICES ASSUME NEW m \in DOMAIN heap, NEW s \in Slot, Target(heap'[m], s) # Null
                 PROVE  /\ Target(heap'[m], s) \in DOMAIN heap \ {root}
                        /\ heap'[Target(heap'[m], s)].at = heap'[m].at \o Label(heap'[m], s)
      BY <1>1 DEF PointersOK
    <3>1. /\ Target(heap[m], s) \in DOMAIN heap \ {root}
          /\ heap[Target(heap[m], s)].at = heap[m].at \o Label(heap[m], s)
      BY <1>3 DEF NodesOK, TreeShape, PointersOK
    <3> QED
      BY <1>3, <3>1
  <2>3. NoSharing'
    BY <1>1, <1>3 DEF NodesOK, TreeShape, NoSharing
  <2> QED
    BY <2>1, <2>2, <2>3
<1>6. ExtensionsOK'
  <2> SUFFICES ASSUME NEW m \in DOMAIN heap, heap'[m].type = "EXTENSION"
               PROVE  heap'[m].next \in DOMAIN heap /\ heap'[heap'[m].next].type = "BRANCH"
    BY <1>1 DEF ExtensionsOK
  <2>1. heap[m].type = "EXTENSION" /\ heap'[m].next = heap[m].next
    BY <1>3, ExtensionTarget
  <2>2. heap[m].next \in DOMAIN heap /\ heap[heap[m].next].type = "BRANCH"
    BY <2>1 DEF NodesOK, TreeShape, ExtensionsOK
  <2> QED
    BY <1>3, <2>1, <2>2
<1>7. LeafNibbles'
  BY <1>1, <1>3 DEF NodesOK, LeafNibbles
<1>8. BranchDepth'
  BY <1>1, <1>3 DEF NodesOK, BranchDepth
<1> QED
  BY <1>1, <1>3, <1>4, <1>5, <1>6, <1>7, <1>8 DEF NodesOK, TreeShape

\* What put's cursor says of a step that goes down from current.
LEMMA PutCursor ==
  ASSUME Inv, pc = "put", current # Null
  PROVE  /\ current \in DOMAIN heap /\ heap[current].at = SubSeq(hex, 1, start)
         /\ start \in 0..HexLen /\ HexLen \in Nat /\ Len(heap[current].at) = start
         /\ hex \in Seq(Nibble) /\ Len(hex) = HexLen /\ value \in Values
         /\ \A i \in 1..HexLen : hex[i] \in Nibble
<1>1. /\ current \in DOMAIN heap /\ heap[current].at = SubSeq(hex, 1, start) /\ start <= HexLen
      /\ start \in Nat /\ hex \in Seq(Nibble) /\ Len(hex) = HexLen /\ value \in Values
  BY DEF Inv, CallOK, CursorLinked, PutArgs, TypeOK
<1>2. HexLen \in Nat
  BY TrieAssumption DEF HexLen
<1>3. \A i \in 1..HexLen : hex[i] \in Nibble
  BY <1>1, ElementOfSeq
<1>4. Len(SubSeq(hex, 1, start)) = start
  BY <1>1, <1>2, <1>3, SubSeqProperties
<1> QED
  BY <1>1, <1>2, <1>3, <1>4

\* put moves to a node below current and counts in current.
LEMMA InvDescend ==
  ASSUME Inv, Node("put", heap[current].type), heap[current].type \in {"BRANCH", "EXTENSION"},
         NEW s \in Slot, NEW d \in Nat, NEW e \in Nibble,
         Target(heap[current], s) # Null,
         s = IF heap[current].type = "BRANCH" THEN e ELSE 16,
         start' = d, d <= HexLen,
         heap[Target(heap[current], s)].at = SubSeq(hex, 1, d),
         current' = Target(heap[current], s), father' = current, elIndex' = e,
         heap' = [heap EXCEPT ![current].leaves = Wrap(@ + 1)],
         UNCHANGED <<root, brk, pc, args, ret, puts>>
  PROVE  Inv'
<1> DEFINE c == Target(heap[current], s)
<1>1. pc = "put" /\ current # Null
  BY DEF Node
<1>2. current \in DOMAIN heap /\ TypeOK /\ NodesOK
  BY <1>1, PutCursor DEF Inv
<1>3. Wrap(heap[current].leaves + 1) \in Count
  <2>1. heap[current].leaves \in Count
    BY <1>2, NodeFields
  <2> QED
    BY <2>1, CountUp
<1>4. heap' = [heap EXCEPT ![current].leaves = Wrap(heap[current].leaves + 1)]
  OBVIOUS
<1>5. /\ NodesOK'
      /\ DOMAIN heap' = DOMAIN heap /\ heap' \in [DOMAIN heap' -> Nodes]
      /\ \A m \in DOMAIN heap :
           /\ heap'[m].at = heap[m].at /\ heap'[m].type = heap[m].type
           /\ \A t \in Slot : Target(heap'[m], t) = Target(heap[m], t)
  BY <1>2, <1>3, <1>4, Recounted
<1>6. c \in DOMAIN heap
  BY <1>2 DEF NodesOK, TreeShape, PointersOK
<1>7. TypeOK'
  <2>1. current' \in Nat /\ father' \in Nat
    BY <1>2, <1>6, NodeTypes
  <2> QED
    BY <1>5, <2>1 DEF Inv, TypeOK, args
<1>8. CursorLinked'
  <2>1. heap'[current'].type = "BRANCH" => d < HexLen
    <3>1. ASSUME heap[c].type = "BRANCH" PROVE Len(heap[c].at) < HexLen
      BY <1>2, <1>6, <3>1 DEF NodesOK, BranchDepth
    <3>2. Len(SubSeq(hex, 1, d)) = d
      BY <1>1, PutCursor, SubSeqProperties
    <3> QED
      BY <1>5, <1>6, <3>1, <3>2
  <2>2. father' # Null /\ father' \in DOMAIN heap'
    BY <1>1, <1>2, <1>5
  <2>3. FatherIsBranch' <=> heap[current].type = "BRANCH"
    BY <1>2, <1>5, <2>2 DEF FatherIsBranch
  <2>4. current' = Target(heap'[father'], IF FatherIsBranch' THEN elIndex' ELSE 16)
    BY <1>2, <1>5, <2>3
  <2>5. /\ current' \in DOMAIN heap'
        /\ heap'[current'].at = SubSeq(hex', 1, start') /\ start' <= HexLen
    BY <1>5, <1>6 DEF args
  <2> QED
    BY <2>1, <2>2, <2>4, <2>5 DEF CursorLinked
<1>9. CallOK'
  BY <1>1, <1>8, PutCursor DEF CallOK, GetCursor, PutArgs, args
<1> QED
  BY <1>5, <1>7, <1>9 DEF Inv

\* A sequence of nibbles that agrees with the key goes on with the key.
LEMMA PrefixConcat ==
  ASSUME NEW h \in Seq(Nibble), NEW a \in 0..Len(h), NEW q \in Seq(Nibble),
         a + Len(q) <= Len(h), \A j \in 1..Len(q) : q[j] = h[a + j]
  PROVE  SubSeq(h, 1, a) \o q = SubSeq(h, 1, a + Len(q))
<1>1. Len(h) \in Nat /\ Len(q) \in Nat /\ \A j \in 1..Len(h) : h[j] \in Nibble
  BY LenProperties, ElementOfSeq
<1>2. /\ SubSeq(h, 1, a) \in Seq(Nibble) /\ Len(SubSeq(h, 1, a)) = a
      /\ \A j \in 1..a : SubSeq(h, 1, a)[j] = h[j]
  BY <1>1, SubSeqProperties
<1>3. /\ SubSeq(h, 1, a + Len(q)) \in Seq(Nibble) /\ Len(SubSeq(h, 1, a + Len(q))) = a + Len(q)
      /\ \A j \in 1..(a + Len(q)) : SubSeq(h, 1, a + Len(q))[j] = h[j]
  BY <1>1, SubSeqProperties
<1>4. /\ SubSeq(h, 1, a) \o q \in Seq(Nibble)
      /\ Len(SubSeq(h, 1, a) \o q) = a + Len(q)
      /\ \A j \in 1..(a + Len(q)) :
           (SubSeq(h, 1, a) \o q)[j] = IF j <= a THEN SubSeq(h, 1, a)[j] ELSE q[j - a]
  BY <1>2, ConcatProperties
<1>5. ASSUME NEW j \in 1..(a + Len(q))
      PROVE  (SubSeq(h, 1, a) \o q)[j] = SubSeq(h, 1, a + Len(q))[j]
  <2>1. CASE j <= a
    BY <1>2, <1>3, <1>4, <2>1
  <2>2. CASE j > a
    <3>1. j - a \in 1..Len(q) /\ a + (j - a) = j
      BY <1>1, <2>2
    <3>2. q[j - a] = h[j]
      BY <3>1
    <3> QED
      BY <1>3, <1>4, <2>2, <3>2
  <2> QED
    BY <1>1, <2>1, <2>2
<1> QED
  BY <1>3, <1>4, <1>5, SeqEqual

\* compare says that a path within the key agrees with it.
LEMMA Agrees ==
  ASSUME NEW path, Len(path) \in Nat, start \in Nat, HexLen \in Nat,
         -1 \in Compare(path), start + Len(path) <= HexLen
  PROVE  \A j \in 1..Len(path) : path[j] = hex[start + j]
<1>1. \A j \in 1..Len(path) : start + j > HexLen \/ path[j] = hex[start + j]
  BY DEF Compare
<1> QED
  BY <1>1

\* put at an extension that matches goes down to its branch.
LEMMA InvPutExtensionMatch == ASSUME Inv, PutExtensionMatch PROVE Inv'
<1> DEFINE ex == heap[current]
           d  == start + Len(ex.path)
<1>1. pc = "put" /\ current # Null /\ ex.type = "EXTENSION" /\ -1 \in Compare(ex.path)
  BY DEF PutExtensionMatch, Node
<1>2. current \in DOMAIN heap /\ ex.at = SubSeq(hex, 1, start) /\ Len(ex.at) = start
      /\ start \in 0..HexLen /\ HexLen \in Nat /\ hex \in Seq(Nibble) /\ Len(hex) = HexLen
  BY <1>1, PutCursor
<1>3. ex.path \in Seq(Nibble) /\ Len(ex.path) \in Nat
  BY <1>1, <1>2, NodeFields, LenProperties DEF Inv
<1>4. /\ Target(ex, 16) = ex.next /\ 16 \in Slot
      /\ ex.next \in DOMAIN heap /\ ex.next # Null /\ heap[ex.next].type = "BRANCH"
      /\ heap[ex.next].at = ex.at \o ex.path
      /\ Len(heap[ex.next].at) = start + Len(ex.path)
  BY <1>1, <1>2, ExtensionNext DEF Inv, NodesOK
<1>5. d < HexLen
  BY <1>4 DEF Inv, NodesOK, BranchDepth
<1>6. \A j \in 1..Len(ex.path) : ex.path[j] = hex[start + j]
  BY <1>1, <1>2, <1>3, <1>5, Agrees
<1>7. heap[ex.next].at = SubSeq(hex, 1, d)
  <2>1. start \in 0..Len(hex) /\ start + Len(ex.path) <= Len(hex)
    BY <1>2, <1>3, <1>5
  <2>2. SubSeq(hex, 1, start) \o ex.path = SubSeq(hex, 1, start + Len(ex.path))
    BY <1>2, <1>3, <1>6, <2>1, PrefixConcat
  <2> QED
    BY <1>2, <1>4, <2>2
<1>8. /\ start' = d /\ current' = ex.next /\ father' = current /\ elIndex' = elIndex
      /\ heap' = [heap EXCEPT ![current].leaves = Wrap(@ + 1)]
      /\ UNCHANGED <<root, brk, pc, args, ret, puts>>
  BY DEF PutExtensionMatch, Descend
<1>9. elIndex \in Nibble /\ d \in Nat /\ d <= HexLen
  BY <1>2, <1>3, <1>5 DEF Inv, TypeOK
<1> HIDE DEF ex, d
<1>10. Node("put", heap[current].type) /\ heap[current].type = "EXTENSION"
  BY <1>1 DEF Node, ex
<1>11. Target(heap[current], 16) = ex.next
  BY <1>4 DEF ex
<1> QED
  BY <1>4, <1>7, <1>8, <1>9, <1>10, <1>11, InvDescend

\* put at a branch whose slot is taken goes down to that child.
LEMMA InvPutBranchDown == ASSUME Inv, PutBranchDown PROVE Inv'
<1> DEFINE br == heap[current]
           i  == hex[start + 1]
           c  == br.children[i]
<1>1. pc = "put" /\ current # Null /\ br.type = "BRANCH" /\ c # Null
  BY DEF PutBranchDown, Node
<1>2. /\ current \in DOMAIN heap /\ br.at = SubSeq(hex, 1, start) /\ Len(br.at) = start
      /\ start \in 0..HexLen /\ HexLen \in Nat /\ hex \in Seq(Nibble) /\ Len(hex) = HexLen
      /\ \A j \in 1..HexLen : hex[j] \in Nibble
  BY <1>1, PutCursor
<1>3. start < HexLen
  BY <1>1, <1>2 DEF Inv, NodesOK, BranchDepth
<1>4. i \in Nibble /\ start + 1 \in 1..HexLen
  BY <1>2, <1>3
<1>5. /\ Target(br, i) = c /\ i \in Slot
      /\ c \in DOMAIN heap /\ heap[c].at = br.at \o <<i>>
  BY <1>1, <1>2, <1>4, BranchChild DEF Inv, NodesOK
<1>6. heap[c].at = SubSeq(hex, 1, start + 1)
  <2>1. <<i>> \in Seq(Nibble) /\ Len(<<i>>) = 1 /\ \A j \in 1..1 : <<i>>[j] = hex[start + j]
    BY <1>4
  <2>2. SubSeq(hex, 1, start) \o <<i>> = SubSeq(hex, 1, start + 1)
    BY <1>2, <1>3, <2>1, PrefixConcat
  <2> QED
    BY <1>2, <1>5, <2>2
<1>7. /\ start' = start + 1 /\ current' = c /\ father' = current /\ elIndex' = i
      /\ heap' = [heap EXCEPT ![current].leaves = Wrap(@ + 1)]
      /\ UNCHANGED <<root, brk, pc, args, ret, puts>>
  BY DEF PutBranchDown, Descend
<1>8. start + 1 \in Nat /\ start + 1 <= HexLen
  BY <1>2, <1>3
<1>9. Node("put", heap[current].type) /\ heap[current].type = "BRANCH"
  BY <1>1 DEF Node
<1>10. Target(heap[current], i) = c /\ c # Null
  BY <1>1, <1>5
<1> HIDE DEF br, i, c
<1> QED
  BY <1>4, <1>5, <1>6, <1>7, <1>8, <1>9, <1>10, InvDescend

-----------------------------------------------------------------------------
(* New nodes *)

\* A new leaf has its type.
LEMMA LeafTyped ==
  ASSUME NEW p \in Seq(Nibble), NEW q \in Seq(Nibble \cup {Junk}), NEW v \in Values
  PROVE  Leaf(p, q, v) \in Nodes
BY DEF Leaf, Nodes, LeafNodes

\* So has a new value node.
LEMMA ValueTyped ==
  ASSUME NEW p \in Seq(Nibble), NEW v \in Values
  PROVE  Value(p, v) \in Nodes
BY DEF Value, Nodes, ValueNodes

\* So has a new extension.
LEMMA ExtensionTyped ==
  ASSUME NEW p \in Seq(Nibble), NEW q \in Seq(Nibble), NEW n \in Nat, NEW c \in Count
  PROVE  Extension(p, q, n, c) \in Nodes
BY DEF Extension, Nodes, ExtensionNodes

\* So has a new branch.
LEMMA BranchTyped ==
  ASSUME NEW p \in Seq(Nibble), NEW i, NEW n \in Nat, NEW j, NEW m \in Nat, NEW c \in Count
  PROVE  Branch(p, i, n, j, m, c) \in Nodes
BY DEF Branch, Nodes, BranchNodes, Null

\* A new leaf leads nowhere.
LEMMA LeafFields ==
  ASSUME NEW p, NEW q, NEW v, NEW new, new = Leaf(p, q, v)
  PROVE  /\ new.type = "LEAF" /\ new.at = p /\ new.path = q
         /\ LeavesCount(new) \in Nat
         /\ \A s \in Slot : Target(new, s) = Null
BY DEF Leaf, Target, LeavesCount

\* A new value node leads nowhere.
LEMMA ValueFields ==
  ASSUME NEW p, NEW v, NEW new, new = Value(p, v)
  PROVE  /\ new.type = "VALUE" /\ new.at = p
         /\ LeavesCount(new) \in Nat
         /\ \A s \in Slot : Target(new, s) = Null
BY DEF Value, Target, LeavesCount

\* A new extension leads to its branch.
LEMMA ExtensionFields ==
  ASSUME NEW p, NEW q, NEW n, NEW c, NEW new, new = Extension(p, q, n, c)
  PROVE  /\ new.type = "EXTENSION" /\ new.at = p /\ new.next = n
         /\ LeavesCount(new) = c /\ Label(new, 16) = q
         /\ \A s \in Slot : Target(new, s) = IF s = 16 THEN n ELSE Null
BY DEF Extension, Target, LeavesCount, Label

\* A new branch leads to its two children.
LEMMA BranchFields ==
  ASSUME NEW p, NEW i \in Nibble, NEW n, NEW j \in Nibble, NEW m, NEW c,
         NEW new, new = Branch(p, i, n, j, m, c)
  PROVE  /\ new.type = "BRANCH" /\ new.at = p
         /\ LeavesCount(new) = c
         /\ \A s \in Nibble : Label(new, s) = <<s>>
         /\ \A s \in Slot : Target(new, s) = IF s = i THEN n ELSE IF s = j THEN m ELSE Null
<1>1. /\ new.type = "BRANCH" /\ new.at = p /\ new.leaves = c
      /\ new.children = [k \in Nibble |-> IF k = i THEN n ELSE IF k = j THEN m ELSE Null]
  BY DEF Branch
<1>2. \A s \in Slot : Target(new, s) = IF s = i THEN n ELSE IF s = j THEN m ELSE Null
  BY <1>1 DEF Target, Null
<1>3. \A s \in Nibble : Label(new, s) = <<s>>
  BY DEF Label, Nibble
<1>4. LeavesCount(new) = c
  BY <1>1 DEF LeavesCount
<1> QED
  BY <1>1, <1>2, <1>3, <1>4

\* A branch with a redirected slot keeps the rest.
LEMMA NewChild ==
  ASSUME TypeOK, NEW n \in DOMAIN heap, heap[n].type = "BRANCH",
         NEW i \in Nibble, NEW t \in Nat, NEW c \in Count,
         NEW new, new = Redirect(heap[n], i, t, c)
  PROVE  /\ new \in Nodes /\ new.type = "BRANCH" /\ new.at = heap[n].at
         /\ \A s \in Slot : Label(new, s) = Label(heap[n], s)
         /\ \A s \in Slot : Target(new, s) = IF s = i THEN t ELSE Target(heap[n], s)
<1>1. heap[n] \in BranchNodes
  BY NodeTypes
<1>2. /\ new \in BranchNodes /\ new.type = "BRANCH" /\ new.at = heap[n].at
      /\ new.children = [heap[n].children EXCEPT ![i] = t]
  BY <1>1 DEF BranchNodes, Redirect
<1>3. Label(new, 16) = Label(heap[n], 16)
  BY <1>1 DEF Label, BranchNodes, Redirect
<1>4. heap[n].children \in [Nibble -> Nat]
  BY NodeFields
<1>5. 16 \notin Nibble /\ i # 16
  BY DEF Nibble
<1>6. \A s \in Slot : Target(new, s) = IF s = i THEN t ELSE Target(heap[n], s)
  BY <1>2, <1>4, <1>5 DEF Target
<1>7. \A s \in Slot : Label(new, s) = Label(heap[n], s)
  BY <1>3 DEF Label
<1> QED
  BY <1>2, <1>6, <1>7 DEF Nodes

\* New nodes are well-formed and have fresh addresses.
FreshOK(Fresh) ==
  /\ brk' \in Nat /\ brk <= brk' /\ Fresh \subseteq brk..(brk' - 1)
  /\ \A n \in Fresh :
       /\ heap'[n] \in Nodes
       /\ heap'[n].type = "LEAF" =>
            \A j \in 1..Len(heap'[n].path) :
              Len(heap'[n].at) + j <= HexLen => heap'[n].path[j] \in Nibble
       /\ heap'[n].type = "BRANCH" => Len(heap'[n].at) < HexLen

\* A call that ends with a graft of well-formed nodes keeps the invariant.
LEMMA InvGraft ==
  ASSUME Inv, Return("done"),
         NEW Kept, NEW Fresh, NEW top, NEW f, NEW i, NEW Adopted,
         Grafted(Kept, Fresh, top, f, i, Adopted), FreshOK(Fresh),
         heap' = [n \in DOMAIN heap' |-> heap'[n]],
         \A n \in Kept : heap'[n] \in Nodes
  PROVE  Inv'
<1>1. TreeShape'
  BY Surgery DEF Inv, NodesOK
<1>2. /\ DOMAIN heap' = Kept \cup Fresh /\ Kept \subseteq DOMAIN heap
      /\ \A n \in Kept : heap'[n].at = heap[n].at /\ heap'[n].type = heap[n].type
  BY DEF Grafted
<1>3. \A n \in Kept : heap'[n].type = "LEAF" => heap'[n].path = heap[n].path
  <2>1. 16 \in Slot
    BY DEF Slot
  <2>2. \A n \in Kept : \A s \in Slot : Label(heap'[n], s) = Label(heap[n], s)
    BY DEF Grafted
  <2>3. \A n \in Kept : Label(heap'[n], 16) = Label(heap[n], 16)
    BY <2>1, <2>2, Zenon
  <2> QED
    BY <2>3 DEF Label
<1>4. brk \in Nat \ {0} /\ DOMAIN heap \subseteq 1..(brk - 1)
  BY DEF Inv, TypeOK
<1>5. DOMAIN heap' \subseteq 1..(brk' - 1) /\ brk' \in Nat \ {0}
  BY <1>2, <1>4 DEF FreshOK
<1>6. heap' \in [DOMAIN heap' -> Nodes]
  <2>1. \A n \in DOMAIN heap' : heap'[n] \in Nodes
    BY <1>2 DEF FreshOK
  <2> QED
    BY <2>1
<1>7. root' \in Nat
  BY <1>1, <1>5 DEF TreeShape, RootOK, Null
<1>8. TypeOK'
  BY <1>5, <1>6, <1>7 DEF Inv, Return, TypeOK, args, Nibble, Null
<1>9. LeafNibbles'
  <2> SUFFICES ASSUME NEW n \in DOMAIN heap', heap'[n].type = "LEAF",
                      NEW j \in 1..Len(heap'[n].path), Len(heap'[n].at) + j <= HexLen
               PROVE  heap'[n].path[j] \in Nibble
    BY DEF LeafNibbles
  <2>1. CASE n \in Fresh
    BY <2>1 DEF FreshOK
  <2>2. CASE n \in Kept
    <3>1. /\ heap'[n].path = heap[n].path /\ heap'[n].at = heap[n].at
          /\ heap[n].type = "LEAF" /\ n \in DOMAIN heap
      BY <1>2, <1>3, <2>2
    <3> QED
      BY <3>1 DEF Inv, NodesOK, LeafNibbles
  <2> QED
    BY <1>2, <2>1, <2>2
<1>10. BranchDepth'
  <2> SUFFICES ASSUME NEW n \in DOMAIN heap', heap'[n].type = "BRANCH"
               PROVE  Len(heap'[n].at) < HexLen
    BY DEF BranchDepth
  <2>1. CASE n \in Fresh
    BY <2>1 DEF FreshOK
  <2>2. CASE n \in Kept
    BY <1>2, <2>2 DEF Inv, NodesOK, BranchDepth
  <2> QED
    BY <1>2, <2>1, <2>2
<1>11. CallOK'
  BY Idle DEF Return
<1> QED
  BY <1>1, <1>8, <1>9, <1>10, <1>11 DEF Inv, NodesOK

-----------------------------------------------------------------------------
(* put where nothing is *)

\* The first key becomes the root.
LEMMA InvPutRoot == ASSUME Inv, PutRoot PROVE Inv'
<1> DEFINE leaf == Leaf(<<>>, hex, value)
<1>1. /\ pc = "put" /\ root = Null /\ root' = brk /\ brk' = brk + 1 /\ Return("done")
      /\ heap' = Overlay(heap, [a \in {brk} |-> leaf])
  BY DEF PutRoot
<1>2. hex \in Seq(Nibble) /\ Len(hex) = HexLen /\ value \in Values /\ brk \in Nat \ {0}
      /\ DOMAIN heap \subseteq 1..(brk - 1)
  BY <1>1 DEF Inv, TypeOK, CallOK, PutArgs
<1>3. /\ leaf \in Nodes /\ leaf.type = "LEAF" /\ leaf.at = <<>> /\ leaf.path = hex
      /\ \A s \in Slot : Target(leaf, s) = Null
  <2>1. hex \in Seq(Nibble \cup {Junk}) /\ value \in Values
    BY <1>2, SeqMonotonic
  <2>2. <<>> \in Seq(Nibble)
    OBVIOUS
  <2> HIDE DEF leaf
  <2>3. leaf \in Nodes
    BY <2>1, <2>2, LeafTyped DEF leaf
  <2>4. /\ leaf.type = "LEAF" /\ leaf.at = <<>> /\ leaf.path = hex
        /\ \A s \in Slot : Target(leaf, s) = Null
    BY LeafFields DEF leaf
  <2> QED
    BY <2>3, <2>4
<1> HIDE DEF leaf
<1>4. brk \notin DOMAIN heap /\ Null \notin DOMAIN heap /\ Null # brk
  BY <1>2 DEF Null
<1>5. /\ DOMAIN heap' = DOMAIN heap \cup {brk}
      /\ heap'[brk] = leaf
      /\ \A n \in DOMAIN heap : heap'[n] = heap[n]
      /\ heap' = [n \in DOMAIN heap' |-> heap'[n]]
  BY <1>1, <1>4 DEF Overlay
<1>6. \A n \in DOMAIN heap, s \in Slot : Edge(heap, n, s) => Target(heap[n], s) \in DOMAIN heap
  BY DEF Inv, NodesOK, TreeShape, PointersOK, Edge
<1>7. Grafted(DOMAIN heap, {brk}, brk, Null, 0, {})
  <2>1. /\ DOMAIN heap' = DOMAIN heap \cup {brk} /\ {brk} \cap DOMAIN heap = {}
        /\ Null \notin DOMAIN heap \cup {brk} /\ 0 \in Slot
        /\ root' = brk /\ heap'[brk].at = <<>>
    BY <1>1, <1>3, <1>4, <1>5 DEF Slot
  <2>2. \A n \in DOMAIN heap : heap'[n] = heap[n] /\ n # Null
    BY <1>4, <1>5
  <2>3. \A n \in DOMAIN heap, s \in Slot : Edge(heap', n, s) => Target(heap'[n], s) \in DOMAIN heap \ {brk}
    BY <1>4, <1>6, <2>2 DEF Edge
  <2>4. \A n \in {brk}, s \in Slot : ~ Edge(heap', n, s)
    BY <1>3, <1>5 DEF Edge
  <2>5. \A n \in {brk} : heap'[n].type # "EXTENSION"
    BY <1>3, <1>5
  <2> QED
    BY <2>1, <2>2, <2>3, <2>4, <2>5 DEF Grafted
<1>8. FreshOK({brk})
  <2>1. \A j \in 1..Len(hex) : hex[j] \in Nibble
    BY <1>2, ElementOfSeq
  <2> QED
    BY <1>1, <1>2, <1>3, <1>5, <2>1 DEF FreshOK
<1>9. \A n \in DOMAIN heap : heap'[n] \in Nodes
  BY <1>5 DEF Inv, TypeOK
<1> QED
  BY <1>1, <1>5, <1>7, <1>8, <1>9, InvGraft

\* What follows nibble m of a sequence.
LEMMA AfterProperties ==
  ASSUME NEW S, NEW q \in Seq(S), NEW m \in Nat, m < Len(q)
  PROVE  /\ After(q, m) \in Seq(S) /\ Len(After(q, m)) = Len(q) - m - 1
         /\ \A j \in 1..(Len(q) - m - 1) : After(q, m)[j] = q[m + 1 + j]
<1> DEFINE n == Len(q)
           r == After(q, m)
<1>1. n \in Nat /\ m < n /\ m + 2 \in Int /\ n \in Int
  BY LenProperties
<1>2. \A j \in (m + 2)..n : q[j] \in S
  <2>1. \A j \in 1..n : q[j] \in S
    BY ElementOfSeq
  <2> QED
    BY <1>1, <2>1
<1>3. r = SubSeq(q, m + 2, n)
  BY DEF After
<1> HIDE DEF n, r
<1>4. /\ r \in Seq(S)
      /\ Len(r) = IF m + 2 <= n THEN n - (m + 2) + 1 ELSE 0
      /\ \A j \in 1..(n - (m + 2) + 1) : r[j] = q[(m + 2) + j - 1]
  BY <1>1, <1>2, <1>3, SubSeqProperties
<1>5. Len(r) = n - m - 1
  BY <1>1, <1>4
<1>6. ASSUME NEW j \in 1..(n - m - 1) PROVE r[j] = q[m + 1 + j]
  <2>1. j \in 1..(n - (m + 2) + 1) /\ (m + 2) + j - 1 = m + 1 + j
    BY <1>1
  <2> QED
    BY <1>4, <2>1
<1> QED
  BY <1>4, <1>5, <1>6 DEF n, r

\* An empty slot of a branch takes a leaf that is longer than its key.
LEMMA InvPutBranchNew == ASSUME Inv, PutBranchNew PROVE Inv'
<1> DEFINE br   == heap[current]
           i    == hex[start + 1]
           tail == [j \in 1..(start + 1) |-> Junk]
           leaf == Leaf(Append(br.at, i), After(hex, start) \o tail, value)
           more == [br EXCEPT !.children[i] = brk, !.leaves = Wrap(@ + 1)]
<1>1. /\ pc = "put" /\ current # Null /\ br.type = "BRANCH" /\ br.children[i] = Null
      /\ brk' = brk + 1 /\ root' = root /\ Return("done")
      /\ heap' = Overlay(heap, [a \in {current, brk} |-> IF a = brk THEN leaf ELSE more])
  BY DEF PutBranchNew, Node
<1>2. /\ current \in DOMAIN heap /\ br.at = SubSeq(hex, 1, start) /\ Len(br.at) = start
      /\ start \in 0..HexLen /\ HexLen \in Nat /\ hex \in Seq(Nibble) /\ Len(hex) = HexLen
      /\ value \in Values /\ \A j \in 1..HexLen : hex[j] \in Nibble
  BY <1>1, PutCursor
<1>3. start \in Nat /\ start < HexLen /\ i \in Nibble
  BY <1>1, <1>2 DEF Inv, NodesOK, BranchDepth
<1>4. /\ br.at \in Seq(Nibble) /\ Append(br.at, i) \in Seq(Nibble)
      /\ Len(Append(br.at, i)) = start + 1 /\ Append(br.at, i) = br.at \o <<i>>
  BY <1>2, <1>3, NodeTypes, AppendProperties, AppendIsConcat DEF Inv
<1>5. /\ After(hex, start) \o tail \in Seq(Nibble \cup {Junk})
      /\ \A j \in 1..(HexLen - start - 1) : (After(hex, start) \o tail)[j] \in Nibble
  <2>1. /\ After(hex, start) \in Seq(Nibble) /\ Len(After(hex, start)) = HexLen - start - 1
        /\ \A j \in 1..(HexLen - start - 1) : After(hex, start)[j] = hex[start + 1 + j]
    BY <1>2, <1>3, AfterProperties
  <2>2. After(hex, start) \in Seq(Nibble \cup {Junk})
    BY <2>1, SeqMonotonic
  <2>3. tail \in Seq(Nibble \cup {Junk}) /\ Len(tail) = start + 1
    BY <1>3
  <2> HIDE DEF tail
  <2>4. /\ After(hex, start) \o tail \in Seq(Nibble \cup {Junk})
        /\ \A j \in 1..(Len(After(hex, start)) + Len(tail)) : (After(hex, start) \o tail)[j] =
             IF j <= Len(After(hex, start)) THEN After(hex, start)[j]
                                            ELSE tail[j - Len(After(hex, start))]
    BY <2>2, <2>3, ConcatProperties
  <2>5. ASSUME NEW j \in 1..(HexLen - start - 1)
        PROVE  (After(hex, start) \o tail)[j] \in Nibble
    <3>1. (After(hex, start) \o tail)[j] = After(hex, start)[j]
      BY <1>2, <1>3, <2>1, <2>3, <2>4
    <3>2. start + 1 + j \in 1..HexLen
      BY <1>2, <1>3
    <3> QED
      BY <1>2, <2>1, <3>1, <3>2
  <2> QED
    BY <2>4, <2>5
<1> DEFINE path == After(hex, start) \o tail
           at   == Append(br.at, i)
<1>6. /\ leaf = Leaf(at, path, value)
      /\ more = Redirect(heap[current], i, brk, Wrap(br.leaves + 1))
  BY DEF Redirect
<1> HIDE DEF leaf, more, path, at
<1>7. leaf \in Nodes
  BY <1>2, <1>4, <1>5, <1>6, LeafTyped DEF at, path
<1>8. /\ leaf.type = "LEAF" /\ leaf.at = at /\ leaf.path = path
      /\ \A s \in Slot : Target(leaf, s) = Null
  BY <1>6, LeafFields
<1>9. Wrap(br.leaves + 1) \in Count
  BY <1>1, <1>2, NodeFields, CountUp DEF Inv
<1>10. brk \in Nat \ {0} /\ DOMAIN heap \subseteq 1..(brk - 1)
       /\ brk \notin DOMAIN heap /\ Null \notin DOMAIN heap /\ Null # brk
  BY DEF Inv, TypeOK, Null
<1>11. /\ more \in Nodes /\ more.type = "BRANCH" /\ more.at = br.at
       /\ \A s \in Slot : Label(more, s) = Label(br, s)
       /\ \A s \in Slot : Target(more, s) = IF s = i THEN brk ELSE Target(br, s)
  BY <1>1, <1>2, <1>3, <1>6, <1>9, <1>10, NewChild DEF Inv
<1>12. /\ DOMAIN heap' = DOMAIN heap \cup {brk}
       /\ heap'[brk] = leaf /\ heap'[current] = more
       /\ \A n \in DOMAIN heap : n # current => heap'[n] = heap[n]
       /\ heap' = [n \in DOMAIN heap' |-> heap'[n]]
  BY <1>1, <1>2, <1>10 DEF Overlay
<1>13. \A n \in DOMAIN heap, s \in Slot : Edge(heap, n, s) =>
         Target(heap[n], s) \in DOMAIN heap \ {root}
  BY DEF Inv, NodesOK, TreeShape, PointersOK, Edge
<1>14. root \in DOMAIN heap \cup {Null}
  BY DEF Inv, NodesOK, TreeShape, RootOK
<1>15. Grafted(DOMAIN heap, {brk}, brk, current, i, {})
  <2>1. i \in Slot /\ Label(br, i) = <<i>>
    BY <1>3 DEF Slot, Label, Nibble
  <2>2. \A n \in DOMAIN heap :
          /\ heap'[n].at = heap[n].at /\ heap'[n].type = heap[n].type
          /\ \A s \in Slot : Label(heap'[n], s) = Label(heap[n], s)
    BY <1>1, <1>11, <1>12
  <2>3. \A n \in DOMAIN heap, s \in Slot :
          Target(heap'[n], s) = IF n = current /\ s = i THEN brk ELSE Target(heap[n], s)
    BY <1>11, <1>12
  <2>4. \A n \in DOMAIN heap, s \in Slot : Edge(heap', n, s) =>
          Target(heap'[n], s) \in (DOMAIN heap \ {root}) \cup {brk}
    BY <1>13, <2>3 DEF Edge
  <2>5. \A n \in {brk}, s \in Slot : ~ Edge(heap', n, s)
    BY <1>8, <1>12 DEF Edge
  <2>6. \A n \in {brk} : heap'[n].type # "EXTENSION"
    BY <1>8, <1>12
  <2>7. /\ heap'[brk].at = br.at \o Label(br, i) /\ br.type # "EXTENSION"
        /\ current # Null /\ root' = root /\ brk # root
    BY <1>1, <1>4, <1>8, <1>10, <1>12, <1>14, <2>1 DEF at
  <2> QED
    BY <1>2, <1>10, <1>12, <1>14, <2>1, <2>2, <2>3, <2>4, <2>5, <2>6, <2>7 DEF Grafted
<1>16. FreshOK({brk})
  <2>1. \A j \in 1..Len(path) : Len(at) + j <= HexLen => path[j] \in Nibble
    <3> SUFFICES ASSUME NEW j \in 1..Len(path), Len(at) + j <= HexLen PROVE path[j] \in Nibble
      OBVIOUS
    <3>1. j \in 1..(HexLen - start - 1)
      BY <1>2, <1>4 DEF at
    <3> QED
      BY <1>5, <3>1 DEF path
  <2> QED
    <3>1. brk' \in Nat /\ brk <= brk' /\ {brk} \subseteq brk..(brk' - 1)
      BY <1>1, <1>10
    <3>2. \A n \in {brk} : heap'[n] = leaf
      BY <1>12
    <3>3. leaf.type # "BRANCH"
      BY <1>8
    <3>4. leaf.type = "LEAF" => \A j \in 1..Len(leaf.path) :
            Len(leaf.at) + j <= HexLen => leaf.path[j] \in Nibble
      BY <1>8, <2>1
    <3> QED
      BY <1>7, <3>1, <3>2, <3>3, <3>4 DEF FreshOK
<1>17. \A n \in DOMAIN heap : heap'[n] \in Nodes
  BY <1>11, <1>12 DEF Inv, TypeOK
<1> QED
  BY <1>1, <1>12, <1>15, <1>16, <1>17, InvGraft

-----------------------------------------------------------------------------
(* put where a path parts *)

Here         == heap[current]
Prefix(m)    == Here.at \o SubSeq(Here.path, 1, m)
OldNibble(m) == Here.path[m + 1]
NewNibble(m) == hex[start + m + 1]
Top(m)       == IF m = 0 THEN brk ELSE brk + 1
Fork(m)      == IF m = 0 THEN {brk} ELSE {brk, brk + 1}

\* The nodes that lose their parent: the branch below an extension.
Orphans == IF Here.type = "EXTENSION" THEN {Here.next} ELSE {}

\* The path of the current node and the key part at nibble m, within the key.
PartsAt(m) ==
  /\ m \in Nat /\ m < Len(Here.path) /\ start + m < HexLen
  /\ \A j \in 1..m : Here.path[j] = hex[start + j]
  /\ SubSeq(Here.path, 1, m) \in Seq(Nibble)
  /\ Prefix(m) \in Seq(Nibble) /\ Len(Prefix(m)) = start + m
  /\ OldNibble(m) \in Nibble /\ NewNibble(m) \in Nibble /\ OldNibble(m) # NewNibble(m)

\* The nodes that put hangs below the new branch: the new leaf, and what takes
\* the place of the current node unless its own branch is hung there.
SonsOK(m, old, sons) ==
  /\ DOMAIN sons \ {current} = {brk + 2} \cup ({old} \ Orphans)
  /\ DOMAIN sons \subseteq {current, brk + 2, brk + 3}
  /\ old \in {brk + 3} \cup Orphans
  /\ sons[brk + 2].at = Append(Prefix(m), NewNibble(m))
  /\ sons[brk + 2].type \in {"LEAF", "VALUE"}
  /\ old \in Orphans => heap[old].at = Append(Prefix(m), OldNibble(m))
  /\ old \notin Orphans =>
       /\ sons[old].at = Append(Prefix(m), OldNibble(m))
       /\ sons[old].type \in {"LEAF", "VALUE", "EXTENSION"}
       /\ sons[old].type = "EXTENSION" =>
            /\ Here.type = "EXTENSION" /\ sons[old].next = Here.next
            /\ heap[Here.next].at = sons[old].at \o sons[old].path
  /\ \A a \in DOMAIN sons \ {current} :
       /\ sons[a] \in Nodes
       /\ sons[a].type = "LEAF" =>
            \A j \in 1..Len(sons[a].path) :
              Len(sons[a].at) + j <= HexLen => sons[a].path[j] \in Nibble

\* What Splice makes of the heap, the counters of the new nodes being c and
\* that of the father being e.
Spliced(m, old, sons, c, e) ==
  /\ DOMAIN heap' = (DOMAIN heap \ {current}) \cup (DOMAIN sons \ {current}) \cup Fork(m)
  /\ heap' = [n \in DOMAIN heap' |-> heap'[n]]
  /\ heap'[brk] = Branch(Prefix(m), OldNibble(m), old, NewNibble(m), brk + 2, c)
  /\ m # 0 => heap'[brk + 1] = Extension(Here.at, SubSeq(Here.path, 1, m), brk, c)
  /\ \A a \in DOMAIN sons \ {current} : heap'[a] = sons[a]
  /\ \A n \in DOMAIN heap \ {current} :
       heap'[n] = IF n = father THEN Redirect(heap[n], elIndex, Top(m), e) ELSE heap[n]
  /\ root' = IF father = Null THEN Top(m) ELSE root
  /\ brk' = brk + 4

\* The counters c and e as Splice computes them, and for a leaf and an extension.
CountsOf(old, sons, c, e) ==
  /\ c = Wrap(LeavesCount(Overlay(heap, sons)[old]) + 1)
  /\ father # Null =>
       e = Wrap(heap[father].leaves + c - LeavesCount(Overlay(heap, sons)[current]))

Counts(c, e) ==
  /\ Here.type = "LEAF" =>
       /\ c = Wrap(1 + 1)
       /\ father # Null => e = Wrap(heap[father].leaves + c - 1)
  /\ Here.type = "EXTENSION" =>
       /\ c = Wrap(heap[Here.next].leaves + 1)
       /\ father # Null => e = Wrap(heap[father].leaves + c - Wrap(Here.leaves + 1))

\* The node that holds the key being put, and the one that holds the key of the
\* leaf that was split.
NewSon(m, node) ==
  LET at == Append(Prefix(m), NewNibble(m))
  IN \/ node = Leaf(at, After(hex, start + m), value)
     \/ node = Value(at, value) /\ Here.type = "LEAF" /\ m = Len(Here.path) - 1

OldSon(m, node) ==
  LET at == Append(Prefix(m), OldNibble(m))
  IN \/ node = Leaf(at, After(Here.path, m), Here.value)
     \/ node = Value(at, Here.value) /\ m = Len(Here.path) - 1

\* The step splits the current node.
Splits ==
  /\ father = Null \/ FatherIsBranch
  /\ \E m, old, sons :
       /\ PartsAt(m) /\ SonsOK(m, old, sons)
       /\ NewSon(m, sons[brk + 2])
       /\ Here.type = "LEAF" => OldSon(m, sons[brk + 3])
       /\ Here.type = "EXTENSION" /\ old \notin Orphans =>
            sons[old].type = "EXTENSION" /\ sons[old].leaves = heap[Here.next].leaves
       /\ \E c \in Count, e \in Count : Spliced(m, old, sons, c, e) /\ Counts(c, e)

\* What put's cursor says when the current node is about to be replaced.
LEMMA ReplacedSlot ==
  ASSUME Inv, pc = "put", current # Null, father = Null \/ FatherIsBranch
  PROVE  /\ current \in DOMAIN heap /\ elIndex \in Nibble /\ elIndex \in Slot
         /\ father = Null => current = root
         /\ father # Null => /\ father \in DOMAIN heap \ {current}
                             /\ heap[father].type = "BRANCH"
                             /\ Target(heap[father], elIndex) = current
                             /\ heap[father].children[elIndex] = current
                             /\ Here.at = heap[father].at \o <<elIndex>>
                             /\ current # root
<1>1. /\ current \in DOMAIN heap /\ elIndex \in Nibble
      /\ father = Null => current = root
      /\ father # Null => /\ father \in DOMAIN heap /\ heap[father].type = "BRANCH"
                          /\ Target(heap[father], elIndex) = current
  BY DEF Inv, CallOK, CursorLinked, TypeOK, FatherIsBranch
<1>2. elIndex \in Slot
  BY <1>1 DEF Slot, Nibble
<1>3. ASSUME father # Null
      PROVE  /\ father # current /\ heap[father].children[elIndex] = current
             /\ Here.at = heap[father].at \o <<elIndex>> /\ current # root
  <2>1. /\ heap[father].children[elIndex] = current /\ current # root
        /\ heap[current].at = heap[father].at \o <<elIndex>>
        /\ Len(heap[current].at) = Len(heap[father].at) + 1
    BY <1>1, <1>3, BranchChild DEF Inv, NodesOK
  <2>2. Len(heap[father].at) \in Nat
    BY <1>1, <1>3, NodeTypes, LenProperties DEF Inv
  <2>3. father # current
    BY <2>1, <2>2
  <2> QED
    BY <2>1, <2>3 DEF Here
<1> QED
  BY <1>1, <1>2, <1>3

\* Splice does what Spliced says.
LEMMA SpliceHeap ==
  ASSUME Inv, pc = "put", current # Null, father = Null \/ FatherIsBranch,
         NEW m, NEW old, NEW sons,
         DOMAIN sons \subseteq {current, brk + 2, brk + 3},
         LeavesCount(Overlay(heap, sons)[old]) \in Nat,
         current \in DOMAIN sons => LeavesCount(sons[current]) \in Nat,
         Splice(m, old, brk + 2, sons)
  PROVE  /\ Return("done")
         /\ \E c \in Count, e \in Count :
              Spliced(m, old, sons, c, e) /\ CountsOf(old, sons, c, e)
<1> DEFINE below == Overlay(heap, sons)
           count == Wrap(LeavesCount(below[old]) + 1)
           br    == Branch(Prefix(m), OldNibble(m), old, NewNibble(m), brk + 2, count)
           fex   == Extension(Here.at, SubSeq(Here.path, 1, m), brk, count)
           forked == [a \in Fork(m) |-> IF a = brk THEN br ELSE fex]
           fork  == Overlay(below, forked)
           done  == IF father = Null THEN fork ELSE Replace(fork, Top(m))
<1>1. /\ heap' = [a \in DOMAIN done \ {current} |-> done[a]]
      /\ root' = IF father = Null THEN Top(m) ELSE root
      /\ brk' = brk + 4 /\ Return("done")
  <2>1. (IF m = 0 THEN [a \in {brk} |-> br]
         ELSE [a \in {brk, brk + 1} |-> IF a = brk THEN br ELSE fex]) = forked
    BY DEF Fork
  <2> HIDE DEF forked
  <2>2. /\ heap' = [a \in DOMAIN done \ {current} |-> done[a]]
        /\ root' = IF father = Null THEN Top(m) ELSE root
        /\ brk' = brk + 4 /\ Return("done")
    BY <2>1 DEF Splice, Here, Prefix, OldNibble, NewNibble, Top
  <2> QED
    BY <2>2
<1>2. count \in Count
  BY WrapTyped
<1> HIDE DEF count, br, fex
<1>3. brk \in Nat \ {0} /\ DOMAIN heap \subseteq 1..(brk - 1)
  BY DEF Inv, TypeOK
<1>4. /\ current \in DOMAIN heap
      /\ father # Null => father \in DOMAIN heap \ {current}
      /\ father # Null => heap[father].children[elIndex] = current
  BY ReplacedSlot
<1>5. /\ Fork(m) \cap DOMAIN heap = {} /\ Fork(m) \cap DOMAIN sons = {}
      /\ DOMAIN sons \cap DOMAIN heap \subseteq {current}
      /\ brk \in Fork(m) /\ (m # 0 => brk + 1 \in Fork(m)) /\ Top(m) \in Fork(m)
  BY <1>3, <1>4 DEF Fork, Top
<1>6. /\ DOMAIN fork = DOMAIN heap \cup DOMAIN sons \cup Fork(m)
      /\ fork[brk] = br /\ (m # 0 => fork[brk + 1] = fex)
      /\ \A a \in DOMAIN sons : fork[a] = sons[a]
      /\ \A n \in DOMAIN heap \ DOMAIN sons : fork[n] = heap[n]
  BY <1>3, <1>5 DEF Overlay
<1>7. ASSUME father # Null
      PROVE  \E e \in Count :
               /\ done = [fork EXCEPT ![father] = Redirect(fork[father], elIndex, Top(m), e)]
               /\ e = Wrap(heap[father].leaves + count - LeavesCount(below[current]))
  <2>1. father \notin DOMAIN sons
    BY <1>3, <1>4, <1>7
  <2>2. fork[father] = heap[father]
    BY <1>4, <1>6, <1>7, <2>1
  <2>3. LeavesCount(fork[Top(m)]) = count /\ count \in Int
    <3>1. fork[Top(m)] = br \/ fork[Top(m)] = fex
      BY <1>6 DEF Top
    <3>2. LeavesCount(br) = count /\ LeavesCount(fex) = count
      BY DEF br, fex, Branch, Extension, LeavesCount
    <3>3. \A k \in Count : k \in Int
      BY CountIsNat
    <3> QED
      BY <1>2, <3>1, <3>2, <3>3
  <2>4. LeavesCount(fork[current]) \in Int
    <3>1. CASE current \in DOMAIN sons
      BY <1>6, <3>1
    <3>2. CASE current \notin DOMAIN sons
      BY <1>4, <1>6, <3>2, LeavesCountTyped DEF Inv
    <3> QED
      BY <3>1, <3>2
  <2>5. fork[father].leaves \in Int
    <3>1. heap[father].leaves \in Count
      BY <1>4, <1>7, ReplacedSlot, NodeFields DEF Inv
    <3>2. \A k \in Count : k \in Int
      BY CountIsNat
    <3> QED
      BY <2>2, <3>1, <3>2
  <2> DEFINE e == Wrap(fork[father].leaves + LeavesCount(fork[Top(m)]) - LeavesCount(fork[current]))
  <2>6. e \in Count
    <3>1. fork[father].leaves + LeavesCount(fork[Top(m)]) - LeavesCount(fork[current]) \in Int
      BY <2>3, <2>4, <2>5
    <3> QED
      BY <3>1, WrapTyped
  <2>7. Replace(fork, Top(m)) = [fork EXCEPT ![father] = Redirect(fork[father], elIndex, Top(m), e)]
    <3>1. fork[father].children[elIndex] = current
      BY <1>4, <1>7, <2>2
    <3> HIDE DEF fork
    <3> QED
      BY <3>1 DEF Replace
  <2>8. fork[current] = below[current]
    BY <1>3, <1>4, <1>5, <1>6 DEF Overlay
  <2>9. e = Wrap(heap[father].leaves + count - LeavesCount(below[current]))
    <3> HIDE DEF fork, below
    <3> QED
      BY <2>2, <2>3, <2>8
  <2> HIDE DEF fork, e, below
  <2>10. done = Replace(fork, Top(m))
    BY <1>7
  <2> QED
    BY <2>6, <2>7, <2>9, <2>10
<1> HIDE DEF fork
<1>8. PICK e \in Count :
        /\ done = IF father = Null THEN fork
                  ELSE [fork EXCEPT ![father] = Redirect(fork[father], elIndex, Top(m), e)]
        /\ father # Null => e = Wrap(heap[father].leaves + count - LeavesCount(below[current]))
  BY <1>2, <1>7
<1> HIDE DEF done
<1>9. father # Null => father \in DOMAIN fork /\ father \notin DOMAIN sons /\ father \notin Fork(m)
  BY <1>3, <1>4, <1>5, <1>6
<1>10. /\ DOMAIN done = DOMAIN heap \cup DOMAIN sons \cup Fork(m)
       /\ \A n \in DOMAIN done :
            done[n] = IF n = father /\ father # Null
                      THEN Redirect(fork[father], elIndex, Top(m), e) ELSE fork[n]
  BY <1>6, <1>8, <1>9
<1>11. /\ DOMAIN heap' = (DOMAIN heap \ {current}) \cup (DOMAIN sons \ {current}) \cup Fork(m)
       /\ \A n \in DOMAIN heap' : heap'[n] = done[n]
       /\ heap' = [n \in DOMAIN heap' |-> heap'[n]]
  BY <1>1, <1>4, <1>5, <1>10
<1>12. Null \notin DOMAIN heap
  BY <1>3 DEF Null
<1>13. Spliced(m, old, sons, count, e)
  <2>1. /\ heap'[brk] = br
        /\ m # 0 => heap'[brk + 1] = fex
    BY <1>5, <1>6, <1>9, <1>10, <1>11
  <2>2. \A a \in DOMAIN sons \ {current} : heap'[a] = sons[a]
    BY <1>6, <1>9, <1>10, <1>11
  <2>3. \A n \in DOMAIN heap \ {current} :
          heap'[n] = IF n = father THEN Redirect(heap[n], elIndex, Top(m), e) ELSE heap[n]
    <3>1. \A n \in DOMAIN heap \ {current} : fork[n] = heap[n] /\ n # Null
      BY <1>5, <1>6, <1>12
    <3> QED
      BY <1>10, <1>11, <3>1
  <2> QED
    BY <1>1, <1>11, <2>1, <2>2, <2>3 DEF Spliced, br, fex
<1>14. CountsOf(old, sons, count, e)
  BY <1>8 DEF CountsOf, count
<1> QED
  BY <1>1, <1>2, <1>13, <1>14

\* A split that is spliced in keeps the invariant.
LEMMA InvSplice ==
  ASSUME Inv, pc = "put", current # Null, father = Null \/ FatherIsBranch,
         NEW m, NEW old, NEW sons, NEW c \in Count, NEW e \in Count,
         PartsAt(m), SonsOK(m, old, sons), Spliced(m, old, sons, c, e), Return("done")
  PROVE  Inv'
<1> DEFINE Kept  == DOMAIN heap \ {current}
           Mine  == DOMAIN sons \ {current}
           Fresh == Mine \cup Fork(m)
           new   == brk + 2
<1>1. /\ brk \in Nat \ {0} /\ DOMAIN heap \subseteq 1..(brk - 1)
      /\ Null \notin DOMAIN heap
  BY DEF Inv, TypeOK, Null
<1>2. /\ current \in DOMAIN heap /\ elIndex \in Nibble /\ elIndex \in Slot
      /\ father = Null => current = root
      /\ father # Null => /\ father \in DOMAIN heap \ {current}
                          /\ heap[father].type = "BRANCH"
                          /\ Target(heap[father], elIndex) = current
                          /\ Here.at = heap[father].at \o <<elIndex>>
                          /\ current # root
  BY ReplacedSlot
<1>3. TypeOK /\ TreeShape
  BY DEF Inv, NodesOK
<1>4. /\ Mine = {new} \cup ({old} \ Orphans) /\ Mine \subseteq {brk + 2, brk + 3}
      /\ old \in {brk + 3} \cup Orphans
  BY DEF SonsOK
<1>5. Here.type = "EXTENSION" =>
        /\ Target(Here, 16) = Here.next /\ 16 \in Slot
        /\ Here.next \in DOMAIN heap /\ Here.next # root /\ Here.next # Null
        /\ heap[Here.next].type = "BRANCH"
  BY <1>2, <1>3, ExtensionNext DEF Here
<1>6. /\ Orphans \subseteq Kept /\ root \notin Orphans
      /\ \A o \in Orphans : Here.type = "EXTENSION" /\ o = Here.next
  <2>1. Here.next # current \/ Here.type # "EXTENSION"
    <3> SUFFICES ASSUME Here.type = "EXTENSION", Here.next = current PROVE FALSE
      OBVIOUS
    <3>1. heap[current].type = "BRANCH" /\ heap[current].type = "EXTENSION"
      BY <1>5 DEF Here
    <3> QED
      BY <3>1
  <2> QED
    BY <1>5, <2>1 DEF Orphans
<1>7. /\ Fresh \cap DOMAIN heap = {} /\ Null \notin Fresh
      /\ Fresh \subseteq brk..(brk + 3) /\ Top(m) \in Fork(m) /\ brk \in Fork(m)
      /\ Fork(m) \subseteq {brk, brk + 1}
  BY <1>1, <1>4 DEF Fork, Top, Null
<1>8. old \in Nat /\ new \in Nat /\ old # new /\ old # Null /\ new # Null
  BY <1>1, <1>4, <1>6 DEF Null

\* The nodes after the step.
<1>9. /\ DOMAIN heap' = Kept \cup Fresh
      /\ heap' = [n \in DOMAIN heap' |-> heap'[n]]
      /\ root' = IF father = Null THEN Top(m) ELSE root
      /\ brk' = brk + 4
  BY DEF Spliced
<1>10. /\ heap'[brk].type = "BRANCH" /\ heap'[brk].at = Prefix(m) /\ heap'[brk] \in Nodes
       /\ \A s \in Nibble : Label(heap'[brk], s) = <<s>>
       /\ \A s \in Slot : Target(heap'[brk], s) = IF s = OldNibble(m) THEN old
                                                  ELSE IF s = NewNibble(m) THEN new ELSE Null
  <2>1. heap'[brk] = Branch(Prefix(m), OldNibble(m), old, NewNibble(m), new, c)
    BY DEF Spliced
  <2>2. OldNibble(m) \in Nibble /\ NewNibble(m) \in Nibble /\ Prefix(m) \in Seq(Nibble)
    BY DEF PartsAt
  <2> HIDE DEF new
  <2>3. heap'[brk] \in Nodes
    BY <1>8, <2>1, <2>2, BranchTyped
  <2> QED
    BY <2>1, <2>2, <2>3, BranchFields
<1>11. m # 0 =>
         /\ heap'[brk + 1].type = "EXTENSION" /\ heap'[brk + 1].at = Here.at
         /\ heap'[brk + 1].next = brk
         /\ heap'[brk + 1] \in Nodes /\ Label(heap'[brk + 1], 16) = SubSeq(Here.path, 1, m)
         /\ \A s \in Slot : Target(heap'[brk + 1], s) = IF s = 16 THEN brk ELSE Null
  <2> SUFFICES ASSUME m # 0
               PROVE  /\ heap'[brk + 1].type = "EXTENSION" /\ heap'[brk + 1].at = Here.at
                      /\ heap'[brk + 1].next = brk
                      /\ heap'[brk + 1] \in Nodes
                      /\ Label(heap'[brk + 1], 16) = SubSeq(Here.path, 1, m)
                      /\ \A s \in Slot : Target(heap'[brk + 1], s) = IF s = 16 THEN brk ELSE Null
    OBVIOUS
  <2>1. heap'[brk + 1] = Extension(Here.at, SubSeq(Here.path, 1, m), brk, c)
    BY DEF Spliced
  <2>2. Here.at \in Seq(Nibble) /\ SubSeq(Here.path, 1, m) \in Seq(Nibble) /\ brk \in Nat
    BY <1>1, <1>2, <1>3, NodeTypes DEF PartsAt, Here
  <2>3. heap'[brk + 1] \in Nodes
    BY <2>1, <2>2, ExtensionTyped
  <2>4. /\ heap'[brk + 1].type = "EXTENSION" /\ heap'[brk + 1].at = Here.at
        /\ heap'[brk + 1].next = brk
    BY <2>1, ExtensionFields
  <2>5. Label(heap'[brk + 1], 16) = SubSeq(Here.path, 1, m)
    <3> DEFINE stem == SubSeq(Here.path, 1, m)
    <3>1. heap'[brk + 1] = Extension(Here.at, stem, brk, c)
      BY <2>1
    <3> HIDE DEF stem
    <3>2. Label(heap'[brk + 1], 16) = stem
      BY <3>1, ExtensionFields
    <3> QED
      BY <3>2 DEF stem
  <2>6. \A s \in Slot : Target(heap'[brk + 1], s) = IF s = 16 THEN brk ELSE Null
    BY <2>1, ExtensionFields
  <2> QED
    BY <2>3, <2>4, <2>5, <2>6
<1>12. heap'[Top(m)].at = Here.at
  <2>1. CASE m = 0
    <3>1. SubSeq(Here.path, 1, 0) = <<>>
      BY SubSeqEmpty
    <3>2. Here.at \in Seq(Nibble)
      BY <1>2, <1>3, NodeTypes DEF Here
    <3>3. Here.at \o <<>> = Here.at
      BY <3>2, ConcatEmptySeq
    <3> QED
      BY <1>10, <2>1, <3>1, <3>3 DEF Top, Prefix
  <2>2. CASE m # 0
    BY <1>11, <2>2 DEF Top
  <2> QED
    BY <2>1, <2>2
<1>13. \A a \in Mine : heap'[a] = sons[a]
  BY DEF Spliced
<1>14. \A n \in Kept :
         /\ heap'[n] \in Nodes /\ heap'[n].at = heap[n].at /\ heap'[n].type = heap[n].type
         /\ \A s \in Slot : Label(heap'[n], s) = Label(heap[n], s)
         /\ \A s \in Slot : Target(heap'[n], s) =
              IF n = father /\ s = elIndex THEN Top(m) ELSE Target(heap[n], s)
  <2> TAKE n \in Kept
  <2>1. CASE n = father
    <3>1. n \in DOMAIN heap /\ heap[n].type = "BRANCH"
      BY <1>1, <1>2, <2>1
    <3>2. heap'[n] = Redirect(heap[n], elIndex, Top(m), e)
      BY <2>1 DEF Spliced
    <3>3. Top(m) \in Nat
      BY <1>1 DEF Top
    <3> QED
      BY <1>2, <1>3, <2>1, <3>1, <3>2, <3>3, NewChild
  <2>2. CASE n # father
    <3>1. heap'[n] = heap[n] /\ heap[n] \in Nodes
      BY <1>3, <2>2 DEF Spliced, TypeOK
    <3> QED
      BY <2>2, <3>1
  <2> QED
    BY <2>1, <2>2

\* Its pointers.
<1>15. ASSUME NEW n \in Kept, NEW s \in Slot, Edge(heap', n, s)
       PROVE  Target(heap'[n], s) \in (Kept \ (Orphans \cup {root'})) \cup {Top(m)}
  <2>1. CASE n = father /\ s = elIndex
    BY <1>14, <2>1
  <2>2. CASE ~(n = father /\ s = elIndex)
    <3> DEFINE t == Target(heap[n], s)
    <3>1. Target(heap'[n], s) = t
      BY <1>14, <2>2
    <3>2. t # Null /\ t \in DOMAIN heap /\ t # root
      BY <1>3, <1>15, <3>1 DEF Edge, TreeShape, PointersOK
    <3>3. t # current
      <4>1. CASE father = Null
        BY <1>2, <3>2, <4>1
      <4>2. CASE father # Null
        BY <1>2, <1>3, <2>2, <3>2, <4>2 DEF TreeShape, NoSharing
      <4> QED
        BY <4>1, <4>2
    <3>4. t \notin Orphans
      <4> SUFFICES ASSUME t \in Orphans PROVE FALSE
        OBVIOUS
      <4>1. t = Target(heap[current], 16) /\ 16 \in Slot
        BY <1>5, <1>6 DEF Here
      <4>2. n = current
        BY <1>2, <1>3, <3>2, <4>1 DEF TreeShape, NoSharing
      <4> QED
        BY <4>2
    <3>5. t # root'
      BY <1>7, <1>9, <3>2
    <3> QED
      BY <3>1, <3>2, <3>3, <3>4, <3>5
  <2> QED
    BY <2>1, <2>2
<1>16. ASSUME NEW n \in Fresh, NEW s \in Slot, Edge(heap', n, s)
       PROVE  \/ n = brk /\ s = OldNibble(m) /\ Target(heap'[n], s) = old
              \/ n = brk /\ s = NewNibble(m) /\ Target(heap'[n], s) = new
              \/ n = brk + 1 /\ m # 0 /\ s = 16 /\ Target(heap'[n], s) = brk
              \/ /\ n = old /\ old \notin Orphans /\ s = 16 /\ sons[old].type = "EXTENSION"
                 /\ Here.type = "EXTENSION" /\ Target(heap'[n], s) = Here.next
  <2>1. CASE n = brk
    BY <1>10, <1>16, <2>1 DEF Edge
  <2>2. CASE n = brk + 1
    <3>1. m # 0
      BY <1>1, <1>4, <2>2 DEF Fork
    <3> QED
      BY <1>11, <1>16, <2>2, <3>1 DEF Edge
  <2>3. CASE n = new
    <3>1. heap'[n] = sons[new] /\ sons[new].type \in {"LEAF", "VALUE"}
      BY <1>4, <1>13, <2>3 DEF SonsOK
    <3>2. Target(heap'[n], s) = Null
      BY <3>1 DEF Target
    <3> QED
      BY <1>16, <3>2 DEF Edge
  <2>4. CASE n = old /\ old \notin Orphans
    <3>1. /\ heap'[n] = sons[old] /\ sons[old].type \in {"LEAF", "VALUE", "EXTENSION"}
          /\ sons[old].type = "EXTENSION" =>
               Here.type = "EXTENSION" /\ sons[old].next = Here.next
      BY <1>4, <1>13, <2>4 DEF SonsOK
    <3>2. Target(heap'[n], s) # Null
      BY <1>16 DEF Edge
    <3>3. sons[old].type = "EXTENSION" /\ s = 16 /\ Target(heap'[n], s) = sons[old].next
      BY <3>1, <3>2 DEF Target
    <3> QED
      BY <2>4, <3>1, <3>3
  <2> QED
    BY <1>4, <1>7, <2>1, <2>2, <2>3, <2>4
<1>17. ASSUME NEW n \in Fresh, NEW s \in Slot, Edge(heap', n, s)
       PROVE  /\ Target(heap'[n], s) \in (Fresh \ {Top(m)}) \cup Orphans
              /\ heap'[Target(heap'[n], s)].at = heap'[n].at \o Label(heap'[n], s)
  <2>1. /\ Append(Prefix(m), OldNibble(m)) = Prefix(m) \o <<OldNibble(m)>>
        /\ Append(Prefix(m), NewNibble(m)) = Prefix(m) \o <<NewNibble(m)>>
        /\ OldNibble(m) \in Nibble /\ NewNibble(m) \in Nibble
    BY AppendIsConcat DEF PartsAt
  <2>2. Top(m) # old /\ Top(m) # new /\ (m # 0 => Top(m) # brk)
    BY <1>1, <1>4, <1>6 DEF Top
  <2>3. CASE n = brk /\ s = OldNibble(m) /\ Target(heap'[n], s) = old
    <3>1. heap'[old].at = Append(Prefix(m), OldNibble(m))
      <4>1. CASE old \in Orphans
        BY <1>6, <1>14, <4>1 DEF SonsOK
      <4>2. CASE old \notin Orphans
        BY <1>4, <1>13, <4>2 DEF SonsOK
      <4> QED
        BY <4>1, <4>2
    <3>2. old \in (Fresh \ {Top(m)}) \cup Orphans
      BY <1>4, <2>2
    <3> QED
      BY <1>10, <2>1, <2>3, <3>1, <3>2
  <2>4. CASE n = brk /\ s = NewNibble(m) /\ Target(heap'[n], s) = new
    <3>1. heap'[new].at = Append(Prefix(m), NewNibble(m))
      BY <1>4, <1>13 DEF SonsOK
    <3>2. new \in Fresh \ {Top(m)}
      BY <1>4, <2>2
    <3> QED
      BY <1>10, <2>1, <2>4, <3>1, <3>2
  <2>5. CASE n = brk + 1 /\ m # 0 /\ s = 16 /\ Target(heap'[n], s) = brk
    <3>1. heap'[brk].at = heap'[brk + 1].at \o Label(heap'[brk + 1], 16)
      BY <1>10, <1>11, <2>5 DEF Prefix
    <3>2. brk \in Fresh \ {Top(m)}
      BY <1>7, <2>2, <2>5
    <3> QED
      BY <2>5, <3>1, <3>2
  <2>6. CASE /\ n = old /\ old \notin Orphans /\ s = 16 /\ sons[old].type = "EXTENSION"
             /\ Here.type = "EXTENSION" /\ Target(heap'[n], s) = Here.next
    <3>1. heap[Here.next].at = sons[old].at \o sons[old].path /\ heap'[old] = sons[old]
      BY <1>4, <1>13, <2>6 DEF SonsOK
    <3>2. Here.next \in Orphans
      BY <2>6 DEF Orphans
    <3>3. heap'[Here.next].at = heap[Here.next].at
      BY <1>6, <1>14, <3>2
    <3>4. Label(heap'[old], 16) = sons[old].path
      BY <3>1 DEF Label
    <3> QED
      BY <2>6, <3>1, <3>2, <3>3, <3>4
  <2> QED
    BY <1>16, <1>17, <2>3, <2>4, <2>5, <2>6
<1>18. ASSUME NEW n \in Fresh, NEW s \in Slot, Edge(heap', n, s),
              NEW k \in Fresh, NEW t \in Slot, Target(heap'[k], t) = Target(heap'[n], s)
       PROVE  k = n /\ t = s
  <2>1. Edge(heap', k, t)
    BY <1>18 DEF Edge
  <2>2. OldNibble(m) # NewNibble(m)
    BY DEF PartsAt
  <2>3. brk # old /\ brk # new /\ brk + 1 # brk
    BY <1>1, <1>4, <1>6
  <2>4. Here.type = "EXTENSION" => Here.next # brk /\ Here.next # new
    BY <1>1, <1>5
  <2>5. Here.type = "EXTENSION" /\ old \notin Orphans => old # Here.next
    BY DEF Orphans
  <2> QED
    BY <1>8, <1>16, <1>18, <2>1, <2>2, <2>3, <2>4, <2>5
<1>19. \A n \in Fresh : heap'[n].type = "EXTENSION" =>
         heap'[n].next \in DOMAIN heap' /\ heap'[heap'[n].next].type = "BRANCH"
  <2> SUFFICES ASSUME NEW n \in Fresh, heap'[n].type = "EXTENSION"
               PROVE  heap'[n].next \in DOMAIN heap' /\ heap'[heap'[n].next].type = "BRANCH"
    OBVIOUS
  <2>1. n # brk /\ n # new
    <3>1. heap'[new].type \in {"LEAF", "VALUE"}
      BY <1>4, <1>13 DEF SonsOK
    <3> QED
      BY <1>10, <3>1
  <2>2. CASE n = brk + 1
    <3>1. m # 0
      BY <1>1, <1>4, <2>2 DEF Fork
    <3> QED
      BY <1>7, <1>9, <1>10, <1>11, <2>2, <3>1
  <2>3. CASE n = old /\ old \notin Orphans
    <3>1. heap'[n].next = Here.next /\ Here.type = "EXTENSION"
      BY <1>4, <1>13, <2>3 DEF SonsOK
    <3>2. Here.next \in Kept /\ heap[Here.next].type = "BRANCH"
      BY <1>5, <1>6, <3>1 DEF Orphans
    <3> QED
      BY <1>9, <1>14, <3>1, <3>2
  <2> QED
    BY <1>4, <1>7, <2>1, <2>2, <2>3

<1>20. Grafted(Kept, Fresh, Top(m), father, elIndex, Orphans)
  <2>1. father # Null => /\ heap'[Top(m)].at = heap[father].at \o Label(heap[father], elIndex)
                         /\ heap[father].type # "EXTENSION"
    <3>1. Label(heap[father], elIndex) = <<elIndex>>
      BY <1>2 DEF Label, Nibble
    <3> QED
      BY <1>2, <1>12, <3>1
  <2>2. father = Null => heap'[Top(m)].at = <<>>
    BY <1>2, <1>3, <1>12 DEF TreeShape, RootOK, Here
  <2>3. father # Null => root \in Kept \cup {Null}
    BY <1>2, <1>3 DEF TreeShape, RootOK
  <2>4. root' \notin Orphans
    BY <1>6, <1>7, <1>9
  <2>5. father \in Kept \cup {Null} /\ Kept \subseteq DOMAIN heap /\ Top(m) \in Fresh
    BY <1>2, <1>7
  <2> HIDE DEF Kept, Fresh
  <2> QED
    BY <1>1, <1>2, <1>6, <1>7, <1>9, <1>14, <1>15, <1>17, <1>18, <1>19,
       <2>1, <2>2, <2>3, <2>4, <2>5 DEF Grafted
<1>21. FreshOK(Fresh)
  <2>1. brk' \in Nat /\ brk <= brk' /\ Fresh \subseteq brk..(brk' - 1)
    BY <1>1, <1>7, <1>9
  <2>2. ASSUME NEW n \in Mine
        PROVE  /\ heap'[n] \in Nodes
               /\ heap'[n].type = "LEAF" =>
                    \A j \in 1..Len(heap'[n].path) :
                      Len(heap'[n].at) + j <= HexLen => heap'[n].path[j] \in Nibble
               /\ heap'[n].type # "BRANCH"
    BY <1>4, <1>13 DEF SonsOK
  <2>3. heap'[brk].type = "BRANCH" /\ Len(heap'[brk].at) < HexLen /\ heap'[brk] \in Nodes
    BY <1>10 DEF PartsAt
  <2>4. m # 0 => heap'[brk + 1].type = "EXTENSION" /\ heap'[brk + 1] \in Nodes
    BY <1>11
  <2>5. \A n \in Fresh : n \in Mine \/ n = brk \/ (n = brk + 1 /\ m # 0)
    BY DEF Fork
  <2> HIDE DEF Fresh, Mine
  <2> QED
    BY <2>1, <2>2, <2>3, <2>4, <2>5 DEF FreshOK
<1> HIDE DEF Kept, Fresh
<1> QED
  BY <1>9, <1>14, <1>20, <1>21, InvGraft

\* A path is what precedes nibble m, that nibble, and what follows it.
LEMMA Rejoin ==
  ASSUME NEW S, NEW a \in Seq(S), NEW q \in Seq(S), NEW m \in Nat, m < Len(q)
  PROVE  /\ a \o q = Append(a \o SubSeq(q, 1, m), q[m + 1]) \o After(q, m)
         /\ m = Len(q) - 1 => a \o q = Append(a \o SubSeq(q, 1, m), q[m + 1])
<1> DEFINE stem == SubSeq(q, 1, m)
           up   == a \o stem
           at   == Append(up, q[m + 1])
           rest == After(q, m)
<1>1. Len(a) \in Nat /\ Len(q) \in Nat /\ \A j \in 1..Len(q) : q[j] \in S
  BY LenProperties, ElementOfSeq
<1>2. stem \in Seq(S) /\ Len(stem) = m /\ \A j \in 1..m : stem[j] = q[j]
  BY <1>1, SubSeqProperties
<1>3. /\ rest \in Seq(S) /\ Len(rest) = Len(q) - m - 1
      /\ \A j \in 1..(Len(q) - m - 1) : rest[j] = q[m + 1 + j]
  BY AfterProperties
<1> HIDE DEF stem, rest
<1>4. /\ up \in Seq(S) /\ Len(up) = Len(a) + m
      /\ \A j \in 1..(Len(a) + m) : up[j] = IF j <= Len(a) THEN a[j] ELSE stem[j - Len(a)]
  BY <1>2, ConcatProperties
<1> HIDE DEF up
<1>5. /\ at \in Seq(S) /\ Len(at) = Len(a) + m + 1 /\ at[Len(a) + m + 1] = q[m + 1]
      /\ \A j \in 1..(Len(a) + m) : at[j] = up[j]
  BY <1>1, <1>4, AppendProperties
<1> HIDE DEF at
<1>6. /\ at \o rest \in Seq(S) /\ Len(at \o rest) = Len(a) + Len(q)
      /\ \A j \in 1..(Len(a) + Len(q)) :
           (at \o rest)[j] = IF j <= Len(a) + m + 1 THEN at[j] ELSE rest[j - (Len(a) + m + 1)]
  <2>1. /\ at \o rest \in Seq(S) /\ Len(at \o rest) = Len(at) + Len(rest)
        /\ \A j \in 1..(Len(at) + Len(rest)) :
             (at \o rest)[j] = IF j <= Len(at) THEN at[j] ELSE rest[j - Len(at)]
    BY <1>3, <1>5, ConcatProperties
  <2>2. Len(at) + Len(rest) = Len(a) + Len(q)
    BY <1>1, <1>3, <1>5
  <2> QED
    BY <1>5, <2>1, <2>2
<1>7. /\ a \o q \in Seq(S) /\ Len(a \o q) = Len(a) + Len(q)
      /\ \A j \in 1..(Len(a) + Len(q)) : (a \o q)[j] = IF j <= Len(a) THEN a[j] ELSE q[j - Len(a)]
  BY ConcatProperties
<1>8. ASSUME NEW j \in 1..(Len(a) + Len(q)) PROVE (a \o q)[j] = (at \o rest)[j]
  <2>1. CASE j <= Len(a)
    <3>1. j \in 1..(Len(a) + m) /\ j <= Len(a) + m + 1
      BY <1>1, <2>1
    <3>2. (at \o rest)[j] = a[j]
      BY <1>4, <1>5, <1>6, <2>1, <3>1
    <3> QED
      BY <1>7, <2>1, <3>2
  <2>2. CASE j > Len(a) /\ j <= Len(a) + m
    <3>1. j - Len(a) \in 1..m
      BY <1>1, <2>2
    <3>2. (at \o rest)[j] = q[j - Len(a)]
      BY <1>1, <1>2, <1>4, <1>5, <1>6, <2>2, <3>1
    <3> QED
      BY <1>1, <1>7, <2>2, <3>2
  <2>3. CASE j = Len(a) + m + 1
    BY <1>1, <1>5, <1>6, <1>7, <2>3
  <2>4. CASE j > Len(a) + m + 1
    <3>1. /\ j - (Len(a) + m + 1) \in 1..(Len(q) - m - 1)
          /\ m + 1 + (j - (Len(a) + m + 1)) = j - Len(a)
      BY <1>1, <2>4
    <3>2. rest[j - (Len(a) + m + 1)] = q[j - Len(a)]
      BY <1>3, <3>1
    <3>3. (at \o rest)[j] = rest[j - (Len(a) + m + 1)]
      BY <1>1, <1>6, <2>4
    <3>4. (a \o q)[j] = q[j - Len(a)]
      BY <1>1, <1>7, <2>4
    <3> QED
      BY <3>2, <3>3, <3>4
  <2>5. \/ j <= Len(a) \/ (j > Len(a) /\ j <= Len(a) + m)
        \/ j = Len(a) + m + 1 \/ j > Len(a) + m + 1
    BY <1>1
  <2> QED
    BY <2>1, <2>2, <2>3, <2>4, <2>5
<1>9. a \o q = at \o rest
  BY <1>6, <1>7, <1>8, SeqEqual
<1>10. ASSUME m = Len(q) - 1 PROVE a \o q = at
  <2>1. rest = <<>>
    BY <1>1, <1>3, <1>10, EmptySeq
  <2>2. at \o <<>> = at
    BY <1>5, ConcatEmptySeq
  <2> QED
    BY <1>9, <2>1, <2>2
<1> QED
  BY <1>9, <1>10 DEF at, up, stem, rest

\* compare within the key finds where the two part.
LEMMA Parts ==
  ASSUME Inv, pc = "put", current # Null, Here.type \in {"LEAF", "EXTENSION"},
         NEW m \in Compare(Here.path) \ {-1}, start + m < HexLen
  PROVE  PartsAt(m)
<1>1. /\ current \in DOMAIN heap /\ Len(Here.at) = start /\ Here.at \in Seq(Nibble)
      /\ start \in Nat /\ HexLen \in Nat /\ \A j \in 1..HexLen : hex[j] \in Nibble
  BY PutCursor, NodeTypes DEF Inv, Here
<1>2. Here.path \in Seq(Nibble \cup {Junk}) /\ Len(Here.path) \in Nat
  <2>1. CASE Here.type = "LEAF"
    BY <1>1, <2>1, NodeFields, LenProperties DEF Inv, Here
  <2>2. CASE Here.type = "EXTENSION"
    <3>1. Here.path \in Seq(Nibble)
      BY <1>1, <2>2, NodeFields DEF Inv, Here
    <3> QED
      BY <3>1, SeqMonotonic, LenProperties
  <2> QED
    BY <2>1, <2>2
<1>3. \A j \in 1..Len(Here.path) : start + j <= HexLen => Here.path[j] \in Nibble
  <2>1. CASE Here.type = "LEAF"
    BY <1>1, <2>1 DEF Inv, NodesOK, LeafNibbles, Here
  <2>2. CASE Here.type = "EXTENSION"
    <3>1. Here.path \in Seq(Nibble)
      BY <1>1, <2>2, NodeFields DEF Inv, Here
    <3> QED
      BY <3>1, ElementOfSeq
  <2> QED
    BY <2>1, <2>2
<1>4. /\ m \in Nat /\ m + 1 \in 1..Len(Here.path)
      /\ start + (m + 1) > HexLen \/ Here.path[m + 1] # hex[start + (m + 1)]
  BY <1>2 DEF Compare
<1>5. m < Len(Here.path) /\ OldNibble(m) # NewNibble(m)
  BY <1>1, <1>2, <1>4 DEF OldNibble, NewNibble
<1>6. \A j \in 1..m : Here.path[j] = hex[start + j]
  <2>1. \A j \in 1..m : start + j > HexLen \/ Here.path[j] = hex[start + j]
    BY <1>2 DEF Compare
  <2> QED
    BY <1>1, <1>4, <2>1
<1>7. OldNibble(m) \in Nibble /\ NewNibble(m) \in Nibble
  BY <1>1, <1>3, <1>4 DEF OldNibble, NewNibble
<1>8. SubSeq(Here.path, 1, m) \in Seq(Nibble) /\ Len(SubSeq(Here.path, 1, m)) = m
  <2>1. \A j \in 1..m : Here.path[j] \in Nibble
    BY <1>1, <1>2, <1>3, <1>4
  <2> QED
    BY <1>4, <2>1, SubSeqProperties
<1>9. Prefix(m) \in Seq(Nibble) /\ Len(Prefix(m)) = start + m
  BY <1>1, <1>8, ConcatProperties DEF Prefix
<1> QED
  BY <1>4, <1>5, <1>6, <1>7, <1>8, <1>9 DEF PartsAt

\* A leaf is split.
LEMMA InvPutLeafSplit == ASSUME Inv, PutLeafSplit PROVE Inv' /\ Splits
<1>1. pc = "put" /\ current # Null /\ Here.type = "LEAF"
  BY DEF PutLeafSplit, Node, Here
<1>2. /\ current \in DOMAIN heap /\ start \in 0..HexLen /\ HexLen \in Nat
      /\ hex \in Seq(Nibble) /\ Len(hex) = HexLen /\ value \in Values
      /\ \A j \in 1..HexLen : hex[j] \in Nibble
  BY <1>1, PutCursor
<1>3. /\ Here.path \in Seq(Nibble \cup {Junk}) /\ Here.value \in Values
      /\ Len(Here.path) \in Nat
      /\ \A j \in 1..Len(Here.path) : start + j <= HexLen => Here.path[j] \in Nibble
  <2>1. Here.path \in Seq(Nibble \cup {Junk}) /\ Here.value \in Values
    BY <1>1, <1>2, NodeFields DEF Inv, Here
  <2>2. Len(Here.at) = start
    BY <1>1, PutCursor DEF Here
  <2> QED
    BY <1>1, <1>2, <2>1, <2>2, LenProperties DEF Inv, NodesOK, LeafNibbles, Here
<1>4. father = Null \/ FatherIsBranch
  <2> SUFFICES ASSUME father # Null, ~ FatherIsBranch PROVE FALSE
    OBVIOUS
  <2>1. /\ father \in DOMAIN heap /\ heap[father].type # "BRANCH"
        /\ current = Target(heap[father], 16)
    BY <1>1 DEF Inv, CallOK, CursorLinked, FatherIsBranch
  <2>2. heap[father].type = "EXTENSION"
    BY <1>1, <2>1 DEF Target
  <2>3. heap[current].type = "BRANCH"
    BY <2>1, <2>2, ExtensionNext DEF Inv, NodesOK
  <2> QED
    BY <1>1, <2>3 DEF Here
<1> DEFINE po(m)   == Append(Prefix(m), OldNibble(m))
           pn(m)   == Append(Prefix(m), NewNibble(m))
           last(m) == m # 0 /\ m = Len(Here.path) - 1
           old(m)  == IF last(m) THEN Value(po(m), Here.value)
                      ELSE Leaf(po(m), After(Here.path, m), Here.value)
           new(m)  == IF last(m) THEN Value(pn(m), value)
                      ELSE Leaf(pn(m), After(hex, start + m), value)
           sons(m) == [a \in {brk + 2, brk + 3} |-> IF a = brk + 2 THEN new(m) ELSE old(m)]
<1>5. PICK m \in Compare(Here.path) \ {-1} :
        start + m < HexLen /\ Splice(m, brk + 3, brk + 2, sons(m))
  BY DEF PutLeafSplit, Here, Prefix, OldNibble, NewNibble
<1>6. PartsAt(m)
  BY <1>1, <1>5, Parts
<1>7. Prefix(m) \in Seq(Nibble) /\ OldNibble(m) \in Nibble /\ NewNibble(m) \in Nibble
  BY <1>6 DEF PartsAt
<1>8. /\ po(m) \in Seq(Nibble) /\ Len(po(m)) = start + m + 1
      /\ pn(m) \in Seq(Nibble) /\ Len(pn(m)) = start + m + 1
  BY <1>6, <1>7, AppendProperties DEF PartsAt
<1>9. m \in Nat /\ m < Len(Here.path) /\ start + m \in Nat /\ start + m < HexLen
  BY <1>2, <1>6 DEF PartsAt
<1>10. /\ After(Here.path, m) \in Seq(Nibble \cup {Junk})
       /\ \A j \in 1..Len(After(Here.path, m)) :
            start + m + 1 + j <= HexLen => After(Here.path, m)[j] \in Nibble
  <2>1. /\ After(Here.path, m) \in Seq(Nibble \cup {Junk})
        /\ Len(After(Here.path, m)) = Len(Here.path) - m - 1
        /\ \A j \in 1..(Len(Here.path) - m - 1) : After(Here.path, m)[j] = Here.path[m + 1 + j]
    BY <1>3, <1>9, AfterProperties
  <2>2. ASSUME NEW j \in 1..(Len(Here.path) - m - 1), start + m + 1 + j <= HexLen
        PROVE  Here.path[m + 1 + j] \in Nibble
    <3>1. m + 1 + j \in 1..Len(Here.path) /\ start + (m + 1 + j) <= HexLen
      BY <1>2, <1>3, <1>9, <2>2
    <3> QED
      BY <1>3, <3>1
  <2> QED
    BY <2>1, <2>2
<1>11. /\ After(hex, start + m) \in Seq(Nibble)
       /\ \A j \in 1..Len(After(hex, start + m)) : After(hex, start + m)[j] \in Nibble
  BY <1>2, <1>9, AfterProperties, ElementOfSeq
<1>12. After(hex, start + m) \in Seq(Nibble \cup {Junk})
  BY <1>11, SeqMonotonic
<1>13. /\ old(m) \in Nodes /\ old(m).type \in {"LEAF", "VALUE"} /\ LeavesCount(old(m)) \in Nat
       /\ old(m).at = po(m)
       /\ old(m).type = "LEAF" => \A j \in 1..Len(old(m).path) :
            Len(old(m).at) + j <= HexLen => old(m).path[j] \in Nibble
  <2>1. CASE last(m)
    <3>1. old(m) = Value(po(m), Here.value)
      BY <2>1
    <3> HIDE DEF old, po
    <3>2. old(m) \in Nodes
      BY <1>3, <1>8, <3>1, ValueTyped
    <3>3. old(m).type = "VALUE" /\ old(m).at = po(m) /\ LeavesCount(old(m)) \in Nat
      BY <3>1, ValueFields
    <3> QED
      BY <3>2, <3>3
  <2>2. CASE ~ last(m)
    <3> DEFINE rest == After(Here.path, m)
    <3>1. old(m) = Leaf(po(m), rest, Here.value)
      BY <2>2
    <3>2. /\ rest \in Seq(Nibble \cup {Junk})
          /\ \A j \in 1..Len(rest) : start + m + 1 + j <= HexLen => rest[j] \in Nibble
      BY <1>10
    <3> HIDE DEF old, po, rest
    <3>3. old(m) \in Nodes
      BY <1>3, <1>8, <3>1, <3>2, LeafTyped
    <3>4. /\ old(m).type = "LEAF" /\ old(m).at = po(m) /\ old(m).path = rest
          /\ LeavesCount(old(m)) \in Nat
      BY <3>1, LeafFields
    <3> QED
      BY <1>8, <3>2, <3>3, <3>4
  <2> QED
    BY <2>1, <2>2
<1>14. /\ new(m) \in Nodes /\ new(m).type \in {"LEAF", "VALUE"} /\ LeavesCount(new(m)) \in Nat
       /\ new(m).at = pn(m)
       /\ new(m).type = "LEAF" => \A j \in 1..Len(new(m).path) :
            Len(new(m).at) + j <= HexLen => new(m).path[j] \in Nibble
  <2>1. CASE last(m)
    <3>1. new(m) = Value(pn(m), value)
      BY <2>1
    <3> HIDE DEF new, pn
    <3>2. new(m) \in Nodes
      BY <1>2, <1>8, <3>1, ValueTyped
    <3>3. new(m).type = "VALUE" /\ new(m).at = pn(m) /\ LeavesCount(new(m)) \in Nat
      BY <3>1, ValueFields
    <3> QED
      BY <3>2, <3>3
  <2>2. CASE ~ last(m)
    <3> DEFINE rest == After(hex, start + m)
    <3>1. new(m) = Leaf(pn(m), rest, value)
      BY <2>2
    <3>2. /\ rest \in Seq(Nibble \cup {Junk})
          /\ \A j \in 1..Len(rest) : start + m + 1 + j <= HexLen => rest[j] \in Nibble
      BY <1>11, <1>12
    <3> HIDE DEF new, pn, rest
    <3>3. new(m) \in Nodes
      BY <1>2, <1>8, <3>1, <3>2, LeafTyped
    <3>4. /\ new(m).type = "LEAF" /\ new(m).at = pn(m) /\ new(m).path = rest
          /\ LeavesCount(new(m)) \in Nat
      BY <3>1, LeafFields
    <3> QED
      BY <1>8, <3>2, <3>3, <3>4
  <2> QED
    BY <2>1, <2>2
<1>15. brk \in Nat \ {0} /\ DOMAIN heap \subseteq 1..(brk - 1)
  BY DEF Inv, TypeOK
<1> HIDE DEF old, new
<1>16. /\ DOMAIN sons(m) = {brk + 2, brk + 3} /\ current \notin DOMAIN sons(m)
       /\ sons(m)[brk + 2] = new(m) /\ sons(m)[brk + 3] = old(m)
  BY <1>2, <1>15
<1> HIDE DEF sons, po, pn
<1>17. Orphans = {}
  BY <1>1 DEF Orphans
<1>18. SonsOK(m, brk + 3, sons(m))
  <2>1. \A a \in DOMAIN sons(m) : sons(m)[a] = new(m) \/ sons(m)[a] = old(m)
    BY <1>16
  <2> QED
    BY <1>13, <1>14, <1>16, <1>17, <2>1 DEF SonsOK, po, pn
<1>19. /\ Return("done")
       /\ \E c \in Count, e \in Count : Spliced(m, brk + 3, sons(m), c, e) /\ Counts(c, e)
  <2>1. Overlay(heap, sons(m))[brk + 3] = old(m) /\ Overlay(heap, sons(m))[current] = Here
    BY <1>2, <1>16 DEF Overlay, Here
  <2>2. /\ LeavesCount(Overlay(heap, sons(m))[brk + 3]) = 1
        /\ LeavesCount(Overlay(heap, sons(m))[current]) = 1
    BY <1>1, <1>13, <2>1 DEF LeavesCount
  <2>3. /\ Return("done")
        /\ \E c \in Count, e \in Count :
             Spliced(m, brk + 3, sons(m), c, e) /\ CountsOf(brk + 3, sons(m), c, e)
    BY <1>1, <1>4, <1>5, <1>16, <2>2, SpliceHeap
  <2>4. ASSUME NEW c, NEW e, CountsOf(brk + 3, sons(m), c, e) PROVE Counts(c, e)
    BY <1>1, <2>2, <2>4 DEF CountsOf, Counts
  <2> QED
    BY <2>3, <2>4
<1>20. Splits
  <2>1. OldSon(m, old(m)) /\ NewSon(m, new(m))
    BY <1>1 DEF OldSon, NewSon, old, new, po, pn
  <2> QED
    BY <1>1, <1>4, <1>6, <1>16, <1>18, <1>19, <2>1 DEF Splits
<1> QED
  BY <1>1, <1>4, <1>6, <1>18, <1>19, <1>20, InvSplice

\* An extension is split: its branch hangs below the new one, or below a new
\* extension with what is left of the path.
LEMMA InvPutExtensionSplit ==
  ASSUME Inv, PutExtensionSplit
  PROVE  Inv' /\ (Splits \/ UNCHANGED tree)
<1>1. pc = "put" /\ current # Null /\ Here.type = "EXTENSION"
  BY DEF PutExtensionSplit, Node, Here
<1>2. /\ current \in DOMAIN heap /\ start \in 0..HexLen /\ HexLen \in Nat
      /\ hex \in Seq(Nibble) /\ Len(hex) = HexLen /\ value \in Values
      /\ Len(Here.at) = start
      /\ \A j \in 1..HexLen : hex[j] \in Nibble
  BY <1>1, PutCursor DEF Here
<1>3. /\ Here.at \in Seq(Nibble) /\ Here.path \in Seq(Nibble) /\ Len(Here.path) \in Nat
      /\ Here.leaves \in Count
  BY <1>1, <1>2, NodeTypes, NodeFields, LenProperties DEF Inv, Here
<1>4. /\ Here.next \in DOMAIN heap /\ heap[Here.next].type = "BRANCH"
      /\ Here.next \in Nat /\ heap[Here.next].leaves \in Count
      /\ heap[Here.next].at = Here.at \o Here.path
      /\ start + Len(Here.path) < HexLen
  <2>1. /\ Here.next \in DOMAIN heap /\ heap[Here.next].type = "BRANCH"
        /\ heap[Here.next].at = Here.at \o Here.path
        /\ Len(heap[Here.next].at) = start + Len(Here.path)
    BY <1>1, <1>2, ExtensionNext DEF Inv, NodesOK, Here
  <2>2. start + Len(Here.path) < HexLen
    BY <2>1 DEF Inv, NodesOK, BranchDepth
  <2> QED
    BY <2>1, <2>2, NodeTypes, NodeFields DEF Inv
<1>5. \A k \in Count : k \in Nat
  BY CountIsNat
<1> DEFINE po(m)     == Append(Prefix(m), OldNibble(m))
           pn(m)     == Append(Prefix(m), NewNibble(m))
           direct(m) == m # 0 /\ m = Len(Here.path) - 1
           nl(m)     == Leaf(pn(m), After(hex, start + m), value)
           pex(m)    == Extension(po(m), After(Here.path, m), Here.next,
                                  LeavesCount(heap[Here.next]))
           counted   == [Here EXCEPT !.leaves = Wrap(@ + 1)]
           sons(m)   == IF direct(m)
                        THEN [a \in {current, brk + 2} |-> IF a = current THEN counted ELSE nl(m)]
                        ELSE [a \in {current, brk + 2, brk + 3} |->
                                IF a = current THEN counted
                                ELSE IF a = brk + 2 THEN nl(m) ELSE pex(m)]
           old(m)    == IF direct(m) THEN Here.next ELSE brk + 3
<1>6. PICK m \in Compare(Here.path) \ {-1} :
        IF FatherIsBranch THEN Splice(m, old(m), brk + 2, sons(m)) ELSE Crash
  BY DEF PutExtensionSplit, Here, Prefix, OldNibble, NewNibble
<1>7. CASE ~ FatherIsBranch
  BY <1>6, <1>7, InvCrash DEF Crash
<1>8. CASE FatherIsBranch
  <2>1. PartsAt(m)
    <3>1. m \in Nat /\ m + 1 \in 1..Len(Here.path)
      BY <1>3, <1>6 DEF Compare
    <3>2. start + m < HexLen
      BY <1>2, <1>3, <1>4, <3>1
    <3> QED
      BY <1>1, <1>6, <3>2, Parts
  <2>2. /\ m \in Nat /\ m < Len(Here.path) /\ start + m \in Nat /\ start + m < HexLen
        /\ Prefix(m) \in Seq(Nibble) /\ OldNibble(m) \in Nibble /\ NewNibble(m) \in Nibble
    BY <1>2, <2>1 DEF PartsAt
  <2>3. /\ po(m) \in Seq(Nibble) /\ pn(m) \in Seq(Nibble) /\ Len(pn(m)) = start + m + 1
    BY <2>1, <2>2, AppendProperties DEF PartsAt
  <2>4. /\ Here.at \o Here.path = po(m) \o After(Here.path, m)
        /\ m = Len(Here.path) - 1 => Here.at \o Here.path = po(m)
    BY <1>3, <2>2, Rejoin DEF Prefix, OldNibble
  <2>5. After(Here.path, m) \in Seq(Nibble)
    BY <1>3, <2>2, AfterProperties
  <2>6. /\ nl(m) \in Nodes /\ nl(m).type = "LEAF" /\ nl(m).at = pn(m)
        /\ \A j \in 1..Len(nl(m).path) : Len(nl(m).at) + j <= HexLen => nl(m).path[j] \in Nibble
    <3> DEFINE rest == After(hex, start + m)
    <3>1. /\ rest \in Seq(Nibble) /\ \A j \in 1..Len(rest) : rest[j] \in Nibble
      BY <1>2, <2>2, AfterProperties, ElementOfSeq
    <3>2. rest \in Seq(Nibble \cup {Junk})
      BY <3>1, SeqMonotonic
    <3>3. nl(m) = Leaf(pn(m), rest, value)
      OBVIOUS
    <3> HIDE DEF nl, pn, rest
    <3>4. nl(m) \in Nodes
      BY <1>2, <2>3, <3>2, <3>3, LeafTyped
    <3>5. nl(m).type = "LEAF" /\ nl(m).at = pn(m) /\ nl(m).path = rest
      BY <3>3, LeafFields
    <3> QED
      BY <3>1, <3>4, <3>5
  <2>7. LeavesCount(heap[Here.next]) = heap[Here.next].leaves
    BY <1>4 DEF LeavesCount
  <2>8. /\ pex(m) \in Nodes /\ pex(m).type = "EXTENSION" /\ pex(m).at = po(m)
        /\ pex(m).next = Here.next /\ pex(m).path = After(Here.path, m)
        /\ LeavesCount(pex(m)) \in Nat /\ LeavesCount(pex(m)) = heap[Here.next].leaves
        /\ pex(m).leaves = heap[Here.next].leaves
    <3> DEFINE rest == After(Here.path, m)
               count == LeavesCount(heap[Here.next])
    <3>1. pex(m) = Extension(po(m), rest, Here.next, count)
      OBVIOUS
    <3>2. count \in Count /\ rest \in Seq(Nibble) /\ po(m) \in Seq(Nibble)
      BY <1>4, <2>3, <2>5, <2>7
    <3> HIDE DEF pex, po, rest, count
    <3>3. pex(m) \in Nodes
      BY <1>4, <3>1, <3>2, ExtensionTyped
    <3>4. /\ pex(m).type = "EXTENSION" /\ pex(m).at = po(m) /\ pex(m).next = Here.next
          /\ LeavesCount(pex(m)) = count
      BY <3>1, ExtensionFields
    <3>5. pex(m).path = rest /\ pex(m).leaves = count
      BY <3>1 DEF Extension
    <3>6. count = heap[Here.next].leaves
      BY <2>7 DEF count
    <3> QED
      BY <1>5, <3>2, <3>3, <3>4, <3>5, <3>6 DEF rest
  <2>9. LeavesCount(counted) \in Nat /\ LeavesCount(counted) = Wrap(Here.leaves + 1)
    <3>1. counted.type = "EXTENSION" /\ counted.leaves = Wrap(Here.leaves + 1)
      <4>1. Here \in ExtensionNodes
        BY <1>1, <1>2, NodeTypes DEF Inv, Here
      <4> QED
        BY <4>1 DEF ExtensionNodes
    <3>2. LeavesCount(counted) = Wrap(Here.leaves + 1)
      BY <3>1 DEF LeavesCount
    <3> QED
      BY <1>3, <1>5, <3>2, CountUp
  <2>10. brk \in Nat \ {0} /\ DOMAIN heap \subseteq 1..(brk - 1)
    BY DEF Inv, TypeOK
  <2> HIDE DEF nl, pex, counted
  <2>11. Orphans = {Here.next} /\ Here.next # current
    BY <1>1, <1>4 DEF Orphans, Here
  <2>12. /\ current \in DOMAIN sons(m) /\ sons(m)[current] = counted
         /\ sons(m)[brk + 2] = nl(m)
         /\ brk + 2 # current /\ brk + 3 # current
         /\ direct(m) => DOMAIN sons(m) = {current, brk + 2}
         /\ ~ direct(m) => DOMAIN sons(m) = {current, brk + 2, brk + 3} /\ sons(m)[brk + 3] = pex(m)
    BY <1>2, <2>10
  <2>13. /\ direct(m) => old(m) = Here.next
         /\ ~ direct(m) => old(m) = brk + 3
         /\ direct(m) => Here.at \o Here.path = po(m)
    BY <2>4
  <2>14. Here.next # brk + 2 /\ Here.next # brk + 3
    BY <1>4, <2>10
  <2> HIDE DEF sons, po, pn, direct, old
  <2>15. SonsOK(m, old(m), sons(m))
    <3>1. CASE direct(m)
      <4>1. DOMAIN sons(m) \ {current} = {brk + 2} /\ {old(m)} \ Orphans = {} /\ old(m) \in Orphans
        BY <2>11, <2>12, <2>13, <3>1
      <4>2. heap[old(m)].at = po(m)
        BY <1>4, <2>13, <3>1
      <4> QED
        BY <2>6, <2>12, <3>1, <4>1, <4>2 DEF SonsOK, po, pn
    <3>2. CASE ~ direct(m)
      <4>1. /\ DOMAIN sons(m) \ {current} = {brk + 2, brk + 3} /\ old(m) \notin Orphans
            /\ {brk + 2, brk + 3} = {brk + 2} \cup ({old(m)} \ Orphans)
        BY <2>11, <2>12, <2>13, <2>14, <3>2
      <4>2. /\ sons(m)[old(m)] = pex(m) /\ pex(m).at = po(m) /\ pex(m).type = "EXTENSION"
            /\ pex(m).next = Here.next /\ heap[Here.next].at = pex(m).at \o pex(m).path
        BY <1>4, <2>4, <2>8, <2>12, <2>13, <3>2
      <4>3. ASSUME NEW a \in DOMAIN sons(m) \ {current}
            PROVE  /\ sons(m)[a] \in Nodes
                   /\ sons(m)[a].type = "LEAF" =>
                        \A j \in 1..Len(sons(m)[a].path) :
                          Len(sons(m)[a].at) + j <= HexLen => sons(m)[a].path[j] \in Nibble
        <5>1. CASE a = brk + 2
          BY <2>6, <2>12, <5>1
        <5>2. CASE a = brk + 3
          BY <2>8, <2>12, <3>2, <5>2
        <5> QED
          BY <4>1, <5>1, <5>2
      <4> QED
        BY <1>1, <2>6, <2>12, <2>13, <3>2, <4>1, <4>2, <4>3 DEF SonsOK, po, pn
    <3> QED
      BY <3>1, <3>2
  <2>16. /\ LeavesCount(Overlay(heap, sons(m))[old(m)]) \in Nat
         /\ LeavesCount(Overlay(heap, sons(m))[old(m)]) = heap[Here.next].leaves
    <3>1. CASE direct(m)
      <4>1. Overlay(heap, sons(m))[Here.next] = heap[Here.next]
        BY <1>4, <2>11, <2>12, <2>14, <3>1 DEF Overlay
      <4> QED
        BY <1>4, <1>5, <2>7, <2>13, <3>1, <4>1
    <3>2. CASE ~ direct(m)
      <4>1. Overlay(heap, sons(m))[brk + 3] = pex(m)
        BY <2>12, <3>2 DEF Overlay
      <4> QED
        BY <2>8, <2>13, <3>2, <4>1
    <3> QED
      BY <3>1, <3>2
  <2>17. /\ Return("done")
         /\ \E c \in Count, e \in Count : Spliced(m, old(m), sons(m), c, e) /\ Counts(c, e)
    <3>1. DOMAIN sons(m) \subseteq {current, brk + 2, brk + 3}
      BY <2>12
    <3>2. Splice(m, old(m), brk + 2, sons(m))
      BY <1>6, <1>8
    <3>3. /\ Return("done")
          /\ \E c \in Count, e \in Count :
               Spliced(m, old(m), sons(m), c, e) /\ CountsOf(old(m), sons(m), c, e)
      BY <1>1, <1>8, <2>9, <2>12, <2>16, <3>1, <3>2, SpliceHeap
    <3>4. Overlay(heap, sons(m))[current] = counted
      BY <2>12 DEF Overlay
    <3>5. ASSUME NEW c, NEW e, CountsOf(old(m), sons(m), c, e) PROVE Counts(c, e)
      BY <1>1, <2>9, <2>16, <3>4, <3>5 DEF CountsOf, Counts
    <3> QED
      BY <3>3, <3>5
  <2>18. Splits
    <3>1. NewSon(m, nl(m))
      BY DEF NewSon, nl, pn
    <3>2. old(m) \notin Orphans =>
            sons(m)[old(m)].type = "EXTENSION" /\ sons(m)[old(m)].leaves = heap[Here.next].leaves
      BY <2>8, <2>11, <2>12, <2>13
    <3> QED
      BY <1>1, <1>8, <2>1, <2>12, <2>15, <2>17, <3>1, <3>2 DEF Splits
  <2> QED
    BY <1>1, <1>8, <2>1, <2>15, <2>17, <2>18, InvSplice
<1> QED
  BY <1>7, <1>8

-----------------------------------------------------------------------------
(* Every branch parts two subtrees *)

\* Two slots of a branch are in use.
Forked(node) ==
  \E i \in Nibble, j \in Nibble : i # j /\ node.children[i] # Null /\ node.children[j] # Null

Forks == \A n \in DOMAIN heap : heap[n].type = "BRANCH" => Forked(heap[n])

\* A set with two elements has a cardinality of two at least.
LEMMA ForksIsArity == Forks => BranchArity
<1> SUFFICES ASSUME Forks, NEW n \in DOMAIN heap, heap[n].type = "BRANCH"
             PROVE  Cardinality({i \in Nibble : heap[n].children[i] # Null}) >= 2
  BY DEF BranchArity
<1> DEFINE S == {i \in Nibble : heap[n].children[i] # Null}
<1>1. PICK i \in Nibble, j \in Nibble :
        i # j /\ heap[n].children[i] # Null /\ heap[n].children[j] # Null
  BY DEF Forks, Forked
<1>2. IsFiniteSet(S)
  <2>1. IsFiniteSet(Nibble)
    <3>1. 0 \in Int /\ 15 \in Int
      OBVIOUS
    <3> QED
      BY <3>1, FS_Interval, Zenon DEF Nibble
  <2>2. S \in SUBSET Nibble
    OBVIOUS
  <2> QED
    BY <2>1, <2>2, FS_Subset
<1>3. {i} \cup {j} \in SUBSET S
  BY <1>1
<1>4. IsFiniteSet({i}) /\ Cardinality({i}) = 1
  BY FS_Singleton
<1>5. Cardinality({i} \cup {j}) = 2
  <2>1. j \notin {i}
    BY <1>1
  <2>2. Cardinality({i} \cup {j}) = Cardinality({i}) + 1
    BY <1>4, <2>1, FS_AddElement
  <2> QED
    BY <1>4, <2>2
<1>6. Cardinality(S) \in Nat
  BY <1>2, FS_CardinalityType
<1> HIDE DEF S
<1>7. Cardinality({i} \cup {j}) <= Cardinality(S)
  BY <1>2, <1>3, FS_Subset
<1>8. Cardinality(S) >= 2
  BY <1>5, <1>6, <1>7
<1> QED
  BY <1>8 DEF S

\* The new branch parts the old subtree and the new leaf, for the nibbles at
\* which they part differ; the father's slot leads to the new nodes.
LEMMA ForksSplits == ASSUME Inv, Forks, Splits, pc = "put", current # Null PROVE Forks'
<1>1. PICK m, old, sons : /\ PartsAt(m) /\ SonsOK(m, old, sons)
                          /\ \E c \in Count, e \in Count : Spliced(m, old, sons, c, e)
  BY DEF Splits
<1>2. PICK c \in Count, e \in Count : Spliced(m, old, sons, c, e)
  BY <1>1
<1>3. /\ brk \in Nat \ {0} /\ DOMAIN heap \subseteq 1..(brk - 1)
      /\ heap \in [DOMAIN heap -> Nodes]
  BY DEF Inv, TypeOK
<1>4. current \in DOMAIN heap
  BY PutCursor
<1>5. ASSUME NEW n \in DOMAIN heap', heap'[n].type = "BRANCH"
      PROVE  Forked(heap'[n])
  <2>1. CASE n = brk
    <3>1. OldNibble(m) \in Nibble /\ NewNibble(m) \in Nibble /\ OldNibble(m) # NewNibble(m)
      BY <1>1 DEF PartsAt
    <3>2. brk + 2 # Null /\ old # Null
      <4>1. old \in {brk + 3} \cup Orphans
        BY <1>1 DEF SonsOK
      <4>2. Here.type = "EXTENSION" => Here.next # Null
        BY <1>4, ExtensionNext DEF Inv, NodesOK, Here
      <4> QED
        BY <1>3, <4>1, <4>2 DEF Orphans, Null
    <3> QED
      BY <1>2, <2>1, <3>1, <3>2 DEF Spliced, Branch, Forked
  <2>2. CASE n = brk + 1 /\ m # 0
    BY <1>2, <1>5, <2>2 DEF Spliced, Extension
  <2>3. CASE n \in DOMAIN sons \ {current}
    <3>1. heap'[n] = sons[n] /\ n \in {brk + 2} \cup ({old} \ Orphans)
      <4>1. heap'[n] = sons[n]
        BY <1>2, <2>3 DEF Spliced
      <4>2. DOMAIN sons \ {current} = {brk + 2} \cup ({old} \ Orphans)
        BY <1>1 DEF SonsOK
      <4> QED
        BY <2>3, <4>1, <4>2
    <3>2. sons[n].type \in {"LEAF", "VALUE", "EXTENSION"}
      BY <1>1, <3>1 DEF SonsOK
    <3> QED
      BY <1>5, <3>1, <3>2
  <2>4. CASE n \in DOMAIN heap \ {current}
    <3>1. n # Null /\ heap'[n] = IF n = father THEN Redirect(heap[n], elIndex, Top(m), e) ELSE heap[n]
      BY <1>2, <1>3, <2>4 DEF Spliced, Null
    <3>2. CASE n = father
      <4>1. heap[n] \in BranchNodes
        BY <1>4, <2>4, <3>1, <3>2, NodeTypes DEF Splits, FatherIsBranch, Inv
      <4>2. PICK i \in Nibble, j \in Nibble :
              i # j /\ heap[n].children[i] # Null /\ heap[n].children[j] # Null
        BY <2>4, <4>1 DEF Forks, Forked, BranchNodes
      <4>3. Top(m) # Null
        BY <1>3 DEF Top, Null
      <4>4. heap'[n].children = [heap[n].children EXCEPT ![elIndex] = Top(m)]
        BY <3>1, <3>2, <4>1 DEF Redirect, BranchNodes
      <4>5. heap[n].children \in [Nibble -> Nat]
        BY <4>1 DEF BranchNodes
      <4> QED
        BY <4>2, <4>3, <4>4, <4>5 DEF Forked
    <3>3. CASE n # father
      BY <1>5, <2>4, <3>1, <3>3 DEF Forks
    <3> QED
      BY <3>2, <3>3
  <2> QED
    BY <1>2, <2>1, <2>2, <2>3, <2>4 DEF Spliced, Fork
<1> QED
  BY <1>5 DEF Forks

-----------------------------------------------------------------------------
(* The theorems *)

\* No step of put disturbs the nodes or the cursor.
LEMMA InvPut == ASSUME Inv, PutStep PROVE Inv'
<1>1. CASE PutLeafThrow
  BY <1>1, InvReturn DEF PutLeafThrow
<1>2. CASE PutValue
  BY <1>2, InvReturn DEF PutValue
<1> QED
  BY <1>1, <1>2, InvPutRoot, InvPutExtensionMatch, InvPutExtensionSplit, InvPutBranchNew,
     InvPutBranchDown, InvPutLeafSplit DEF PutStep

\* An empty trie, and no call.
LEMMA InvInit == ASSUME Init PROVE Inv
<1>1. TypeOK
  BY TrieAssumption DEF Init, TypeOK, Null, Nibble
<1>2. NodesOK
  BY DEF Init, NodesOK, TreeShape, RootOK, PointersOK, NoSharing, ExtensionsOK,
         LeafNibbles, BranchDepth
<1>3. CallOK
  BY DEF Init, CallOK, CursorLinked, GetCursor, PutArgs
<1> QED
  BY <1>1, <1>2, <1>3 DEF Inv

\* A step of nobody changes nothing.
LEMMA InvStutter == ASSUME Inv, UNCHANGED vars PROVE Inv'
<1>1. UNCHANGED <<root, heap, brk, pc, hex, value, start, current, father, elIndex, ret, puts>>
  BY DEF vars, tree, args, cursor
<1>2. NodesOK'
  BY SameNodes, <1>1 DEF Inv, tree
<1>3. TypeOK' /\ CallOK'
  BY <1>1 DEF Inv, TypeOK, CallOK, CursorLinked, GetCursor, PutArgs, FatherIsBranch
<1> QED
  BY <1>2, <1>3 DEF Inv

\* The invariant holds throughout, for keys of every length and whatever is put
\* and asked, in every interleaving of calls that one thread can make.
THEOREM TrieInvariant == Spec => []Inv
<1>1. Inv /\ [Next]_vars => Inv'
  BY InvNullKey, InvCalls, InvPut, InvGet, InvStutter DEF Next
<1> QED
  BY <1>1, InvInit, PTL DEF Spec

\* Every variable keeps its type: a node always has the fields of its own class
\* (Node.h:21-83) and only those, which the dynamic_casts of
\* put and get (trie.h:73-231) rely on.
THEOREM TrieTypeOK == Spec => []TypeOK
<1>1. Inv => TypeOK
  BY DEF Inv
<1> QED
  BY <1>1, TrieInvariant, PTL

\* The nodes always form a tree, so that what put deletes or drops at
\* trie.h:157, 179, 207 and 291 is referred to by nothing.
THEOREM TrieTreeShape == Spec => []TreeShape
<1>1. Inv => TreeShape
  BY DEF Inv, NodesOK
<1> QED
  BY <1>1, TrieInvariant, PTL

\* put's father and el_index always name the one pointer that leads to current,
\* so that replace (trie.h:156-289) overwrites that pointer and no other.
THEOREM TrieCursorLinked == Spec => []CursorLinked
<1>1. Inv => CursorLinked
  BY DEF Inv, CallOK
<1> QED
  BY <1>1, TrieInvariant, PTL

\* Every step keeps two slots of each branch in use.
LEMMA ForksStep == ASSUME Inv, Forks, [Next]_vars PROVE Forks'
<1>1. CASE UNCHANGED tree
  BY <1>1 DEF tree, Forks, Forked
<1>2. CASE PutRoot
  <2>1. \A n \in DOMAIN heap' : heap'[n].type = "BRANCH" =>
          n \in DOMAIN heap /\ heap'[n] = heap[n]
    BY <1>2 DEF PutRoot, Overlay, Leaf
  <2> QED
    BY <2>1 DEF Forks
<1>3. ASSUME PutExtensionMatch \/ PutBranchDown PROVE Forks'
  <2>1. /\ current \in DOMAIN heap
        /\ heap' = [heap EXCEPT ![current].leaves = Wrap(@ + 1)]
    BY <1>3, PutCursor DEF PutExtensionMatch, PutBranchDown, Node
  <2>2. \A n \in DOMAIN heap : heap'[n].type = heap[n].type
    BY <2>1, NodeTypes DEF Inv, BranchNodes, ExtensionNodes, LeafNodes, ValueNodes
  <2>3. \A n \in DOMAIN heap : heap[n].type = "BRANCH" => heap'[n].children = heap[n].children
    BY <2>1, NodeTypes DEF Inv, BranchNodes
  <2> QED
    BY <2>1, <2>2, <2>3 DEF Forks, Forked
<1>4. CASE PutBranchNew
  <2> DEFINE i == hex[start + 1]
  <2>1. /\ current \in DOMAIN heap /\ heap[current] \in BranchNodes
        /\ brk \in Nat \ {0} /\ DOMAIN heap \subseteq 1..(brk - 1)
    BY <1>4, PutCursor, NodeTypes DEF PutBranchNew, Node, Inv, TypeOK
  <2>2. /\ DOMAIN heap' = DOMAIN heap \cup {brk} /\ heap'[brk].type = "LEAF"
        /\ heap'[current] = [heap[current] EXCEPT !.children[i] = brk, !.leaves = Wrap(@ + 1)]
        /\ \A n \in DOMAIN heap \ {current} : heap'[n] = heap[n]
    BY <1>4, <2>1 DEF PutBranchNew, Overlay, Leaf
  <2> HIDE DEF i
  <2>3. heap'[current].children = [heap[current].children EXCEPT ![i] = brk]
    BY <2>1, <2>2 DEF BranchNodes
  <2>4. ASSUME NEW n \in DOMAIN heap', heap'[n].type = "BRANCH"
        PROVE  Forked(heap'[n])
    <3>1. n \in DOMAIN heap
      BY <2>2, <2>4
    <3>2. CASE n = current
      <4>1. PICK k \in Nibble, j \in Nibble :
              k # j /\ heap[n].children[k] # Null /\ heap[n].children[j] # Null
        BY <2>1, <3>2 DEF Forks, Forked, BranchNodes
      <4>2. heap[n].children \in [Nibble -> Nat]
        BY <2>1, <3>2 DEF BranchNodes
      <4> QED
        BY <2>1, <2>3, <3>2, <4>1, <4>2 DEF Forked, Null
    <3>3. CASE n # current
      BY <2>2, <2>4, <3>1, <3>3 DEF Forks
    <3> QED
      BY <3>2, <3>3
  <2> QED
    BY <2>4 DEF Forks
<1>5. CASE PutLeafSplit
  BY <1>5, InvPutLeafSplit, ForksSplits DEF PutLeafSplit, Node
<1>6. CASE PutExtensionSplit
  BY <1>1, <1>6, InvPutExtensionSplit, ForksSplits DEF PutExtensionSplit, Node
<1>7. ASSUME \/ NullKey \/ GetStep \/ PutLeafThrow \/ PutValue \/ UNCHANGED vars
             \/ \E k \in Keys, v \in Values : PutCall(k, v)
             \/ \E k \in Asked : GetCall(k)
      PROVE  UNCHANGED tree
  BY <1>7 DEF NullKey, GetStep, GetNothing, GetExtension, GetBranch, GetLeaf, GetValue, Crash,
              PutLeafThrow, PutValue, PutCall, GetCall, vars
<1> QED
  BY <1>1, <1>2, <1>3, <1>4, <1>5, <1>6, <1>7 DEF Next, PutStep

\* Every branch parts at least two subtrees, after any number of puts in any
\* order: put makes no chains of nodes with one child.
THEOREM TrieBranchArity == Spec => []BranchArity
<1>1. Init => Forks
  BY DEF Init, Forks
<1>2. Inv /\ Forks /\ [Next]_vars => Forks'
  BY ForksStep
<1> QED
  BY <1>1, <1>2, TrieInvariant, ForksIsArity, PTL DEF Spec

=============================================================================

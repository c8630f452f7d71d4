-------------------------------- MODULE Trie --------------------------------
(***************************************************************************)
(* The radix trie behind the routing table (trie/trie.h, trie/Node.h,      *)
(* trie/Node.cpp, trie/Encode.cpp).  Every iteration of the descent loops  *)
(* of trie<T>::put and trie<T>::get is one step; the C++ locals current,   *)
(* father, start and el_index are the cursor.                              *)
(*                                                                         *)
(* The heap maps addresses to nodes, and pointers are addresses.  A node   *)
(* leaves the heap when the code deletes it or drops the last pointer to   *)
(* it without a delete (the split leaf of trie.h:229-291 leaks);           *)
(* TreeShape says that nothing refers to it afterwards.  The field         *)
(* "at" of a node is auxiliary: the nibbles that lead from the root to it. *)
(***************************************************************************)
EXTENDS Integers, Sequences, FiniteSets

CONSTANTS
  KeyLen,   \* length of every key in bytes; trie.h:19 asks that all be equal
  Keys,     \* the keys callers put, sequences of KeyLen bytes
  Asked,    \* the keys callers get
  Values,   \* the values callers store
  Default,  \* T(), what get answers when it finds nothing
  Junk,     \* a byte outside any object, of unknown content
  MaxPuts   \* bound on the number of calls to put

ASSUME TrieAssumption ==
  /\ KeyLen \in Nat \ {0} /\ 2 * KeyLen < 256   \* path_len is a uint8_t
  /\ Keys \cup Asked \subseteq [1..KeyLen -> 0..255]
  /\ Junk \notin 0..15
  /\ Default \notin Values
  /\ MaxPuts \in Nat

Nibble == 0..15
Null   == 0
HexLen == 2 * KeyLen
Count  == {c \in Nat : c < 65536}   \* uint16_t leaves

\* encode::hex_encode: two nibbles per byte, the high one first.
HexUnsplit(k) == [i \in 1..HexLen |-> k[(i + 1) \div 2]]  \* mutant: bytes copied whole

Hex(k) == [i \in 1..HexLen |-> IF i % 2 = 1 THEN k[(i + 1) \div 2] \div 16
                                            ELSE k[i \div 2] % 16]

VARIABLES
  root, heap, brk,                    \* the tree; brk is the next fresh address
  pc, hex, value,                     \* the call in progress and its arguments
  start, current, father, elIndex,    \* its cursor
  ret,                                \* how the last call ended
  puts                                \* number of calls to put so far

tree   == <<root, heap, brk>>
args   == <<hex, value>>
cursor == <<start, current, father, elIndex>>
vars   == <<tree, pc, args, cursor, ret, puts>>

-----------------------------------------------------------------------------
(* Nodes *)

Leaf(p, path, v)       == [type |-> "LEAF", at |-> p, path |-> path, value |-> v]
Value(p, v)            == [type |-> "VALUE", at |-> p, value |-> v]
Extension(p, path, n, c) ==
  [type |-> "EXTENSION", at |-> p, path |-> path, next |-> n, leaves |-> c]

\* A new Branch after its two calls of Branch::insert.
BranchOneInsert(p, i, n, j, m, c) ==     \* mutant: the second insert is forgotten
  [type |-> "BRANCH", at |-> p, leaves |-> c,
   children |-> [k \in Nibble |-> IF k = i THEN n ELSE Null]]

Branch(p, i, n, j, m, c) ==
  [type |-> "BRANCH", at |-> p, leaves |-> c,
   children |-> [k \in Nibble |-> IF k = i THEN n ELSE IF k = j THEN m ELSE Null]]

\* The branch node whose slot i leads to t and whose counter says c.
Redirect(node, i, t, c) == [node EXCEPT !.children[i] = t, !.leaves = c]

Wrap(n) == n % 65536

\* Node::leaves_count()
LeavesCountZero(node) ==                 \* mutant: a leaf counts for nothing
  IF node.type \in {"LEAF", "VALUE"} THEN 0 ELSE node.leaves

LeavesCount(node) == IF node.type \in {"LEAF", "VALUE"} THEN 1 ELSE node.leaves

\* encode::compare of a node's path with the key from start on: the set of
\* results it may return.  Bytes past the end of key_hex, and the bytes an
\* overlong leaf copied from there, may or may not be equal.
Compare(path) ==
  LET Agree(i)  == start + i > HexLen \/ path[i] = hex[start + i]
      Differ(i) == start + i > HexLen \/ path[i] # hex[start + i]
  IN {i - 1 : i \in {i \in 1..Len(path) : Differ(i) /\ \A j \in 1..(i-1) : Agree(j)}}
     \cup {r \in {-1} : \A j \in 1..Len(path) : Agree(j)}

\* What follows the nibble with the (zero-based) index i.
AfterKeeping(s, i) == SubSeq(s, i + 1, Len(s))   \* mutant: that nibble too

After(s, i) == SubSeq(s, i + 2, Len(s))

\* h with every node of new added or replaced.
Overlay(h, new) == [a \in DOMAIN h \cup DOMAIN new |-> IF a \in DOMAIN new THEN new[a] ELSE h[a]]

\* Branch::replace on the father's slot el_index.
ReplaceUnlinked(h, son) ==               \* mutant: the pointer is not overwritten
  [h EXCEPT ![father].leaves = Wrap(@ + LeavesCount(h[son]))]

ReplaceCountingAll(h, son) ==            \* mutant: the old subtree is not discounted
  [h EXCEPT ![father] = Redirect(@, elIndex, son, Wrap(@.leaves + LeavesCount(h[son])))]

Replace(h, son) ==
  [h EXCEPT ![father] = Redirect(@, elIndex, son,
     Wrap(@.leaves + LeavesCount(h[son]) - LeavesCount(h[@.children[elIndex]])))]

-----------------------------------------------------------------------------
(* Calls and returns *)

Begin(op, k) ==
  /\ pc = "idle"
  /\ pc' = op
  /\ hex' = Hex(k)
  /\ start' = 0 /\ current' = root /\ father' = Null /\ elIndex' = 0
  /\ ret' = "none"

Return(r) ==
  /\ pc' = "idle"
  /\ ret' = r
  /\ start' = 0 /\ current' = Null /\ father' = Null /\ elIndex' = 0
  /\ UNCHANGED <<args, puts>>

\* A null dereference, or a read through a pointer of unknown content.
Crash ==
  /\ pc' = "crashed"
  /\ ret' = "crashed"
  /\ UNCHANGED <<tree, args, cursor, puts>>

Node(op, type) == pc = op /\ current # Null /\ heap[current].type = type

\* put and get throw invalid_argument on a null key.
NullKey ==
  /\ pc = "idle"
  /\ ret' = "threw"
  /\ UNCHANGED <<tree, pc, args, cursor, puts>>

\* One iteration of put's loop moves to the next node, past n nibbles.
DescendBlindly(next, n) ==               \* mutant: father lags behind
  start' = start + n /\ current' = next /\ father' = father

Descend(next, n) ==
  start' = start + n /\ current' = next /\ father' = current

-----------------------------------------------------------------------------
(* trie<T>::put *)

PutCall(k, v) ==
  /\ puts < MaxPuts
  /\ puts' = puts + 1
  /\ Begin("put", k)
  /\ value' = v
  /\ UNCHANGED tree

\* An empty trie gets a single leaf.
PutRoot ==
  /\ pc = "put" /\ root = Null
  /\ root' = brk
  /\ heap' = Overlay(heap, [a \in {brk} |-> Leaf(<<>>, hex, value)])
  /\ brk' = brk + 1
  /\ Return("done")

\* The end of every mismatch case.  A new branch takes the old subtree and the
\* new leaf; an extension with the m nibbles they share goes before it unless
\* m = 0; the result replaces the current node.  sons are the new nodes below
\* the branch: at old (or the existing node at old) and at new.
Splice(m, old, new, sons) ==
  LET here  == heap[current]
      p     == here.at \o SubSeq(here.path, 1, m)
      below == Overlay(heap, sons)
      count == Wrap(LeavesCount(below[old]) + 1)
      br    == Branch(p, here.path[m+1], old, hex[start+m+1], new, count)
      fex   == Extension(here.at, SubSeq(here.path, 1, m), brk, count)
      fork  == Overlay(below, IF m = 0 THEN [a \in {brk} |-> br]
                              ELSE [a \in {brk, brk + 1} |-> IF a = brk THEN br ELSE fex])
      top   == IF m = 0 THEN brk ELSE brk + 1
      done  == IF father = Null THEN fork ELSE Replace(fork, top)
  IN /\ heap' = [a \in DOMAIN done \ {current} |-> done[a]]
     /\ root' = IF father = Null THEN top ELSE root
     /\ brk' = brk + 4
     /\ Return("done")

\* Whether dynamic_cast<Branch *>(father) gives a branch.
FatherIsBranch == father # Null /\ heap[father].type = "BRANCH"

\* The whole path matches: go on below the extension.
PutExtensionMatch ==
  /\ Node("put", "EXTENSION")
  /\ -1 \in Compare(heap[current].path)
  /\ heap' = [heap EXCEPT ![current].leaves = Wrap(@ + 1)]
  /\ Descend(heap[current].next, Len(heap[current].path))
  /\ UNCHANGED <<root, brk, pc, args, elIndex, ret, puts>>

\* A mismatch at nibble m.  The nibbles after it go to a new extension, unless
\* m is the last of several and the extension's branch hangs off directly.
\* Nothing was linked yet when the code finds that a root extension has no
\* father to call replace on.
PutExtensionSplit ==
  /\ Node("put", "EXTENSION")
  /\ LET ex == heap[current] IN
     \E m \in Compare(ex.path) \ {-1} :
       LET p   == ex.at \o SubSeq(ex.path, 1, m)
           nl  == Leaf(Append(p, hex[start+m+1]), After(hex, start + m), value)
           pex == Extension(Append(p, ex.path[m+1]), After(ex.path, m),
                            ex.next, LeavesCount(heap[ex.next]))
           direct == m # 0 /\ m = Len(ex.path) - 1
           counted == [ex EXCEPT !.leaves = Wrap(@ + 1)]
           sons == IF direct
                   THEN [a \in {current, brk + 2} |-> IF a = current THEN counted ELSE nl]
                   ELSE [a \in {current, brk + 2, brk + 3} |->
                           IF a = current THEN counted ELSE IF a = brk + 2 THEN nl ELSE pex]
       IN IF FatherIsBranch
          THEN Splice(m, IF direct THEN ex.next ELSE brk + 3, brk + 2, sons)
          ELSE Crash

\* An empty slot takes a leaf.  Its length is that of the whole key, not of what
\* is left of it: the last start bytes are copied from behind key_hex.
PutBranchNew ==
  /\ Node("put", "BRANCH")
  /\ LET br == heap[current]
         i  == hex[start + 1]
         nl == Leaf(Append(br.at, i),
                    After(hex, start) \o [j \in 1..(start + 1) |-> Junk], value)
     IN /\ br.children[i] = Null
        /\ heap' = Overlay(heap, [a \in {current, brk} |->
                     IF a = brk THEN nl
                     ELSE [br EXCEPT !.children[i] = brk, !.leaves = Wrap(@ + 1)]])
  /\ brk' = brk + 1
  /\ UNCHANGED root
  /\ Return("done")

PutBranchDown ==
  /\ Node("put", "BRANCH")
  /\ LET i == hex[start + 1]
     IN /\ heap[current].children[i] # Null
        /\ Descend(heap[current].children[i], 1)
        /\ elIndex' = i
  /\ heap' = [heap EXCEPT ![current].leaves = Wrap(@ + 1)]
  /\ UNCHANGED <<root, brk, pc, args, ret, puts>>

\* A leaf with another key is split.  Two keys that differ in the last nibble
\* only become value nodes, unless the leaf is overlong or that nibble is all
\* its path: then the new nodes are leaves.
PutLeafSplit ==
  /\ Node("put", "LEAF")
  /\ LET lf == heap[current] IN
     \E m \in Compare(lf.path) \ {-1} :
       LET p  == lf.at \o SubSeq(lf.path, 1, m)
           po == Append(p, lf.path[m+1])
           pn == Append(p, hex[start+m+1])
           last == m # 0 /\ m = Len(lf.path) - 1
           old == IF last THEN Value(po, lf.value)
                  ELSE Leaf(po, After(lf.path, m), lf.value)
           new == IF last THEN Value(pn, value)
                  ELSE Leaf(pn, After(hex, start + m), value)
       IN /\ start + m < HexLen
          /\ Splice(m, brk + 3, brk + 2,
                    [a \in {brk + 2, brk + 3} |-> IF a = brk + 2 THEN new ELSE old])

\* The key is there already.  compare finds no mismatch, or one in the bytes
\* behind the key; either way an array of negative length is asked for (the
\* new leaf's path at trie.h:233, or the extension's at 262 or 283), and put
\* throws before it links anything.
PutLeafThrow ==
  /\ Node("put", "LEAF")
  /\ \E m \in Compare(heap[current].path) : m = -1 \/ start + m >= HexLen
  /\ Return("threw")
  /\ UNCHANGED tree

\* The key is there already, in a value node: put keeps the old value.
PutValueOverwrites ==                    \* mutant: the value is replaced
  /\ Node("put", "VALUE")
  /\ heap' = [heap EXCEPT ![current].value = value]
  /\ UNCHANGED <<root, brk>>
  /\ Return("done")

PutValueSpins == Node("put", "VALUE") /\ UNCHANGED vars   \* mutant: trie.cpp:240

PutValue ==
  /\ Node("put", "VALUE")
  /\ Return("done")
  /\ UNCHANGED tree

PutStep ==
  \/ PutRoot \/ PutExtensionMatch \/ PutExtensionSplit
  \/ PutBranchNew \/ PutBranchDown \/ PutLeafSplit \/ PutLeafThrow \/ PutValue

-----------------------------------------------------------------------------
(* trie<T>::get *)

GetCall(k) ==
  /\ Begin("get", k)
  /\ UNCHANGED <<tree, value, puts>>

\* The trie is empty, or the last child read was null.
GetNothing ==
  /\ pc = "get" /\ current = Null
  /\ Return(Default)
  /\ UNCHANGED tree

GetExtension ==
  /\ Node("get", "EXTENSION")
  /\ LET ex == heap[current] IN
     \E m \in Compare(ex.path) :
       IF m # -1 THEN Return(Default)
       ELSE /\ start' = start + Len(ex.path)
            /\ current' = ex.next
            /\ UNCHANGED <<pc, args, father, elIndex, ret, puts>>
  /\ UNCHANGED tree

\* get tests the child of one nibble and then follows that of the next one.
\* Past the end of key_hex the index is unknown: it selects some child, or a
\* word behind the array.
GetBranch ==
  /\ Node("get", "BRANCH")
  /\ LET br == heap[current]
         Follow(c) == /\ current' = c
                      /\ start' = start + 1
                      /\ UNCHANGED <<tree, pc, args, father, elIndex, ret, puts>>
     IN IF br.children[hex[start + 1]] = Null
        THEN Return(Default) /\ UNCHANGED tree
        ELSE IF start + 2 <= HexLen
        THEN Follow(br.children[hex[start + 2]])
        ELSE Crash \/ \E i \in Nibble : Follow(br.children[i])

GetLeaf ==
  /\ Node("get", "LEAF")
  /\ \E m \in Compare(heap[current].path) :
       Return(IF m = -1 THEN heap[current].value ELSE Default)
  /\ UNCHANGED tree

GetValue ==
  /\ Node("get", "VALUE")
  /\ Return(heap[current].value)
  /\ UNCHANGED tree

GetStep == GetNothing \/ GetExtension \/ GetBranch \/ GetLeaf \/ GetValue

-----------------------------------------------------------------------------
Init ==
  /\ root = Null /\ heap = [a \in {} |-> Null] /\ brk = 1
  /\ pc = "idle" /\ hex = <<>> /\ value = Default
  /\ start = 0 /\ current = Null /\ father = Null /\ elIndex = 0
  /\ ret = "none" /\ puts = 0

Next ==
  \/ NullKey
  \/ \E k \in Keys, v \in Values : PutCall(k, v)
  \/ \E k \in Asked : GetCall(k)
  \/ PutStep
  \/ GetStep

\* The calling thread runs its call to the end.
Fairness == WF_vars(PutStep) /\ WF_vars(GetStep)

Spec == Init /\ [][Next]_vars /\ Fairness

-----------------------------------------------------------------------------
(* What the nodes stand for *)

\* Slot 16 is the next pointer of an extension, slots 0..15 are the children
\* of a branch.
Slot == 0..16

Target(node, s) ==
  IF node.type = "BRANCH" /\ s \in Nibble THEN node.children[s]
  ELSE IF node.type = "EXTENSION" /\ s = 16 THEN node.next
  ELSE Null

\* The nibbles consumed on the way through slot s of a node.
Label(node, s) == IF s = 16 THEN node.path ELSE <<s>>

\* The nodes with a counter of leaves.
Counters == {n \in DOMAIN heap : heap[n].type \in {"BRANCH", "EXTENSION"}}

\* The nodes that hold a value, and the key each holds it for.
Stored == {n \in DOMAIN heap : heap[n].type \in {"LEAF", "VALUE"}}

KeyAt(n) == IF heap[n].type = "VALUE" THEN heap[n].at
            ELSE SubSeq(heap[n].at \o heap[n].path, 1, HexLen)

Contents == [k \in {KeyAt(n) : n \in Stored} |->
               heap[CHOOSE n \in Stored : KeyAt(n) = k].value]

\* The node at which a descent along key k ends, or Null.
Locate(k) ==
  LET Child(n) == heap[n].children[k[Len(heap[n].at) + 1]]
      f[n \in DOMAIN heap] ==
        CASE heap[n].type = "BRANCH" -> IF Child(n) = Null THEN Null ELSE f[Child(n)]
          [] heap[n].type = "EXTENSION" ->
               IF heap[n].at \o heap[n].path = SubSeq(k, 1, Len(heap[n].at \o heap[n].path))
               THEN f[heap[n].next] ELSE Null
          [] OTHER -> IF KeyAt(n) = k THEN n ELSE Null
  IN IF root = Null THEN Null ELSE f[root]

-----------------------------------------------------------------------------
(* Properties *)

LeafNodes   == [type : {"LEAF"}, at : Seq(Nibble), path : Seq(Nibble \cup {Junk}), value : Values]
ValueNodes  == [type : {"VALUE"}, at : Seq(Nibble), value : Values]
BranchNodes == [type : {"BRANCH"}, at : Seq(Nibble), children : [Nibble -> Nat], leaves : Count]
ExtensionNodes ==
  [type : {"EXTENSION"}, at : Seq(Nibble), path : Seq(Nibble), next : Nat, leaves : Count]
Nodes == LeafNodes \cup ValueNodes \cup BranchNodes \cup ExtensionNodes

\* Every variable has its type; addresses from brk on are unused.
TypeOK ==
  /\ brk \in Nat \ {0}
  /\ DOMAIN heap \subseteq 1..(brk - 1)
  /\ heap \in [DOMAIN heap -> Nodes]
  /\ root \in Nat /\ current \in Nat /\ father \in Nat
  /\ pc \in {"idle", "put", "get", "crashed"}
  /\ hex \in Seq(Nibble) /\ (pc \in {"put", "get"} => Len(hex) = HexLen)
  /\ value \in Values \cup {Default}
  /\ start \in Nat /\ elIndex \in Nibble
  /\ ret \in Values \cup {Default, "none", "done", "threw", "crashed"}
  /\ puts \in 0..MaxPuts

\* The nodes form a tree: the root and every non-null pointer lead to a live
\* node, no node has two pointers to it, an extension leads to a branch.  This
\* is what lets put free or drop a node (trie.h:157, 179, 207, 291) after the one
\* pointer to it was replaced.
RootOK == root # Null => root \in DOMAIN heap /\ heap[root].at = <<>>

PointersOK ==
  \A n \in DOMAIN heap, s \in Slot : Target(heap[n], s) # Null =>
    /\ Target(heap[n], s) \in DOMAIN heap \ {root}
    /\ heap[Target(heap[n], s)].at = heap[n].at \o Label(heap[n], s)

NoSharing ==
  \A n \in DOMAIN heap, s \in Slot : Target(heap[n], s) # Null =>
    \A m \in DOMAIN heap, t \in Slot :
      Target(heap[m], t) = Target(heap[n], s) => m = n /\ t = s

ExtensionsOK ==
  \A n \in DOMAIN heap : heap[n].type = "EXTENSION" =>
    heap[n].next \in DOMAIN heap /\ heap[heap[n].next].type = "BRANCH"

TreeShape == RootOK /\ PointersOK /\ NoSharing /\ ExtensionsOK

\* While put descends, father and el_index name the very pointer that leads to
\* current, although el_index is not updated at an extension: replace
\* (trie.h:156, 177, 204, 249, 271, 289) overwrites that pointer and no other.
\* The key agrees with the path so far, and key_hex is not read past its end at
\* a branch.
CursorLinked ==
  pc = "put" /\ current # Null =>
    /\ current \in DOMAIN heap
    /\ heap[current].at = SubSeq(hex, 1, start) /\ start <= HexLen
    /\ IF father = Null THEN current = root
       ELSE /\ father \in DOMAIN heap
            /\ current = Target(heap[father], IF FatherIsBranch THEN elIndex ELSE 16)
    /\ heap[current].type = "BRANCH" => start < HexLen

\* The split cases keep the trie compact: every branch parts at least two
\* subtrees, so no chain of single-child nodes can build up.
BranchArity ==
  \A n \in DOMAIN heap : heap[n].type = "BRANCH" =>
    Cardinality({i \in Nibble : heap[n].children[i] # Null}) >= 2

\* Whatever splits have happened since, a descent that consumes the key one
\* nibble per branch ends at the node that holds it, and every key is held once.
EveryKeyLocated ==
  \A n \in Stored : Len(KeyAt(n)) = HexLen /\ Locate(KeyAt(n)) = n

\* The counters of branches and extensions drift upwards (a leaf that is split
\* is counted twice at trie.h:216 and Node.cpp:84, a refused key is counted),
\* but never below the number of values stored under the node.
NeverUndercounts ==
  \A n \in Counters :
    heap[n].leaves >= Cardinality({m \in Stored :
                        SubSeq(KeyAt(m), 1, Len(heap[n].at)) = heap[n].at})

\* The drift is bounded: although replace adds to a branch all that a split
\* subtree counts more than the node it replaces (Node.cpp:84), again and again
\* as the subtrees below it are split, no call of put adds more than two to any
\* counter on the whole.  The 16 bits last for 32767 calls.
DriftBounded == \A n \in Counters : heap[n].leaves <= 2 * puts

\* A call of put or get comes to an end: every iteration of the loops at
\* trie.h:67 and trie.h:123 moves on or returns.
CallsEnd == pc \in {"put", "get"} ~> pc \in {"idle", "crashed"}

\* put implements the write-once map of module OnceMap.
Map == INSTANCE OnceMap
         WITH map <- Contents, call <- [op |-> pc, key |-> hex, value |-> value], reply <- ret

ImplementsOnceMap == Map!Spec

\* What trie/test/TrieTest.cpp:36 expects: get of a key that was put answers
\* the value that was put.
PutThenGet ==
  [][pc = "get" /\ pc' = "idle" /\ hex \in DOMAIN Contents => ret' = Contents[hex]]_vars

\* What the comment at trie.h:154 says of a mismatch in an extension: the new
\* branch takes the place of the extension.
ExtensionReplaced ==
  [][Node("put", "EXTENSION") /\ -1 \notin Compare(heap[current].path)
       => current \notin DOMAIN heap' /\ hex \in DOMAIN Contents']_vars

=============================================================================

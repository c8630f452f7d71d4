-------------------------- MODULE TrieCount_proofs -------------------------
(***************************************************************************)
(* Proofs about the counters of branches and extensions, for fewer than    *)
(* 32768 calls of put: no counter exceeds twice the number of calls, so    *)
(* that 16 bits are enough, and none falls below the number of values      *)
(* stored under its node.                                                  *)
(***************************************************************************)
EXTENDS TrieFind_proofs

-----------------------------------------------------------------------------
(* Where a put comes from *)

\* The counter the put in progress has counted last is that of the father, which
\* lies above the current node; an extension leads to a branch.
LEMMA FatherPlace ==
  ASSUME Inv, pc = "put", current # Null, father # Null
  PROVE  /\ father \in Counters /\ father # current
         /\ Len(heap[father].at) \in Nat /\ Extends(Here.at, heap[father].at)
         /\ heap[father].type = "BRANCH" =>
              /\ Len(heap[father].at) + 1 = start
              /\ heap[father].children[elIndex] = current /\ elIndex \in Nibble
         /\ heap[father].type = "EXTENSION" =>
              /\ heap[father].next = current /\ Here.type = "BRANCH"
              /\ Len(heap[father].at) <= start
<1>1. /\ father \in DOMAIN heap /\ TypeOK /\ TreeShape /\ elIndex \in Nibble /\ elIndex \in Slot
      /\ current = Target(heap[father], IF FatherIsBranch THEN elIndex ELSE 16)
      /\ current \in DOMAIN heap /\ Len(Here.at) = start /\ start \in Nat
  BY PutCursor DEF Inv, NodesOK, CallOK, CursorLinked, TypeOK, Here, Nibble, Slot
<1>2. heap[father].at \in Seq(Nibble) /\ Len(heap[father].at) \in Nat
  BY <1>1, PlaceTyped
<1>3. CASE FatherIsBranch
  <2>1. /\ heap[father].type = "BRANCH" /\ heap[father].children[elIndex] = current
        /\ heap[current].at = heap[father].at \o <<elIndex>>
        /\ Len(heap[current].at) = Len(heap[father].at) + 1
    BY <1>1, <1>3, ReplacedSlot, BranchChild DEF FatherIsBranch
  <2>2. \A j \in 1..Len(heap[father].at) : heap[current].at[j] = heap[father].at[j]
    <3>1. <<elIndex>> \in Seq(Nibble) /\ Len(<<elIndex>>) = 1
      BY <1>1
    <3> QED
      BY <1>2, <2>1, <3>1, ConcatProperties
  <2> QED
    BY <1>1, <1>2, <2>1, <2>2 DEF Counters, Here, Extends
<1>4. CASE ~ FatherIsBranch
  <2>1. heap[father].type = "EXTENSION"
    BY <1>1, <1>4 DEF Target, FatherIsBranch
  <2>2. /\ heap[father].next = current /\ Here.type = "BRANCH"
        /\ Here.at = heap[father].at \o heap[father].path
    BY <1>1, <1>4, <2>1, ExtensionNext DEF Here
  <2>3. /\ Len(heap[father].path) \in Nat
        /\ Len(Here.at) = Len(heap[father].at) + Len(heap[father].path)
        /\ \A j \in 1..Len(heap[father].at) : Here.at[j] = heap[father].at[j]
    BY <1>1, <2>1, <2>2, PlaceTyped
  <2> DEFINE lf == Len(heap[father].at)
             lp == Len(heap[father].path)
  <2>4. start = lf + lp /\ lf \in Nat /\ lp \in Nat
    BY <1>1, <1>2, <2>3
  <2> HIDE DEF lf, lp
  <2>5. lf <= start
    BY <2>4
  <2>6. father # current
    BY <2>1, <2>2 DEF Here
  <2> QED
    BY <1>1, <1>2, <2>1, <2>2, <2>3, <2>5, <2>6 DEF Counters, Extends, lf
<1> QED
  BY <1>3, <1>4

\* A pointer is that of the father if it leads to the current node.
LEMMA OnlyFather ==
  ASSUME Inv, pc = "put", current # Null,
         NEW e \in DOMAIN heap, heap[e].type = "EXTENSION", heap[e].next = current
  PROVE  e = father
<1>1. /\ TypeOK /\ TreeShape /\ current \in DOMAIN heap
      /\ IF father = Null THEN current = root
         ELSE /\ father \in DOMAIN heap
              /\ current = Target(heap[father], IF FatherIsBranch THEN elIndex ELSE 16)
      /\ elIndex \in Slot /\ 16 \in Slot
  BY DEF Inv, NodesOK, CallOK, CursorLinked, TypeOK, Nibble, Slot
<1>2. Target(heap[e], 16) = current /\ current # root
  BY <1>1, ExtensionNext
<1>3. PICK s \in Slot : current = Target(heap[father], s) /\ father \in DOMAIN heap
  BY <1>1, <1>2
<1> QED
  BY <1>1, <1>2, <1>3 DEF TreeShape, NoSharing

\* An extension at the place of a branch leads to it.
LEMMA SamePlace ==
  ASSUME Held, NEW b \in DOMAIN heap, NEW e \in DOMAIN heap,
         heap[b].type = "BRANCH", heap[e].type = "EXTENSION",
         Extends(heap[e].at, heap[b].at), Len(heap[e].at) = Len(heap[b].at)
  PROVE  heap[e].next = b
<1> DEFINE w == heap[e].at \o heap[e].path
           c == heap[e].next
<1>1. /\ TypeOK /\ TreeShape /\ Len(heap[b].at) \in Nat /\ Len(w) \in Nat
      /\ c \in DOMAIN heap /\ heap[c].type = "BRANCH" /\ heap[c].at = w
  BY PlaceTyped, PlaceEnd, ExtensionNext DEF Held, Inv, NodesOK
<1>2. Extends(heap[b].at, heap[e].at)
  BY <1>1 DEF Extends
<1>3. Beside(heap[e], heap[b])
  BY DEF Held, Places, Apart
<1>4. Extends(heap[b].at, w)
  BY <1>2, <1>3 DEF Beside
<1>5. Len(w) <= Len(heap[b].at) /\ Len(w) >= Len(heap[e].at)
  <2>1. Len(heap[e].path) \in Nat /\ Len(w) = Len(heap[e].at) + Len(heap[e].path)
    BY <1>1, PlaceTyped
  <2> DEFINE lw == Len(w)
             le == Len(heap[e].at)
             lp == Len(heap[e].path)
  <2>2. lw = le + lp /\ le \in Nat /\ lp \in Nat
    BY <1>1, <2>1
  <2> HIDE DEF lw, le, lp
  <2>3. lw >= le
    BY <2>2
  <2> QED
    BY <1>4, <2>3 DEF Extends, lw, le
<1>6. ASSUME c # b PROVE FALSE
  <2>1. Beside(heap[c], heap[b])
    BY <1>1, <1>6 DEF Held, Places, Apart
  <2>2. Extends(heap[b].at, heap[c].at)
    BY <1>1, <1>4, Zenon
  <2>3. ~ (Len(heap[b].at) > Len(heap[c].at))
    <3> DEFINE lw == Len(w)
               lb == Len(heap[b].at)
    <3>1. lw \in Nat /\ lb \in Nat /\ lb <= lw /\ Len(heap[c].at) = lw
      BY <1>1, <1>5, Zenon
    <3> HIDE DEF lw, lb
    <3>2. ~ (lb > lw)
      BY <3>1
    <3> QED
      BY <3>1, <3>2 DEF lb
  <2> QED
    BY <1>1, <2>1, <2>2, <2>3 DEF Beside
<1> QED
  BY <1>6

-----------------------------------------------------------------------------
(* What a counter counts *)

\* Each call of put has two tokens, and a counter is the number of those that
\* have reached its node.
Tokens == 1..(2 * puts)
First  == 2 * puts - 1
Second == 2 * puts

\* The nodes above current that put has counted its key in.
Passed(n) ==
  pc = "put" /\ Extends(hex, heap[n].at) /\ (Len(heap[n].at) < start \/ n = father)

Aside(n, k) == ~ Extends(heap[n].at, heap[k].at) /\ ~ Extends(heap[k].at, heap[n].at)

\* A says which tokens have reached which node.
SharesCounted(A) ==
  A \in [Counters -> SUBSET Tokens] /\ \A n \in Counters : heap[n].leaves = Cardinality(A[n])

\* What is counted in an extension is counted in its branch, but for the key that
\* is on its way there.
SharesBelow(A) ==
  \A e \in Counters : heap[e].type = "EXTENSION" =>
    A[e] \subseteq A[heap[e].next] \cup (IF pc = "put" /\ father = e THEN {First} ELSE {})

\* What a branch counts more than the extension before it has not reached the
\* branches above: there is room for it when the extension is split and replace
\* adds it to the father (Node.cpp:84).
SharesAbove(A) ==
  \A b \in Counters, e \in Counters :
    heap[b].type = "BRANCH" /\ heap[e].type = "EXTENSION"
    /\ Len(heap[e].at) > Len(heap[b].at) /\ Extends(heap[e].at, heap[b].at)
      => A[b] \cap (A[heap[e].next] \ A[e]) = {}

\* No token reaches two subtrees.
SharesApart(A) ==
  \A n \in Counters, k \in Counters : Aside(n, k) => A[n] \cap A[k] = {}

\* The tokens of the call in progress.
SharesFresh(A) ==
  pc = "put" =>
    /\ puts # 0
    /\ \A n \in Counters : Second \notin A[n] /\ (First \in A[n] => Passed(n))
    /\ father \in Counters /\ heap[father].type = "EXTENSION" => First \in A[father]

Shares(A) ==
  SharesCounted(A) /\ SharesBelow(A) /\ SharesAbove(A) /\ SharesApart(A) /\ SharesFresh(A)

Shared == \E A : Shares(A)

\* So many calls that their tokens can be counted in 16 bits.
FewPuts == MaxPuts < 32768

\* Few tokens fit a counter.
LEMMA TokensFit ==
  ASSUME FewPuts, TypeOK, NEW S \in SUBSET Tokens
  PROVE  /\ IsFiniteSet(S) /\ Cardinality(S) \in Nat /\ Cardinality(S) <= 2 * puts
         /\ Wrap(Cardinality(S)) = Cardinality(S) /\ puts \in Nat
<1>1. puts \in Nat /\ 2 * puts \in Int /\ 2 * puts < 65536
  <2>1. puts \in 0..MaxPuts /\ MaxPuts \in Nat
    BY TrieAssumption DEF TypeOK
  <2> QED
    BY <2>1 DEF FewPuts
<1>2. IsFiniteSet(Tokens) /\ Cardinality(Tokens) = 2 * puts
  <2> DEFINE d == 2 * puts
  <2>1. d \in Nat
    BY <1>1
  <2> HIDE DEF d
  <2>2. IsFiniteSet(1..d)
    BY <2>1, FS_Interval
  <2>3. Cardinality(1..d) = d
    BY <2>1, FS_Interval
  <2> QED
    BY <2>2, <2>3 DEF Tokens, d
<1>3. IsFiniteSet(S) /\ Cardinality(S) <= Cardinality(Tokens)
  BY <1>2, FS_Subset
<1>4. Cardinality(S) \in Nat
  BY <1>3, FS_CardinalityType
<1> DEFINE c == Cardinality(S)
<1>5. c \in Nat /\ c <= 2 * puts
  BY <1>2, <1>3, <1>4
<1> HIDE DEF c
<1>6. Wrap(c) = c
  BY <1>1, <1>5 DEF Wrap
<1> QED
  BY <1>1, <1>3, <1>5, <1>6 DEF c

\* The tokens of the call in progress are two.
LEMMA TokensTwo ==
  ASSUME TypeOK, puts # 0
  PROVE  First \in Tokens /\ Second \in Tokens /\ First # Second
<1>1. puts \in Nat
  BY DEF TypeOK
<1> QED
  BY <1>1 DEF First, Second, Tokens

-----------------------------------------------------------------------------
(* Steps that keep the shares *)

\* What is said of the shares depends on the tree and on put's cursor.
LEMMA SharesSame ==
  ASSUME NEW A, Shares(A), UNCHANGED <<tree, pc, hex, start, father, puts>>
  PROVE  Shares(A)'
BY DEF Shares, SharesCounted, SharesBelow, SharesAbove, SharesApart, SharesFresh,
       Counters, Tokens, First, Second, Passed, Aside, Extends, tree

\* A put that has counted its key in an extension is not at a leaf or a value.
LEMMA BelowAll ==
  ASSUME Inv, NEW A, Shares(A),
         pc = "put" => father \notin Counters \/ heap[father].type # "EXTENSION"
  PROVE  \A e \in Counters : heap[e].type = "EXTENSION" => A[e] \subseteq A[heap[e].next]
BY DEF Shares, SharesBelow

\* A call ends that has counted its key in no extension last.
LEMMA SharesEnd ==
  ASSUME Inv, NEW A, Shares(A), UNCHANGED <<tree, puts>>, pc' # "put",
         pc = "put" => father \notin Counters \/ heap[father].type # "EXTENSION"
  PROVE  Shares(A)'
<1>1. SharesCounted(A)' /\ SharesAbove(A)' /\ SharesApart(A)' /\ SharesFresh(A)'
  BY DEF Shares, SharesCounted, SharesAbove, SharesApart, SharesFresh,
         Counters, Tokens, Aside, Extends, tree
<1>2. \A e \in Counters : heap[e].type = "EXTENSION" => A[e] \subseteq A[heap[e].next]
  BY BelowAll
<1>3. SharesBelow(A)'
  BY <1>2 DEF SharesBelow, Counters, tree
<1> QED
  BY <1>1, <1>3 DEF Shares

\* A call of put brings two new tokens.
LEMMA SharesBegin ==
  ASSUME Inv, NEW A, Shares(A), NEW k, NEW v, PutCall(k, v)
  PROVE  Shares(A)'
<1>1. /\ UNCHANGED tree /\ pc = "idle" /\ puts' = puts + 1 /\ father' = Null /\ puts \in Nat
      /\ Null \notin DOMAIN heap
  <2>1. puts \in Nat /\ \A n \in DOMAIN heap : n # Null
    BY NodeTypes DEF Inv, TypeOK
  <2> QED
    BY <2>1 DEF PutCall, Begin
<1>2. Tokens \subseteq Tokens' /\ First' \notin Tokens /\ Second' \notin Tokens
  BY <1>1 DEF Tokens, First, Second
<1>3. Counters' = Counters /\ heap' = heap
  BY <1>1 DEF Counters, tree
<1>4. A \in [Counters -> SUBSET Tokens]
  BY DEF Shares, SharesCounted
<1>5. SharesCounted(A)'
  <2>1. A \in [Counters -> SUBSET Tokens']
    BY <1>2, <1>4
  <2> QED
    BY <1>3, <2>1 DEF Shares, SharesCounted
<1>6. SharesFresh(A)'
  <2>1. puts' # 0
    BY <1>1
  <2>2. \A n \in Counters : First' \notin A[n] /\ Second' \notin A[n]
    BY <1>2, <1>4
  <2>3. father' \notin Counters'
    BY <1>1, <1>3 DEF Counters
  <2> QED
    BY <1>3, <2>1, <2>2, <2>3 DEF SharesFresh
<1>7. SharesBelow(A)'
  <2>1. \A e \in Counters : heap[e].type = "EXTENSION" => A[e] \subseteq A[heap[e].next]
    BY <1>1, BelowAll
  <2> QED
    BY <1>3, <2>1 DEF SharesBelow
<1>8. SharesAbove(A)' /\ SharesApart(A)'
  BY <1>3 DEF Shares, SharesAbove, SharesApart, Aside, Extends
<1> QED
  BY <1>5, <1>6, <1>7, <1>8 DEF Shares

\* The first leaf has no counter.
LEMMA SharesRoot == ASSUME Held, PutRoot, NEW A, A = [n \in {} |-> Null] PROVE Shares(A)'
<1>1. DOMAIN heap = {} /\ pc' = "idle"
  BY DEF PutRoot, Return, Held, Places, RootNode
<1>2. DOMAIN heap' = {brk} /\ heap'[brk].type = "LEAF"
  BY <1>1 DEF PutRoot, Overlay, Leaf
<1>3. Counters' = {}
  BY <1>2 DEF Counters
<1> QED
  BY <1>1, <1>3 DEF Shares, SharesCounted, SharesBelow, SharesAbove, SharesApart, SharesFresh

\* The steps that count the key at hand in the current node.
LEMMA CountsHere ==
  ASSUME Inv, PutExtensionMatch \/ PutBranchDown \/ PutBranchNew
  PROVE  /\ pc = "put" /\ current # Null /\ current \in Counters
         /\ Counters' = Counters
         /\ \A n \in Counters : /\ heap'[n].at = heap[n].at /\ heap'[n].type = heap[n].type
                                /\ heap[n].type = "EXTENSION" => heap'[n].next = heap[n].next
         /\ heap'[current].leaves = Wrap(heap[current].leaves + 1)
         /\ \A n \in Counters \ {current} : heap'[n].leaves = heap[n].leaves
         /\ puts' = puts /\ hex' = hex
         /\ Here.type = "EXTENSION" => pc' = "put"
         /\ pc' = "put" => /\ father' = current /\ start' \in Nat /\ start' >= start
                           /\ Here.type = "BRANCH" => start' = start + 1
<1>1. /\ pc = "put" /\ current # Null /\ current \in DOMAIN heap /\ start \in Nat /\ TypeOK
      /\ Here.type \in {"BRANCH", "EXTENSION"}
      /\ brk \in Nat /\ DOMAIN heap \subseteq 1..(brk - 1)
  BY PutCursor DEF PutExtensionMatch, PutBranchDown, PutBranchNew, Node, Here, Inv, TypeOK
<1>2. current \in Counters
  BY <1>1 DEF Counters, Here
<1>3. /\ Here.type = "BRANCH" => Here \in BranchNodes
      /\ Here.type = "EXTENSION" => Here \in ExtensionNodes /\ Len(Here.path) \in Nat
  BY <1>1, NodeTypes, PlaceTyped DEF Here
<1>4. CASE PutExtensionMatch \/ PutBranchDown
  <2>1. /\ DOMAIN heap' = DOMAIN heap
        /\ \A n \in DOMAIN heap \ {current} : heap'[n] = heap[n]
        /\ heap'[current] = [Here EXCEPT !.leaves = Wrap(@ + 1)]
    BY <1>1, <1>4 DEF PutExtensionMatch, PutBranchDown, Here
  <2>2. /\ heap'[current].at = Here.at /\ heap'[current].type = Here.type
        /\ Here.type = "EXTENSION" => heap'[current].next = Here.next
        /\ heap'[current].leaves = Wrap(Here.leaves + 1)
    <3> DEFINE node == heap'[current]
               h    == Here
               l    == Wrap(h.leaves + 1)
    <3>1. node = [h EXCEPT !.leaves = l] /\ (h \in BranchNodes \/ h \in ExtensionNodes)
      BY <1>1, <1>3, <2>1
    <3> HIDE DEF node, h, l
    <3>2. /\ node.at = h.at /\ node.type = h.type /\ node.leaves = l
          /\ h.type = "EXTENSION" => node.next = h.next
      <4>1. CASE h \in BranchNodes
        BY <3>1, <4>1 DEF BranchNodes
      <4>2. CASE h \in ExtensionNodes
        BY <3>1, <4>2 DEF ExtensionNodes
      <4> QED
        BY <3>1, <4>1, <4>2
    <3> QED
      BY <3>2 DEF node, h, l
  <2>3. Counters' = Counters
    BY <1>1, <2>1, <2>2 DEF Counters, Here
  <2>4. /\ puts' = puts /\ hex' = hex /\ pc' = "put" /\ father' = current
        /\ start' \in Nat /\ start' >= start
        /\ Here.type = "BRANCH" => start' = start + 1
    <3>1. CASE PutBranchDown
      <4>1. start' = start + 1 /\ puts' = puts /\ hex' = hex /\ pc' = pc /\ father' = current
        BY <3>1 DEF PutBranchDown, Descend, args
      <4> QED
        BY <1>1, <4>1
    <3>2. CASE PutExtensionMatch
      <4>1. /\ start' = start + Len(Here.path) /\ puts' = puts /\ hex' = hex /\ pc' = pc
            /\ father' = current /\ Here.type = "EXTENSION"
        BY <3>2 DEF PutExtensionMatch, Descend, args, Node, Here
      <4> QED
        BY <1>1, <1>3, <4>1
    <3> QED
      BY <1>4, <3>1, <3>2
  <2> QED
    BY <1>1, <1>2, <2>1, <2>2, <2>3, <2>4 DEF Counters, Here
<1>5. CASE PutBranchNew
  <2> DEFINE i == hex[start + 1]
             t == Append(Here.at, i)
             p == After(hex, start) \o [j \in 1..(start + 1) |-> Junk]
  <2>1. /\ heap' = Overlay(heap, [a \in {current, brk} |->
                     IF a = brk THEN Leaf(t, p, value)
                     ELSE [Here EXCEPT !.children[i] = brk, !.leaves = Wrap(@ + 1)]])
        /\ Here.type = "BRANCH"
    BY <1>5 DEF PutBranchNew, Node, Here
  <2> HIDE DEF i, t, p
  <2>2. /\ DOMAIN heap' = DOMAIN heap \cup {brk} /\ brk \notin DOMAIN heap
        /\ heap'[brk] = Leaf(t, p, value)
        /\ heap'[current] = [Here EXCEPT !.children[i] = brk, !.leaves = Wrap(@ + 1)]
        /\ \A n \in DOMAIN heap \ {current} : heap'[n] = heap[n]
    BY <1>1, <2>1 DEF Overlay
  <2>3. /\ heap'[current].at = Here.at /\ heap'[current].type = "BRANCH"
        /\ heap'[current].leaves = Wrap(Here.leaves + 1) /\ heap'[brk].type = "LEAF"
    <3> DEFINE node == heap'[current]
               h    == Here
               l    == Wrap(h.leaves + 1)
    <3>1. node = [h EXCEPT !.children[i] = brk, !.leaves = l] /\ h \in BranchNodes
      BY <1>3, <2>1, <2>2
    <3> HIDE DEF node, h, l
    <3>2. node.at = h.at /\ node.type = "BRANCH" /\ node.leaves = l
      BY <3>1 DEF BranchNodes
    <3>3. heap'[brk].type = "LEAF"
      BY <2>2 DEF Leaf
    <3> QED
      BY <3>2, <3>3 DEF node, h, l
  <2>4. Counters' = Counters
    BY <1>1, <2>1, <2>2, <2>3 DEF Counters, Here
  <2>5. puts' = puts /\ hex' = hex /\ pc' = "idle"
    BY <1>5 DEF PutBranchNew, Return, args
  <2> QED
    BY <1>1, <1>2, <2>1, <2>2, <2>3, <2>4, <2>5 DEF Counters, Here
<1> QED
  BY <1>4, <1>5

\* Where put's cursor is among the counters.
LEMMA CounterPlaces ==
  ASSUME Inv
  PROVE  /\ \A n \in Counters : n \in DOMAIN heap /\ Len(heap[n].at) \in Nat
         /\ \A e \in Counters : heap[e].type = "EXTENSION" =>
              /\ heap[e].next \in Counters /\ heap[heap[e].next].type = "BRANCH"
              /\ heap[e].next # e
              /\ Len(heap[e].at) <= Len(heap[heap[e].next].at)
              /\ Extends(heap[heap[e].next].at, heap[e].at)
<1>1. TypeOK /\ TreeShape
  BY DEF Inv, NodesOK
<1>2. \A n \in Counters : n \in DOMAIN heap /\ Len(heap[n].at) \in Nat
  BY <1>1, PlaceTyped DEF Counters
<1>3. ASSUME NEW e \in Counters, heap[e].type = "EXTENSION"
      PROVE  /\ heap[e].next \in Counters /\ heap[heap[e].next].type = "BRANCH"
             /\ heap[e].next # e
             /\ Len(heap[e].at) <= Len(heap[heap[e].next].at)
             /\ Extends(heap[heap[e].next].at, heap[e].at)
  <2> DEFINE c == heap[e].next
             le == Len(heap[e].at)
             lp == Len(heap[e].path)
  <2>1. /\ c \in DOMAIN heap /\ heap[c].type = "BRANCH"
        /\ heap[c].at = heap[e].at \o heap[e].path /\ Len(heap[c].at) = le + lp
    BY <1>1, <1>2, <1>3, ExtensionNext
  <2>2. /\ lp \in Nat /\ le \in Nat
        /\ \A j \in 1..le : (heap[e].at \o heap[e].path)[j] = heap[e].at[j]
    BY <1>1, <1>2, <1>3, PlaceTyped
  <2>3. c \in Counters /\ c # e
    BY <1>3, <2>1 DEF Counters
  <2> HIDE DEF c, le, lp
  <2>4. le <= le + lp
    BY <2>2
  <2>5. le <= Len(heap[c].at)
    BY <2>1, <2>4
  <2>6. Extends(heap[c].at, heap[e].at)
    BY <2>1, <2>2, <2>5 DEF Extends, le
  <2> QED
    BY <2>1, <2>3, <2>5, <2>6 DEF c, le
<1> QED
  BY <1>2, <1>3

\* The token of the key at hand has reached nodes above it only.
LEMMA FirstAbove ==
  ASSUME Inv, NEW A, Shares(A), pc = "put", current # Null, NEW n \in Counters, First \in A[n]
  PROVE  /\ Extends(hex, heap[n].at) /\ Len(heap[n].at) \in Nat
         /\ Len(heap[n].at) < start \/ n = father
         /\ Len(heap[n].at) <= start /\ n # current
<1>1. /\ Passed(n) /\ Len(heap[n].at) \in Nat /\ n \in DOMAIN heap /\ n # Null
      /\ Len(heap[current].at) = start /\ start \in Nat
  BY PutCursor, CounterPlaces, NodeTypes DEF Shares, SharesFresh, Inv, TypeOK
<1>2. n = father => /\ father # current /\ heap[father].type \in {"BRANCH", "EXTENSION"}
                    /\ heap[father].type = "BRANCH" => Len(heap[father].at) + 1 = start
                    /\ heap[father].type = "EXTENSION" => Len(heap[father].at) <= start
  BY <1>1, FatherPlace DEF Counters
<1> QED
  BY <1>1, <1>2 DEF Passed

\* A key that is counted in the current node has not been counted there before.
LEMMA SharesCount ==
  ASSUME FewPuts, Inv, PutExtensionMatch \/ PutBranchDown \/ PutBranchNew,
         NEW A, Shares(A), NEW B, B = [A EXCEPT ![current] = @ \cup {First}]
  PROVE  Shares(B)'
<1>1. /\ pc = "put" /\ current # Null /\ current \in Counters
      /\ Counters' = Counters
      /\ \A n \in Counters : /\ heap'[n].at = heap[n].at /\ heap'[n].type = heap[n].type
                             /\ heap[n].type = "EXTENSION" => heap'[n].next = heap[n].next
      /\ heap'[current].leaves = Wrap(heap[current].leaves + 1)
      /\ \A n \in Counters \ {current} : heap'[n].leaves = heap[n].leaves
      /\ puts' = puts /\ hex' = hex
      /\ Here.type = "EXTENSION" => pc' = "put"
      /\ pc' = "put" => /\ father' = current /\ start' \in Nat /\ start' >= start
                        /\ Here.type = "BRANCH" => start' = start + 1
  BY CountsHere
<1>2. /\ A \in [Counters -> SUBSET Tokens] /\ \A n \in Counters : heap[n].leaves = Cardinality(A[n])
      /\ TypeOK /\ puts # 0 /\ Tokens' = Tokens /\ First' = First /\ Second' = Second
      /\ First \in Tokens /\ First # Second
  BY <1>1, TokensTwo DEF Inv, Shares, SharesCounted, SharesFresh, Tokens, First, Second
<1>3. /\ \A n \in Counters \ {current} : B[n] = A[n]
      /\ B[current] = A[current] \cup {First}
      /\ B \in [Counters -> SUBSET Tokens]
  BY <1>1, <1>2
<1>4. /\ \A n \in Counters : n \in DOMAIN heap /\ Len(heap[n].at) \in Nat
      /\ \A e \in Counters : heap[e].type = "EXTENSION" =>
           /\ heap[e].next \in Counters /\ heap[heap[e].next].type = "BRANCH"
           /\ heap[e].next # e
           /\ Len(heap[e].at) <= Len(heap[heap[e].next].at)
           /\ Extends(heap[heap[e].next].at, heap[e].at)
  BY CounterPlaces
<1>5. \A n \in Counters : First \in A[n] =>
        /\ Extends(hex, heap[n].at)
        /\ Len(heap[n].at) < start \/ n = father
        /\ Len(heap[n].at) <= start /\ n # current
  BY <1>1, FirstAbove
<1>6. /\ start \in Nat /\ Len(hex) \in Nat /\ Len(heap[current].at) = start
      /\ Extends(hex, heap[current].at)
  <2>1. /\ start \in 0..HexLen /\ HexLen \in Nat /\ Len(hex) = HexLen
        /\ heap[current].at = SubSeq(hex, 1, start) /\ Len(heap[current].at) = start
        /\ \A j \in 1..HexLen : hex[j] \in Nibble
    BY <1>1, PutCursor
  <2>2. \A j \in 1..start : SubSeq(hex, 1, start)[j] = hex[j]
    BY <2>1, SubSeqProperties
  <2> QED
    BY <2>1, <2>2 DEF Extends
<1>7. father \in Counters =>
        /\ father # current
        /\ heap[father].type = "BRANCH" => Len(heap[father].at) + 1 = start
        /\ heap[father].type = "EXTENSION" =>
             /\ heap[father].next = current /\ Here.type = "BRANCH"
             /\ Len(heap[father].at) <= start /\ First \in A[father]
  <2>1. father \in Counters => father # Null
    BY <1>4, NodeTypes DEF Inv
  <2> QED
    BY <1>1, <2>1, FatherPlace DEF Shares, SharesFresh
<1>8. \A e \in Counters : heap[e].type = "EXTENSION" /\ heap[e].next = current => e = father
  BY <1>1, <1>4, OnlyFather
<1>9. SharesCounted(B)'
  <2>1. heap'[current].leaves = Cardinality(B[current])
    <3>1. /\ IsFiniteSet(A[current]) /\ Cardinality(A[current]) \in Nat
          /\ heap[current].leaves = Cardinality(A[current]) /\ First \notin A[current]
      BY <1>1, <1>2, <1>5, TokensFit
    <3>2. Cardinality(B[current]) = Cardinality(A[current]) + 1
      <4> DEFINE S == A[current]
                 t == First
      <4>1. IsFiniteSet(S) /\ t \notin S
        BY <3>1
      <4> HIDE DEF S, t
      <4>2. Cardinality(S \cup {t}) = Cardinality(S) + 1
        BY <4>1, FS_AddElement
      <4> QED
        BY <1>3, <4>2 DEF S, t
    <3>3. Wrap(Cardinality(B[current])) = Cardinality(B[current])
      BY <1>1, <1>2, <1>3, TokensFit
    <3> QED
      BY <1>1, <3>1, <3>2, <3>3
  <2> QED
    BY <1>1, <1>2, <1>3, <2>1 DEF SharesCounted
<1>10. SharesBelow(B)'
  <2> SUFFICES ASSUME NEW e \in Counters, heap[e].type = "EXTENSION"
               PROVE  B[e] \subseteq B[heap[e].next]
                                     \cup (IF pc' = "put" /\ father' = e THEN {First} ELSE {})
    BY <1>1, <1>2 DEF SharesBelow
  <2>1. A[e] \subseteq A[heap[e].next] \cup (IF father = e THEN {First} ELSE {})
    BY <1>1 DEF Shares, SharesBelow
  <2>2. heap[e].next \in Counters /\ heap[e].next # e
    BY <1>4
  <2>3. CASE e = current
    <3>1. A[e] \subseteq A[heap[e].next] /\ B[heap[e].next] = A[heap[e].next]
      BY <1>3, <1>7, <2>1, <2>2, <2>3
    <3>2. pc' = "put" /\ father' = e
      BY <1>1, <2>3 DEF Here
    <3> QED
      BY <1>3, <2>3, <3>1, <3>2
  <2>4. CASE e # current /\ heap[e].next = current
    BY <1>3, <2>1, <2>4
  <2>5. CASE e # current /\ heap[e].next # current
    <3>1. e # father
      BY <1>7, <2>5
    <3> QED
      BY <1>3, <2>1, <2>2, <2>5, <3>1
  <2> QED
    BY <2>3, <2>4, <2>5
<1>11. SharesAbove(B)'
  <2> SUFFICES ASSUME NEW b \in Counters, NEW e \in Counters,
                      heap[b].type = "BRANCH", heap[e].type = "EXTENSION",
                      Len(heap[e].at) > Len(heap[b].at), Extends(heap[e].at, heap[b].at)
               PROVE  B[b] \cap (B[heap[e].next] \ B[e]) = {}
    BY <1>1 DEF SharesAbove, Extends
  <2>1. A[b] \cap (A[heap[e].next] \ A[e]) = {}
    BY DEF Shares, SharesAbove
  <2>2. /\ heap[e].next \in Counters /\ heap[e].next # e
        /\ Len(heap[e].at) <= Len(heap[heap[e].next].at)
        /\ Len(heap[e].at) \in Nat /\ Len(heap[b].at) \in Nat /\ Len(heap[heap[e].next].at) \in Nat
    BY <1>4
  <2>3. CASE b = current
    <3>1. heap[e].next # current /\ e # current
      BY <1>6, <2>2, <2>3
    <3>2. First \notin A[heap[e].next]
      BY <1>5, <1>6, <2>2, <2>3
    <3> QED
      BY <1>3, <2>1, <2>2, <2>3, <3>1, <3>2
  <2>4. CASE b # current /\ heap[e].next = current
    <3>1. First \in A[e] /\ e # current
      BY <1>7, <1>8, <2>2, <2>4
    <3> QED
      BY <1>3, <2>1, <2>4, <3>1
  <2>5. CASE b # current /\ heap[e].next # current
    BY <1>3, <2>1, <2>2, <2>5
  <2> QED
    BY <2>3, <2>4, <2>5
<1>12. SharesApart(B)'
  <2> SUFFICES ASSUME NEW n \in Counters, NEW k \in Counters, Aside(n, k)
               PROVE  B[n] \cap B[k] = {}
    <3>1. \A n \in Counters, k \in Counters : Aside(n, k)' <=> Aside(n, k)
      BY <1>1 DEF Aside
    <3> QED
      BY <1>1, <3>1 DEF SharesApart
  <2>1. A[n] \cap A[k] = {}
    BY DEF Shares, SharesApart
  <2>2. ASSUME NEW x \in Counters, NEW y \in Counters, Aside(x, y), First \in B[x], First \in B[y]
        PROVE  FALSE
    <3>1. \A z \in Counters : First \in B[z] => Extends(hex, heap[z].at)
      BY <1>3, <1>5, <1>6
    <3>2. /\ Extends(hex, heap[x].at) /\ Extends(hex, heap[y].at)
          /\ Len(heap[x].at) \in Nat /\ Len(heap[y].at) \in Nat
      BY <1>4, <2>2, <3>1
    <3> QED
      BY <1>6, <2>2, <3>2, Comparable DEF Aside
  <2>3. \A z \in Counters : B[z] \subseteq A[z] \cup {First}
    BY <1>3
  <2> QED
    BY <2>1, <2>2, <2>3
<1>13. SharesFresh(B)'
  <2> SUFFICES ASSUME pc' = "put" PROVE SharesFresh(B)'
    BY DEF SharesFresh
  <2>1. father' = current /\ start' \in Nat /\ start' >= start
    BY <1>1
  <2>2. ASSUME NEW n \in Counters PROVE Second \notin B[n]
    BY <1>1, <1>2, <1>3 DEF Shares, SharesFresh
  <2>3. ASSUME NEW n \in Counters, First \in B[n]
        PROVE  Extends(hex, heap[n].at) /\ (Len(heap[n].at) < start' \/ n = current)
    <3>1. CASE n = current
      BY <1>6, <3>1
    <3>2. CASE n # current
      <4>1. /\ First \in A[n] /\ Extends(hex, heap[n].at) /\ Len(heap[n].at) \in Nat
            /\ Len(heap[n].at) < start \/ n = father
        BY <1>3, <1>4, <1>5, <2>3, <3>2
      <4>2. CASE Len(heap[n].at) < start
        BY <1>6, <2>1, <4>1, <4>2
      <4>3. CASE n = father
        <5>1. heap[n].type \in {"BRANCH", "EXTENSION"}
          BY DEF Counters
        <5> QED
          BY <1>1, <1>6, <1>7, <2>1, <4>1, <4>3, <5>1
      <4> QED
        BY <4>1, <4>2, <4>3
    <3> QED
      BY <3>1, <3>2
  <2>4. \A n \in Counters : First \in B[n] => Passed(n)'
    BY <1>1, <2>1, <2>3 DEF Passed, Extends
  <2>5. First \in B[current]
    BY <1>3
  <2> QED
    BY <1>1, <1>2, <2>1, <2>2, <2>4, <2>5 DEF SharesFresh
<1> QED
  BY <1>9, <1>10, <1>11, <1>12, <1>13 DEF Shares

-----------------------------------------------------------------------------
(* The shares of a split *)

\* The counters that a split brings.
Grown(m, old) == Fork(m) \cup (IF Here.type = "EXTENSION" THEN {old} \ Orphans ELSE {})

\* Where they are, and what stays.
LEMMA SplitCounters ==
  ASSUME NEW m, NEW old, Parting(m), Divides(m, old), Tallies(m, old)
  PROVE  /\ Counters' = (Counters \ {current}) \cup Grown(m, old)
         /\ \A n \in Counters \ {current} :
              heap'[n].at = heap[n].at /\ heap'[n].type = heap[n].type
         /\ \A e \in Counters \ {current} : heap[e].type = "EXTENSION" =>
              e # father /\ heap'[e] = heap[e] /\ heap[e].next \in Counters \ {current}
         /\ \A n \in Grown(m, old) :
              /\ n \notin DOMAIN heap /\ Len(heap'[n].at) \in Nat
              /\ Extends(heap'[n].at, Here.at) /\ Extends(Whole, heap'[n].at)
              /\ n # brk + 3 => Extends(Prefix(m), heap'[n].at)
         /\ brk \in Grown(m, old) /\ heap'[brk].type = "BRANCH" /\ heap'[brk].at = Prefix(m)
         /\ brk # brk + 3
         /\ \A n \in Grown(m, old) : n # brk =>
              /\ heap'[n].type = "EXTENSION"
              /\ n # brk + 3 => heap'[n].next = brk
              /\ n = brk + 3 => Here.type = "EXTENSION" /\ heap'[n].next = Here.next
<1>1. /\ brk \in Nat /\ DOMAIN heap \subseteq 1..(brk - 1) /\ TypeOK /\ TreeShape
      /\ current \in DOMAIN heap /\ Here.type \in {"LEAF", "EXTENSION"}
  BY PartingPlaces DEF Parting, Inv, NodesOK, TypeOK
<1>2. /\ old \in {brk + 3} \cup Orphans
      /\ DOMAIN heap' = (DOMAIN heap \ {current}) \cup Fork(m) \cup {brk + 2} \cup ({old} \ Orphans)
      /\ \A n \in DOMAIN heap \ {current} : Same(heap'[n], heap[n])
      /\ AsFork(m, heap'[brk]) /\ (m # 0 => AsTop(m, heap'[brk + 1]))
      /\ AsNew(m, heap'[brk + 2]) /\ (old \notin Orphans => AsOld(m, heap'[old]))
  BY DEF Divides
<1>3. /\ m # 0 => heap'[brk + 1].next = brk
      /\ Here.type = "EXTENSION" /\ old \notin Orphans => heap'[old].next = Here.next
      /\ \A n \in DOMAIN heap \ {current} :
           /\ n # father => heap'[n] = heap[n]
           /\ n = father => heap[n].type = "BRANCH"
  BY DEF Tallies
<1>4. \A n \in Counters \ {current} :
        n \in DOMAIN heap \ {current} /\ heap'[n].at = heap[n].at /\ heap'[n].type = heap[n].type
  BY <1>2 DEF Counters, Same
<1>5. ASSUME NEW e \in Counters \ {current}, heap[e].type = "EXTENSION"
      PROVE  e # father /\ heap'[e] = heap[e] /\ heap[e].next \in Counters \ {current}
  <2>1. e # father /\ heap'[e] = heap[e]
    BY <1>3, <1>4, <1>5
  <2>2. heap[e].next \in Counters /\ heap[heap[e].next].type = "BRANCH"
    BY <1>5, CounterPlaces DEF Parting
  <2> QED
    BY <1>1, <2>1, <2>2 DEF Here
<1>6. /\ \A n \in Grown(m, old) : \/ n = brk /\ AsFork(m, heap'[n])
                                  \/ n = brk + 1 /\ m # 0 /\ AsTop(m, heap'[n])
                                  \/ /\ n = brk + 3 /\ n = old /\ old \notin Orphans
                                     /\ Here.type = "EXTENSION" /\ AsOld(m, heap'[n])
      /\ brk \in Grown(m, old)
  BY <1>2 DEF Grown, Fork
<1>7. /\ start \in Nat /\ m \in Nat /\ Len(Here.at) = start
      /\ Len(Prefix(m)) = start + m /\ Extends(Prefix(m), Here.at)
      /\ Len(OldAt(m)) = start + m + 1 /\ Extends(OldAt(m), Prefix(m)) /\ Extends(OldAt(m), Here.at)
      /\ Len(Whole) \in Nat /\ Extends(Whole, OldAt(m))
  BY PartingPlaces
<1>8. /\ Len(Prefix(m)) \in Nat /\ Len(OldAt(m)) \in Nat /\ Len(Here.at) \in Nat
      /\ Extends(Whole, Prefix(m)) /\ Extends(Whole, Here.at)
      /\ Extends(Prefix(m), Prefix(m)) /\ Extends(Here.at, Here.at)
  <2>1. Len(Prefix(m)) \in Nat /\ Len(OldAt(m)) \in Nat /\ Len(Here.at) \in Nat
    BY <1>7
  <2>2. Extends(Whole, Prefix(m)) /\ Extends(Whole, Here.at)
    BY <1>7, <2>1, ExtendsTrans
  <2>3. Extends(Prefix(m), Prefix(m)) /\ Extends(Here.at, Here.at)
    BY <2>1 DEF Extends
  <2> QED
    BY <2>1, <2>2, <2>3
<1>9. ASSUME NEW n \in Grown(m, old)
      PROVE  /\ n \notin DOMAIN heap /\ n \in DOMAIN heap'
             /\ heap'[n].at \in {Prefix(m), Here.at, OldAt(m)}
             /\ n # brk + 3 => heap'[n].at \in {Prefix(m), Here.at}
             /\ n # brk => /\ heap'[n].type = "EXTENSION"
                           /\ n # brk + 3 => heap'[n].next = brk
                           /\ n = brk + 3 => Here.type = "EXTENSION" /\ heap'[n].next = Here.next
             /\ heap'[n].type \in {"BRANCH", "EXTENSION"}
  <2>1. n \notin DOMAIN heap /\ brk + 1 # brk + 3
    BY <1>1, <1>6
  <2>2. n \in DOMAIN heap'
    BY <1>2, <1>6 DEF Fork
  <2>3. CASE n = brk /\ AsFork(m, heap'[n])
    BY <2>1, <2>2, <2>3 DEF AsFork
  <2>4. CASE n = brk + 1 /\ m # 0 /\ AsTop(m, heap'[n])
    BY <1>3, <2>1, <2>2, <2>4 DEF AsTop
  <2>5. CASE /\ n = brk + 3 /\ n = old /\ old \notin Orphans
             /\ Here.type = "EXTENSION" /\ AsOld(m, heap'[n])
    BY <1>3, <2>1, <2>2, <2>5 DEF AsOld
  <2> QED
    BY <1>6, <2>3, <2>4, <2>5
<1>10. \A n \in Grown(m, old) :
         /\ Len(heap'[n].at) \in Nat
         /\ Extends(heap'[n].at, Here.at) /\ Extends(Whole, heap'[n].at)
         /\ n # brk + 3 => Extends(Prefix(m), heap'[n].at)
  BY <1>7, <1>8, <1>9
<1>11. Counters' = (Counters \ {current}) \cup Grown(m, old)
  <2>1. ASSUME NEW n \in Counters' PROVE n \in (Counters \ {current}) \cup Grown(m, old)
    <3>1. n \in DOMAIN heap' /\ heap'[n].type \in {"BRANCH", "EXTENSION"}
      BY DEF Counters
    <3>2. CASE n \in DOMAIN heap \ {current}
      BY <1>2, <3>1, <3>2 DEF Counters, Same
    <3>3. n # brk + 2
      BY <1>2, <3>1 DEF AsNew
    <3>4. CASE n \in {old} \ Orphans
      BY <1>1, <1>2, <3>1, <3>4 DEF AsOld, Grown
    <3> QED
      BY <1>2, <3>1, <3>2, <3>3, <3>4 DEF Grown
  <2>2. ASSUME NEW n \in Counters \ {current} PROVE n \in Counters'
    BY <1>2, <1>4 DEF Counters
  <2>3. \A n \in Grown(m, old) : n \in Counters'
    BY <1>9 DEF Counters
  <2> QED
    BY <2>1, <2>2, <2>3
<1>12. heap'[brk].type = "BRANCH" /\ heap'[brk].at = Prefix(m) /\ brk # brk + 3
  BY <1>1, <1>2 DEF AsFork
<1> QED
  BY <1>4, <1>5, <1>6, <1>9, <1>10, <1>11, <1>12

\* The tokens of what is split, and those that the father has not seen yet.
Moved(A) == IF Here.type = "EXTENSION" THEN A[Here.next] ELSE {Second}
Extra(A) == IF Here.type = "EXTENSION" THEN A[Here.next] \ A[current] ELSE {Second}

\* They have reached nothing aside, and nothing above that has no part in the
\* split.
LEMMA SplitTokens ==
  ASSUME NEW m, Parting(m), NEW A, Shares(A)
  PROVE  /\ Moved(A) \in SUBSET Tokens /\ Extra(A) \subseteq Moved(A)
         /\ First \in Tokens /\ First \notin Moved(A)
         /\ \A k \in Counters : ~ Extends(Whole, heap[k].at) /\ ~ Extends(heap[k].at, Whole) =>
              Moved(A) \cap A[k] = {}
         /\ \A b \in Counters : heap[b].type = "BRANCH" /\ Len(heap[b].at) < start
                                  /\ Extends(Here.at, heap[b].at) => Extra(A) \cap A[b] = {}
         /\ \A n \in Counters : First \in A[n] => Extends(hex, heap[n].at)
         /\ \A n \in Counters \ {current} : Extends(heap[n].at, Here.at) => First \notin A[n]
         /\ \A e \in Counters \ {current} : heap[e].type = "EXTENSION" =>
              /\ Extends(heap[e].at, Here.at) => Moved(A) \cap (A[heap[e].next] \ A[e]) = {}
              /\ Len(heap[e].at) >= start => Extra(A) \cap (A[heap[e].next] \ A[e]) = {}
<1>1. /\ pc = "put" /\ current # Null /\ current \in DOMAIN heap /\ Inv /\ Places
      /\ TypeOK /\ TreeShape /\ Here.type \in {"LEAF", "EXTENSION"}
      /\ start \in Nat /\ m \in Nat /\ Len(Here.at) = start
      /\ Len(OldAt(m)) = start + m + 1 /\ Extends(OldAt(m), Here.at)
      /\ OldAt(m)[start + m + 1] = OldNibble(m) /\ OldNibble(m) # NewNibble(m)
      /\ Len(Whole) \in Nat /\ Len(Whole) > start + m /\ Extends(Whole, OldAt(m))
  BY PartingPlaces DEF Parting, Inv, NodesOK
<1>2. /\ A \in [Counters -> SUBSET Tokens] /\ puts # 0
      /\ First \in Tokens /\ Second \in Tokens /\ First # Second
      /\ \A n \in Counters : Second \notin A[n] /\ (First \in A[n] => Passed(n))
  BY <1>1, TokensTwo DEF Shares, SharesCounted, SharesFresh
<1>3. /\ \A n \in Counters : n \in DOMAIN heap /\ Len(heap[n].at) \in Nat
      /\ \A e \in Counters : heap[e].type = "EXTENSION" =>
           /\ heap[e].next \in Counters /\ heap[heap[e].next].type = "BRANCH"
           /\ heap[e].next # e
           /\ Len(heap[e].at) <= Len(heap[heap[e].next].at)
           /\ Extends(heap[heap[e].next].at, heap[e].at)
  BY <1>1, CounterPlaces
<1>4. \A n \in Counters : First \in A[n] => Extends(hex, heap[n].at)
  BY <1>2 DEF Passed
<1>5. ~ Extends(hex, OldAt(m))
  <2> SUFFICES ASSUME Extends(hex, OldAt(m)) PROVE FALSE
    OBVIOUS
  <2>1. hex[start + m + 1] = OldAt(m)[start + m + 1]
    BY <1>1 DEF Extends
  <2> QED
    BY <1>1, <2>1 DEF NewNibble
<1>6. Len(hex) \in Nat /\ Len(OldAt(m)) \in Nat /\ Extends(Whole, Here.at)
  <2>1. Len(hex) \in Nat /\ Len(OldAt(m)) \in Nat
    BY <1>1, PutCursor
  <2> QED
    BY <1>1, <2>1, ExtendsTrans
<1>7. ASSUME NEW n \in Counters \ {current}, Extends(heap[n].at, Here.at) PROVE First \notin A[n]
  <2>1. Extends(heap[n].at, OldAt(m))
    BY <1>3, <1>7, NothingBeside
  <2>2. ~ Extends(hex, heap[n].at)
    BY <1>3, <1>5, <1>6, <2>1, ExtendsTrans
  <2> QED
    BY <1>4, <2>2
<1>8. CASE Here.type = "LEAF"
  <2>1. Moved(A) = {Second} /\ Extra(A) = {Second}
    BY <1>8 DEF Moved, Extra
  <2>2. \A e \in Counters : heap[e].type = "EXTENSION" => Second \notin A[heap[e].next]
    BY <1>2, <1>3
  <2> QED
    BY <1>2, <1>4, <1>7, <2>1, <2>2
<1>9. CASE Here.type = "EXTENSION"
  <2> DEFINE x == Here.next
  <2>1. /\ current \in Counters /\ x \in Counters \ {current} /\ heap[x].type = "BRANCH"
        /\ heap[x].at = Whole /\ Extends(heap[x].at, Here.at)
    <3>1. current \in Counters
      BY <1>1, <1>9 DEF Counters, Here
    <3>2. x \in Counters \ {current} /\ heap[x].type = "BRANCH" /\ Extends(heap[x].at, Here.at)
      BY <1>3, <1>9, <3>1 DEF Here
    <3>3. heap[x].at = Whole
      BY <1>1, <1>9, ExtensionNext DEF Here, Whole
    <3> QED
      BY <3>1, <3>2, <3>3
  <2>2. Moved(A) = A[x] /\ Extra(A) = A[x] \ A[current]
    BY <1>9 DEF Moved, Extra
  <2>3. First \notin A[x]
    BY <1>7, <2>1
  <2>4. ASSUME NEW k \in Counters, ~ Extends(Whole, heap[k].at), ~ Extends(heap[k].at, Whole)
        PROVE  A[x] \cap A[k] = {}
    BY <2>1, <2>4 DEF Shares, SharesApart, Aside
  <2>5. ASSUME NEW b \in Counters, heap[b].type = "BRANCH", Len(heap[b].at) < start,
               Extends(Here.at, heap[b].at)
        PROVE  (A[x] \ A[current]) \cap A[b] = {}
    <3>1. Len(Here.at) > Len(heap[b].at)
      BY <1>1, <1>3, <2>5
    <3>2. A[b] \cap (A[x] \ A[current]) = {}
      BY <1>9, <2>1, <2>5, <3>1 DEF Shares, SharesAbove, Here
    <3> QED
      BY <3>2
  <2>6. ASSUME NEW e \in Counters \ {current}, heap[e].type = "EXTENSION",
               Extends(heap[e].at, Here.at)
        PROVE  A[x] \cap (A[heap[e].next] \ A[e]) = {}
    <3>1. Extends(heap[e].at, heap[x].at) /\ Len(heap[e].at) \in Nat
      BY <1>3, <2>1, <2>6, NothingBeside
    <3>2. Len(heap[e].at) # Len(heap[x].at)
      <4> SUFFICES ASSUME Len(heap[e].at) = Len(heap[x].at) PROVE FALSE
        OBVIOUS
      <4>1. x \in DOMAIN heap /\ e \in DOMAIN heap
        BY <1>3, <2>1
      <4>2. heap[e].next = x
        BY <1>1, <2>1, <2>6, <3>1, <4>1, SamePlace DEF Held
      <4>3. Target(heap[e], 16) = x /\ Target(heap[current], 16) = x /\ 16 \in Slot /\ x # Null
        BY <1>1, <1>9, <2>6, <4>1, <4>2, ExtensionNext DEF Here
      <4> QED
        BY <1>1, <2>6, <4>1, <4>3 DEF TreeShape, NoSharing
    <3>3. Len(heap[e].at) > Len(heap[x].at)
      BY <1>1, <2>1, <3>1, <3>2 DEF Extends
    <3> QED
      BY <2>1, <2>6, <3>1, <3>3 DEF Shares, SharesAbove
  <2>7. ASSUME NEW e \in Counters \ {current}, heap[e].type = "EXTENSION",
               Len(heap[e].at) >= start
        PROVE  (A[x] \ A[current]) \cap (A[heap[e].next] \ A[e]) = {}
    <3> DEFINE y == heap[e].next
    <3>1. /\ y \in Counters /\ Extends(heap[y].at, heap[e].at)
          /\ Len(heap[y].at) \in Nat /\ Len(heap[e].at) \in Nat
          /\ Len(heap[x].at) \in Nat /\ Len(Here.at) <= Len(heap[e].at)
      BY <1>1, <1>3, <2>1, <2>7
    <3>2. CASE Aside(x, y)
      <4>1. A[x] \cap A[y] = {}
        BY <2>1, <3>1, <3>2 DEF Shares, SharesApart
      <4> QED
        BY <4>1
    <3>3. CASE Extends(heap[x].at, heap[y].at)
      <4>1. Extends(heap[x].at, heap[e].at)
        BY <3>1, <3>3, ExtendsTrans
      <4>2. Extends(heap[e].at, Here.at)
        BY <1>1, <2>1, <3>1, <4>1, Comparable
      <4> QED
        BY <2>6, <2>7, <4>2
    <3>4. CASE Extends(heap[y].at, heap[x].at)
      <4>1. Extends(heap[y].at, Here.at)
        BY <1>1, <2>1, <3>1, <3>4, ExtendsTrans
      <4>2. Extends(heap[e].at, Here.at)
        BY <1>1, <3>1, <4>1, Comparable
      <4> QED
        BY <2>6, <2>7, <4>2
    <3> QED
      BY <3>2, <3>3, <3>4 DEF Aside
  <2>8. A[x] \in SUBSET Tokens
    BY <1>2, <2>1
  <2> HIDE DEF x
  <2> QED
    BY <1>2, <1>4, <1>7, <2>2, <2>3, <2>4, <2>5, <2>6, <2>7, <2>8
<1> QED
  BY <1>1, <1>8, <1>9

\* Disjoint sets count together, and a subset can be taken away.
LEMMA DisjointCount ==
  ASSUME NEW S, NEW T, IsFiniteSet(S), IsFiniteSet(T), S \cap T = {}
  PROVE  Cardinality(S \cup T) = Cardinality(S) + Cardinality(T)
<1>1. Cardinality(S \cup T) = Cardinality(S) + Cardinality(T) - Cardinality(S \cap T)
  BY FS_Union
<1>2. Cardinality(S \cap T) = 0
  BY FS_EmptySet
<1>3. Cardinality(S) \in Nat /\ Cardinality(T) \in Nat
  BY FS_CardinalityType
<1> QED
  BY <1>1, <1>2, <1>3

LEMMA RestCount ==
  ASSUME NEW S, NEW T, IsFiniteSet(S), T \subseteq S
  PROVE  /\ Cardinality(S \ T) = Cardinality(S) - Cardinality(T)
         /\ IsFiniteSet(S \ T)
<1>1. IsFiniteSet(S \ T) /\ Cardinality(S \ T) = Cardinality(S) - Cardinality(S \cap T)
  BY FS_Difference
<1>2. S \cap T = T
  OBVIOUS
<1> QED
  BY <1>1, <1>2

LEMMA OneMore ==
  ASSUME NEW S, IsFiniteSet(S), NEW t, t \notin S
  PROVE  Cardinality(S \cup {t}) = Cardinality(S) + 1
  BY FS_AddElement

\* The counters after a split are the numbers of tokens: those of the old subtree
\* and the new key below the fork; and in the father's, what the subtree counts
\* more than the node that is replaced.
LEMMA SplitSums ==
  ASSUME FewPuts, NEW m, Parting(m), NEW A, Shares(A),
         NEW c \in Count, NEW e \in Count, Counts(c, e),
         father \in Counters => heap[father].type = "BRANCH"
  PROVE  /\ c = Cardinality(Moved(A) \cup {First})
         /\ Here.type = "EXTENSION" => heap[Here.next].leaves = Cardinality(Moved(A))
         /\ father \in Counters => e = Cardinality(A[father] \cup Extra(A))
<1>1. /\ pc = "put" /\ current # Null /\ current \in DOMAIN heap /\ Inv /\ TypeOK
      /\ Here.type \in {"LEAF", "EXTENSION"} /\ Len(Here.at) = start /\ start \in Nat
  BY PartingPlaces DEF Parting
<1>2. /\ Moved(A) \in SUBSET Tokens /\ Extra(A) \subseteq Moved(A)
      /\ First \in Tokens /\ First \notin Moved(A)
      /\ \A b \in Counters : heap[b].type = "BRANCH" /\ Len(heap[b].at) < start
                               /\ Extends(Here.at, heap[b].at) => Extra(A) \cap A[b] = {}
  BY SplitTokens
<1>3. /\ A \in [Counters -> SUBSET Tokens]
      /\ \A n \in Counters : heap[n].leaves = Cardinality(A[n])
  BY DEF Shares, SharesCounted
<1> DEFINE X == Moved(A)
           D == Extra(A)
           x == Cardinality(X)
<1>4. /\ IsFiniteSet(X) /\ x \in Nat /\ Cardinality(X \cup {First}) = x + 1
      /\ Wrap(x + 1) = x + 1
  <2>1. IsFiniteSet(X) /\ x \in Nat
    BY <1>1, <1>2, TokensFit
  <2>2. Cardinality(X \cup {First}) = x + 1
    BY <1>2, <2>1, OneMore
  <2>3. X \cup {First} \in SUBSET Tokens
    BY <1>2
  <2>4. Wrap(Cardinality(X \cup {First})) = Cardinality(X \cup {First})
    BY <1>1, <2>3, TokensFit
  <2> QED
    BY <2>1, <2>2, <2>4
<1>5. ASSUME father \in Counters
      PROVE  /\ Cardinality(A[father]) \in Nat /\ heap[father].leaves = Cardinality(A[father])
             /\ father # Null /\ IsFiniteSet(D) /\ Cardinality(D) \in Nat
             /\ Cardinality(A[father] \cup D) = Cardinality(A[father]) + Cardinality(D)
             /\ Wrap(Cardinality(A[father] \cup D)) = Cardinality(A[father] \cup D)
  <2>1. /\ father # Null /\ heap[father].type = "BRANCH" /\ Len(heap[father].at) < start
        /\ Extends(Here.at, heap[father].at)
    <3>1. father # Null /\ heap[father].type = "BRANCH"
      BY <1>1, <1>5, NodeTypes DEF Counters
    <3>2. /\ Len(heap[father].at) \in Nat /\ Len(heap[father].at) + 1 = start
          /\ Extends(Here.at, heap[father].at)
      BY <1>1, <3>1, FatherPlace
    <3> QED
      BY <3>1, <3>2
  <2>2. D \cap A[father] = {} /\ A[father] \in SUBSET Tokens /\ D \in SUBSET Tokens
    BY <1>2, <1>3, <1>5, <2>1
  <2>3. /\ IsFiniteSet(A[father]) /\ Cardinality(A[father]) \in Nat
        /\ IsFiniteSet(D) /\ Cardinality(D) \in Nat
    BY <1>1, <2>2, TokensFit
  <2>4. Cardinality(A[father] \cup D) = Cardinality(A[father]) + Cardinality(D)
    <3>1. A[father] \cap D = {}
      BY <2>2
    <3> HIDE DEF D
    <3> QED
      BY <2>3, <3>1, DisjointCount
  <2>5. Wrap(Cardinality(A[father] \cup D)) = Cardinality(A[father] \cup D)
    <3>1. A[father] \cup D \in SUBSET Tokens
      BY <2>2
    <3> HIDE DEF D
    <3> QED
      BY <1>1, <3>1, TokensFit
  <2> QED
    BY <1>3, <1>5, <2>1, <2>3, <2>4, <2>5
<1>6. CASE Here.type = "LEAF"
  <2>1. X = {Second} /\ D = {Second}
    BY <1>6 DEF Moved, Extra
  <2>2. x = 1 /\ Cardinality(D) = 1
    <3>1. Cardinality({Second}) = 1
      BY FS_Singleton
    <3> QED
      BY <2>1, <3>1
  <2>3. c = Wrap(1 + 1) /\ (father # Null => e = Wrap(heap[father].leaves + c - 1))
    BY <1>6 DEF Counts
  <2>4. c = x + 1
    BY <1>4, <2>2, <2>3
  <2>5. ASSUME father \in Counters PROVE e = Cardinality(A[father] \cup D)
    <3> DEFINE f == Cardinality(A[father])
               z == Cardinality(A[father] \cup D)
    <3>1. f \in Nat /\ z = f + 1 /\ Wrap(z) = z /\ e = Wrap(f + c - 1) /\ c = 1 + 1
      BY <1>5, <2>2, <2>3, <2>4, <2>5
    <3> HIDE DEF f, z
    <3>2. f + c - 1 = z
      BY <3>1
    <3>3. e = z
      BY <3>1, <3>2
    <3> QED
      BY <3>3 DEF z
  <2> QED
    BY <1>4, <1>6, <2>4, <2>5
<1>7. CASE Here.type = "EXTENSION"
  <2> DEFINE a == Cardinality(A[current])
  <2>1. /\ current \in Counters /\ Here.next \in Counters /\ X = A[Here.next] /\ D = X \ A[current]
        /\ First \notin A[current] /\ A[current] \subseteq X
    <3>1. current \in Counters
      BY <1>1, <1>7 DEF Counters, Here
    <3>2. Here.next \in Counters /\ X = A[Here.next] /\ D = X \ A[current]
      BY <1>1, <1>7, <3>1, CounterPlaces DEF Moved, Extra, Here
    <3>3. First \notin A[current]
      BY <1>1, <3>1, FirstAbove
    <3>4. A[current] \subseteq X
      BY <1>1, <1>7, <3>1, <3>2, BelowAll DEF Here
    <3> QED
      BY <3>1, <3>2, <3>3, <3>4
  <2>2. heap[Here.next].leaves = x /\ Here.leaves = a
    BY <1>3, <2>1 DEF Here
  <2>3. a \in Nat /\ Wrap(a + 1) = a + 1
    <3>1. A[current] \in SUBSET Tokens /\ A[current] \cup {First} \in SUBSET Tokens
      BY <1>2, <1>3, <2>1
    <3>2. IsFiniteSet(A[current]) /\ a \in Nat
      BY <1>1, <3>1, TokensFit
    <3>3. Cardinality(A[current] \cup {First}) = a + 1
      BY <2>1, <3>2, OneMore
    <3>4. Wrap(Cardinality(A[current] \cup {First})) = Cardinality(A[current] \cup {First})
      BY <1>1, <3>1, TokensFit
    <3> QED
      BY <3>2, <3>3, <3>4
  <2>4. Cardinality(D) = x - a
    BY <1>4, <2>1, RestCount
  <2>5. /\ c = Wrap(x + 1)
        /\ father # Null => e = Wrap(heap[father].leaves + c - Wrap(a + 1))
    BY <1>7, <2>2 DEF Counts
  <2>6. ASSUME father \in Counters PROVE e = Cardinality(A[father] \cup D)
    <3> DEFINE f == Cardinality(A[father])
               z == Cardinality(A[father] \cup D)
    <3>1. /\ f \in Nat /\ z = f + (x - a) /\ Wrap(z) = z /\ e = Wrap(f + c - Wrap(a + 1))
          /\ c = x + 1 /\ Wrap(a + 1) = a + 1 /\ a \in Nat /\ x \in Nat
      BY <1>4, <1>5, <2>3, <2>4, <2>5, <2>6
    <3> HIDE DEF f, z, x, a
    <3>2. f + c - Wrap(a + 1) = z
      BY <3>1
    <3>3. e = z
      BY <3>1, <3>2
    <3> QED
      BY <3>3 DEF z
  <2> QED
    BY <1>4, <2>2, <2>5, <2>6
<1> QED
  BY <1>1, <1>6, <1>7

\* The shares after a split: what is moved, with the new key in the nodes above it,
\* and the rest of it added to the father.
Redealt(A, B, m, old) ==
  /\ B = [n \in Counters' |-> B[n]]
  /\ \A n \in Counters \ {current} : /\ n # father => B[n] = A[n]
                                     /\ n = father => B[n] = A[n] \cup Extra(A)
  /\ \A n \in Grown(m, old) : /\ n # brk + 3 => B[n] = Moved(A) \cup {First}
                              /\ n = brk + 3 => B[n] = Moved(A)

LEMMA SplitRedealt ==
  ASSUME NEW m, NEW old, Parting(m), Divides(m, old), Tallies(m, old), NEW A
  PROVE  \E B : Redealt(A, B, m, old)
<1> DEFINE K == Counters \ {current}
           G == Grown(m, old)
           X == Moved(A)
           Y == Moved(A) \cup {First}
           Z == A[father] \cup Extra(A)
           B == [n \in Counters' |-> IF n \in K THEN IF n = father THEN Z ELSE A[n]
                                     ELSE IF n = brk + 3 THEN X ELSE Y]
<1>1. Counters' = K \cup G /\ (\A n \in G : n \notin DOMAIN heap) /\ K \subseteq DOMAIN heap
  BY SplitCounters DEF Counters
<1> HIDE DEF K, G, X, Y, Z
<1>2. /\ \A n \in K : (n # father => B[n] = A[n]) /\ (n = father => B[n] = Z)
      /\ \A n \in G : (n # brk + 3 => B[n] = Y) /\ (n = brk + 3 => B[n] = X)
  BY <1>1
<1>3. B = [n \in Counters' |-> B[n]]
  OBVIOUS
<1> HIDE DEF B
<1>4. \A n \in Counters \ {current} : /\ n # father => B[n] = A[n]
                                      /\ n = father => B[n] = A[n] \cup Extra(A)
  BY <1>2 DEF K, Z
<1>5. \A n \in Grown(m, old) : /\ n # brk + 3 => B[n] = Moved(A) \cup {First}
                               /\ n = brk + 3 => B[n] = Moved(A)
  BY <1>2 DEF G, X, Y
<1>6. Redealt(A, B, m, old)
  BY <1>3, <1>4, <1>5, Zenon DEF Redealt
<1> QED
  BY <1>6

\* A split keeps the shares so.
LEMMA SharesSplit ==
  ASSUME FewPuts, NEW m, NEW old, Parting(m), Divides(m, old), Tallies(m, old),
         Return("done"), NEW A, Shares(A),
         NEW B, Redealt(A, B, m, old)
  PROVE  Shares(B)'
<1> DEFINE K == Counters \ {current}
           G == Grown(m, old)
           X == Moved(A)
           D == Extra(A)
<1>1. /\ pc = "put" /\ current # Null /\ current \in DOMAIN heap /\ Inv /\ Places
      /\ TypeOK /\ Here.type \in {"LEAF", "EXTENSION"}
      /\ start \in Nat /\ m \in Nat /\ Len(Here.at) = start
      /\ Len(Whole) \in Nat /\ Len(Whole) > start + m /\ Extends(Whole, Here.at)
      /\ Len(Prefix(m)) = start + m /\ Len(Prefix(m)) \in Nat /\ Extends(Prefix(m), Here.at)
  <2>1. /\ TypeOK /\ current \in DOMAIN heap /\ start \in Nat /\ m \in Nat /\ Len(Here.at) = start
        /\ Len(Prefix(m)) = start + m /\ Extends(Prefix(m), Here.at)
        /\ Len(Whole) \in Nat /\ Len(Whole) > start + m
        /\ Extends(Whole, OldAt(m)) /\ Extends(OldAt(m), Here.at) /\ Len(OldAt(m)) = start + m + 1
    BY PartingPlaces
  <2>2. Extends(Whole, Here.at) /\ Len(Prefix(m)) \in Nat
    BY <2>1, ExtendsTrans
  <2> QED
    BY <2>1, <2>2 DEF Parting
<1>2. /\ Counters' = K \cup G
      /\ \A n \in K : heap'[n].at = heap[n].at /\ heap'[n].type = heap[n].type
      /\ \A e \in K : heap[e].type = "EXTENSION" =>
           e # father /\ heap'[e] = heap[e] /\ heap[e].next \in K
      /\ \A n \in G :
           /\ n \notin DOMAIN heap /\ Len(heap'[n].at) \in Nat
           /\ Extends(heap'[n].at, Here.at) /\ Extends(Whole, heap'[n].at)
           /\ n # brk + 3 => Extends(Prefix(m), heap'[n].at)
      /\ brk \in G /\ heap'[brk].type = "BRANCH" /\ heap'[brk].at = Prefix(m) /\ brk # brk + 3
      /\ \A n \in G : n # brk =>
           /\ heap'[n].type = "EXTENSION"
           /\ n # brk + 3 => heap'[n].next = brk
           /\ n = brk + 3 => Here.type = "EXTENSION" /\ heap'[n].next = Here.next
  BY SplitCounters
<1>3. /\ X \in SUBSET Tokens /\ D \subseteq X
      /\ First \in Tokens /\ First \notin X
      /\ \A k \in Counters : ~ Extends(Whole, heap[k].at) /\ ~ Extends(heap[k].at, Whole) =>
           X \cap A[k] = {}
      /\ \A b \in Counters : heap[b].type = "BRANCH" /\ Len(heap[b].at) < start
                               /\ Extends(Here.at, heap[b].at) => D \cap A[b] = {}
      /\ \A n \in Counters : First \in A[n] => Extends(hex, heap[n].at)
      /\ \A n \in K : Extends(heap[n].at, Here.at) => First \notin A[n]
      /\ \A e \in K : heap[e].type = "EXTENSION" =>
           /\ Extends(heap[e].at, Here.at) => X \cap (A[heap[e].next] \ A[e]) = {}
           /\ Len(heap[e].at) >= start => D \cap (A[heap[e].next] \ A[e]) = {}
  BY SplitTokens
<1>4. /\ \A n \in Counters : n \in DOMAIN heap /\ Len(heap[n].at) \in Nat
      /\ \A e \in Counters : heap[e].type = "EXTENSION" =>
           /\ heap[e].next \in Counters /\ heap[heap[e].next].type = "BRANCH"
           /\ heap[e].next # e
           /\ Len(heap[e].at) <= Len(heap[heap[e].next].at)
           /\ Extends(heap[heap[e].next].at, heap[e].at)
  BY <1>1, CounterPlaces
<1>5. father \in Counters =>
        /\ father \in K /\ heap[father].type = "BRANCH"
        /\ Len(heap[father].at) + 1 = start /\ Extends(Here.at, heap[father].at)
  <2> SUFFICES ASSUME father \in Counters
               PROVE  /\ father \in K /\ heap[father].type = "BRANCH"
                      /\ Len(heap[father].at) + 1 = start /\ Extends(Here.at, heap[father].at)
    OBVIOUS
  <2>1. father # Null
    BY <1>1, <1>4, NodeTypes
  <2>2. father # current
    BY <1>1, <2>1, FatherPlace
  <2>3. heap[father].type = "BRANCH"
    BY <1>4, <2>2 DEF Tallies
  <2> QED
    BY <1>1, <2>1, <2>2, <2>3, FatherPlace
<1>6. /\ A \in [Counters -> SUBSET Tokens]
      /\ \A n \in Counters : heap[n].leaves = Cardinality(A[n]) /\ Second \notin A[n]
      /\ \A e \in Counters : heap[e].type = "EXTENSION" => A[e] \subseteq A[heap[e].next]
  <2>1. \A e \in Counters : heap[e].type = "EXTENSION" => A[e] \subseteq A[heap[e].next]
    BY <1>1, <1>5, BelowAll
  <2> QED
    BY <1>1, <2>1 DEF Shares, SharesCounted, SharesFresh
<1>7. pc' = "idle" /\ puts' = puts
  BY DEF Return
<1>8. /\ \A n \in K : (n # father => B[n] = A[n]) /\ (n = father => B[n] = A[n] \cup D)
      /\ \A n \in G : (n # brk + 3 => B[n] = X \cup {First}) /\ (n = brk + 3 => B[n] = X)
  BY DEF Redealt
<1>9. B = [n \in Counters' |-> B[n]]
  BY DEF Redealt
<1>10. \A n \in K : n \in Counters /\ n # current /\ n \in DOMAIN heap
  BY <1>4
<1> HIDE DEF K, G, X, D
<1>11. /\ \A n \in K : n \in Counters /\ n # current /\ n \in DOMAIN heap
       /\ \A n \in K : (n # father => B[n] = A[n]) /\ (n = father => B[n] = A[n] \cup D)
       /\ \A n \in G : (n # brk + 3 => B[n] = X \cup {First}) /\ (n = brk + 3 => B[n] = X)
  BY <1>8, <1>10
<1>12. SharesCounted(B)'
  <2>1. PICK c \in Count, e \in Count :
          /\ Counts(c, e)
          /\ heap'[brk].leaves = c
          /\ m # 0 => heap'[brk + 1].leaves = c
          /\ Here.type = "EXTENSION" /\ old \notin Orphans =>
               heap'[old].leaves = heap[Here.next].leaves
          /\ \A n \in DOMAIN heap \ {current} :
               /\ n # father => heap'[n] = heap[n]
               /\ n = father => heap[n].type = "BRANCH" /\ heap'[n].leaves = e
    BY DEF Tallies
  <2>2. /\ c = Cardinality(X \cup {First})
        /\ Here.type = "EXTENSION" => heap[Here.next].leaves = Cardinality(X)
        /\ father \in Counters => e = Cardinality(A[father] \cup D)
    <3>1. Counts(c, e) /\ (father \in Counters => heap[father].type = "BRANCH")
      BY <1>5, <2>1
    <3>2. /\ c = Cardinality(Moved(A) \cup {First})
          /\ Here.type = "EXTENSION" => heap[Here.next].leaves = Cardinality(Moved(A))
          /\ father \in Counters => e = Cardinality(A[father] \cup Extra(A))
      BY <3>1, SplitSums, Zenon
    <3> QED
      BY <3>2 DEF X, D
  <2>3. ASSUME NEW n \in K PROVE heap'[n].leaves = Cardinality(B[n]) /\ B[n] \in SUBSET Tokens
    <3>1. /\ n \in Counters /\ n \in DOMAIN heap \ {current}
          /\ (n # father => B[n] = A[n]) /\ (n = father => B[n] = A[n] \cup D)
      BY <1>11
    <3>2. A[n] \in SUBSET Tokens /\ D \in SUBSET Tokens /\ heap[n].leaves = Cardinality(A[n])
      BY <1>3, <1>6, <3>1
    <3>3. CASE n = father
      <4>1. heap'[n].leaves = e /\ e = Cardinality(A[n] \cup D)
        BY <2>1, <2>2, <3>1, <3>3
      <4> QED
        BY <3>1, <3>2, <3>3, <4>1
    <3>4. CASE n # father
      <4>1. heap'[n] = heap[n]
        BY <2>1, <3>1, <3>4
      <4> QED
        BY <3>1, <3>2, <3>4, <4>1
    <3> QED
      BY <3>3, <3>4
  <2>4. ASSUME NEW n \in G PROVE heap'[n].leaves = Cardinality(B[n]) /\ B[n] \in SUBSET Tokens
    <3>1. /\ (n # brk + 3 => B[n] = X \cup {First}) /\ (n = brk + 3 => B[n] = X)
          /\ X \in SUBSET Tokens /\ First \in Tokens
      BY <1>3, <1>11
    <3>2. /\ brk + 1 # brk + 3 /\ brk # brk + 3
          /\ \/ n = brk
             \/ n = brk + 1 /\ m # 0
             \/ n = brk + 3 /\ n = old /\ old \notin Orphans /\ Here.type = "EXTENSION"
      <4>1. brk \in Nat
        BY <1>1 DEF TypeOK
      <4>2. old \in {brk + 3} \cup Orphans
        BY DEF Divides
      <4> QED
        BY <4>1, <4>2 DEF G, Grown, Fork
    <3>3. n # brk + 3 => B[n] \in SUBSET Tokens /\ Cardinality(B[n]) = c
      BY <2>2, <3>1
    <3>4. CASE n = brk
      <4>1. heap'[n].leaves = c /\ n # brk + 3
        BY <2>1, <3>2, <3>4
      <4> QED
        BY <3>3, <4>1
    <3>5. CASE n = brk + 1 /\ m # 0
      <4>1. heap'[n].leaves = c /\ n # brk + 3
        BY <2>1, <3>2, <3>5
      <4> QED
        BY <3>3, <4>1
    <3>6. CASE n = brk + 3 /\ n = old /\ old \notin Orphans /\ Here.type = "EXTENSION"
      <4>1. heap'[n].leaves = heap[Here.next].leaves /\ heap[Here.next].leaves = Cardinality(X)
        BY <2>1, <2>2, <3>6
      <4> QED
        BY <3>1, <3>6, <4>1
    <3> QED
      BY <3>2, <3>4, <3>5, <3>6
  <2>5. Tokens' = Tokens
    BY <1>7 DEF Tokens
  <2>6. \A n \in Counters' : heap'[n].leaves = Cardinality(B[n]) /\ B[n] \in SUBSET Tokens
    BY <1>2, <2>3, <2>4
  <2>7. B \in [Counters' -> SUBSET Tokens']
    BY <1>9, <2>5, <2>6
  <2> QED
    BY <2>6, <2>7 DEF SharesCounted
<1>13. SharesBelow(B)'
  <2> SUFFICES ASSUME NEW e \in Counters', heap'[e].type = "EXTENSION"
               PROVE  B[e] \subseteq B[heap'[e].next]
    BY <1>7 DEF SharesBelow
  <2>1. CASE e \in K
    BY <1>2, <1>6, <1>11, <2>1
  <2>2. CASE e \in G
    <3>1. e # brk
      BY <1>2
    <3>2. CASE e # brk + 3
      BY <1>2, <1>11, <2>2, <3>1, <3>2
    <3>3. CASE e = brk + 3
      <4>1. /\ heap'[e].next = Here.next /\ Here.next \in K /\ X = A[Here.next]
        BY <1>1, <1>2, <1>4, <2>2, <3>1, <3>3 DEF Moved, X, K, Here, Counters
      <4> QED
        BY <1>11, <2>2, <3>3, <4>1
    <3> QED
      BY <3>2, <3>3
  <2> QED
    BY <1>2, <2>1, <2>2
<1>14. SharesApart(B)'
  <2>1. ASSUME NEW n \in K, NEW k \in K, Aside(n, k) PROVE B[n] \cap B[k] = {}
    <3>1. A[n] \cap A[k] = {}
      BY <1>11, <2>1 DEF Shares, SharesApart
    <3>2. ASSUME NEW f \in K, NEW x \in K, f = father, Aside(f, x) PROVE D \cap A[x] = {}
      <4>1. /\ Extends(Here.at, heap[f].at) /\ Len(heap[f].at) \in Nat /\ Len(heap[x].at) \in Nat
        BY <1>4, <1>5, <1>11, <3>2
      <4>2. Extends(Whole, heap[f].at)
        BY <1>1, <4>1, ExtendsTrans
      <4>3. ~ Extends(Whole, heap[x].at)
        BY <1>1, <3>2, <4>1, <4>2, Comparable DEF Aside
      <4>4. ~ Extends(heap[x].at, Whole)
        BY <1>1, <3>2, <4>1, <4>2, ExtendsTrans DEF Aside
      <4> QED
        BY <1>3, <1>11, <4>3, <4>4
    <3>3. Aside(k, n)
      BY <2>1 DEF Aside
    <3>4. n = father => k # father
      <4>1. ~ Aside(n, n)
        BY <1>4, <1>11 DEF Aside, Extends
      <4> QED
        BY <2>1, <4>1
    <3> QED
      BY <1>11, <2>1, <3>1, <3>2, <3>3, <3>4
  <2>2. ASSUME NEW n \in G, NEW k \in K,
               ~ Extends(heap'[n].at, heap[k].at), ~ Extends(heap[k].at, heap'[n].at)
        PROVE  B[n] \cap B[k] = {}
    <3>1. /\ Len(heap'[n].at) \in Nat /\ Len(heap[k].at) \in Nat /\ Len(Here.at) \in Nat
          /\ Extends(heap'[n].at, Here.at) /\ Extends(Whole, heap'[n].at)
      BY <1>1, <1>2, <1>4, <1>11
    <3>2. ~ Extends(Whole, heap[k].at)
      BY <1>1, <2>2, <3>1, Comparable
    <3>3. ~ Extends(heap[k].at, Whole)
      BY <1>1, <2>2, <3>1, ExtendsTrans
    <3>4. k # father
      <4>1. k = father => Extends(Here.at, heap[k].at)
        BY <1>5, <1>11
      <4> QED
        BY <2>2, <3>1, <4>1, ExtendsTrans
    <3>5. X \cap A[k] = {}
      BY <1>3, <1>11, <3>2, <3>3
    <3>6. n # brk + 3 => First \notin A[k]
      <4> SUFFICES ASSUME n # brk + 3, First \in A[k] PROVE FALSE
        OBVIOUS
      <4>1. Extends(hex, heap[k].at) /\ Extends(Prefix(m), heap'[n].at)
        BY <1>2, <1>3, <1>11
      <4>2. Extends(hex, Prefix(m)) /\ Len(hex) \in Nat
        <5>1. /\ Prefix(m) = SubSeq(hex, 1, start + m) /\ start + m \in Nat /\ start + m < HexLen
              /\ hex \in Seq(Nibble) /\ Len(hex) = HexLen /\ HexLen \in Nat
          BY PrefixOfKey, HexLenTyped
        <5> DEFINE d == start + m
        <5>2. d \in Nat /\ d <= Len(hex) /\ \A j \in 1..d : hex[j] \in Nibble
          BY <5>1, ElementOfSeq
        <5> HIDE DEF d
        <5>3. Len(SubSeq(hex, 1, d)) = d /\ \A j \in 1..d : SubSeq(hex, 1, d)[j] = hex[j]
          BY <5>2, SubSeqProperties
        <5>4. Prefix(m) = SubSeq(hex, 1, d)
          BY <5>1 DEF d
        <5> QED
          BY <5>1, <5>2, <5>3, <5>4 DEF Extends
      <4>3. Extends(hex, heap'[n].at)
        BY <1>1, <3>1, <4>1, <4>2, ExtendsTrans
      <4> QED
        BY <2>2, <3>1, <4>1, <4>2, <4>3, Comparable
    <3> QED
      BY <1>11, <3>4, <3>5, <3>6
  <2>3. ASSUME NEW n \in G, NEW k \in G
        PROVE  Extends(heap'[n].at, heap'[k].at) \/ Extends(heap'[k].at, heap'[n].at)
    <3>1. /\ Len(heap'[n].at) \in Nat /\ Len(heap'[k].at) \in Nat
          /\ Extends(Whole, heap'[n].at) /\ Extends(Whole, heap'[k].at)
      BY <1>2
    <3> QED
      BY <1>1, <3>1, Comparable
  <2> SUFFICES ASSUME NEW n \in K \cup G, NEW k \in K \cup G,
                      ~ Extends(heap'[n].at, heap'[k].at), ~ Extends(heap'[k].at, heap'[n].at)
               PROVE  B[n] \cap B[k] = {}
    <3>1. \A n, k : Aside(n, k)' <=> /\ ~ Extends(heap'[n].at, heap'[k].at)
                                     /\ ~ Extends(heap'[k].at, heap'[n].at)
      BY DEF Aside, Extends
    <3> QED
      BY <1>2, <3>1 DEF SharesApart
  <2>4. CASE n \in K /\ k \in K
    BY <1>2, <2>1, <2>4 DEF Aside
  <2>5. CASE n \in G /\ k \in K
    BY <1>2, <2>2, <2>5
  <2>6. CASE n \in K /\ k \in G
    BY <1>2, <2>2, <2>6
  <2>7. CASE n \in G /\ k \in G
    BY <2>3, <2>7
  <2> QED
    BY <2>4, <2>5, <2>6, <2>7
<1>15. SharesAbove(B)'
  <2> SUFFICES ASSUME NEW b \in K \cup G, NEW e \in K \cup G,
                      heap'[b].type = "BRANCH", heap'[e].type = "EXTENSION",
                      Len(heap'[e].at) > Len(heap'[b].at), Extends(heap'[e].at, heap'[b].at)
               PROVE  B[b] \cap (B[heap'[e].next] \ B[e]) = {}
    <3>1. \A e, b : Extends(heap'[e].at, heap'[b].at) <=> Extends(heap[e].at, heap[b].at)'
      BY DEF Extends
    <3>2. Counters' = K \cup G
      BY <1>2
    <3> QED
      BY <3>1, <3>2 DEF SharesAbove
  <2>1. CASE e \in G
    <3>1. e # brk
      BY <1>2
    <3>2. CASE e # brk + 3
      <4>1. heap'[e].next = brk /\ brk \in G /\ brk # brk + 3
        BY <1>2, <2>1, <3>1, <3>2
      <4>2. B[brk] = X \cup {First}
        BY <1>11, <4>1
      <4>3. B[e] = X \cup {First}
        BY <1>11, <2>1, <3>2
      <4>4. B[heap'[e].next] = B[e]
        BY <4>1, <4>2, <4>3
      <4> QED
        BY <4>4
    <3>3. CASE e = brk + 3
      <4>1. /\ heap'[e].next = Here.next /\ Here.next \in K /\ X = A[Here.next]
            /\ Extends(heap[Here.next].at, Here.at) /\ Len(heap[Here.next].at) >= Len(Here.at)
        BY <1>1, <1>2, <1>4, <2>1, <3>1, <3>3 DEF Moved, X, K, Here, Counters
      <4>2. Here.next # father
        BY <1>1, <1>4, <1>5, <1>11, <4>1
      <4>3. B[heap'[e].next] = B[e]
        <5>1. B[Here.next] = A[Here.next]
          BY <1>11, <4>1, <4>2
        <5>2. B[e] = X
          BY <1>11, <2>1, <3>3
        <5> QED
          BY <4>1, <5>1, <5>2
      <4> QED
        BY <4>3
    <3> QED
      BY <3>2, <3>3
  <2>2. CASE e \in K
    <3> DEFINE y == heap[e].next
    <3>1. /\ heap[e].type = "EXTENSION" /\ e # father /\ heap'[e] = heap[e]
          /\ heap'[e].next = y /\ y \in K /\ heap[y].type = "BRANCH"
          /\ Len(heap[e].at) <= Len(heap[y].at) /\ Extends(heap[y].at, heap[e].at)
          /\ Len(heap[e].at) \in Nat /\ Len(heap[y].at) \in Nat
          /\ e \in Counters /\ y \in Counters
      BY <1>2, <1>4, <1>11, <2>2
    <3> HIDE DEF y
    <3>2. B[e] = A[e] /\ (y # father => B[y] = A[y]) /\ (y = father => B[y] = A[y] \cup D)
      BY <1>11, <2>2, <3>1
    <3>3. CASE b \in K
      <4>1. /\ heap[b].type = "BRANCH" /\ Len(heap[e].at) > Len(heap[b].at)
            /\ Extends(heap[e].at, heap[b].at) /\ Len(heap[b].at) \in Nat /\ b \in Counters
        BY <1>2, <1>4, <1>11, <3>1, <3>3
      <4>2. A[b] \cap (A[y] \ A[e]) = {}
        BY <3>1, <4>1 DEF Shares, SharesAbove
      <4>3. ASSUME y = father PROVE b # father /\ D \cap A[b] = {}
        <5>1. /\ Len(heap[y].at) + 1 = start /\ Extends(Here.at, heap[y].at)
          BY <1>5, <3>1, <4>3
        <5> DEFINE lb == Len(heap[b].at)
                   le == Len(heap[e].at)
                   ly == Len(heap[y].at)
        <5>2. lb \in Nat /\ le \in Nat /\ ly \in Nat /\ le > lb /\ le <= ly /\ ly + 1 = start
          BY <3>1, <4>1, <5>1
        <5> HIDE DEF lb, le, ly
        <5>3. lb < ly /\ lb < start
          BY <5>2
        <5>4. b # y
          BY <5>2, <5>3 DEF lb, ly
        <5>5. b # father /\ Len(heap[b].at) < start
          BY <4>3, <5>3, <5>4 DEF lb
        <5>6. Extends(heap[y].at, heap[b].at)
          BY <3>1, <4>1, ExtendsTrans
        <5>7. Extends(Here.at, heap[b].at)
          BY <1>1, <3>1, <4>1, <5>1, <5>6, ExtendsTrans
        <5> QED
          BY <1>3, <4>1, <5>5, <5>7
      <4>4. ASSUME b = father PROVE D \cap (A[y] \ A[e]) = {}
        <5>1. Len(heap[e].at) >= start
          BY <1>1, <1>5, <3>1, <4>1, <4>4
        <5> QED
          BY <1>3, <2>2, <3>1, <5>1
      <4>5. (b # father => B[b] = A[b]) /\ (b = father => B[b] = A[b] \cup D)
        BY <1>11, <3>3
      <4> QED
        BY <3>1, <3>2, <4>2, <4>3, <4>4, <4>5
    <3>4. CASE b \in G
      <4>1. b = brk /\ heap'[b].at = Prefix(m) /\ B[b] = X \cup {First}
        BY <1>2, <1>11, <3>4
      <4>2. /\ Extends(heap[e].at, Here.at) /\ Extends(heap[y].at, Here.at)
            /\ Len(heap[e].at) > start
        <5>1. Extends(heap[e].at, Prefix(m)) /\ Len(heap[e].at) > start + m
          BY <1>1, <3>1, <4>1
        <5>2. Extends(heap[e].at, Here.at) /\ Len(heap[e].at) > start
          BY <1>1, <3>1, <5>1, ExtendsTrans
        <5> QED
          BY <1>1, <3>1, <5>2, ExtendsTrans
      <4>3. X \cap (A[y] \ A[e]) = {} /\ First \notin A[y]
        BY <1>3, <2>2, <3>1, <4>2
      <4>4. y # father
        BY <1>1, <1>5, <3>1, <4>2
      <4> QED
        BY <3>1, <3>2, <4>1, <4>3, <4>4
    <3> QED
      BY <3>3, <3>4
  <2> QED
    BY <2>1, <2>2
<1>16. SharesFresh(B)'
  BY <1>7 DEF SharesFresh
<1> QED
  BY <1>12, <1>13, <1>14, <1>15, <1>16 DEF Shares

-----------------------------------------------------------------------------
(* Every step keeps the shares *)

\* At a leaf, a value or an extension the key was not counted in an extension last.
LEMMA NotBelowExtension ==
  ASSUME Inv, pc = "put", current # Null, Here.type # "BRANCH"
  PROVE  father \notin Counters \/ heap[father].type # "EXTENSION"
<1>1. father \in Counters => father # Null
  BY CounterPlaces, NodeTypes DEF Inv
<1> QED
  BY <1>1, FatherPlace

LEMMA SharedPut == ASSUME FewPuts, Held, Shared, PutStep PROVE Shared'
<1>1. PICK A : Shares(A)
  BY DEF Shared
<1>2. Inv
  BY DEF Held
<1>3. CASE PutRoot
  <2> DEFINE B == [n \in {} |-> Null]
  <2>1. Shares(B)'
    BY <1>3, SharesRoot
  <2> QED
    BY <2>1 DEF Shared
<1>4. CASE PutExtensionMatch \/ PutBranchDown \/ PutBranchNew
  <2>1. PICK B : B = [A EXCEPT ![current] = @ \cup {First}]
    OBVIOUS
  <2>2. Shares(B)'
    BY <1>1, <1>2, <1>4, <2>1, SharesCount
  <2> QED
    BY <2>2 DEF Shared
<1>5. ASSUME Splits, Return("done"), pc = "put", current # Null, Here.type \in {"LEAF", "EXTENSION"}
      PROVE  Shared'
  <2>1. PICK m, old : Parting(m) /\ Divides(m, old) /\ Tallies(m, old)
    BY <1>5, SplitNodes DEF Held
  <2>2. PICK B : Redealt(A, B, m, old)
    BY <2>1, SplitRedealt
  <2>3. Shares(B)'
    BY <1>1, <1>5, <2>1, <2>2, SharesSplit
  <2> QED
    BY <2>3 DEF Shared
<1>6. CASE PutLeafSplit
  <2>1. Splits /\ pc = "put" /\ current # Null /\ Here.type = "LEAF" /\ Return("done")
    BY <1>2, <1>6, InvPutLeafSplit DEF PutLeafSplit, Splice, Node, Here
  <2> QED
    BY <1>5, <2>1
<1>7. ASSUME pc = "put", current # Null, Here.type # "BRANCH", UNCHANGED <<tree, puts>>, pc' # "put"
      PROVE  Shared'
  <2>1. Shares(A)'
    BY <1>1, <1>2, <1>7, NotBelowExtension, SharesEnd
  <2> QED
    BY <2>1 DEF Shared
<1>8. CASE PutExtensionSplit
  <2>1. pc = "put" /\ current # Null /\ Here.type = "EXTENSION"
    BY <1>8 DEF PutExtensionSplit, Node, Here
  <2>2. CASE Crash
    BY <1>7, <2>1, <2>2 DEF Crash
  <2>3. CASE ~ Crash
    <3>1. Return("done")
      BY <1>8, <2>3 DEF PutExtensionSplit, Splice
    <3>2. brk' # brk
      <4>1. brk' = brk + 4 /\ brk \in Nat
        BY <1>2, <1>8, <2>3 DEF PutExtensionSplit, Splice, Inv, TypeOK
      <4> QED
        BY <4>1
    <3>3. Splits
      <4>1. Splits \/ UNCHANGED tree
        BY <1>2, <1>8, InvPutExtensionSplit
      <4> QED
        BY <3>2, <4>1 DEF tree
    <3> QED
      BY <1>5, <2>1, <3>1, <3>3
  <2> QED
    BY <2>2, <2>3
<1>9. CASE PutLeafThrow \/ PutValue
  <2>1. /\ pc = "put" /\ current # Null /\ Here.type \in {"LEAF", "VALUE"}
        /\ UNCHANGED <<tree, puts>> /\ pc' = "idle"
    BY <1>9 DEF PutLeafThrow, PutValue, Node, Here, Return
  <2> QED
    BY <1>7, <2>1
<1> QED
  BY <1>3, <1>4, <1>6, <1>8, <1>9 DEF PutStep

LEMMA SharedStep == ASSUME FewPuts, Held, Shared, [Next]_vars PROVE Shared'
<1>1. PICK A : Shares(A)
  BY DEF Shared
<1>2. Inv
  BY DEF Held
<1>3. CASE NullKey \/ UNCHANGED vars
  <2>1. UNCHANGED <<tree, pc, hex, start, father, puts>>
    BY <1>3 DEF NullKey, vars, args, cursor
  <2>2. Shares(A)'
    BY <1>1, <2>1, SharesSame
  <2> QED
    BY <2>2 DEF Shared
<1>4. ASSUME NEW k \in Keys, NEW v \in Values, PutCall(k, v) PROVE Shared'
  <2>1. Shares(A)'
    BY <1>1, <1>2, <1>4, SharesBegin
  <2> QED
    BY <2>1 DEF Shared
<1>5. ASSUME GetStep \/ \E k \in Asked : GetCall(k) PROVE Shared'
  <2>1. UNCHANGED <<tree, puts>> /\ pc # "put" /\ pc' # "put"
    BY <1>5 DEF GetStep, GetNothing, GetExtension, GetBranch, GetLeaf, GetValue, GetCall, Begin,
                Node, Return, Crash
  <2>2. Shares(A)'
    BY <1>1, <1>2, <2>1, SharesEnd
  <2> QED
    BY <2>2 DEF Shared
<1> QED
  BY <1>3, <1>4, <1>5, SharedPut DEF Next

LEMMA SharedInit == ASSUME Init PROVE Shared
<1> DEFINE A == [n \in {} |-> Null]
<1>1. Counters = {} /\ pc = "idle"
  BY DEF Init, Counters
<1>2. Shares(A)
  BY <1>1 DEF Shares, SharesCounted, SharesBelow, SharesAbove, SharesApart, SharesFresh
<1> QED
  BY <1>2 DEF Shared

\* A counter counts some of the tokens.
LEMMA SharedBound == ASSUME FewPuts, TypeOK, Shared PROVE DriftBounded
<1>1. PICK A : Shares(A)
  BY DEF Shared
<1>2. ASSUME NEW n \in Counters PROVE heap[n].leaves <= 2 * puts
  <2>1. A[n] \in SUBSET Tokens /\ heap[n].leaves = Cardinality(A[n])
    BY <1>1 DEF Shares, SharesCounted
  <2>2. Cardinality(A[n]) <= 2 * puts
    BY <2>1, TokensFit
  <2> QED
    BY <2>1, <2>2
<1> QED
  BY <1>2 DEF DriftBounded

LEMMA TrieShared == ASSUME FewPuts PROVE Spec => []Shared
<1>1. Init => Shared
  BY SharedInit
<1>2. Held /\ Shared /\ [Next]_vars => Shared'
  BY SharedStep
<1> QED
  BY <1>1, <1>2, TrieHeld, PTL DEF Spec

\* No counter of a branch or an extension exceeds twice the number of calls of put,
\* however often the subtrees below it are split and counted again (Node.cpp:84);
\* so 32767 calls cannot wrap the 16 bits.
THEOREM TrieDriftBounded == MaxPuts < 32768 => (Spec => []DriftBounded)
<1> SUFFICES ASSUME FewPuts PROVE Spec => []DriftBounded
  BY DEF FewPuts
<1>1. TypeOK /\ Shared => DriftBounded
  BY SharedBound
<1> QED
  BY <1>1, TrieTypeOK, TrieShared, PTL

-----------------------------------------------------------------------------
(* The keys below a node *)

Under(n) == {k \in DOMAIN Contents : Extends(k, heap[n].at)}

\* A counter has room for the keys below its node, and for that of the put that
\* has passed it.
Covers ==
  \A n \in Counters :
    /\ Cardinality(Under(n)) <= heap[n].leaves
    /\ Passed(n) => Cardinality(Under(n)) < heap[n].leaves

\* The keys are finitely many.
LEMMA KeysFinite == ASSUME Held, ContentsOK PROVE IsFiniteSet(DOMAIN Contents)
<1> DEFINE f == [n \in Stored |-> KeyAt(n)]
           T == {KeyAt(n) : n \in Stored}
<1>1. IsFiniteSet(Stored)
  <2> DEFINE d == brk - 1
  <2>1. d \in Nat /\ Stored \subseteq 1..d
    BY DEF Held, Inv, TypeOK, Stored
  <2> HIDE DEF d
  <2>2. IsFiniteSet(1..d)
    BY <2>1, FS_Interval
  <2> QED
    BY <2>1, <2>2, FS_Subset
<1>2. f \in Surjection(Stored, T)
  BY DEF Surjection
<1> HIDE DEF f
<1>3. IsFiniteSet(T)
  BY <1>1, <1>2, FS_Surjection
<1> QED
  BY <1>3 DEF ContentsOK

\* A part of them is fewer, and one more key is at most one more.
LEMMA FewerKeys ==
  ASSUME NEW S, NEW T, IsFiniteSet(T), S \subseteq T
  PROVE  /\ IsFiniteSet(S) /\ Cardinality(S) \in Nat /\ Cardinality(T) \in Nat
         /\ Cardinality(S) <= Cardinality(T)
<1>1. IsFiniteSet(S) /\ Cardinality(S) <= Cardinality(T)
  BY FS_Subset
<1> QED
  BY <1>1, FS_CardinalityType

LEMMA OneKeyMore ==
  ASSUME NEW S, IsFiniteSet(S), NEW t
  PROVE  /\ IsFiniteSet(S \cup {t}) /\ Cardinality(S \cup {t}) \in Nat
         /\ Cardinality(S \cup {t}) <= Cardinality(S) + 1
<1>1. Cardinality(S) \in Nat
  BY FS_CardinalityType
<1>2. IsFiniteSet(S \cup {t})
  BY FS_AddElement
<1>3. Cardinality(S \cup {t}) \in Nat
  BY <1>2, FS_CardinalityType
<1>4. CASE t \in S
  <2>1. S \cup {t} = S
    BY <1>4
  <2> QED
    BY <1>1, <1>2, <1>3, <2>1
<1>5. CASE t \notin S
  BY <1>1, <1>2, <1>3, <1>5, OneMore
<1> QED
  BY <1>4, <1>5

\* The key of a put lies below the current node.
LEMMA KeyBelow ==
  ASSUME Inv, pc = "put", current # Null
  PROVE  /\ Extends(hex, Here.at) /\ Len(hex) = HexLen /\ HexLen \in Nat /\ start <= HexLen
         /\ start \in Nat /\ Len(Here.at) = start /\ current \in DOMAIN heap
<1>1. /\ Here.at = SubSeq(hex, 1, start) /\ start \in 0..HexLen /\ HexLen \in Nat
      /\ Len(Here.at) = start /\ hex \in Seq(Nibble) /\ Len(hex) = HexLen
      /\ \A i \in 1..HexLen : hex[i] \in Nibble /\ current \in DOMAIN heap
  BY PutCursor DEF Here
<1>2. \A j \in 1..start : SubSeq(hex, 1, start)[j] = hex[j]
  BY <1>1, SubSeqProperties
<1>3. current \in DOMAIN heap
  BY PutCursor
<1> QED
  BY <1>1, <1>2, <1>3 DEF Extends

\* A counter above the key that the put has not passed belongs to the current
\* node, or lies below it where the key goes.
LEMMA KeyPath ==
  ASSUME Held, pc = "put", current # Null,
         NEW n \in Counters, n # current, Extends(hex, heap[n].at)
  PROVE  \/ Passed(n)
         \/ /\ Here.type = "BRANCH" /\ Here.children[hex[start + 1]] # Null
            /\ Len(heap[n].at) > start
         \/ Here.type = "EXTENSION" /\ Extends(heap[n].at, Whole)
<1>1. /\ Inv /\ TypeOK /\ Extends(hex, Here.at) /\ Len(hex) \in Nat /\ start \in Nat
      /\ Len(Here.at) = start /\ current \in DOMAIN heap
      /\ n \in DOMAIN heap /\ Len(heap[n].at) \in Nat
  BY KeyBelow, CounterPlaces DEF Held, Inv
<1>2. CASE Len(heap[n].at) < start
  BY <1>2 DEF Passed
<1>3. CASE Len(heap[n].at) >= start
  <2>1. Extends(heap[n].at, Here.at)
    BY <1>1, <1>3, Comparable
  <2>2. Beside(Here, heap[n])
    BY <1>1 DEF Held, Places, Apart, Here
  <2>3. CASE Here.type = "BRANCH" /\ Len(heap[n].at) = Len(Here.at) /\ heap[n].type = "EXTENSION"
    <3>1. heap[n].next = current
      BY <1>1, <2>1, <2>3, SamePlace DEF Here
    <3>2. n = father
      BY <1>1, <2>3, <3>1, OnlyFather
    <3> QED
      BY <3>2 DEF Passed
  <2>4. CASE /\ Here.type = "BRANCH" /\ Len(heap[n].at) > Len(Here.at)
             /\ Here.children[heap[n].at[Len(Here.at) + 1]] # Null
    <3>1. heap[n].at[start + 1] = hex[start + 1]
      BY <1>1, <2>4 DEF Extends
    <3> QED
      BY <1>1, <2>4, <3>1
  <2> QED
    BY <2>1, <2>2, <2>3, <2>4 DEF Beside, Whole
<1> QED
  BY <1>1, <1>2, <1>3

-----------------------------------------------------------------------------
(* Steps that keep the counters above the numbers of keys *)

\* A step that changes no node and passes none.
LEMMA CoversSame ==
  ASSUME Covers, UNCHANGED tree, \A n \in Counters : Passed(n)' => Passed(n)
  PROVE  Covers'
<1>1. heap' = heap /\ Contents' = Contents /\ Counters' = Counters
  BY SameContents DEF tree, Counters
<1>2. \A n : Under(n)' = Under(n)
  BY <1>1 DEF Under, Extends
<1> QED
  BY <1>1, <1>2 DEF Covers

\* The counters cannot wrap.
LEMMA CountersUp ==
  ASSUME FewPuts, Held, Shared, NEW n \in Counters
  PROVE  heap[n].leaves \in Nat /\ Wrap(heap[n].leaves + 1) = heap[n].leaves + 1
<1>1. heap[n].leaves \in Nat /\ heap[n].leaves <= 2 * puts
  <2>1. TypeOK /\ n \in DOMAIN heap /\ heap[n].type \in {"BRANCH", "EXTENSION"}
    BY DEF Held, Inv, Counters
  <2>2. heap[n].leaves \in Nat
    BY <2>1, NodeTypes, CountIsNat DEF BranchNodes, ExtensionNodes
  <2> QED
    BY <2>1, <2>2, SharedBound DEF DriftBounded
<1>2. puts \in Nat /\ 2 * puts < 65535
  <2>1. puts \in 0..MaxPuts /\ MaxPuts \in Nat
    BY TrieAssumption DEF Held, Inv, TypeOK
  <2> QED
    BY <2>1 DEF FewPuts
<1> DEFINE l == heap[n].leaves
<1>3. l \in Nat /\ l + 1 < 65536
  BY <1>1, <1>2
<1> HIDE DEF l
<1>4. Wrap(l + 1) = l + 1
  BY <1>3 DEF Wrap
<1> QED
  BY <1>3, <1>4 DEF l

\* A step that counts the key in the current node.
LEMMA CoversCount ==
  ASSUME FewPuts, Held, ContentsOK, ContentsOK', Shared, Covers,
         PutExtensionMatch \/ PutBranchDown
  PROVE  Covers'
<1>1. Inv /\ Places
  BY DEF Held
<1>2. /\ pc = "put" /\ current # Null /\ current \in Counters
      /\ Counters' = Counters
      /\ \A n \in Counters : heap'[n].at = heap[n].at
      /\ heap'[current].leaves = Wrap(heap[current].leaves + 1)
      /\ \A n \in Counters \ {current} : heap'[n].leaves = heap[n].leaves
      /\ hex' = hex
      /\ pc' = "put" => father' = current
  BY <1>1, CountsHere
<1>3. Contents' = Contents
  <2>1. Stored' = Stored /\ \A n \in Stored : heap'[n] = heap[n]
    BY <1>1, PlacesCounted
  <2>2. /\ \A n \in Stored : \E k \in Stored' :
             KeyOf(heap'[k]) = KeyOf(heap[n]) /\ heap'[k].value = heap[n].value
        /\ \A k \in Stored' : \E n \in Stored :
             KeyOf(heap'[k]) = KeyOf(heap[n]) /\ heap'[k].value = heap[n].value
    BY <2>1
  <2> QED
    BY <2>2, ContentsSame
<1>4. \A n \in Counters : Under(n)' = Under(n)
  BY <1>2, <1>3 DEF Under, Extends
<1>5. ASSUME NEW n \in Counters, n # current, Passed(n)' PROVE Passed(n)
  <2>1. /\ Extends(hex, heap[n].at) /\ Len(heap[n].at) < start'
        /\ Len(heap[n].at) \in Nat /\ Len(Here.at) = start /\ start \in Nat
        /\ current \in DOMAIN heap /\ TypeOK
    <3>1. Extends(hex, heap[n].at) /\ Len(heap[n].at) < start'
      BY <1>2, <1>5 DEF Passed, Extends
    <3> QED
      BY <1>1, <1>2, <3>1, KeyBelow, CounterPlaces DEF Inv
  <2>2. CASE PutBranchDown
    <3>1. start' = start + 1 /\ Here.type = "BRANCH"
      BY <2>2 DEF PutBranchDown, Descend, Node, Here
    <3>2. ~ (Len(heap[n].at) > start)
      BY <2>1, <3>1
    <3> QED
      BY <1>2, <1>5, <2>1, <3>1, <3>2, KeyPath
  <2>3. CASE PutExtensionMatch
    <3>1. start' = start + Len(Here.path) /\ Here.type = "EXTENSION"
      BY <2>3 DEF PutExtensionMatch, Descend, Node, Here
    <3>2. Len(Whole) = start + Len(Here.path)
      BY <2>1, <3>1, PlaceTyped DEF Here, Whole
    <3>3. ~ Extends(heap[n].at, Whole)
      <4> DEFINE w == Len(Whole)
                 l == Len(heap[n].at)
      <4>1. l < w /\ l \in Nat /\ w \in Nat
        BY <2>1, <3>1, <3>2, PlaceEnd DEF Here, Whole
      <4> HIDE DEF w, l
      <4>2. ~ (w <= l)
        BY <4>1
      <4> QED
        BY <4>2 DEF Extends, w, l
    <3> QED
      BY <1>2, <1>5, <2>1, <3>1, <3>3, KeyPath
  <2> QED
    BY <2>2, <2>3
<1>6. ASSUME NEW n \in Counters
      PROVE  /\ Cardinality(Under(n)') <= heap'[n].leaves
             /\ Passed(n)' => Cardinality(Under(n)') < heap'[n].leaves
  <2>1. Under(n)' = Under(n)
    BY <1>4
  <2>2. CASE n # current
    BY <1>2, <1>5, <2>1, <2>2 DEF Covers
  <2>3. CASE n = current
    <3> DEFINE l == heap[n].leaves
               u == Cardinality(Under(n))
    <3>1. heap'[n].leaves = l + 1 /\ l \in Nat
      BY <1>2, <2>3, CountersUp
    <3>2. u <= l /\ u \in Nat
      <4>1. u \in Nat
        BY KeysFinite, FewerKeys DEF Under
      <4> QED
        BY <4>1 DEF Covers
    <3>3. Cardinality(Under(n)') = u
      BY <2>1
    <3> HIDE DEF l, u
    <3> QED
      BY <3>1, <3>2, <3>3
  <2> QED
    BY <2>2, <2>3
<1> QED
  BY <1>2, <1>6 DEF Covers

\* A node that the put has passed, or has just counted, has room for one key more.
LEMMA CoversMore ==
  ASSUME Held, ContentsOK, Adds, NEW n \in Counters, heap'[n].at = heap[n].at,
         NEW l \in Nat, heap[n].leaves \in Nat,
         Extends(hex, heap[n].at) => Cardinality(Under(n)) < l,
         Cardinality(Under(n)) <= l
  PROVE  Cardinality(Under(n)') <= l
<1>1. /\ IsFiniteSet(Under(n)) /\ Cardinality(Under(n)) \in Nat
  BY KeysFinite, FewerKeys DEF Under
<1>2. DOMAIN Contents' = DOMAIN Contents \cup {hex}
  BY DEF Adds
<1>3. Under(n)' = {k \in DOMAIN Contents \cup {hex} : Extends(k, heap[n].at)}
  BY <1>2 DEF Under, Extends
<1> DEFINE u == Cardinality(Under(n))
           w == Cardinality(Under(n)')
<1>4. CASE Extends(hex, heap[n].at)
  <2>1. Under(n)' = Under(n) \cup {hex}
    BY <1>3, <1>4 DEF Under
  <2>2. w \in Nat /\ w <= u + 1
    BY <1>1, <2>1, OneKeyMore
  <2>3. u < l /\ u \in Nat
    BY <1>1, <1>4
  <2> HIDE DEF u, w
  <2>4. w <= l
    BY <2>2, <2>3
  <2> QED
    BY <2>4 DEF w
<1>5. CASE ~ Extends(hex, heap[n].at)
  <2>1. Under(n)' = Under(n)
    BY <1>3, <1>5 DEF Under
  <2> QED
    BY <2>1
<1> QED
  BY <1>4, <1>5

\* A new leaf in an empty slot of a branch.
LEMMA CoversNew ==
  ASSUME FewPuts, Held, Held', ContentsOK, ContentsOK', Once', Shared, Covers, PutBranchNew
  PROVE  Covers'
<1>1. Inv /\ Places
  BY DEF Held
<1>2. /\ pc = "put" /\ current # Null /\ current \in Counters
      /\ Counters' = Counters
      /\ \A n \in Counters : heap'[n].at = heap[n].at
      /\ heap'[current].leaves = Wrap(heap[current].leaves + 1)
      /\ \A n \in Counters \ {current} : heap'[n].leaves = heap[n].leaves
  BY <1>1, CountsHere
<1>3. /\ pc' = "idle" /\ Here.type = "BRANCH" /\ Here.children[hex[start + 1]] = Null
  BY DEF PutBranchNew, Return, Node, Here
<1>4. Adds
  BY <1>1, PlacesBranchNew, AddsLeaf
<1>5. ASSUME NEW n \in Counters PROVE Cardinality(Under(n)') <= heap'[n].leaves
  <2>1. /\ heap[n].leaves \in Nat /\ Cardinality(Under(n)) \in Nat
        /\ Cardinality(Under(n)) <= heap[n].leaves
    <3>1. Cardinality(Under(n)) \in Nat
      BY KeysFinite, FewerKeys DEF Under
    <3> QED
      BY <3>1, CountersUp DEF Covers
  <2>2. CASE n # current
    <3>1. Extends(hex, heap[n].at) => Cardinality(Under(n)) < heap[n].leaves
      BY <1>2, <1>3, <2>2, KeyPath DEF Covers
    <3>2. Cardinality(Under(n)') <= heap[n].leaves
      BY <1>2, <1>4, <2>1, <3>1, CoversMore
    <3> QED
      BY <1>2, <2>2, <3>2
  <2>3. CASE n = current
    <3> DEFINE l == heap[n].leaves
               u == Cardinality(Under(n))
    <3>1. l \in Nat /\ u \in Nat /\ u <= l /\ heap'[n].leaves = l + 1
      BY <1>2, <2>1, <2>3, CountersUp
    <3> HIDE DEF l, u
    <3>2. l + 1 \in Nat /\ u < l + 1 /\ u <= l + 1
      BY <3>1
    <3> USE DEF u, l
    <3>3. Cardinality(Under(n)') <= heap[n].leaves + 1
      BY <1>2, <1>4, <2>1, <3>2, CoversMore
    <3> QED
      BY <3>1, <3>3
  <2> QED
    BY <2>2, <2>3
<1> QED
  BY <1>2, <1>3, <1>5 DEF Covers, Passed

-----------------------------------------------------------------------------
(* A split *)

\* The keys below the node that is split: that of the leaf, or those below the
\* branch of the extension.
Parted == IF Here.type = "EXTENSION" THEN Under(Here.next) ELSE {KeyAt(current)}

LEMMA KeysParted ==
  ASSUME Held, ContentsOK, NEW m, Parting(m), NEW k \in DOMAIN Contents, Extends(k, Here.at)
  PROVE  k \in Parted
<1>1. PICK x \in Stored : k = KeyAt(x)
  BY DEF ContentsOK
<1>2. /\ x \in DOMAIN heap /\ Holder(heap[x]) /\ Len(k) \in Nat
      /\ Len(heap[x].at) \in Nat /\ Extends(k, heap[x].at)
  BY <1>1, StoredKey
<1>3. /\ current \in DOMAIN heap /\ Len(Here.at) \in Nat /\ Inv /\ Places /\ TypeOK
      /\ Here.type \in {"LEAF", "EXTENSION"} /\ Len(Whole) \in Nat
  BY PartingPlaces DEF Parting
<1>4. CASE x = current
  BY <1>1, <1>2, <1>3, <1>4 DEF Parted, Holder, Here
<1>5. CASE x # current
  <2>1. Beside(heap[x], Here)
    BY <1>2, <1>3, <1>5 DEF Places, Apart, Here
  <2>2. ~ Extends(Here.at, heap[x].at)
    BY <1>2, <2>1 DEF Beside, Holder
  <2>3. Extends(heap[x].at, Here.at)
    BY <1>2, <1>3, <2>2, Comparable
  <2>4. Here.type = "EXTENSION" /\ Extends(heap[x].at, Whole)
    BY <1>2, <1>5, <2>3, NothingBeside
  <2>5. Extends(k, Whole)
    BY <1>2, <1>3, <2>4, ExtendsTrans
  <2>6. heap[Here.next].at = Whole
    BY <1>3, <2>4, ExtensionNext DEF Inv, NodesOK, Here, Whole
  <2> QED
    BY <2>4, <2>5, <2>6 DEF Parted, Under
<1> QED
  BY <1>4, <1>5

\* They are not more than the tokens that are moved.
LEMMA PartedCount ==
  ASSUME Held, ContentsOK, Covers, NEW m, Parting(m), NEW A, Shares(A)
  PROVE  /\ IsFiniteSet(Parted) /\ Cardinality(Parted) \in Nat
         /\ Cardinality(Moved(A)) \in Nat /\ Cardinality(Parted) <= Cardinality(Moved(A))
<1>1. CASE Here.type = "EXTENSION"
  <2>1. Here.next \in Counters
    <3>1. current \in DOMAIN heap /\ Inv
      BY PartingPlaces DEF Parting
    <3> QED
      BY <1>1, <3>1, CounterPlaces DEF Here, Counters
  <2>2. /\ Parted = Under(Here.next) /\ Moved(A) = A[Here.next]
    BY <1>1 DEF Parted, Moved
  <2>3. IsFiniteSet(Parted) /\ Cardinality(Parted) \in Nat
    BY <2>2, KeysFinite, FewerKeys DEF Under
  <2>4. Cardinality(Parted) <= heap[Here.next].leaves
    BY <2>1, <2>2 DEF Covers
  <2>5. heap[Here.next].leaves = Cardinality(Moved(A))
    BY <2>1, <2>2 DEF Shares, SharesCounted
  <2>6. heap[Here.next].leaves \in Nat
    BY <2>1, NodeTypes, CountIsNat DEF Counters, Held, Inv, BranchNodes, ExtensionNodes
  <2> QED
    BY <2>3, <2>4, <2>5, <2>6
<1>2. CASE Here.type # "EXTENSION"
  <2>1. Parted = {KeyAt(current)} /\ Moved(A) = {Second}
    BY <1>2 DEF Parted, Moved
  <2>2. IsFiniteSet({KeyAt(current)}) /\ Cardinality({KeyAt(current)}) = 1
    BY FS_Singleton
  <2>3. Cardinality({Second}) = 1
    BY FS_Singleton
  <2> QED
    BY <2>1, <2>2, <2>3
<1> QED
  BY <1>1, <1>2

\* What a split brings into the counters: as many as the keys below, and no less
\* than before in the father's.
LEMMA SplitRoom ==
  ASSUME FewPuts, Held, ContentsOK, Shared, Covers,
         NEW m, NEW old, Parting(m), Divides(m, old), Tallies(m, old)
  PROVE  \E c \in Nat :
           /\ Cardinality(Parted) < c /\ Cardinality(Parted \cup {hex}) <= c
           /\ heap'[brk].leaves = c
           /\ m # 0 => heap'[brk + 1].leaves = c
           /\ Here.type = "EXTENSION" /\ old \notin Orphans =>
                heap'[old].leaves \in Nat /\ Cardinality(Parted) <= heap'[old].leaves
           /\ \A n \in Counters \ {current} :
                heap'[n].leaves \in Nat /\ heap[n].leaves <= heap'[n].leaves
<1>1. PICK A : Shares(A)
  BY DEF Shared
<1>2. PICK c \in Count, e \in Count :
        /\ Counts(c, e)
        /\ heap'[brk].leaves = c
        /\ m # 0 => heap'[brk + 1].leaves = c
        /\ Here.type = "EXTENSION" /\ old \notin Orphans =>
             heap'[old].leaves = heap[Here.next].leaves
        /\ \A n \in DOMAIN heap \ {current} :
             /\ n # father => heap'[n] = heap[n]
             /\ n = father => heap[n].type = "BRANCH" /\ heap'[n].leaves = e
  BY DEF Tallies
<1>3. /\ pc = "put" /\ current # Null /\ current \in DOMAIN heap /\ Inv /\ TypeOK
  BY PartingPlaces DEF Parting
<1>4. father \in Counters => heap[father].type = "BRANCH"
  <2> SUFFICES ASSUME father \in Counters PROVE heap[father].type = "BRANCH"
    OBVIOUS
  <2>1. father # Null /\ father \in DOMAIN heap
    BY <1>3, CounterPlaces, NodeTypes
  <2>2. father # current
    BY <1>3, <2>1, FatherPlace
  <2> QED
    BY <1>2, <2>1, <2>2
<1>5. /\ c = Cardinality(Moved(A) \cup {First})
      /\ Here.type = "EXTENSION" => heap[Here.next].leaves = Cardinality(Moved(A))
      /\ father \in Counters => e = Cardinality(A[father] \cup Extra(A))
  BY <1>1, <1>2, <1>4, SplitSums
<1>6. /\ Moved(A) \in SUBSET Tokens /\ Extra(A) \subseteq Moved(A)
      /\ First \in Tokens /\ First \notin Moved(A)
  BY <1>1, SplitTokens
<1>7. c = Cardinality(Moved(A)) + 1
  <2>1. IsFiniteSet(Moved(A))
    BY <1>3, <1>6, TokensFit
  <2> QED
    BY <1>5, <1>6, <2>1, OneMore
<1>8. /\ IsFiniteSet(Parted) /\ Cardinality(Parted) \in Nat
      /\ Cardinality(Moved(A)) \in Nat /\ Cardinality(Parted) <= Cardinality(Moved(A))
  BY <1>1, PartedCount
<1>9. c \in Nat /\ Cardinality(Parted) < c /\ Cardinality(Parted \cup {hex}) <= c
  <2> DEFINE p == Cardinality(Parted)
             q == Cardinality(Parted \cup {hex})
             x == Cardinality(Moved(A))
  <2>1. q \in Nat /\ q <= p + 1
    BY <1>8, OneKeyMore
  <2>2. p \in Nat /\ x \in Nat /\ p <= x /\ c = x + 1
    BY <1>7, <1>8
  <2> HIDE DEF p, q, x
  <2>3. c \in Nat /\ p < c /\ q <= c
    BY <2>1, <2>2
  <2> QED
    BY <2>3 DEF p, q
<1>10. Here.type = "EXTENSION" /\ old \notin Orphans =>
         heap'[old].leaves \in Nat /\ Cardinality(Parted) <= heap'[old].leaves
  BY <1>2, <1>5, <1>8
<1>11. ASSUME NEW n \in Counters \ {current}
       PROVE  heap'[n].leaves \in Nat /\ heap[n].leaves <= heap'[n].leaves
  <2>1. n \in DOMAIN heap \ {current} /\ heap[n].leaves \in Nat
    BY CountersUp DEF Counters
  <2>2. CASE n # father
    <3>1. heap'[n] = heap[n]
      BY <1>2, <2>1, <2>2
    <3> QED
      BY <2>1, <3>1
  <2>3. CASE n = father
    <3>1. heap'[n].leaves = e /\ e = Cardinality(A[n] \cup Extra(A))
      BY <1>2, <1>5, <2>1, <2>3
    <3>2. A[n] \in SUBSET Tokens /\ heap[n].leaves = Cardinality(A[n])
      BY <1>1, <2>1 DEF Shares, SharesCounted
    <3>3. A[n] \cup Extra(A) \in SUBSET Tokens
      BY <1>6, <3>2
    <3>4. IsFiniteSet(A[n] \cup Extra(A))
      BY <1>3, <3>3, TokensFit
    <3>5. /\ Cardinality(A[n] \cup Extra(A)) \in Nat
          /\ Cardinality(A[n]) <= Cardinality(A[n] \cup Extra(A))
      BY <3>4, FewerKeys
    <3> QED
      BY <3>1, <3>2, <3>5
  <2> QED
    BY <2>2, <2>3
<1> QED
  BY <1>2, <1>9, <1>10, <1>11

\* A split keeps the counters above the numbers of keys.
LEMMA CoversSplit ==
  ASSUME FewPuts, Held, ContentsOK, Shared, Covers, Adds, pc' = "idle",
         NEW m, NEW old, Parting(m), Divides(m, old), Tallies(m, old)
  PROVE  Covers'
<1> DEFINE K == Counters \ {current}
           G == Grown(m, old)
<1>1. /\ pc = "put" /\ current # Null /\ current \in DOMAIN heap /\ Inv
      /\ Here.type \in {"LEAF", "EXTENSION"} /\ Len(Here.at) \in Nat
      /\ start \in Nat /\ m \in Nat
      /\ Len(Whole) \in Nat /\ Extends(Whole, OldAt(m)) /\ Len(OldAt(m)) = start + m + 1
      /\ OldAt(m)[start + m + 1] = OldNibble(m) /\ OldNibble(m) # NewNibble(m)
  BY PartingPlaces DEF Parting
<1>2. /\ Counters' = K \cup G
      /\ \A n \in K : heap'[n].at = heap[n].at
      /\ \A n \in G :
           /\ n \notin DOMAIN heap /\ Len(heap'[n].at) \in Nat
           /\ Extends(heap'[n].at, Here.at)
  BY SplitCounters
<1>3. PICK c \in Nat :
        /\ Cardinality(Parted) < c /\ Cardinality(Parted \cup {hex}) <= c
        /\ heap'[brk].leaves = c
        /\ m # 0 => heap'[brk + 1].leaves = c
        /\ Here.type = "EXTENSION" /\ old \notin Orphans =>
             heap'[old].leaves \in Nat /\ Cardinality(Parted) <= heap'[old].leaves
        /\ \A n \in K : heap'[n].leaves \in Nat /\ heap[n].leaves <= heap'[n].leaves
  BY SplitRoom
<1>4. /\ DOMAIN Contents' = DOMAIN Contents \cup {hex}
      /\ IsFiniteSet(Parted)
  <2>1. \E A : Shares(A)
    BY DEF Shared
  <2> QED
    BY <2>1, PartedCount DEF Adds
<1>5. ~ Extends(hex, OldAt(m))
  <2> SUFFICES ASSUME Extends(hex, OldAt(m)) PROVE FALSE
    OBVIOUS
  <2>1. hex[start + m + 1] = OldAt(m)[start + m + 1]
    BY <1>1 DEF Extends
  <2> QED
    BY <1>1, <2>1 DEF NewNibble
<1>6. Len(hex) \in Nat /\ Len(OldAt(m)) \in Nat /\ (\A k \in DOMAIN Contents : Len(k) \in Nat)
  <2>1. Len(hex) \in Nat /\ Len(OldAt(m)) \in Nat
    BY <1>1, KeyBelow
  <2>2. ASSUME NEW k \in DOMAIN Contents PROVE Len(k) \in Nat
    <3>1. PICK x \in Stored : k = KeyAt(x)
      BY DEF ContentsOK
    <3> QED
      BY <3>1, StoredKey
  <2> QED
    BY <2>1, <2>2
<1> HIDE DEF K, G
<1>7. ASSUME NEW n \in K PROVE Cardinality(Under(n)') <= heap'[n].leaves
  <2>1. n \in Counters /\ n # current
    BY <1>7 DEF K
  <2>2. /\ heap[n].leaves \in Nat /\ Cardinality(Under(n)) \in Nat
        /\ Cardinality(Under(n)) <= heap[n].leaves
    <3>1. Cardinality(Under(n)) \in Nat
      BY KeysFinite, FewerKeys DEF Under
    <3> QED
      BY <2>1, <3>1, CountersUp DEF Covers
  <2>3. Extends(hex, heap[n].at) => Cardinality(Under(n)) < heap[n].leaves
    <3> SUFFICES ASSUME Extends(hex, heap[n].at) PROVE Passed(n)
      BY <2>1 DEF Covers
    <3>1. CASE Here.type = "EXTENSION" /\ Extends(heap[n].at, Whole)
      <4>1. Len(heap[n].at) \in Nat
        BY <1>1, <2>1, CounterPlaces
      <4>2. Extends(hex, Whole)
        BY <1>1, <1>6, <3>1, <4>1, ExtendsTrans
      <4>3. Extends(hex, OldAt(m))
        BY <1>1, <1>6, <4>2, ExtendsTrans
      <4> QED
        BY <1>5, <4>3
    <3> QED
      BY <1>1, <2>1, <3>1, KeyPath
  <2>4. Cardinality(Under(n)') <= heap[n].leaves
    BY <1>2, <2>1, <2>2, <2>3, CoversMore
  <2> DEFINE w == Cardinality(Under(n)')
             l == heap[n].leaves
             r == heap'[n].leaves
  <2>5. l \in Nat /\ r \in Nat /\ l <= r /\ w <= l
    BY <1>3, <2>2, <2>4
  <2>6. w \in Nat
    <3>1. Under(n)' \subseteq DOMAIN Contents \cup {hex}
      BY <1>4 DEF Under
    <3>2. IsFiniteSet(DOMAIN Contents \cup {hex})
      BY KeysFinite, FS_AddElement
    <3> QED
      BY <3>1, <3>2, FewerKeys
  <2> HIDE DEF w, l, r
  <2>7. w <= r
    BY <2>5, <2>6
  <2> QED
    BY <2>7 DEF w, r
<1>8. ASSUME NEW n \in G PROVE Cardinality(Under(n)') <= heap'[n].leaves
  <2>1. Under(n)' \subseteq Parted \cup {hex}
    <3> SUFFICES ASSUME NEW k \in DOMAIN Contents, Extends(k, heap'[n].at) PROVE k \in Parted
      BY <1>4 DEF Under, Extends
    <3>1. Extends(k, Here.at)
      BY <1>1, <1>2, <1>6, ExtendsTrans
    <3> QED
      BY <3>1, KeysParted
  <2>2. /\ brk + 1 # brk + 3 /\ brk # brk + 3
        /\ \/ n = brk
           \/ n = brk + 1 /\ m # 0
           \/ n = brk + 3 /\ n = old /\ old \notin Orphans /\ Here.type = "EXTENSION"
    <3>1. brk \in Nat
      BY <1>1 DEF Inv, TypeOK
    <3>2. old \in {brk + 3} \cup Orphans
      BY DEF Divides
    <3> QED
      BY <3>1, <3>2 DEF G, Grown, Fork
  <2> DEFINE w == Cardinality(Under(n)')
  <2>3. w \in Nat
    <3>1. IsFiniteSet(Parted \cup {hex})
      BY <1>4, FS_AddElement
    <3> QED
      BY <2>1, <3>1, FewerKeys
  <2>4. CASE n = brk \/ (n = brk + 1 /\ m # 0)
    <3>1. heap'[n].leaves = c
      BY <1>3, <2>4
    <3> DEFINE q == Cardinality(Parted \cup {hex})
    <3>2. w <= q /\ q \in Nat /\ q <= c
      <4>1. IsFiniteSet(Parted \cup {hex})
        BY <1>4, FS_AddElement
      <4>2. w <= q /\ q \in Nat
        BY <2>1, <4>1, FewerKeys
      <4> QED
        BY <1>3, <4>2
    <3> HIDE DEF w, q
    <3>3. w <= c
      BY <2>3, <3>2
    <3> QED
      BY <3>1, <3>3 DEF w
  <2>5. CASE n = brk + 3 /\ n = old /\ old \notin Orphans /\ Here.type = "EXTENSION"
    <3>1. heap'[n].at = OldAt(m)
      BY <2>5 DEF Divides, AsOld
    <3>2. hex \notin Under(n)'
      <4> SUFFICES ASSUME hex \in Under(n)' PROVE FALSE
        OBVIOUS
      <4>1. Extends(hex, heap'[n].at)
        BY DEF Under, Extends
      <4> QED
        BY <1>5, <3>1, <4>1
    <3>3. Under(n)' \subseteq Parted
      BY <2>1, <3>2
    <3> DEFINE p == Cardinality(Parted)
               r == heap'[n].leaves
    <3>4. w <= p /\ p \in Nat /\ p <= r /\ r \in Nat
      <4>1. w <= p /\ p \in Nat
        BY <1>4, <3>3, FewerKeys
      <4> QED
        BY <1>3, <2>5, <4>1
    <3> HIDE DEF w, p, r
    <3>5. w <= r
      BY <2>3, <3>4
    <3> QED
      BY <3>5 DEF w, r
  <2>6. \/ n = brk \/ (n = brk + 1 /\ m # 0)
        \/ n = brk + 3 /\ n = old /\ old \notin Orphans /\ Here.type = "EXTENSION"
    BY <2>2
  <2> QED
    BY <2>4, <2>5, <2>6, Zenon
<1> QED
  BY <1>2, <1>7, <1>8 DEF Covers, Passed

-----------------------------------------------------------------------------
(* Every step keeps the counters above the numbers of keys *)

LEMMA CoversPut ==
  ASSUME FewPuts, Held, Held', ContentsOK, ContentsOK', Once', Shared, Covers, PutStep
  PROVE  Covers'
<1>1. Inv
  BY DEF Held
<1>2. CASE PutRoot
  <2>1. DOMAIN heap = {}
    BY <1>2 DEF PutRoot, Held, Places, RootNode
  <2>2. DOMAIN heap' = {brk} /\ heap'[brk].type = "LEAF"
    BY <1>2, <2>1 DEF PutRoot, Overlay, Leaf
  <2>3. Counters' = {}
    BY <2>2 DEF Counters
  <2> QED
    BY <2>3 DEF Covers
<1>3. ASSUME Splits, Return("done"), pc = "put", current # Null, Here.type \in {"LEAF", "EXTENSION"}
      PROVE  Covers'
  <2>1. PICK m, old : Parting(m) /\ Divides(m, old) /\ Tallies(m, old)
    BY <1>3, SplitNodes DEF Held
  <2>2. Adds /\ pc' = "idle"
    BY <1>3, HeldSplit DEF Return
  <2> QED
    BY <2>1, <2>2, CoversSplit
<1>4. CASE PutLeafSplit
  <2>1. Splits /\ pc = "put" /\ current # Null /\ Here.type = "LEAF" /\ Return("done")
    BY <1>1, <1>4, InvPutLeafSplit DEF PutLeafSplit, Splice, Node, Here
  <2> QED
    BY <1>3, <2>1
<1>5. ASSUME UNCHANGED tree, pc' # "put" PROVE Covers'
  <2>1. \A n \in Counters : Passed(n)' => Passed(n)
    BY <1>5 DEF Passed
  <2> QED
    BY <1>5, <2>1, CoversSame
<1>6. CASE PutExtensionSplit
  <2>1. pc = "put" /\ current # Null /\ Here.type = "EXTENSION"
    BY <1>6 DEF PutExtensionSplit, Node, Here
  <2>2. CASE Crash
    BY <1>5, <2>2 DEF Crash
  <2>3. CASE ~ Crash
    <3>1. Return("done")
      BY <1>6, <2>3 DEF PutExtensionSplit, Splice
    <3>2. brk' # brk
      <4>1. brk' = brk + 4 /\ brk \in Nat
        BY <1>1, <1>6, <2>3 DEF PutExtensionSplit, Splice, Inv, TypeOK
      <4> QED
        BY <4>1
    <3>3. Splits
      <4>1. Splits \/ UNCHANGED tree
        BY <1>1, <1>6, InvPutExtensionSplit
      <4> QED
        BY <3>2, <4>1 DEF tree
    <3> QED
      BY <1>3, <2>1, <3>1, <3>3
  <2> QED
    BY <2>2, <2>3
<1>7. CASE PutLeafThrow \/ PutValue
  BY <1>5, <1>7 DEF PutLeafThrow, PutValue, Return
<1> QED
  BY <1>2, <1>4, <1>6, <1>7, CoversCount, CoversNew DEF PutStep

LEMMA CoversStep ==
  ASSUME FewPuts, Held, Held', ContentsOK, ContentsOK', Once', Shared, Covers, [Next]_vars
  PROVE  Covers'
<1>1. ASSUME UNCHANGED tree, UNCHANGED <<pc, hex, start, father>> \/ pc' # "put" PROVE Covers'
  <2>1. \A n \in Counters : Passed(n)' => Passed(n)
    BY <1>1 DEF Passed, Extends, tree
  <2> QED
    BY <1>1, <2>1, CoversSame
<1>2. CASE NullKey \/ UNCHANGED vars
  BY <1>1, <1>2 DEF NullKey, vars, args, cursor
<1>3. ASSUME NEW k \in Keys, NEW v \in Values, PutCall(k, v) PROVE Covers'
  <2>1. UNCHANGED tree /\ start' = 0 /\ father' = Null
    BY <1>3 DEF PutCall, Begin
  <2>2. ASSUME NEW n \in Counters PROVE ~ Passed(n)'
    <3>1. n # Null /\ Len(heap[n].at) \in Nat
      BY CounterPlaces, NodeTypes DEF Held, Inv
    <3>2. ~ (Len(heap[n].at) < 0)
      BY <3>1
    <3> QED
      BY <2>1, <3>1, <3>2 DEF Passed, tree
  <2> QED
    BY <2>1, <2>2, CoversSame
<1>4. ASSUME GetStep \/ \E k \in Asked : GetCall(k) PROVE Covers'
  <2>1. UNCHANGED tree /\ pc' # "put"
    BY <1>4 DEF GetStep, GetNothing, GetExtension, GetBranch, GetLeaf, GetValue, GetCall, Begin,
                Node, Return, Crash
  <2> QED
    BY <1>1, <2>1
<1> QED
  BY <1>2, <1>3, <1>4, CoversPut DEF Next

\* The values under a node are at different keys below it.
LEMMA CoversBound ==
  ASSUME FewPuts, Held, ContentsOK, Once, Shared, Covers
  PROVE  NeverUndercounts
<1> SUFFICES ASSUME NEW n \in Counters
             PROVE  heap[n].leaves >= Cardinality({m \in Stored :
                                        SubSeq(KeyAt(m), 1, Len(heap[n].at)) = heap[n].at})
  BY DEF NeverUndercounts
<1> DEFINE d == Len(heap[n].at)
           S == {m \in Stored : SubSeq(KeyAt(m), 1, d) = heap[n].at}
           T == Under(n)
           f == [m \in S |-> KeyAt(m)]
<1>1. IsFiniteSet(T) /\ Cardinality(T) \in Nat
  BY KeysFinite, FewerKeys DEF Under
<1>2. d \in Nat /\ heap[n].at \in Seq(Nibble)
  BY PlaceTyped DEF Held, Inv, Counters
<1>3. d <= HexLen
  <2>1. HexLen \in Nat /\ BranchDepth /\ n \in DOMAIN heap
        /\ heap[n].type \in {"BRANCH", "EXTENSION"}
    BY HexLenTyped DEF Held, Inv, NodesOK, Counters
  <2>2. CASE heap[n].type = "BRANCH"
    BY <1>2, <2>1, <2>2 DEF BranchDepth
  <2>3. CASE heap[n].type = "EXTENSION"
    <3> DEFINE c == heap[n].next
               lc == Len(heap[c].at)
    <3>1. /\ c \in Counters /\ heap[c].type = "BRANCH" /\ d <= lc
      BY <2>3, CounterPlaces DEF Held
    <3>2. c \in DOMAIN heap /\ lc \in Nat
      BY <3>1, CounterPlaces DEF Held
    <3>3. lc < HexLen
      BY <2>1, <3>1, <3>2 DEF BranchDepth
    <3> HIDE DEF d, lc
    <3> QED
      BY <1>2, <2>1, <3>1, <3>2, <3>3
  <2> QED
    BY <2>1, <2>2, <2>3
<1>4. ASSUME NEW m \in S PROVE KeyAt(m) \in T
  <2>1. /\ KeyAt(m) \in Seq(Nibble) /\ Len(KeyAt(m)) = HexLen /\ HexLen \in Nat
        /\ SubSeq(KeyAt(m), 1, d) = heap[n].at /\ KeyAt(m) \in DOMAIN Contents
    BY StoredKey DEF ContentsOK
  <2> DEFINE k == KeyAt(m)
             p == heap[n].at
  <2>2. k \in Seq(Nibble) /\ SubSeq(k, 1, d) = p /\ Len(k) = HexLen
    BY <2>1
  <2> HIDE DEF k, p, d
  <2>3. d \in Int /\ 1 \in Int /\ d <= Len(k) /\ \A j \in 1..d : k[j] \in Nibble
    <3>1. \A j \in 1..Len(k) : k[j] \in Nibble
      BY <2>2, ElementOfSeq
    <3> QED
      BY <1>2, <1>3, <2>1, <2>2, <3>1
  <2>4. \A j \in 1..d : SubSeq(k, 1, d)[j] = k[j]
    BY <1>2, <2>3, SubSeqProperties
  <2>5. Extends(k, p)
    BY <2>2, <2>3, <2>4 DEF Extends, d, p
  <2> QED
    BY <2>1, <2>5 DEF Under, k, p
<1>5. f \in Injection(S, T)
  <2>1. \A a \in S, b \in S : KeyAt(a) = KeyAt(b) => a = b
    BY DEF Once
  <2>2. f \in [S -> T]
    BY <1>4
  <2> HIDE DEF S, T
  <2>3. DOMAIN f = S /\ \A a \in S, b \in S : f[a] = f[b] => a = b
    BY <2>1
  <2> HIDE DEF f
  <2> QED
    BY <2>2, <2>3 DEF Injection, IsInjective
<1> HIDE DEF f
<1>6. IsFiniteSet(S) /\ Cardinality(S) <= Cardinality(T)
  BY <1>1, <1>5, FS_Injection
<1>7. Cardinality(S) \in Nat
  BY <1>6, FS_CardinalityType
<1>8. Cardinality(T) <= heap[n].leaves /\ heap[n].leaves \in Nat
  BY CountersUp DEF Covers
<1> DEFINE s == Cardinality(S)
           t == Cardinality(T)
           l == heap[n].leaves
<1>9. s \in Nat /\ t \in Nat /\ l \in Nat /\ s <= t /\ t <= l
  BY <1>1, <1>6, <1>7, <1>8
<1> HIDE DEF s, t, l
<1>10. l >= s
  BY <1>9
<1> QED
  BY <1>10 DEF s, l

\* In whatever order keys are put, split and refused, the counter of a branch or an
\* extension is never less than the number of values stored under it: what replace
\* takes from the father's when it swaps subtrees (Node.cpp:84) never exceeds what
\* it adds.  For fewer than 32768 calls of put, which cannot wrap the 16 bits.
THEOREM TrieNeverUndercounts == MaxPuts < 32768 => (Spec => []NeverUndercounts)
<1> SUFFICES ASSUME FewPuts PROVE Spec => []NeverUndercounts
  BY DEF FewPuts
<1>1. Init => Covers
  BY DEF Init, Covers, Counters
<1>2. Held => ContentsOK /\ Once
  BY ContentsAre, OnceHolds DEF Held
<1>3. /\ Held /\ Held' /\ ContentsOK /\ ContentsOK' /\ Once' /\ Shared /\ Covers /\ [Next]_vars
      => Covers'
  BY CoversStep
<1>4. Held /\ ContentsOK /\ Once /\ Shared /\ Covers => NeverUndercounts
  BY CoversBound
<1> QED
  BY <1>1, <1>2, <1>3, <1>4, TrieHeld, TrieShared, PTL DEF Spec
=============================================================================

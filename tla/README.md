# A TLA+ model of mexp

mexp is a Kademlia peer-to-peer store in C++, in progress.  Its own code is about two thousand
lines: a radix trie that is to hold the routing table (`trie/`), the Kademlia protocol with its
parallel lookup (`dht/`), a UDP transport (`net/`) and a few helpers (`comm/`, `type.h`).  This
directory models the parts with an algorithm in them, checks them with TLC on small instances, and
proves the main safety properties of the trie, the candidate list, the lookup and the remote calls
with TLAPS for every instance.

Only the trie and its tests compile as the sources stand.  `dht/` and `net/` lack several bodies
(`countDistance`, all of `RouteTable`, `UdpTransport::sendto`) and break the language's rules in a
few places (copies of objects that hold a mutex, a member function passed to `std::thread` without
its object).  They are modelled for what their statements say; each place where the code leaves
more than one reading is named below.

## 1. The system

| Component | State | Operations | Used by |
|---|---|---|---|
| Trie `trie/trie.h`, `trie/Node.*`, `trie/Encode.*` | `root`; branch, extension, leaf and value nodes, with a counter of leaves | `put`, `get` | tests; meant for the routing table |
| Candidate list `KBucket` | map from XOR distance to peer, `size`, a mutex | `insert`, `remove`, `min` | the lookup |
| Lookup `Kademlia::find`, `findThead` | per lookup: a KBucket, `isWorking`, `shouldTerminate`, `peerMaxCv`; the caller's `peer` | `find` starts three workers and joins them | applications, `init` |
| RPC `ping`, `find_node`, `onPing`, `onFindNodeReqeust`, `onReceiveRequest`, `init` | per call: `connId`, a lock | request, wait, decode, close; handle a request | the lookup, the request thread |
| Transport `net/UDPSocketWrapper.*` | `connections`, meant to be under `connMutex`; `recvBuf`, `msg`; two condition variables | `connect`, `close`, `listen`, `sendto` (no body) | RPC |
| Messages `dht/Message.*`, `Peer.h` | none | `serialize`, `deserialize`, `size` | RPC |
| `net/Address.h`, `comm/Buffer.h` | an address; an owned array | conversion to a connection id; moves | transport, RPC |
| Routing table `dht/RouteTable.h` | declared | no operation has a body | the lookup, RPC |
| Node ids `Peer.*`, `type.h` | 32 bytes | comparison; `countDistance` has no body | everything |

How they interact.  `find` asks the routing table, fills a KBucket with the closest peers and
starts the workers.  A worker takes the closest peer out of the bucket under `peerMapMtx`, asks it
by `find_node`, and `find_node` inserts the peers of the answer into the same bucket under
`routeTableLock`.  `find_node` opens a connection in the transport and waits on its condition
variable; the listener thread is to fill the connection's buffer and notify.  Datagrams that belong
to no connection go to the request thread, which calls `onPing` or `onFindNodeReqeust`.

What is hard, and what makes each part correct:

* **Trie.**  Sequential, but with many cases: a mismatch in an extension or in a leaf is handled in
  three or four ways by where the differing nibble is, and `put` rewires a parent that it remembers
  in two variables set in different iterations.  A wrong case shows only after a certain sequence
  of keys.  Correct: the nodes are a tree, the remembered parent is the parent, each stored key is
  found where a descent ends, the tree is compact, the counters are never too low and drift no
  further than twice the calls, and seen from outside there is a map.
* **Candidate list.**  The order of the offers and the limit.  Correct: the closest peers are kept, and
  room is used.
* **Lookup.**  Three threads, two mutexes, a condition variable, two atomics read one after the
  other, an iterator used after other calls, an early return.  Correct: nobody misses the target
  once it is known, the peer that is taken out is the one that is asked, the flag and the result agree,
  and all of it ends.
* **RPC and transport.**  Callers, listener and request thread share one map, each with other locks
  or none; `operator[]` makes a connection that is missing; a call closes what another one uses.
  Correct: what is opened is closed, a mutex has one holder, a call ends, nobody uses what was
  erased.
* **Messages.**  Datagrams get lost, repeated, reordered and cut, an answer names neither its request
  nor its key, a second datagram lies over the first, a length is tested with a variable not yet read.
  Correct: of an answer that was not mixed with others, or that came whole over them, find_node gets the
  peers that were sent, or refuses it, and reads nothing behind it.

`PROJECT.json` lists every hazard at its line with the properties for it.

## 2. The modules

| Module | Models | Used with |
|---|---|---|
| `Trie` | `trie<T>::put`, `trie<T>::get` and all they call | `MCTrie` (keys), `Trie_proofs`, `TrieMap_proofs`, `TrieFind_proofs`, `TrieCount_proofs` |
| `OnceMap` | what the trie promises: a map whose first value under a key stays | instantiated by `Trie` (`Map`) |
| `KBucket` | `KBucket::insert`, `remove`, `min` | `MCKBucket` (symmetry), `KBucket_proofs` |
| `Lookup` | `Kademlia::find`, `findThead` over `KBucket` (extends it) | `MCLookup`, `Lookup_proofs` |
| `Search` | what `find` promises its caller | instantiated by `Lookup` (`Promise`) |
| `Rpc` | `ping`, `find_node`, the connection table, the listener, the request thread | `MCRpc` (addresses), `Rpc_proofs` |
| `Wire` | the bytes of messages, `onPing`, `onFindNodeReqeust`, the decoding of an answer, the network | `MCWire` (peers), `Wire_proofs` |

Operators whose comment begins with "mutant:" are wrong versions of the one they precede.  They
belong to no specification; replacing the right one by the wrong one must break the property named
in `PROJECT.json`, which shows that the property can tell.

### Trie

The heap is a function from addresses to node records; a pointer is an address, 0 is null, and a
node leaves the domain when the code deletes it or loses the only pointer to it.  Each iteration of
the loop of `put` (trie.h:123) or `get` (trie.h:67) is one step, and so is a call; `current`,
`father`, `start`, `elIndex` are the locals of the code.

| Action | Code |
|---|---|
| `PutCall`, `GetCall`, `NullKey` | entry, null test, `hex_encode` |
| `PutRoot` | empty trie, trie.h:114 |
| `PutExtensionMatch` | extension whose path matches, 127-138 |
| `PutExtensionSplit` | the mismatch cases of an extension, 139-211 |
| `PutBranchNew`, `PutBranchDown` | empty and occupied slot of a branch, 212-228 |
| `PutLeafThrow`, `PutLeafSplit` | leaf with the same or another key, 229-292 |
| `PutValue` | value node, 293 |
| `GetNothing` ... `GetValue` | the cases of get |

The mismatch cases end alike (`Splice`): a branch with two children, an extension before it if a
prefix is shared, and `Branch::replace` on the father or a new root.  Only the nodes at stake
differ, and the actions compute those.

Four details are kept because they decide what happens.

* A leaf put in an empty slot has the length of the whole key, so it ends in bytes read from behind
  `key_hex` (trie.h:219).  They are `Junk`, equal or unequal to anything: `Compare` returns the
  set of answers the call may give.
* `get` steps with `++start` before it indexes (trie.h:86), so it follows the child of the next
  nibble, and behind the last one some byte of memory.
* A root extension has no father, and `dynamic_cast` of null is null: the mismatch case then
  crashes (trie.h:156).  The model leaves the tree as it was, for nobody reads it afterwards.
* The key is there already: the code computes a negative array length and throws, or comes to a
  value node and returns; in both cases the counters above have been raised.

The field `at` of a node, the nibbles that lead to it, is auxiliary: actions read it only to set
the field of another node, so it has no influence.

### OnceMap

Its state is the map, the call in progress and the last reply.  `Trie` implements it with the
refinement mapping `map <- Contents` (the values of leaves and value nodes under the keys they are
found at), `call <- [op |-> pc, ...]`, `reply <- ret`: every inner step of a descent is a stutter,
the linking step is the `Put`, and a crash leaves the map alone.  What `get` answers is left weak
(some stored value, or the default), because of the defect above.

### KBucket

A peer is its distance from the base; the `std::map` is a function from distances to contacts.
Every operation holds `peerMapMtx` from its first to its last access, so it is one step.  Kept as in
the code: `erase(distance)` before `emplace` removes nothing (the key is not there), `remove` does
not lower `size`, and `rbegin()` of an empty map is undefined (it may go either way, or end the
process).  `offered` and `removed` are history variables.

### Lookup

Each worker has a place (`pc`); the places are cut where another thread can act: a lock, a wait, an
unlock, the remote call, each of the two loads of the loop condition.  `lock` and `tableLock` hold
the owners of the two mutexes.  A critical section that waits for nothing is one step.

| Places | Code |
|---|---|
| `lock`, `asleep` | Kademlia.cpp:161-178, the wait and the test for the target |
| `remove`, `stuck` | 179, `remove` with the mutex held |
| `ask`, `insert` | 183, `find_node` and its inserts (148-155) |
| `finish`, `loop`, `loop2` | 186-189 |
| `found`, `ended` | the two returns |

Readings that had to be chosen:

* *The double lock.*  `findThead` calls `remove` with `peerMapMtx` held and `remove` locks it
  again.  That is undefined; with glibc it blocks.  The constant `Relock` says what may happen:
  `"blocks"`, `"proceeds"` (what a recursive mutex would do) or both.  With "proceeds" alone the
  model looks behind this defect at what the rest of the loop does.
* *Sharing.*  `std::thread(findThead, peer, bucket)` would copy its arguments.  The parameters are
  references, and the workers are meant to share them; the model shares them.
* *`find_node` is taken by its contract:* it fails, or inserts any peers of an answer.  `Rpc` shows
  that as written it always fails; the lookup is checked against every answer it may get.
* *The data race on `peer`* (read at 183 for its id while another worker writes it at 175) writes
  the id that is there already; the model has only the contact, which no worker reads.
* *The routing table* answers the target, or any set of up to `Capacity` peers without it.

### Search

The search as `find`'s caller sees it (dht/Kademlia.h:92-98): a peer the table has is answered at once;
otherwise the search returns 1 or 0 after the target was found, by whether its address converts to
something else than 0, or gives up with 0.  `Lookup` implements it with `status <- find` and
`found <- shouldTerminate`: `contact` and `result` are its own, all steps of the workers are stutters
except the first that finds the target.  Being safety only, the refinement does not say that `find` returns, and in
fact the code takes every action but `GiveUp`: that is finding 8.

### Rpc

Each caller has a place; a place ends where another thread can act on the table or on a mutex.

| Places | `find_node` | `ping` |
|---|---|---|
| `idle`, `connect`, `retry` | Kademlia.cpp:94-109; `retry` is the loop condition at 98 | 37-41 |
| `send` | 116-121 | none: the result of `sendto` (46) is not looked at |
| `lookup`, `mutex`, `wait` | 128-129, `connections[connId]` for the mutex, the lock, `connections[connId]` again for the condition variable | 48-49 |
| `waiting` | 129-132, ends by the timeout or a spurious wake-up | 49-59, the predicate looks the connection up again |
| `decode` | 138-142 | none: its buffer stays empty |
| `close` | 123, 134, 143 | 60 |
| `hung` | a mutex or condition variable that was erased, which never answers | |

`ref` says whether the connection a caller's lock refers to still exists.  The listener is `Bind`,
`Receive` and `ReceiveEmpty` (UDPSocketWrapper.cpp:6-40), the request thread `RequestStart` and
`Request`.

Readings that had to be chosen:

* *connect* (UDPSocketWrapper.h) answers the id of a connection that is open and 0 for a new one, and
  opens none; that its test is the wrong way round is finding 6.  So `ping`, which takes 0 for "occupied", passes only when somebody else's connection
  is there, and `find_node`, which at line 101 stores the value of the comparison, goes on as
  connection 1 exactly when `connect` answered 0.
* *The conversion of an address* (Address.h:33) shifts by 16 + port.  A shift by the width or more is
  undefined: `ConnIds` has what the processor answers and 0.
* *`operator[]`* of the map default-constructs a missing connection (`Opened`).
* *Buffers.*  `Connection` and the request thread's message have a null buffer: a datagram that is
  copied to one, or a request whose type is read, ends the process.  No answer ever reaches `buf`.
* *Races on the map.*  Callers look connections up without the lock that `connect` runs under, and the
  listener without any.  `Race` ends the process when one of two such accesses changes the map.
* *An erased mutex* may seem free, seem held for ever (`hung`), or end the process (`Undefined`).
* *The listener* is started by no code of the repository; the model lets it start at any time.
* *`sendto`* has no body: it sends or fails.

### Wire

The state is the set of datagrams sent so far, each of which may arrive never, once or many times, the
connection a caller of `find_node` waits on, with its buffer and `m_size`, and what was last decoded.  Bytes are numbers, so that the sizes, the offsets and
the truncation of the count (Message.cpp:23) are those of the code; the contents that are never written
(a new buffer, `knearSize` before it is read) are any byte of `Junk`.

| Operators | Code |
|---|---|
| `ResponseBytes`, `DeserializeResponse` | Message.cpp:18-58 |
| `PeerBytes`, `PeerAt`, `PeerSize` | Peer.h, Address.h:42-66 |
| `SendRequest`, `SendPing` | Kademlia.cpp:116-119, 43-46 |
| `OnPing` | Kademlia.cpp:64-89 |
| `OnFindNodeReqeust` | Kademlia.cpp:221-255 |
| `Arrive` (`Overwritten`) | UDPSocketWrapper.cpp:24-32 |
| `Decode` | Kademlia.cpp:127-145 |
| `Close` | UDPSocketWrapper.h:121-126 |

Readings that had to be chosen:

* `find_node` does not serialize its request (the buffer goes out as `new` left it) and `ping`
  *deserializes* its message from the buffer it should fill.  Requests therefore carry junk, which by
  chance may be a request.
* `net::Message` takes the *size* of the receive buffer as its capacity and has `m_size` 0.  With this
  and the test behind `pingmsg.deserialize` (Kademlia.cpp:68), where a size that was read counts as an error, no ping is answered.
* A buffer is sent by its `m_size` or by its capacity, as `sendto` has no body.
* *The buffer of a connection.*  The code has no array there and the copy ends the process (`Rpc`).  `Wire`
  looks behind this defect: the array is there and large enough.  Everything else is as written: a datagram
  is copied to the start (UDPSocketWrapper.cpp:30), over what an earlier one left, and its size is *added* to `m_size`
  (31), which `find_node` passes on as the capacity.  Bytes nobody wrote read as `Unwritten`.
* A wake-up without a datagram is a `Decode` of what is there, as `wait_for` has no predicate.  Calls share
  connections (`Rpc`), so several may decode the same buffer before it is closed.

When a second datagram comes to a connection and is not a whole answer, the buffer is a mixture and the sum of
the sizes no datagram's: an answer that was cut is then accepted with bytes of the older datagram, or with bytes
nobody wrote.  The model has these behaviours, and a property that held of them all would say nothing; no
comment or test of the code speaks of them either.  `AnswerWhole` and `NeverOverrun` say what is right
nevertheless (`Unmixed`): a datagram that is the only one, cut or whole, and an answer that came whole,
whatever lies under it.

## 3. What is checked

| Run | Properties | Shows |
|---|---|---|
| `trie_puts` | `TypeOK TreeShape CursorLinked BranchArity EveryKeyLocated NeverUndercounts DriftBounded ImplementsOnceMap CallsEnd` | four puts of seven keys in any order leave a compact tree in which each stored key is where a descent ends; `put` always overwrites the pointer that leads to the node it replaces; no counter is below the number of values under its node nor above twice the number of puts; step by step, `put` and `get` are steps of a write-once map, crashes included, and every call ends |
| `trie_get_test` | `PutThenGet` *violated* | finding 1 |
| `trie_root_extension` | `ExtensionReplaced` *violated* | finding 2 |
| `kbucket_inserts` | `KTypeOK ClosestKept InsertKeepsClosest` | until the first removal the bucket holds the closest of the peers offered, in whatever order they came; an insert never loses one of the closest, removals or not |
| `kbucket_room` | `RoomIsUsed` *violated* | finding 4 |
| `kbucket_overfull` | `NeverOverfull` *violated* | finding 3 |
| `lookup_safety` | `TypeOK FrontIsAsked ResultIsTarget TargetStays LoopGoesOn FoundSpreads ImplementsSearch` | for three workers in every interleaving: the front of the bucket, the flag and the result agree; once the target is in the bucket every awake worker ends; the caller sees one search |
| `lookup_lock` | `LockReleased` *violated* | finding 7 |
| `lookup_returns` | `FindReturns` *violated* | finding 8 |
| `rpc_calls` | `TypeOK ClosedAfterUse OnlyConnectionOne MutexOwned CallsEnd` | for three overlapping calls: all share connection 1, none that ends leaves it open, its mutex has one holder, and every call ends that is not held by an erased connection |
| `rpc_shared` | `OneCloser` *violated* | findings 5 and 6 |
| `wire_exchange` | `TypeOK AnswerWhole NeverOverrun` | whatever uninitialised bytes hold and whatever the network does, an answer that is alone on its connection, or came whole over others, is refused or has exactly the peers that were sent, and nothing is read behind it |

### Findings

1. **get follows the wrong child** (trie.h:86).  `trie/test/TrieTest.cpp:36` expects the value just
   put; the run shows `T()`.
2. **put crashes on a mismatch in a root extension** (trie.h:156).  The leaf cases test `father`
   for null, the extension cases do not.  Two keys with a common prefix and a third without it.
3. **A full bucket grows** (Kademlia.cpp:25).  It erases the key it is about to add; dht/README.md:30
   says the maximum is replaced.
4. **A bucket with room refuses peers** (Kademlia.h:43).  `remove` does not lower `size`, so after removals
   `insert` takes the bucket for full; dht/Kademlia.cpp:15 and dht/README.md:30 say that a bucket that is
   not full takes the peer.
5. **A call closes the connection of another** (Kademlia.cpp:60).  The comment there leaves out the lock
   because only one thread closes a connection.  All calls work on connection 1, so the first to end
   erases the mutex and the condition variable the others use.
6. **connect is the wrong way round** (UDPSocketWrapper.h:113).  It answers an id when the connection is open
   already, and 0, opening nothing, when it is free; UDPSocketWrapper.h:51 says that 0 is the failure, and
   Kademlia.cpp:39 that it means "occupied".  The run of finding 5 shows it too: the `ping` whose connection
   is erased was let in because somebody else had it open.
7. **A worker locks itself out** (Kademlia.cpp:179).  See the double lock above; the comment at 182
   says that the lock must be released so that others can work.
8. **find does not return when the peer is not found** (Kademlia.cpp:189).  Kademlia.h:96 and Kademlia.cpp:218 have
   0 for a search that failed.  A worker leaves its loop only after the target was found; one that finds
   the bucket empty waits on `peerMaxCv`, which nothing notifies (also not `insert`), and `find` joins it.  (With `Relock =
   {"proceeds"}`; with "blocks" nobody gets that far.)

Finding 3 has a good side: `ClosestKept` and `InsertKeepsClosest` hold although the wrong peer is
evicted, because nothing is evicted at all.  `ClosestKept` speaks of the time before the first removal
because of finding 4.

One disagreement has no run.  Kademlia.h:20 calls `isWorking` the number of threads at work, and Kademlia.cpp:185
says that the end of the work takes one off; but a worker that finds the target returns at 177 without the
decrement, so the counter goes on counting it.  The comments are wrong, the behaviour is useful: because the
counter never comes back to 0, the others go round again until they have seen the target themselves
(`LoopGoesOn`), and `FoundSpreads` rests on it.

### Bounds

* Trie: keys of three bytes, six nibbles.  The seven keys are, in hex, 000000 100000 200000 200001 200010
  201000 210000.  The first nibble makes a branch at the root, which a split needs not to crash (finding
  2); below it the others part at their second, third, fourth (inner), fifth and last nibble, so that with four
  puts (the branch, an extension, its split, and a put after it) an extension is split at the first, at an inner and
  at the last nibble of its path, a leaf at its first, an inner and the last one, also an overlong one, and value nodes occur.
  Runs with the negation of each of these cases as an invariant were used to see that they do.  Two values and a key to
  get between the puts.  Longer sequences are left to the theorems, which have no bound.  `MaxPuts` is the only cap;
  wrapping of the 16-bit counters at 65536 is in the model (`Wrap`) but beyond the run; the proofs show that it cannot
  occur before 32768 puts.
* KBucket: five distances and capacity 2: two peers inside, one refused, one to replace the
  farthest, one more.  Nothing caps the runs: the state space is finite.
* Lookup: distances 0..2 (the target and two others), two contacts (with and without address),
  capacity 2, three workers as in dht/Config.h:10 (two are enough for the two violations), first
  candidates up to the capacity, answers of up to one peer (`MaxAnswer`; several peers in an answer are
  inserted one by one, like those of several answers).  The number of rounds is not bounded.
* Rpc: three callers and three calls, so that one can close while a second waits and a third looks the
  connection up, or goes round in the loop of Kademlia.cpp:98 because of a connection that a hung call made anew;
  two callers for the violation.  Addresses of 8 bits instead of 32 whose conversions
  are 1 (with the shift count at the width or beyond), 0 and 16: an id that callers share by the
  comparison, one that counts as no address, and one that is never open.  `MaxCalls` is the only cap.
* Wire: parts of a peer of 1, 2 and 1 bytes in place of 32, 32 and 6, and a receive buffer of 9 bytes in
  place of 2048, so that an answer of one peer fits and one of two is cut inside the second.  `Junk` has
  the type of a request and the counts 0 and 2.  Three datagrams (`MaxSent`) are a request and two answers to it,
  one cut and one whole; two arrivals on a connection (`MaxArrivals`) let each lie over the other, since all that an
  arrival meets is the buffer, and a third meets no other kind of it.
  The code's sizes satisfy `WireAssumption`: 32 < 32 + 6.

### Deadlock

`CHECK_DEADLOCK FALSE` is said in every configuration, because the system may really stop: after a
crash (all), when `find` has returned, when all workers wait (Lookup), when the calls are used up (Rpc)
and when no datagram arrives (Wire).

### Fairness

* Trie: weak fairness of `PutStep` and of `GetStep`: the thread that calls runs its call to the
  end.  Nothing is said about whether anyone calls.
* Lookup: weak fairness of `FindReturn` and of each worker's `Step`.  Threads are scheduled, the
  critical sections are short, and the remote call is bounded: each of its waits has a timeout and
  the number of attempts a limit (dht/Config.h:13-22).  A spurious wake-up may occur at any time but
  is not owed.  Weak fairness does not promise a mutex to a worker that finds it taken again and
  again; no property needs it.
* Rpc: weak fairness of each caller's `Step`: threads are scheduled and `wait_for` has a timeout
  (dht/Config.h:13-16).  Spurious wake-ups, datagrams and undefined behaviour are owed to nobody.  That holds
  for the undefined shift of Address.h:33 too: a round of the loop at Kademlia.cpp:98, which goes on while
  the connection is open and neither pauses nor counts the attempt, is a step like the one that leaves it.
  Calls are bounded, so another call holds the connection open for ever only if it hangs on an erased one; that case
  (`Spins`) is an exception of `CallsEnd`.  `CallsEnd` is what the fairness of Lookup's remote call (`ask`) rests
  on; its exceptions, the crash, the call hung on an erased mutex and the loop that goes round because of
  one, are outside of Lookup.

## 4. What is proved

`KBucket_proofs`, for every set of distances and contacts, finite or not, and every capacity above
0 (`KBucketAssumption`):

* `BucketTypeOK`, `BucketKeepsClosest`: `KSpec => []P` for the two invariants;
  `BucketInsertKeepsClosest`: the action property.
* The inductive invariant `KInv` is their conjunction with `IsFiniteSet(InBucket)` and `SizeCounts`: the counter
  is at most the capacity, and before the first removal at most the number of peers.  They need one
  another: a refused peer has `Capacity` closer ones only because a bucket that counts as full is
  full, which is `SizeCounts`, and cardinalities mean nothing without finiteness.  `GrowthKeepsClosest`
  is the common lemma: an offer can only add to what is closer than a missing peer.

`Trie_proofs`, for keys of every length below 128 bytes, every set of keys and values, and every
number of puts (`TrieAssumption`):

* `TrieInvariant`: `Spec => []Inv`; `TrieTypeOK`, `TrieTreeShape` and `TrieCursorLinked` follow, and
  `TrieBranchArity` with `Forks`: two slots of every branch are in use, since a split parts its two
  subtrees at nibbles that differ (`PartsAt`) and no step empties a slot.
  They say that no pointer of the tree dangles, that no node is shared, so deleting or dropping the
  replaced node is safe, and that `put` overwrites the pointer it means to.
* `Inv == TypeOK /\ NodesOK /\ CallOK`.  `TreeShape` alone is not inductive: a split is safe only if
  the pointer that `replace` overwrites leads to `current` (`CursorLinked`), the nibble by which the
  new branch parts is a nibble and not a byte behind the key (`LeafNibbles`), and the key is not used
  up at a branch (`BranchDepth`).
* The argument for the splits is one lemma, `Surgery`: if a step redirects one pointer (or the root)
  to the top of a fresh tree, which may adopt nodes whose old pointers go away with the nodes the
  step drops, the result is a tree again.  `Grafted` states that hypothesis; each split case, by way
  of `Splice`, is shown to be such a step.

`TrieMap_proofs`, from the same assumption:

* `TrieImplementsOnceMap`: `Spec => ImplementsOnceMap`, the refinement that `trie_puts` checks, for every
  key length, every set of keys and values and every number of puts; and `TrieKeysOnce`: no two nodes
  hold the same key.
* `Inv` says that the nodes form a tree but not that their paths differ.  `Places` adds, for every two
  nodes, what one may have of the other below its own path (`Beside`): nothing below a leaf or a value,
  below a branch only what a used slot leads to, below an extension only what has its whole path; and that
  a leaf or a value reaches to the end of its key (`Full`).  Being about pairs, it needs no induction over
  the tree.
* `Places` survives a split because the new nodes lie under the one that is split, which has nothing
  beside its path (`NothingBeside`), and part at the nibble at which key and path differ (`KeptFresh`,
  `FreshKept`, `FreshFresh`).  What they hold is in `NewSonKey` and `OldSonKey`: the new one spells the key
  of the call, the other one that of the old leaf.
* The mapping takes the values from the heap (`Contents`), which makes sense as every key is there once
  (`HeldOnce`).  A put that throws has found its key (`LeafThrowHeld`), a put that adds one has not.

`TrieFind_proofs`, from the same assumption:

* `TrieEveryKeyLocated`: `Spec => []EveryKeyLocated`.  `Locate` is a recursive function, chosen as some
  solution of an equation over the heap, so there are two things to show: that a solution exists, and
  that every solution ends where it should.  Neither is an induction over the tree.  A descent for a
  stored key `x` stays among the nodes whose path `x` extends (`OnWay`), and from each of them leads on
  to another one, unless it is `x` itself (`WayBranch`, `WayExtension`, `WayEnd`, from `Places`).  A node
  from which some solution does not lead to `x` and that is nearest to the end (`ToGo`, `Least`) would
  have a next one that is nearer (`DescentEnds`).  The function that is `x` on the way and null elsewhere
  is a solution (`DescentExists`).

`TrieCount_proofs`, from the same assumption and for fewer than 32768 puts (`FewPuts`).  The bound is
that of the code: a put can raise a counter of 16 bits by two in the end, so 32768 of them may wrap one.

* `TrieDriftBounded`: `FewPuts => (Spec => []DriftBounded)`.  It looks as if `replace` could make a
  counter grow for ever: it adds to the father's what the new subtree counts more than the old one
  (Node.cpp:84), and a subtree below an extension may count more than the extension.  The proof gives each
  call of put two tokens, one for the key counted on the way down (trie.h:216) and one for the leaf that
  replace counts again, and shows that a counter is the number of tokens that have reached its node, for
  some assignment of tokens to nodes (`Shared`, an invariant with a quantifier over a history).  Tokens
  of an extension are among those of its branch (`SharesBelow`), what the branch has more has reached no
  branch above (`SharesAbove`), no token is in two subtrees (`SharesApart`), and the second token of the
  call in progress is unused (`SharesFresh`).  A split moves tokens up once and only where they have not
  been (`SharesSplit`), so a counter has at most all of them.
* `TrieNeverUndercounts`: `FewPuts => (Spec => []NeverUndercounts)`.  `Covers` is the invariant: a counter
  is at least the number of stored keys below its node, and greater if the put in progress has passed the
  node and will add its key.  That the sum in `Branch::replace` neither wraps nor lowers the father's
  counter comes from the tokens (`SplitRoom`).

`Lookup_proofs`, for every finite set of workers, of distances and any set of contacts, every capacity
and answer size, and both meanings of the double lock (`LookupAssumption`, `KBucketAssumption`):

* `LookupInvariant` (`Spec => []Inv`), and from it `LookupTypeOK`, `LookupFrontIsAsked`,
  `LookupResultIsTarget`; the action properties `LookupTargetStays` and
  `LookupLoopGoesOn`; and the refinement, `LookupImplementsSearch`.
* `Inv` adds to the properties: what `isWorking` counts, which is the workers between increment and decrement and those that
  returned at Kademlia.cpp:177 (`WorkAccounted`); a worker about to remove holds the mutex (`Locked`), so nobody changes
  the front it looked at, which is not the target (`Front`); `shouldTerminate` is set exactly when
  some worker has found the target, and no worker ends without it (`Known`); and what each phase of
  `find` says of the workers (`Phases`).  The front is the least distance of a finite set (`Least`).
  The refinement needs `ResultIsTarget`: the second worker to write the contact writes what is there.

`Rpc_proofs`, for every set of callers, every number of calls and all addresses, whatever their
conversions (`RpcAssumption`):

* `RpcTypeOK`, `RpcClosedAfterUse`, `RpcOnlyConnectionOne` and `RpcMutexOwned`, from `RpcInvariant`.
* `Inv` says that a caller past `connect` has connection 1 and that a reference is live only while the
  connection is open (`Consistent`), and who holds each mutex (`Holders`).  The five parts need one
  another: ping's id is 1 because the only id it can get is an open one, and the only open one is 1
  because nobody past `connect` has another.

`Wire_proofs`, for all sizes of the parts of a peer, any peers, any bytes that were never written, any size of
the receive buffer and any number of arrivals (`WireAssumption`):

* `WireTypeOK`, `WireAnswerWhole` and `WireNeverOverrun`, from `WireInvariant`.
* `Inv` says that every datagram is a whole answer of known peers, at most 255, or has no room for a peer
  (`Honest`), and that a connection has the last one that came at the front of its buffer, with an `m_size` no
  smaller than its length, and nothing else if it was the only one (`Held`).  `Honest` is where
  `IdLen < PubLen + AddrLen` is needed: a ping sent with the capacity of its buffer, twice its size, would
  otherwise be read as peers.
* `ResponseParts` and `PeerRead` say that `deserialize` inverts `serialize`: the byte at
  `2 + (i - 1) * PeerSize + j` of an answer is byte `j` of peer `i`.  `AnswerRead` uses them for an answer at the front
  of a buffer, `NoPeersRead` is about the other messages.

What only TLC says:

* liveness (`CallsEnd` of Trie and of Rpc, `FoundSpreads`) and the violations, since the prover has
  neither liveness under fairness nor ENABLED.

Every invariant, action property and refinement that a passing run checks is a theorem as well.  What
neither says is how far the counters of the trie are off after 32768 puts: `NeverUndercounts` cannot hold for
every `MaxPuts`, as a counter that wraps starts again from 0.

## 5. Plan

Done, in this order, the part of the system with the most behaviour first: `Trie` with `OnceMap`;
`KBucket`; `Lookup` over it; the proofs about the first two; `Rpc`; `Search` and the refinement; `Wire`; the
proofs about `Lookup`, `Rpc` and `Wire`; the refinement of `OnceMap` as a theorem; where keys are
found and what the counters say as theorems.  Left: when
`RouteTable`, `sendto` and the connection buffers get their bodies, `Rpc` with answers that arrive,
composed with `Wire`, and then with `Lookup` in place of the contract of `find_node`.

## 6. Not modelled

* `dht/RouteTable.h`: no bodies.  `Branch::remove` and the three-argument constructor of `Leaf`:
  nothing calls them.  `is_in_trie`, `getRef`, `Kademlia::connect`: declared only.
* `comm/Buffer.h` beyond capacity and size: nothing moves a buffer that is in use.
* `serialize` of a ping and of a request, which nothing calls; the reading of a pong, which is never
  sent; `toString`, `operator<<` and the other formatting.
* `trie/trie.cpp`, an older copy of the templates that cannot be included next to `trie.h`; its
  one difference (at trie.cpp:240 `put` spins on a value node) is the mutant `PutValueSpins`.
* Memory exhaustion, exceptions of the standard library, and keys of 128 bytes or more, whose path
  length does not fit the code's `uint8_t`.
* `main.cpp`, `example/` and the vendored `include/`: gtest, gmock and protobuf make up more than nine
  tenths of the lines in the repository and are no part of mexp.

## 7. Running

    tlc -workers 2 -config trie_puts.cfg MCTrie
    tlapm Trie_proofs.tla        (and TrieMap_proofs, TrieFind_proofs, TrieCount_proofs,
                                  KBucket_proofs, Lookup_proofs, Rpc_proofs, Wire_proofs)

The run names are those of the `.cfg` files: `trie_*` with `MCTrie`, `kbucket_*` with `MCKBucket`,
`lookup_*` with `MCLookup`, `rpc_*` with `MCRpc`, `wire_exchange` with `MCWire`.

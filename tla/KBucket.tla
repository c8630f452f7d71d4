------------------------------ MODULE KBucket -------------------------------
(***************************************************************************)
(* The candidate list of one lookup, class KBucket (dht/Kademlia.h:11-49   *)
(* and KBucket::insert, dht/Kademlia.cpp:8-31).  A peer is named by its    *)
(* XOR distance from the bucket's base, distance 0 being the node looked   *)
(* for: the std::map of the code is ordered by exactly that distance.      *)
(* Each operation runs under peerMapMtx from its first to its last access, *)
(* so it is one step here; module Lookup models the mutex.                 *)
(***************************************************************************)
EXTENDS Integers, FiniteSets

CONSTANTS
  Dists,      \* the distances of the peers there are
  Contacts,   \* their public keys and addresses
  Capacity    \* ROUTING_TABLE_BUCKET_SIZE, dht/Config.h:7

ASSUME KBucketAssumption ==
  /\ Dists \subseteq Nat
  /\ Capacity \in Nat \ {0}

VARIABLES
  bucket,     \* m_bucket: a function from distances to contacts
  size,       \* the private counter of the class
  crashed,    \* the process has died
  offered,    \* history: the distances insert was called with
  removed     \* history: the distances remove took out

kvars == <<bucket, size, crashed, offered, removed>>

InBucket == DOMAIN bucket

\* m_bucket.begin()->first
Closest == CHOOSE d \in InBucket : \A e \in InBucket : d <= e

Added(d, c) == [e \in InBucket \cup {d} |-> IF e = d THEN c ELSE bucket[e]]

\* Returns -1: the distance is there already, and keeps its contact.
InsertKnown(d) ==
  /\ d \in InBucket
  /\ UNCHANGED <<bucket, size, crashed>>

\* Returns 1.
InsertRoom(d, c) ==
  /\ d \notin InBucket
  /\ size < Capacity
  /\ bucket' = Added(d, c)
  /\ size' = size + 1
  /\ UNCHANGED crashed

\* mutant: the closest peer makes room
InsertCloserDropsFront(d, c) ==
  /\ d \notin InBucket
  /\ size >= Capacity
  /\ \E e \in InBucket : d < e
  /\ bucket' = [e \in (InBucket \ {Closest}) \cup {d} |-> IF e = d THEN c ELSE bucket[e]]
  /\ UNCHANGED <<size, crashed>>

\* Full, and closer than the last peer of the map.  Returns 1.  The call
\* erase(distance) finds nothing to erase: the farthest peer stays and the map
\* grows.  An empty map has no last element: the comparison with rbegin() is
\* then undefined, and may go either way or end the process (in libstdc++ it
\* follows a null pointer).
InsertCloser(d, c) ==
  /\ d \notin InBucket
  /\ size >= Capacity
  /\ InBucket = {} \/ \E e \in InBucket : d < e
  /\ bucket' = Added(d, c)
  /\ UNCHANGED <<size, crashed>>

\* mutant: compared with the first peer of the map
InsertRefuseFront(d) ==
  /\ d \notin InBucket
  /\ size >= Capacity
  /\ \E e \in InBucket : e < d
  /\ UNCHANGED <<bucket, size, crashed>>

\* Full, and farther than all.  Returns 0.
InsertRefuse(d) ==
  /\ d \notin InBucket
  /\ size >= Capacity
  /\ \A e \in InBucket : e < d
  /\ UNCHANGED <<bucket, size, crashed>>

InsertCrash ==
  /\ InBucket = {}
  /\ size >= Capacity
  /\ crashed' = TRUE
  /\ UNCHANGED <<bucket, size>>

Insert(d, c) ==
  /\ ~crashed
  /\ offered' = offered \cup {d}
  /\ UNCHANGED removed
  /\ InsertKnown(d) \/ InsertRoom(d, c) \/ InsertCloser(d, c) \/ InsertRefuse(d) \/ InsertCrash

\* mutant: the counter goes down, with an insert that does not count
RemoveCounts(d) ==
  /\ ~crashed
  /\ d \in InBucket
  /\ bucket' = [e \in InBucket \ {d} |-> bucket[e]]
  /\ removed' = removed \cup {d}
  /\ size' = size - 1
  /\ UNCHANGED <<crashed, offered>>

\* The counter size is not touched.
Remove(d) ==
  /\ ~crashed
  /\ d \in InBucket
  /\ bucket' = [e \in InBucket \ {d} |-> bucket[e]]
  /\ removed' = removed \cup {d}
  /\ UNCHANGED <<size, crashed, offered>>

KInit ==
  /\ bucket = [d \in {} |-> 0]
  /\ size = 0
  /\ crashed = FALSE
  /\ offered = {} /\ removed = {}

KNext == \E d \in Dists : Remove(d) \/ \E c \in Contacts : Insert(d, c)

KSpec == KInit /\ [][KNext]_kvars

-----------------------------------------------------------------------------
(* Properties *)

\* Every variable has its type.
KTypeOK ==
  /\ InBucket \subseteq Dists /\ bucket \in [InBucket -> Contacts]
  /\ size \in Nat
  /\ crashed \in BOOLEAN
  /\ offered \subseteq Dists /\ removed \subseteq Dists

\* A lookup depends on this: while nothing was taken out, whatever the order of
\* the offers, the Capacity closest of the peers offered are in the bucket.  It
\* holds although insert evicts the wrong peer (Kademlia.cpp:25), because a full
\* bucket grows instead.
ClosestKept ==
  removed = {} =>
    \A d \in offered \ InBucket : Cardinality({e \in InBucket : e < d}) >= Capacity

\* Whatever was taken out before, an insert that adds a peer loses another one
\* only if Capacity closer ones stay, and changes the contact of none.
InsertKeepsClosest ==
  [][~(DOMAIN bucket' \subseteq InBucket) =>
       \A d \in InBucket :
         IF d \in DOMAIN bucket' THEN bucket'[d] = bucket[d]
         ELSE Cardinality({e \in DOMAIN bucket' : e < d}) >= Capacity]_kvars

\* dht/README.md:30: a full bucket replaces its farthest peer by a closer one,
\* so it never holds more than its capacity.
NeverOverfull == Cardinality(InBucket) <= Capacity

\* dht/README.md:30 and Kademlia.cpp:15: while the bucket is not full a new peer
\* is inserted directly, however far it is.  (Offers of a peer offered before
\* leave offered as it is, and are not looked at.)
RoomIsUsed ==
  [][\A d \in offered' \ offered :
       d \in DOMAIN bucket' \/ Cardinality(InBucket) >= Capacity \/ crashed']_kvars

=============================================================================

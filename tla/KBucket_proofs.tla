--------------------------- MODULE KBucket_proofs ---------------------------
(***************************************************************************)
(* Proofs of the safety properties of KBucket for every set of distances,  *)
(* every set of contacts and every capacity.                               *)
(***************************************************************************)
EXTENDS KBucket, FiniteSetTheorems, TLAPS

\* The counter stops at the capacity, and until something is taken out it never
\* claims more peers than the map has.  From the first removal on it may, as
\* remove does not lower it (Kademlia.h:43).
SizeCounts ==
  /\ size <= Capacity
  /\ removed = {} => size <= Cardinality(InBucket)

\* Peers come and go one at a time, so the bucket is finite.  With that the
\* properties are inductive together: that a refused peer has Capacity closer
\* ones needs that a bucket that counts as full is full, and that an empty one
\* never counts as full.
KInv == KTypeOK /\ IsFiniteSet(InBucket) /\ SizeCounts /\ ClosestKept

\* Adding a peer adds its distance to the map.
LEMMA AddedDomain ==
  ASSUME NEW d, NEW c, bucket' = Added(d, c)
  PROVE  DOMAIN bucket' = InBucket \cup {d}
BY DEF Added, InBucket

\* Every offer leaves the bucket at least as good as it was: what is not in it
\* had and has Capacity closer peers.
LEMMA GrowthKeepsClosest ==
  ASSUME IsFiniteSet(DOMAIN bucket'), InBucket \subseteq DOMAIN bucket',
         Capacity \in Nat, ClosestKept, UNCHANGED removed,
         offered' \subseteq offered \cup DOMAIN bucket'
  PROVE  ClosestKept'
<1> SUFFICES ASSUME removed = {}, NEW d \in offered' \ DOMAIN bucket'
             PROVE  Cardinality({e \in DOMAIN bucket' : e < d}) >= Capacity
  BY DEF ClosestKept, InBucket
<1> DEFINE Old == {e \in InBucket : e < d}
           New == {e \in DOMAIN bucket' : e < d}
<1>1. d \in offered \ InBucket
  OBVIOUS
<1>2. Cardinality(Old) >= Capacity
  BY <1>1 DEF ClosestKept
<1>3. IsFiniteSet(New) /\ New \in SUBSET DOMAIN bucket'
  BY FS_Subset
<1>4. Old \in SUBSET New
  OBVIOUS
<1>5. Cardinality(Old) <= Cardinality(New) /\ IsFiniteSet(Old)
  BY <1>3, <1>4, FS_Subset
<1>6. Cardinality(New) \in Nat /\ Cardinality(Old) \in Nat
  BY <1>3, <1>5, FS_CardinalityType
<1> QED
  BY <1>2, <1>5, <1>6

\* The empty bucket satisfies the invariant.
LEMMA KInvInit == KInit => KInv
<1> SUFFICES ASSUME KInit PROVE KInv
  OBVIOUS
<1>1. /\ InBucket = {} /\ bucket \in [{} -> Contacts]
      /\ size = 0 /\ crashed = FALSE /\ offered = {} /\ removed = {}
  BY DEF KInit, InBucket
<1>2. KTypeOK
  BY <1>1 DEF KTypeOK
<1>3. IsFiniteSet(InBucket) /\ Cardinality(InBucket) = 0
  BY <1>1, FS_EmptySet
<1>4. SizeCounts /\ ClosestKept
  BY <1>1, <1>3, KBucketAssumption DEF SizeCounts, ClosestKept
<1> QED
  BY <1>2, <1>3, <1>4 DEF KInv

\* insert preserves it.
LEMMA KInvInsert ==
  ASSUME KInv, NEW d \in Dists, NEW c \in Contacts, Insert(d, c)
  PROVE  KInv'
<1> USE KBucketAssumption
<1>0. /\ offered' = offered \cup {d} /\ UNCHANGED removed
      /\ KTypeOK /\ IsFiniteSet(InBucket) /\ SizeCounts /\ ClosestKept
      /\ Capacity \in Nat /\ Cardinality(InBucket) \in Nat
  BY FS_CardinalityType DEF Insert, KInv
<1>1. CASE InsertKnown(d)
  <2>1. UNCHANGED <<bucket, size, crashed>> /\ d \in InBucket
    BY <1>1 DEF InsertKnown
  <2>2. KTypeOK' /\ IsFiniteSet(InBucket)' /\ SizeCounts'
    BY <1>0, <2>1 DEF KTypeOK, SizeCounts, InBucket
  <2>3. ClosestKept'
    BY <1>0, <2>1, GrowthKeepsClosest DEF InBucket
  <2> QED
    BY <2>2, <2>3 DEF KInv
<1>2. ASSUME bucket' = Added(d, c), d \notin InBucket, UNCHANGED crashed,
             (size < Capacity /\ size' = size + 1) \/ size' = size
      PROVE  KInv'
  <2>1. InBucket' = InBucket \cup {d}
    BY <1>2, AddedDomain DEF InBucket
  <2>2. IsFiniteSet(InBucket') /\ Cardinality(InBucket') = Cardinality(InBucket) + 1
    BY <1>0, <1>2, <2>1, FS_AddElement
  <2>3. KTypeOK'
    <3>1. bucket' \in [InBucket \cup {d} -> Contacts]
      BY <1>0, <1>2 DEF KTypeOK, Added
    <3> QED
      BY <1>0, <1>2, <2>1, <3>1 DEF KTypeOK
  <2>4. SizeCounts'
    BY <1>0, <1>2, <2>2 DEF SizeCounts, KTypeOK
  <2>5. ClosestKept'
    BY <1>0, <2>1, <2>2, GrowthKeepsClosest DEF InBucket
  <2> QED
    BY <2>2, <2>3, <2>4, <2>5 DEF KInv
<1>3. CASE InsertRoom(d, c)
  BY <1>2, <1>3 DEF InsertRoom
<1>4. CASE InsertCloser(d, c)
  BY <1>2, <1>4 DEF InsertCloser
<1>5. CASE InsertRefuse(d)
  <2>1. /\ UNCHANGED <<bucket, size, crashed>> /\ size >= Capacity
        /\ d \notin InBucket /\ \A e \in InBucket : e < d
    BY <1>5 DEF InsertRefuse
  <2>2. KTypeOK' /\ IsFiniteSet(InBucket)' /\ SizeCounts'
    BY <1>0, <2>1 DEF KTypeOK, SizeCounts, InBucket
  <2>3. ASSUME removed = {}
        PROVE  Cardinality({e \in InBucket : e < d}) >= Capacity
    <3>1. {e \in InBucket : e < d} = InBucket
      BY <2>1
    <3>2. Cardinality(InBucket) >= Capacity
      BY <1>0, <2>1, <2>3 DEF SizeCounts, KTypeOK
    <3> QED
      BY <3>1, <3>2
  <2>4. ClosestKept'
    BY <1>0, <2>1, <2>3 DEF ClosestKept, InBucket
  <2> QED
    BY <2>2, <2>4 DEF KInv
<1>6. CASE InsertCrash
  <2>1. /\ InBucket = {} /\ size >= Capacity
        /\ crashed' = TRUE /\ UNCHANGED <<bucket, size>>
    BY <1>6 DEF InsertCrash
  <2>2. KTypeOK' /\ IsFiniteSet(InBucket)' /\ SizeCounts'
    BY <1>0, <2>1 DEF KTypeOK, SizeCounts, InBucket
  <2>3. removed # {}
    BY <1>0, <2>1, FS_EmptySet DEF SizeCounts, KTypeOK
  <2>4. ClosestKept'
    BY <1>0, <2>3 DEF ClosestKept
  <2> QED
    BY <2>2, <2>4 DEF KInv
<1> QED
  BY <1>1, <1>3, <1>4, <1>5, <1>6 DEF Insert

\* remove preserves it: from then on only the type and the bound on size say
\* anything.
LEMMA KInvRemove ==
  ASSUME KInv, NEW d \in Dists, Remove(d)
  PROVE  KInv'
<1>1. /\ bucket' = [e \in InBucket \ {d} |-> bucket[e]]
      /\ removed' = removed \cup {d} /\ UNCHANGED <<size, crashed, offered>>
      /\ KTypeOK /\ IsFiniteSet(InBucket) /\ SizeCounts
  BY DEF Remove, KInv
<1>2. InBucket' = InBucket \ {d}
  BY <1>1 DEF InBucket
<1>3. IsFiniteSet(InBucket')
  BY <1>1, <1>2, FS_RemoveElement
<1>4. removed' # {}
  BY <1>1
<1>5. bucket' \in [InBucket \ {d} -> Contacts]
  BY <1>1 DEF KTypeOK
<1>6. KTypeOK'
  BY <1>1, <1>2, <1>5 DEF KTypeOK
<1> QED
  BY <1>1, <1>3, <1>4, <1>6 DEF KInv, SizeCounts, ClosestKept

\* A step that changes nothing preserves it.
LEMMA KInvStutter == KInv /\ UNCHANGED kvars => KInv'
BY DEF KInv, kvars, KTypeOK, SizeCounts, ClosestKept, InBucket

\* The conjunction is an invariant.
THEOREM BucketInvariant == KSpec => []KInv
<1>1. KInv /\ [KNext]_kvars => KInv'
  BY KInvInsert, KInvRemove, KInvStutter DEF KNext
<1> QED
  BY <1>1, KInvInit, PTL DEF KSpec

\* Every variable of the bucket keeps its type.
THEOREM BucketTypeOK == KSpec => []KTypeOK
<1>1. KInv => KTypeOK
  BY DEF KInv
<1> QED
  BY <1>1, BucketInvariant, PTL

\* The bucket of a lookup that has taken nothing out holds the Capacity closest
\* peers it was offered, in whatever order insert (Kademlia.cpp:8-31) got them.
THEOREM BucketKeepsClosest == KSpec => []ClosestKept
<1>1. KInv => ClosestKept
  BY DEF KInv
<1> QED
  BY <1>1, BucketInvariant, PTL

\* Whatever was taken out before, insert loses no peer that Capacity closer ones
\* do not make up for, and changes no contact (Kademlia.cpp:13, 25).
THEOREM BucketInsertKeepsClosest == KSpec => InsertKeepsClosest
<1> DEFINE A == ~(DOMAIN bucket' \subseteq InBucket) =>
                  \A d \in InBucket :
                    IF d \in DOMAIN bucket' THEN bucket'[d] = bucket[d]
                    ELSE Cardinality({e \in DOMAIN bucket' : e < d}) >= Capacity
<1>1. ASSUME KNext, ~(DOMAIN bucket' \subseteq InBucket), NEW d \in InBucket
      PROVE  d \in DOMAIN bucket' /\ bucket'[d] = bucket[d]
  <2>1. \A e : ~Remove(e)
    BY <1>1 DEF Remove, InBucket
  <2>2. PICK e \in Dists, c \in Contacts : Insert(e, c)
    BY <1>1, <2>1 DEF KNext
  <2>3. bucket' # bucket
    BY <1>1 DEF InBucket
  <2>4. e \notin InBucket /\ bucket' = Added(e, c)
    BY <2>2, <2>3
       DEF Insert, InsertKnown, InsertRoom, InsertCloser, InsertRefuse, InsertCrash
  <2> QED
    BY <1>1, <2>4 DEF Added, InBucket
<1>2. [KNext]_kvars => [A]_kvars
  BY <1>1
<1> QED
  BY <1>2, PTL DEF KSpec, InsertKeepsClosest

=============================================================================

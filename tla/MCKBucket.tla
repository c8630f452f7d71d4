----------------------------- MODULE MCKBucket ------------------------------
(* KBucket on small instances; the contacts are interchangeable. *)
EXTENDS KBucket, TLC

Names == Permutations(Contacts)
=============================================================================

------------------------------- MODULE MCTrie -------------------------------
(* Trie on keys of three bytes.  Below the branch at the root that the first *)
(* two keys make, the others have extensions whose paths are left at the     *)
(* first, at an inner and at the last nibble.                                *)
EXTENDS Trie

\* In hex 000000 100000 200000 200001 200010 201000 210000.
MCKeys == {<<0, 0, 0>>, <<16, 0, 0>>, <<32, 0, 0>>, <<32, 0, 1>>,
           <<32, 0, 16>>, <<32, 16, 0>>, <<33, 0, 0>>}

\* A key to get: it may be stored, and others share its branches.
MCAsked == {<<32, 0, 1>>}
=============================================================================

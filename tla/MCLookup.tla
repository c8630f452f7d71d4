------------------------------ MODULE MCLookup ------------------------------
(* Lookup on small instances. *)
EXTENDS Lookup
=============================================================================

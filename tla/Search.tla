------------------------------- MODULE Search -------------------------------
(***************************************************************************)
(* What Kademlia::find promises its caller (dht/Kademlia.h:92-98,          *)
(* dht/Kademlia.cpp:193-219): 1 with the peer's contact in the parameter,  *)
(* or 0 when it was not found.  A peer the routing table has is found at   *)
(* once; otherwise workers search, and what find returns is read off the   *)
(* parameter's address (Kademlia.cpp:218), so a peer that was found at an  *)
(* address that converts to 0 is reported as missing.                      *)
(* The code takes every action but GiveUp: see FindReturns in Lookup.      *)
(***************************************************************************)
EXTENDS Naturals

CONSTANTS
  Contacts,   \* what a peer's public key and address may be
  Zero        \* the one whose address converts to 0

VARIABLES
  status,     \* "start", "join" while it searches, "returned"
  found,      \* whether a worker has found the peer
  contact,    \* the caller's parameter, in and out
  result      \* what find returned

vars == <<status, found, contact, result>>

Init ==
  /\ status = "start" /\ ~found
  /\ contact \in Contacts
  /\ result = 0

Local ==
  /\ status = "start"
  /\ status' = "returned"
  /\ contact' \in Contacts
  /\ result' = 1
  /\ UNCHANGED found

Start ==
  /\ status = "start"
  /\ status' = "join"
  /\ UNCHANGED <<found, contact, result>>

\* The first worker writes the peer.  A later one writes the same again.
Find ==
  /\ status = "join" /\ ~found
  /\ found' = TRUE
  /\ contact' \in Contacts
  /\ UNCHANGED <<status, result>>

Return ==
  /\ status = "join" /\ found
  /\ status' = "returned"
  /\ result' = IF contact = Zero THEN 0 ELSE 1
  /\ UNCHANGED <<found, contact>>

\* The search was not successful: 0 of Kademlia.h:96 and of Kademlia.cpp:218.
GiveUp ==
  /\ status = "join" /\ ~found
  /\ status' = "returned"
  /\ result' = 0
  /\ UNCHANGED <<found, contact>>

Next == Local \/ Start \/ Find \/ Return \/ GiveUp

Spec == Init /\ [][Next]_vars

=============================================================================

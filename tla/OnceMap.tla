------------------------------ MODULE OnceMap -------------------------------
(***************************************************************************)
(* What the trie promises its callers: a map in which the first value put  *)
(* under a key stays.  A put of a new key adds the key; a put of a key     *)
(* that is there, whether it returns or throws, changes nothing; no put    *)
(* disturbs another key.  The process may also die during a call.          *)
(* get does not change the map and answers a stored value or the default;  *)
(* more cannot be asked of the code's get (see PutThenGet in Trie).        *)
(***************************************************************************)
CONSTANTS Values, Default

VARIABLES
  map,    \* a function from the stored keys to their values
  call,   \* the last call: op is "idle" once it has ended
  reply   \* how the last call ended, "none" while it is in progress

vars == <<map, call, reply>>

Init == map = [k \in {} |-> Default] /\ call.op = "idle" /\ reply = "none"

Call ==
  /\ call.op = "idle" /\ call'.op \in {"put", "get"}
  /\ reply' = "none"
  /\ UNCHANGED map

End(op, r) ==
  /\ call.op = op
  /\ call' = [call EXCEPT !.op = "idle"]
  /\ reply' = r

Put ==
  /\ call.key \notin DOMAIN map
  /\ map' = [k \in DOMAIN map \cup {call.key} |->
               IF k = call.key THEN call.value ELSE map[k]]
  /\ End("put", "done")

PutAgain ==
  /\ call.key \in DOMAIN map
  /\ UNCHANGED map
  /\ \E r \in {"done", "threw"} : End("put", r)

Get ==
  /\ UNCHANGED map
  /\ \E r \in {Default} \cup {map[k] : k \in DOMAIN map} : End("get", r)

NullKey == reply' = "threw" /\ call.op = "idle" /\ UNCHANGED <<map, call>>

Crash ==
  /\ call.op \in {"put", "get"}
  /\ call' = [call EXCEPT !.op = "crashed"]
  /\ reply' = "crashed"
  /\ UNCHANGED map

Next == Call \/ Put \/ PutAgain \/ Get \/ NullKey \/ Crash

Spec == Init /\ [][Next]_vars

=============================================================================

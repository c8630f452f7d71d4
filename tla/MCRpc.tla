------------------------------- MODULE MCRpc --------------------------------
(* Rpc with addresses of eight bits whose conversions are 1, 0 and 16. *)
EXTENDS Rpc
MCAddrs == {[ip |-> 1, port |-> 4], [ip |-> 16, port |-> 0], [ip |-> 1, port |-> 0]}
=============================================================================

------------------------------- MODULE MCWire -------------------------------
(* Wire with peers of four bytes, of which the buffer has room for one. *)
EXTENDS Wire

MCKnown == {[id |-> <<0>>, pub |-> <<1, 0>>, addr |-> <<2>>],
            [id |-> <<2>>, pub |-> <<0, 18>>, addr |-> <<1>>]}
=============================================================================

--------------------------- MODULE MCNetAddresses ---------------------------
EXTENDS NetAddresses

E(f, t, p) == [family |-> f, socktype |-> t, protocol |-> p]

(* Two addresses, a local one, and DCCP, which the enums do not know. *)
Found == {E(2, 1, 6), E(10, 2, 17), E(1, 1, 6), E(2, 6, 33)}

=============================================================================

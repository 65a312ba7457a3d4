--------------------------- MODULE MCAddrInfoList ---------------------------
EXTENDS AddrInfoList

E(f, t, p) == [family |-> f, socktype |-> t, protocol |-> p]

(* TCP and UDP over both families, SCTP's packets, a raw socket, and what  *)
(* the enums do not know: DCCP, UDP-Lite, and a local address.             *)
Found ==
  {E(2, 1, 6), E(10, 2, 17), E(2, 5, 132), E(10, 3, 0),
   E(2, 6, 33), E(10, 2, 136), E(1, 6, 0)}

=============================================================================

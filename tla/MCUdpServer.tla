---------------------------- MODULE MCUdpServer ----------------------------
(* Model checking of UdpServer on small instances.                         *)
EXTENDS UdpServer, TLC

(* Addresses and transports are interchangeable; not with liveness.       *)
Symmetry == Permutations(Addrs) \cup Permutations(Transports)
=============================================================================

---------------------------- MODULE MCWsAcceptor ----------------------------
(* Model checking of WsAcceptor on small instances.                        *)
EXTENDS WsAcceptor, TLC

(* Connections, and callers of Close, are interchangeable.                 *)
Symmetry == Permutations(Conns) \cup Permutations(Closers)
=============================================================================

------------------------------ MODULE MCWsFlate ------------------------------
(* Model checking of WsFlate on small instances.                           *)
EXTENDS WsFlate, TLC

(* Connections, goroutines and objects are interchangeable.                *)
Symmetry == Permutations(Conns) \cup Permutations(Users) \cup Permutations(Objs)
==============================================================================

------------------------------ MODULE MCWsWire ------------------------------
(* Model checking of WsWire on small instances.                            *)
EXTENDS WsWire

(* The boundaries of a header's length, and of what TLC counts.            *)
Boundaries == {0, 1, 125, 126, 127, 128, 255, 256, 65535, 65536, 65537,
               16777216, 2147483647}
==============================================================================

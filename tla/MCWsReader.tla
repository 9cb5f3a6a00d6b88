------------------------------ MODULE MCWsReader ------------------------------
(* Model checking of WsReader on small instances.                          *)
EXTENDS WsReader
==============================================================================

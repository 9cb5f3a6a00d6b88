------------------------------ MODULE MCWsWriter ------------------------------
(* Model checking of WsWriter on small instances.                          *)
EXTENDS WsWriter
==============================================================================

----------------------------- MODULE MCWsDuplex -----------------------------
(* Model checking of WsDuplex on small instances.                          *)
EXTENDS WsDuplex

(* Both accept what the other sends, one does, or neither; an end that     *)
(* accepts nothing, OpCode 0, sends binary.                                *)
Pairs ==
  {[client |-> {"text"}, server |-> {"text", "binary"}],
   [client |-> {"binary"}, server |-> {"text", "binary"}],
   [client |-> {"text"}, server |-> {"binary"}],
   [client |-> {}, server |-> {"binary"}]}
==============================================================================

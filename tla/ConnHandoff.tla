----------------------------- MODULE ConnHandoff -----------------------------
(***************************************************************************)
(* What an acceptor promises of the connections it upgrades: each one is   *)
(* handed to the application or closed, once and never both, and none is   *)
(* handed over after the accept loop has been told that it is over.  It    *)
(* does not promise that every connection meets one of the two ends.       *)
(***************************************************************************)
CONSTANT Conns

VARIABLES
  status,  \* of each connection: "none", "open", "delivered" or "closed"
  ended    \* Accept has returned its last error

vars == <<status, ended>>

Init ==
  /\ status = [c \in Conns |-> "none"]
  /\ ended = FALSE

Move(c, from, to) ==
  /\ status[c] = from
  /\ status' = [status EXCEPT ![c] = to]

Establish(c) == Move(c, "none", "open") /\ UNCHANGED ended

Deliver(c) == ~ended /\ Move(c, "open", "delivered") /\ UNCHANGED ended

(* A connection that is dropped may be what makes Accept return an error.  *)
Drop(c) == Move(c, "open", "closed") /\ ended' \in {ended, TRUE}

End == ended' = TRUE /\ UNCHANGED status

Next ==
  \/ \E c \in Conns : Establish(c) \/ Deliver(c) \/ Drop(c)
  \/ End

Spec == Init /\ [][Next]_vars
==============================================================================

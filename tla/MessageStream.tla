---------------------------- MODULE MessageStream ----------------------------
(***************************************************************************)
(* What a reader of messages promises, whatever frames carry them: every   *)
(* Read takes bytes of one message, in order and none twice, and reports   *)
(* the end of the message with its last byte, never before and never later. *)
(***************************************************************************)
EXTENDS Naturals

CONSTANT MaxFrame  \* bytes one frame brings at most

VARIABLES
  phase,    \* "between" messages, "part" or "whole": how much is announced
  arrived,  \* bytes the peer has announced of the message at hand
  taken,    \* bytes of it the reader has been given
  over      \* reading has failed for good

vars == <<phase, arrived, taken, over>>

Init ==
  /\ phase = "between"
  /\ arrived = 0
  /\ taken = 0
  /\ over = FALSE

Announced(last) == IF last THEN "whole" ELSE "part"

Begin(n, last) ==
  /\ ~over
  /\ phase = "between"
  /\ phase' = Announced(last)
  /\ arrived' = n
  /\ taken' = 0
  /\ UNCHANGED over

Continue(n, last) ==
  /\ ~over
  /\ phase = "part"
  /\ phase' = Announced(last)
  /\ arrived' = arrived + n
  /\ UNCHANGED <<taken, over>>

(* A Read that returns n bytes and no error: there is more to come.        *)
Take(n) ==
  /\ ~over
  /\ phase # "between"
  /\ taken + n <= arrived
  /\ phase = "whole" => taken + n < arrived
  /\ taken' = taken + n
  /\ UNCHANGED <<phase, arrived, over>>

(* A Read that returns the rest of the message and io.EOF.                 *)
Finish ==
  /\ ~over
  /\ phase = "whole"
  /\ phase' = "between"
  /\ taken' = arrived
  /\ UNCHANGED <<arrived, over>>

(* Reading fails; what was read so far may come with the error.            *)
Fail ==
  /\ over' = TRUE
  /\ taken' \in taken..arrived
  /\ UNCHANGED <<phase, arrived>>

Next ==
  \/ \E n \in 0..MaxFrame, last \in BOOLEAN : Begin(n, last)
  \/ \E n \in 0..MaxFrame, last \in BOOLEAN : Continue(n, last)
  \/ \E n \in 0..arrived : Take(n)
  \/ Finish
  \/ Fail

Spec == Init /\ [][Next]_vars
==============================================================================

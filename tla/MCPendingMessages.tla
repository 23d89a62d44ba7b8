------------------------- MODULE MCPendingMessages -------------------------
(***************************************************************************)
(* Instances of PendingMessages for TLC: two messages to one contact and   *)
(* one to a contact the map has after it.                                  *)
(***************************************************************************)
EXTENDS PendingMessages

CONSTANTS m1, m2, m3

MCContactOf == [m \in Messages |-> IF m = m3 THEN 2 ELSE 1]
=============================================================================

--------------------------- MODULE MCPushGeneration ---------------------------
(***************************************************************************)
(* A small generation for TLC: two endpoints, three submissions that meet  *)
(* at both of them, one name given twice and one that is unknown.          *)
(***************************************************************************)
EXTENDS PushGeneration

CONSTANTS c1, c2, c3, e1, e2, unknown, x1, x2

CallNames == [c \in Calls |-> CASE c = c1 -> <<e1, e2>>
                                [] c = c2 -> <<e2, e1, e2>>
                                [] OTHER  -> <<unknown, e1>>]

Buffers == [e \in Endpoints |-> IF e = e1 THEN 1 ELSE 0]
================================================================================

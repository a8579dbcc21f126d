--------------------------- MODULE MCPutTransfer ---------------------------
(***************************************************************************)
(* Instances of PutTransfer: one put retried, and two puts at one name.    *)
(***************************************************************************)
EXTENDS PutTransfer

CONSTANTS p1, p2, a1, a2, a3, n1, f1

OnePut == [a \in Attempts |-> p1]
TwoPuts == [a \in Attempts |-> IF a = a2 THEN p2 ELSE p1]
SameName == [t \in Puts |-> n1]
=============================================================================

------------------------- MODULE MCTransferCleanup -------------------------
(***************************************************************************)
(* Model values and partial names for checking TransferCleanup.            *)
(***************************************************************************)
EXTENDS TransferCleanup

CONSTANTS r1, r2, x1, p1, p2, a, b

PartNames == [t \in Receives |-> IF t = r1 THEN p1 ELSE p2]
=============================================================================

-------------------------- MODULE MCResumeTransfer --------------------------
(***************************************************************************)
(* Model values and destinations for checking ResumeTransfer.              *)
(***************************************************************************)
EXTENDS ResumeTransfer, TLC

CONSTANTS t1, t2, n1, c1, c2, s1, s2

\* Every transfer aims at the same destination name.
SharedDest == [t \in Transfers |-> n1]

\* Their contents differ.
OwnContent == [t \in Transfers |-> IF t = t1 THEN c1 ELSE c2]

SessionSymmetry == Permutations(Sessions)
=============================================================================

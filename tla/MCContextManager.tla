-------------------------- MODULE MCContextManager --------------------------
(***************************************************************************)
(* Small instances of ContextManager.                                      *)
(***************************************************************************)
EXTENDS ContextManager, TLC

CONSTANTS k1, k2, w1, w2, o1, o2

\* A new context is joined; an enrolled one is reconfigured and removed under
\* operations; one is disabled and enabled; the process stops or dies in a
\* removal.
Stories ==
    {[start |-> "new", calls |-> {"join", "remove"}, kinds |-> {}, faults |-> {}],
     [start |-> "enrolled", calls |-> {"update", "join"}, kinds |-> {"receive", "put"}, faults |-> {}],
     [start |-> "enrolled", calls |-> {"disable", "enable"}, kinds |-> {"outgoing", "browse"}, faults |-> {}],
     [start |-> "enrolled", calls |-> {"remove", "update"}, kinds |-> {"outgoing", "resolve"}, faults |-> {}],
     [start |-> "enrolled", calls |-> {"remove", "disable"}, kinds |-> {"inbox"}, faults |-> {"stop", "crash"}],
     [start |-> "enrolled", calls |-> {"remove", "join"}, kinds |-> {}, faults |-> {"stop", "crash"}]}

\* Workers and operations are interchangeable.
Alike == Permutations(Workers) \cup Permutations(Ops)
=============================================================================

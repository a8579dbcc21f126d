----------------------------- MODULE MCRendezvous -----------------------------
(***************************************************************************)
(* Small instances of Rendezvous.                                          *)
(***************************************************************************)
EXTENDS Rendezvous, TLC

CONSTANTS d1, d2

Quiet == [watched |-> {}, signaling |-> {}, approving |-> {}, revocable |-> {},
          closing |-> FALSE]

\* The hub closes, or one device is watched, opens sessions, approves or is
\* revoked.
OneByOne ==
    {[Quiet EXCEPT !.closing = TRUE],
     [Quiet EXCEPT !.watched = {d1}], [Quiet EXCEPT !.signaling = {d1}],
     [Quiet EXCEPT !.approving = {d1}], [Quiet EXCEPT !.revocable = {d1}]}
=============================================================================

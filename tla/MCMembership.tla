----------------------------- MODULE MCMembership -----------------------------
(***************************************************************************)
(* Small instances of Membership: two spellings of one label.              *)
(***************************************************************************)
EXTENDS Membership, TLC

CONSTANTS d1, d2, a1, c1, c2

\* "Hal" and "hal" are one label, "amy" is another.
Spelling == [l \in Labels |-> IF l = "Hal" THEN "hal" ELSE l]

Scene(uses, maxMembers) == [uses |-> uses, maxMembers |-> maxMembers]

\* Members invite and approve; an adapter approves, alone or with members; the
\* operator's invites compete for the last place.
Channels ==
    {Scene({"invites", "members"}, 2), Scene({"adapter", "members"}, 2),
     Scene({"adapter"}, 1), Scene({"invites"}, 1)}

Symmetry == Permutations(Devices) \cup Permutations(Callers)
=============================================================================

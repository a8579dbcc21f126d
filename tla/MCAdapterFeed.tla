---------------------------- MODULE MCAdapterFeed ----------------------------
(***************************************************************************)
(* A small instance of AdapterFeed.                                        *)
(***************************************************************************)
EXTENDS AdapterFeed

CONSTANTS e1, e2

Scene(does, enrollments) == [does |-> {does}, enrollments |-> enrollments]

\* The adapter listens, or approves, or replays.
OneAtATime == {Scene("bell", {e1}), Scene("approve", {e1, e2}), Scene("sync", {e1, e2})}
=============================================================================

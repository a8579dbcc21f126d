------------------------ MODULE MCAgentOperations ------------------------
(***************************************************************************)
(* A small instance of AgentOperations: the operations of a behaviour come *)
(* from one of a few groups that compete for the same resources.           *)
(***************************************************************************)
EXTENDS AgentOperations, TLC

CONSTANTS o1, o2, o3, i1, d1, d2, f1, f2, f3

Scene(most, kinds, rows, events) ==
    [most |-> most, kinds |-> kinds, rows |-> rows, events |-> events]

Stories ==
    { Scene(3, {"put", "retry"}, {}, {"cancel", "delete"}),
      Scene(2, {"retry", "send"}, {"send", "put"}, {"presence", "cancel", "delete"}),
      Scene(2, {"send", "retry"}, {}, {"cancel", "delete", "gone"}),
      Scene(2, {"put", "retry"}, {}, {"presence", "lost", "gone", "refuse"}),
      Scene(2, {"get", "recent", "in recent"}, {}, {"presence", "lost", "gone"}),
      Scene(1, {"get"}, {}, {"presence", "cancel", "gone"}),
      Scene(3, {"list", "fast", "ping", "in ping"}, {}, {"refuse"}),
      Scene(2, {"list", "server ping", "read", "change"}, {}, {"lost", "presence"}),
      Scene(3, {"list", "server ping", "read"}, {}, {"presence"}),
      Scene(2, {"bench", "probe", "direct", "in offered"}, {}, {"lost", "gone"}),
      Scene(3, {"in send", "in bench", "in offered"}, {}, {"refuse", "unprepared"}),
      Scene(2, {"in send", "in put", "in bench"}, {}, {"presence", "lost", "unprepared"}),
      Scene(3, {"move"}, {}, {"files", "gone"}),
      Scene(1, {"move"}, {}, {"files", "refuse"}) }

Alike == Permutations({o1, o2, o3}) \cup Permutations({d1, d2}) \cup Permutations({f1, f2, f3})
=============================================================================

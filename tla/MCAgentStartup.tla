--------------------------- MODULE MCAgentStartup ---------------------------
(***************************************************************************)
(* Two executables with one home, the second with another IPC version, and *)
(* a plan with a home of its own.                                          *)
(***************************************************************************)
EXTENDS AgentStartup

CONSTANTS c1, c2, p1, p2, p3, s1, s2

Home == [p \in Plans |-> IF p = p3 THEN "other" ELSE "usual"]

Version == [p \in Plans |-> IF p = p2 THEN 2 ELSE 1]

Scene(os, most, kinds, plans, events) ==
    [os |-> os, most |-> most, kinds |-> kinds, plans |-> plans, events |-> events]

Systems == {"linux", "darwin", "windows"}

Stories ==
    UNION { { Scene(os, 2, {"agent", "install", "uninstall"}, {p1, p3}, {"kill"}),
              Scene(os, 2, {"agent", "upgrade", "uninstall"}, {p1, p2}, {"login"}),
              Scene(os, 2, {"install", "start", "stop", "restart", "status"}, {p1}, {"failure", "kill"})
            } : os \in Systems }
    \cup { Scene("linux", 2, {"agent", "upgrade"}, {p1, p2}, {"manual"}),
           Scene("darwin", 2, {"onboard", "uninstall"}, {p1}, {"kill"}),
           Scene("linux", 1, {"onboard"}, {p1}, {"context"}) }
=============================================================================

----------------------------- MODULE Publication -----------------------------
(***************************************************************************)
(* What a publishing transfer promises (ADR-0011 and ADR-0017), without    *)
(* sessions, rows, spools or crashes: a file appears at its destination    *)
(* only where nothing was, and each endpoint records an outcome only after *)
(* the event that justifies it.                                            *)
(***************************************************************************)
CONSTANTS Transfers, Names, DestOf, Contents, ContentOf, Free

VARIABLES
    dest,        \* the destination directory
    published,   \* transfers that were published or recognised
    recorded,    \* transfers whose publication the receiver recorded
    observed     \* transfers whose commit the sender observed

pubVars == <<dest, published, recorded, observed>>

Init ==
    /\ dest = [n \in Names |-> Free]
    /\ published = {}
    /\ recorded = {}
    /\ observed = {}

\* The file appears under its final name, complete, and replaces nothing.
Publish(t) ==
    /\ dest[DestOf[t]] = Free
    /\ dest' = [dest EXCEPT ![DestOf[t]] = ContentOf[t]]
    /\ published' = published \cup {t}
    /\ UNCHANGED <<recorded, observed>>

\* The file is in place already, complete: an interrupted attempt put it
\* there, or somebody else did.
Recognise(t) ==
    /\ dest[DestOf[t]] = ContentOf[t]
    /\ published' = published \cup {t}
    /\ UNCHANGED <<dest, recorded, observed>>

Record(t) ==
    /\ t \in published
    /\ recorded' = recorded \cup {t}
    /\ UNCHANGED <<dest, published, observed>>

Observe(t) ==
    /\ t \in recorded
    /\ observed' = observed \cup {t}
    /\ UNCHANGED <<dest, published, recorded>>

\* The receiving user takes a file away, or puts one there.
UserMoves(n) ==
    /\ \/ dest[n] # Free /\ dest' = [dest EXCEPT ![n] = Free]
       \/ /\ dest[n] = Free
          /\ \E c \in Contents : dest' = [dest EXCEPT ![n] = c]
    /\ UNCHANGED <<published, recorded, observed>>

Next ==
    \/ \E t \in Transfers : Publish(t) \/ Recognise(t) \/ Record(t) \/ Observe(t)
    \/ \E n \in Names : UserMoves(n)

Spec == Init /\ [][Next]_pubVars

=============================================================================

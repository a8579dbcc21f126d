---------------------------- MODULE GetTransfer ----------------------------
(***************************************************************************)
(* Downloading an offered file (internal/offered/protocol.go) into a       *)
(* protected stage whose ownership is durable (internal/getcleanup).       *)
(*                                                                         *)
(* The requester reserves a row of get_cleanup under a lease, builds the   *)
(* stage directory <parent>/.px-<id>.get step by step (directory, marker,  *)
(* data, hard-link probe), receives the file into it, links the data to    *)
(* its destination and takes the stage down again.  Before a new get       *)
(* reserves its row it reaps what earlier gets left in the same parent;    *)
(* that is the only moment residue is ever removed.                        *)
(*                                                                         *)
(* Abstractions: all gets share one destination parent, since reaping is   *)
(* per parent; a get's ID stands for its row, its stage and the identity   *)
(* of that directory; the payload is one chunk that is or is not what the  *)
(* announced hash covers; a lease token is named by the get that holds it; *)
(* the byte quota is the row quota; the expiry notice is left out.         *)
(***************************************************************************)
EXTENDS Naturals, Sequences, FiniteSets

CONSTANTS
    Gets,        \* get operations, each with one session
    Names,       \* destination names in the parent
    DestOf,      \* [Gets -> Names]
    MaxRows,     \* rows of get_cleanup
    MaxCrashes,  \* how often the requesting agent stops
    Users,       \* what users do meanwhile: subset of {"dest", "parent"}
    None, User

ASSUME GetAssumption ==
    /\ DestOf \in [Gets -> Names]
    /\ MaxRows \in Nat \ {0}
    /\ MaxCrashes \in Nat
    /\ Users \subseteq {"dest", "parent"}
    /\ None \notin Gets /\ User \notin Gets /\ None # User

VARIABLES
    row,        \* the get_cleanup row of each get
    disk,       \* its stage directory: the set of entries, or None
    dest,       \* who published the file at each name
    parent,     \* whether the canonical path still leads to the parent
    active,     \* Store.active
    up,         \* whether the agent runs
    crashes,
    pc,         \* where the goroutine of each get is
    loc,        \* its locals: the row its cleanup works on (its own or one it
                \* reaps), the copy of that row, the rows still to reap
    outcome,    \* what the get returned
    link,       \* the session: open, and the two queues
    spc,        \* where serveGet is
    good,       \* whether the bytes received are the announced ones
    published   \* history: gets whose data was linked

store == <<row, active>>
world == <<disk, dest, parent>>
agent == <<up, crashes>>
worker == <<pc, loc, outcome, good>>
vars == <<row, disk, dest, parent, active, up, crashes, pc, loc,
          outcome, link, spc, good, published>>

Phases == {"reserved", "stage_created", "marker_created", "data_created",
           "publishing", "cleanup_authorized"}
Rows == [phase : Phases, sid : BOOLEAN, lease : Gets \cup {None}, due : BOOLEAN]
Entries == {"marker", "data", "probe"}

\* None stands for a row or a directory that is not there.
ASSUME NoneAssumption == (\A r \in Rows : r # None) /\ \A D \in SUBSET Entries : D # None

Building == {"mkdir", "open_stage", "record_stage", "marker", "record_marker", "data",
             "probe", "unprobe", "record_data"}
Holding == {"ready", "receive", "complete", "publishing", "validate", "link"}
Cleaning == {"inspect", "adopt", "authorize", "empty", "rmdir", "drop", "settle"}
PCs == {"idle", "metadata", "create", "reap", "record_link", "returned", "dead"} \cup Building \cup Holding \cup Cleaning
SPCs == {"idle", "ready", "commit", "ok", "failed"}
Locals(g) == [tgt |-> g, seen |-> None, todo |-> {}]
ToRequester == {"file", "error", "same", "changed", "complete"}
ToServer == {"get", "ready", "committed"}

\* The type invariant; a registered get is one that has built, holds or cleans its stage.
TypeOK ==
    /\ row \in [Gets -> Rows \cup {None}]
    /\ disk \in [Gets -> (SUBSET Entries) \cup {None}]
    /\ dest \in [Names -> Gets \cup {None, User}]
    /\ parent \in BOOLEAN
    /\ active \subseteq {g \in Gets : loc[g].tgt = g /\
                              pc[g] \in Building \cup Holding \cup Cleaning \cup {"record_link"}}
    /\ up \in BOOLEAN
    /\ crashes \in 0 .. MaxCrashes
    /\ pc \in [Gets -> PCs]
    /\ loc \in [Gets -> [tgt : Gets, seen : Rows \cup {None}, todo : SUBSET Gets]]
    /\ outcome \in [Gets -> {"none", "failed", "committed", "pending"}]
    /\ link \in [Gets -> [open : BOOLEAN, toR : Seq(ToRequester), toS : Seq(ToServer)]]
    /\ spc \in [Gets -> SPCs]
    /\ good \in [Gets -> BOOLEAN]
    /\ published \subseteq Gets

Init ==
    /\ row = [g \in Gets |-> None]
    /\ disk = [g \in Gets |-> None]
    /\ dest = [n \in Names |-> None]
    /\ parent = TRUE
    /\ active = {}
    /\ up = TRUE
    /\ crashes = 0
    /\ pc = [g \in Gets |-> "idle"]
    /\ loc = [g \in Gets |-> Locals(g)]
    /\ outcome = [g \in Gets |-> "none"]
    /\ link = [g \in Gets |-> [open |-> TRUE, toR |-> <<>>, toS |-> <<>>]]
    /\ spc = [g \in Gets |-> "idle"]
    /\ good = [g \in Gets |-> FALSE]
    /\ published = {}

-----------------------------------------------------------------------------
(* The session of a get.  sendControl and channel.Send fail once it is     *)
(* closed.  What an end sent before it closed the session may still be     *)
(* received; what is under way when the session breaks is lost.            *)

Send(g, q, m) == link' = [link EXCEPT ![g][q] = Append(@, m)]
Has(g, q, m) == link[g][q] # <<>> /\ Head(link[g][q]) = m
Take(g, q) == link' = [link EXCEPT ![g][q] = Tail(@)]
Close(g, incoming) == link' = [link EXCEPT ![g].open = FALSE, ![g][incoming] = <<>>]

Broken == [open |-> FALSE, toR |-> <<>>, toS |-> <<>>]

Goto(g, p) == pc' = [pc EXCEPT ![g] = p]

\* Stage.Cleanup loads the row of its own stage, here r.
Cleanup(g, r) ==
    /\ Goto(g, "inspect")
    /\ loc' = [loc EXCEPT ![g].seen = r]

\* The get returns: its caller closes the session.
Return(g, o) ==
    /\ Goto(g, "returned")
    /\ outcome' = [outcome EXCEPT ![g] = o]
    /\ loc' = [loc EXCEPT ![g] = Locals(g)]
    /\ Close(g, "toR")

-----------------------------------------------------------------------------
(* serveGet: the offering agent.                                           *)

\* The requested file is opened and hashed, or refused.
ServeGet(g) ==
    /\ spc[g] = "idle"
    /\ Has(g, "toS", "get")
    /\ link[g].open
    /\ \/ /\ spc' = [spc EXCEPT ![g] = "ready"]
          /\ link' = [link EXCEPT ![g].toS = Tail(@), ![g].toR = Append(@, "file")]
       \/ /\ spc' = [spc EXCEPT ![g] = "failed"]
          /\ link' = [link EXCEPT ![g].toS = Tail(@), ![g].toR = Append(@, "error"),
                                  ![g].open = FALSE]
    /\ UNCHANGED <<store, world, agent, worker, published>>

\* The file is read a second time; it may have been edited since it was hashed.
StreamFile(g) ==
    /\ spc[g] = "ready"
    /\ Has(g, "toS", "ready")
    /\ link[g].open
    /\ spc' = [spc EXCEPT ![g] = "commit"]
    /\ \E content \in {"same", "changed"} :
         link' = [link EXCEPT ![g].toS = Tail(@), ![g].toR = @ \o <<content, "complete">>]
    /\ UNCHANGED <<store, world, agent, worker, published>>

OnConfirmation(g) ==
    /\ spc[g] = "commit"
    /\ Has(g, "toS", "committed")
    /\ spc' = [spc EXCEPT ![g] = "ok"]
    /\ link' = [link EXCEPT ![g].toS = Tail(@), ![g].open = FALSE]
    /\ UNCHANGED <<store, world, agent, worker, published>>

\* The file has become shorter, or the session is gone.
ServeFails(g) ==
    /\ \/ spc[g] = "ready" /\ Has(g, "toS", "ready")
       \/ spc[g] \in {"idle", "ready", "commit"} /\ ~link[g].open
    /\ spc' = [spc EXCEPT ![g] = "failed"]
    /\ Close(g, "toS")
    /\ UNCHANGED <<store, world, agent, worker, published>>

-----------------------------------------------------------------------------
(* RequestGetProgressStaged up to the stage, and reapParentOpened.         *)

RequestGet(g) ==
    /\ up
    /\ pc[g] = "idle"
    /\ link[g].open
    /\ Goto(g, "metadata")
    /\ Send(g, "toS", "get")
    /\ UNCHANGED <<store, world, agent, loc, outcome, good, spc, published>>

OnMetadata(g) ==
    /\ pc[g] = "metadata"
    /\ \/ /\ Has(g, "toR", "file")
          /\ Goto(g, "create")
          /\ Take(g, "toR")
          /\ UNCHANGED <<outcome, loc>>
       \/ /\ Has(g, "toR", "error")
          /\ Return(g, "failed")
    /\ UNCHANGED <<store, world, agent, good, spc, published>>

\* openProtectedParent, verifyOpenedParent, revalidateParentPath: the path still leads to
\* the directory whose identity was recorded, and its ancestry is protected.
ParentVerified == parent

Unleased(g) == row[g] # None /\ row[g].lease = None

\* Create opens the protected parent and asks for the due rows nobody leases.
SelectResidue(g) ==
    /\ pc[g] = "create"
    /\ ParentVerified
    /\ loc' = [loc EXCEPT ![g].todo = {h \in Gets : Unleased(h) /\ row[h].due}]
    /\ Goto(g, "reap")
    /\ UNCHANGED <<store, world, agent, outcome, good, link, spc, published>>

\* claim: not a row some goroutine of this process works on, and only while
\* the row has no lease; the row is read back under the new one.
ClaimResidue(g, h) ==
    /\ pc[g] = "reap"
    /\ h \in loc[g].todo
    /\ IF h \notin active /\ Unleased(h)
       THEN /\ row' = [row EXCEPT ![h].lease = g]
            /\ loc' = [loc EXCEPT ![g] = [tgt |-> h, seen |-> row'[h], todo |-> @.todo \ {h}]]
            /\ Goto(g, "inspect")
       ELSE /\ loc' = [loc EXCEPT ![g].todo = @ \ {h}]
            /\ UNCHANGED <<row, pc>>
    /\ UNCHANGED <<active, world, agent, outcome, good, link, spc, published>>

\* claim fails after its update, and so does releaseClaim; Create gives up.
ClaimFails(g, h) ==
    /\ pc[g] = "reap"
    /\ h \in loc[g].todo
    /\ h \notin active /\ Unleased(h)
    /\ row' = [row EXCEPT ![h].lease = g]
    /\ Return(g, "failed")
    /\ UNCHANGED <<active, world, agent, good, spc, published>>

\* The parent's path is checked once more, the destination must not exist, and
\* the row is inserted, leased and registered under the mutex.
Reserve(g) ==
    /\ pc[g] = "reap"
    /\ loc[g].todo = {}
    /\ ParentVerified
    /\ dest[DestOf[g]] = None
    /\ Cardinality({h \in Gets : row[h] # None}) < MaxRows
    /\ row' = [row EXCEPT ![g] = [phase |-> "reserved", sid |-> FALSE, lease |-> g,
                                  due |-> TRUE]]
    /\ active' = active \cup {g}
    /\ loc' = [loc EXCEPT ![g] = Locals(g)]
    /\ Goto(g, "mkdir")
    /\ UNCHANGED <<world, agent, outcome, good, link, spc, published>>

\* Anything that stops the get before it has a row: the session, a failing
\* query, the parent, an existing destination, the quota.
RequestFails(g) ==
    /\ \/ pc[g] \in {"idle", "metadata"} /\ ~link[g].open
       \/ pc[g] \in {"create", "reap"}
    /\ Return(g, "failed")
    /\ UNCHANGED <<store, world, agent, good, spc, published>>

-----------------------------------------------------------------------------
(* createFilesystem: every step is a file system call or a row update, and *)
(* any of them may fail, after which the stage is cleaned up.              *)

\* Stage.update: guarded by the lease, makes the row due at once.
Record(g, phase, sid) ==
    /\ row[g] # None /\ row[g].lease = g
    /\ row' = [row EXCEPT ![g].phase = phase, ![g].sid = sid, ![g].due = TRUE]

MakeStage(g) ==
    /\ pc[g] = "mkdir"
    /\ disk' = [disk EXCEPT ![g] = {}]
    /\ Goto(g, "open_stage")
    /\ UNCHANGED <<store, dest, parent, agent, loc, outcome, good, link, spc,
                   published>>

\* openStageRoot goes through the path again, not through the pinned parent.
OpenStage(g) ==
    /\ pc[g] = "open_stage"
    /\ ParentVerified
    /\ Goto(g, "record_stage")
    /\ UNCHANGED <<store, world, agent, loc, outcome, good, link, spc, published>>

RecordPhase(g) ==
    /\ \/ pc[g] = "record_stage" /\ Record(g, "stage_created", TRUE) /\ Goto(g, "marker")
       \/ pc[g] = "record_marker" /\ Record(g, "marker_created", TRUE) /\ Goto(g, "data")
       \/ pc[g] = "record_data" /\ Record(g, "data_created", TRUE) /\ Goto(g, "ready")
       \/ pc[g] = "publishing" /\ Record(g, "publishing", TRUE) /\ Goto(g, "validate")
    /\ UNCHANGED <<active, world, agent, loc, outcome, good, link, spc, published>>

MakeEntry(g) ==
    /\ \/ /\ pc[g] = "marker" /\ Goto(g, "record_marker")
          /\ disk' = [disk EXCEPT ![g] = @ \cup {"marker"}]
       \/ /\ pc[g] = "data" /\ Goto(g, "probe")
          /\ disk' = [disk EXCEPT ![g] = @ \cup {"data"}]
       \/ /\ pc[g] = "probe" /\ Goto(g, "unprobe")
          /\ disk' = [disk EXCEPT ![g] = @ \cup {"probe"}]
       \/ /\ pc[g] = "unprobe" /\ Goto(g, "record_data")
          /\ disk' = [disk EXCEPT ![g] = @ \ {"probe"}]
    /\ UNCHANGED <<store, dest, parent, agent, loc, outcome, good, link, spc,
                   published>>

-----------------------------------------------------------------------------
(* The payload, and Stage.Publish.                                         *)

SendReady(g) ==
    /\ pc[g] = "ready"
    /\ link[g].open
    /\ Send(g, "toS", "ready")
    /\ Goto(g, "receive")
    /\ UNCHANGED <<store, world, agent, loc, outcome, good, spc, published>>

OnChunk(g) ==
    /\ pc[g] = "receive"
    /\ \E content \in {"same", "changed"} :
         /\ Has(g, "toR", content)
         /\ good' = [good EXCEPT ![g] = content = "same"]
    /\ Take(g, "toR")
    /\ Goto(g, "complete")
    /\ UNCHANGED <<store, world, agent, loc, outcome, spc, published>>

\* The hash of what was written is compared with the announced one.
OnComplete(g) ==
    /\ pc[g] = "complete"
    /\ Has(g, "toR", "complete")
    /\ Take(g, "toR")
    /\ IF good[g] THEN Goto(g, "publishing") /\ UNCHANGED loc
                  ELSE Cleanup(g, row[g])
    /\ UNCHANGED <<store, world, agent, outcome, good, spc, published>>

\* verifyOpenedParent, the identity of the stage, its marker and its data.
ValidatePublication(g) ==
    /\ pc[g] = "validate"
    /\ ParentVerified
    /\ disk[g] # None /\ {"marker", "data"} \subseteq disk[g]
    /\ Goto(g, "link")
    /\ UNCHANGED <<store, world, agent, loc, outcome, good, link, spc, published>>

\* The exclusive hard link.
LinkData(g) ==
    /\ pc[g] = "link"
    /\ dest[DestOf[g]] = None
    /\ dest' = [dest EXCEPT ![DestOf[g]] = g]
    /\ published' = published \cup {g}
    /\ Goto(g, "record_link")
    /\ UNCHANGED <<store, disk, parent, agent, loc, outcome, good, link, spc>>

\* After the link the get is committed whatever happens; the row authorises the
\* removal of the stage.
RecordLink(g) ==
    /\ pc[g] = "record_link"
    /\ Record(g, "cleanup_authorized", TRUE)
    /\ outcome' = [outcome EXCEPT ![g] = "committed"]
    /\ Cleanup(g, row'[g])
    /\ UNCHANGED <<active, world, agent, good, link, spc, published>>

\* Mutant: an error after the link is reported like one before it.
LinkFailed(g) ==
    /\ pc[g] = "record_link"
    /\ Goto(g, "settle")
    /\ UNCHANGED <<store, world, agent, loc, outcome, good, link, spc, published>>

\* pending: releasePending, then the result says that the stage remains.
LinkUnrecorded(g) ==
    /\ pc[g] = "record_link"
    /\ outcome' = [outcome EXCEPT ![g] = "pending"]
    /\ Goto(g, "settle")
    /\ UNCHANGED <<store, world, agent, loc, good, link, spc, published>>

\* An error while the stage is built or held: the deferred Stage.Cleanup.
StageFails(g) ==
    /\ pc[g] \in Building \cup Holding
    /\ Cleanup(g, row[g])
    /\ UNCHANGED <<store, world, agent, outcome, good, link, spc, published>>

-----------------------------------------------------------------------------
(* cleanupOpened: by the owner of a stage or by a get that reaps it.       *)

\* What the directory and the copy of the row allow to be done next.
Inspect(g) ==
    LET h == loc[g].tgt IN
    /\ pc[g] = "inspect"
    /\ ParentVerified
    /\ loc[g].seen # None
    /\ \/ disk[h] = None /\ Goto(g, "drop")
       \/ /\ disk[h] = {} /\ ~loc[g].seen.sid /\ loc[g].seen.phase = "reserved"
          /\ Goto(g, "adopt")
       \/ /\ disk[h] # None /\ loc[g].seen.sid /\ "marker" \in disk[h]
          /\ Goto(g, IF loc[g].seen.phase = "cleanup_authorized" THEN "empty" ELSE "authorize")
       \/ /\ disk[h] = {} /\ loc[g].seen.sid /\ loc[g].seen.phase = "cleanup_authorized"
          /\ Goto(g, "rmdir")
    /\ UNCHANGED <<store, world, agent, loc, outcome, good, link, spc, published>>

\* authorizeClaimed, with the identity of a stage that was never recorded or without.
Authorize(g) ==
    LET h == loc[g].tgt IN
    /\ \/ pc[g] = "authorize" /\ Goto(g, "empty")
       \/ pc[g] = "adopt" /\ row[h] # None /\ ~row[h].sid /\ row[h].phase = "reserved"
                          /\ Goto(g, "rmdir")
    /\ row[h] # None /\ row[h].lease = g
    /\ row' = [row EXCEPT ![h].phase = "cleanup_authorized", ![h].sid = TRUE]
    /\ UNCHANGED <<active, world, agent, loc, outcome, good, link, spc, published>>

\* Mutant: the marker goes first.
RemoveMarkerFirst(g) ==
    LET h == loc[g].tgt
        entry == IF "marker" \in disk[h] THEN "marker"
                 ELSE IF "probe" \in disk[h] THEN "probe" ELSE "data" IN
    /\ pc[g] = "empty"
    /\ disk' = [disk EXCEPT ![h] = @ \ {entry}]
    /\ IF Cardinality(disk[h]) < 2 THEN Goto(g, "rmdir") ELSE UNCHANGED pc
    /\ UNCHANGED <<store, dest, parent, agent, loc, outcome, good, link, spc,
                   published>>

\* The probe first, then the data, the marker last.
RemoveEntry(g) ==
    LET h == loc[g].tgt
        entry == IF "probe" \in disk[h] THEN "probe"
                 ELSE IF "data" \in disk[h] THEN "data" ELSE "marker" IN
    /\ pc[g] = "empty"
    /\ disk' = [disk EXCEPT ![h] = @ \ {entry}]
    /\ IF entry = "marker" THEN Goto(g, "rmdir") ELSE UNCHANGED pc
    /\ UNCHANGED <<store, dest, parent, agent, loc, outcome, good, link, spc,
                   published>>

RemoveStage(g) ==
    /\ pc[g] = "rmdir"
    /\ ParentVerified
    /\ disk[loc[g].tgt] = {}
    /\ disk' = [disk EXCEPT ![loc[g].tgt] = None]
    /\ Goto(g, "drop")
    /\ UNCHANGED <<store, dest, parent, agent, loc, outcome, good, link, spc,
                   published>>

\* What follows a cleanup: the reaper goes on; the owner leaves the registry and
\* returns, after a commit without an error with the confirmation to the peer.
Continue(g, clean) ==
    IF loc[g].tgt # g
    THEN /\ Goto(g, "reap")
         /\ loc' = [loc EXCEPT ![g].tgt = g, ![g].seen = None]
         /\ UNCHANGED <<active, outcome, link>>
    ELSE /\ active' = active \ {g}
         /\ Goto(g, "returned")
         /\ loc' = [loc EXCEPT ![g] = Locals(g)]
         /\ outcome' = [outcome EXCEPT ![g] = IF @ = "none" THEN "failed"
                                              ELSE IF clean THEN @ ELSE "pending"]
         /\ link' = [link EXCEPT ![g].open = FALSE, ![g].toR = <<>>,
                       ![g].toS = IF clean /\ outcome[g] = "committed" /\ link[g].open
                                  THEN Append(@, "committed") ELSE @]

DropRow(g) ==
    LET h == loc[g].tgt IN
    /\ pc[g] = "drop"
    /\ row[h] # None /\ row[h].lease = g
    /\ row' = [row EXCEPT ![h] = None]
    /\ Continue(g, TRUE)
    /\ UNCHANGED <<world, agent, good, spc, published>>

\* Any step of a cleanup fails.
CleanupFails(g) ==
    /\ pc[g] \in Cleaning \ {"settle"}
    /\ Goto(g, "settle")
    /\ UNCHANGED <<store, world, agent, loc, outcome, good, link, spc, published>>

\* finishAttempt: the lease is given up and the row is not due for a while.
Settle(g) ==
    LET h == loc[g].tgt IN
    /\ pc[g] = "settle"
    /\ row' = IF row[h] # None /\ row[h].lease = g
              THEN [row EXCEPT ![h].lease = None, ![h].due = FALSE]
              ELSE row
    /\ Continue(g, FALSE)
    /\ UNCHANGED <<world, agent, good, spc, published>>

\* finishAttempt fails: releaseClaim, which may fail as well.  A reaping get gives up.
SettleFails(g) ==
    LET h == loc[g].tgt IN
    /\ pc[g] = "settle"
    /\ \/ UNCHANGED row
       \/ /\ row[h] # None /\ row[h].lease = g
          /\ row' = [row EXCEPT ![h].lease = None]
    /\ IF h = g THEN Continue(g, FALSE) ELSE Return(g, "failed") /\ UNCHANGED active
    /\ UNCHANGED <<world, agent, good, spc, published>>

-----------------------------------------------------------------------------
(* Around the gets.                                                        *)

BreakSession(g) ==
    /\ link[g].open
    /\ pc[g] \notin {"idle", "returned"}
    /\ link' = [link EXCEPT ![g] = Broken]
    /\ UNCHANGED <<store, world, agent, worker, spc, published>>

Crash ==
    /\ up
    /\ crashes < MaxCrashes
    /\ up' = FALSE
    /\ crashes' = crashes + 1
    /\ pc' = [g \in Gets |-> IF pc[g] \in {"idle", "returned"} THEN pc[g] ELSE "dead"]
    /\ loc' = [g \in Gets |-> Locals(g)]
    /\ active' = {}
    /\ link' = [g \in Gets |-> IF pc[g] \in {"idle", "returned"} THEN link[g] ELSE Broken]
    /\ UNCHANGED <<row, world, outcome, good, spc, published>>

\* Mutant: the store is started again while its process lock is held by a running agent.
StartupAgain ==
    /\ up' = TRUE
    /\ active' = {}
    /\ row' = [g \in Gets |-> IF row[g] = None THEN None
                              ELSE [row[g] EXCEPT !.lease = None]]
    /\ UNCHANGED <<world, crashes, worker, link, spc, published>>

\* Startup: every inherited lease is stale.
Startup ==
    /\ ~up
    /\ up' = TRUE
    /\ row' = [g \in Gets |-> IF row[g] = None THEN None
                              ELSE [row[g] EXCEPT !.lease = None]]
    /\ active' = {}
    /\ UNCHANGED <<world, crashes, worker, link, spc, published>>

\* The retry interval of a row passes.
BecomeDue(g) ==
    /\ row[g] # None
    /\ ~row[g].due
    /\ row' = [row EXCEPT ![g].due = TRUE]
    /\ UNCHANGED <<active, world, agent, worker, link, spc, published>>

UserTouches ==
    /\ \/ /\ "dest" \in Users
          /\ \E n \in Names : dest' = [dest EXCEPT ![n] = IF @ = None THEN User ELSE None]
          /\ UNCHANGED parent
       \/ /\ "parent" \in Users
          /\ parent' = ~parent
          /\ UNCHANGED dest
    /\ UNCHANGED <<store, disk, agent, worker, link, spc, published>>

-----------------------------------------------------------------------------

ServeStep(g) ==
    \/ ServeGet(g) \/ StreamFile(g) \/ OnConfirmation(g) \/ ServeFails(g)

GetStep(g) ==
    \/ RequestGet(g) \/ OnMetadata(g) \/ SelectResidue(g)
    \/ \E h \in Gets : ClaimResidue(g, h) \/ ClaimFails(g, h)
    \/ Reserve(g) \/ RequestFails(g)
    \/ MakeStage(g) \/ OpenStage(g) \/ RecordPhase(g) \/ MakeEntry(g)
    \/ SendReady(g) \/ OnChunk(g) \/ OnComplete(g)
    \/ ValidatePublication(g) \/ LinkData(g) \/ RecordLink(g) \/ LinkUnrecorded(g)
    \/ StageFails(g)
    \/ Inspect(g) \/ Authorize(g) \/ RemoveEntry(g) \/ RemoveStage(g) \/ DropRow(g)
    \/ CleanupFails(g) \/ Settle(g) \/ SettleFails(g)

Environment ==
    \/ \E g \in Gets : BreakSession(g) \/ BecomeDue(g)
    \/ Crash \/ Startup \/ UserTouches

Next == (\E g \in Gets : ServeStep(g) \/ GetStep(g)) \/ Environment

Spec == Init /\ [][Next]_vars

-----------------------------------------------------------------------------
(* Properties.                                                             *)

\* While a get builds and holds its stage its row carries the get's own lease, and from
\* "ready" to the link the stage is complete: no reaping get of the same parent, whatever it
\* read before, has taken either (claim, Startup, cleanupOpened).
LiveStageIntact ==
    \A g \in Gets :
        /\ pc[g] \in Building \cup Holding => row[g] # None /\ row[g].lease = g
        /\ pc[g] \in Holding => disk[g] = {"marker", "data"}

\* Every stage directory on disk is named by its row: through crashes, failed steps and
\* partial cleanups nothing px created becomes unknown to px (the row is deleted last).
StageOnRecord ==
    \A g \in Gets : disk[g] # None => row[g] # None

\* The one residue no cleanup accepts: the row says the stage exists, the marker that
\* proves it px's was never made (a crash or an error between the two).
Markerless(g) == row[g].phase = "stage_created" /\ disk[g] = {}

\* Whatever a get leaves behind, the next one that finds the row due can finish: the
\* directory is in a shape cleanupOpened accepts, however often cleanups were interrupted.
ResidueIsRecoverable ==
    \A g \in Gets : Unleased(g) /\ ~Markerless(g) =>
        \/ disk[g] = None
        \/ disk[g] = {} /\ (IF row[g].sid THEN row[g].phase = "cleanup_authorized"
                                        ELSE row[g].phase = "reserved")
        \/ row[g].sid /\ "marker" \in disk[g]

\* What the two ends report is what happened: a get that says committed linked the bytes
\* whose hash was announced, one that says failed linked nothing, and the offering agent
\* takes a get for served only if the requester committed it.
OutcomesAreTrue ==
    \A g \in Gets :
        /\ outcome[g] \in {"committed", "pending"} => g \in published /\ good[g]
        /\ outcome[g] = "failed" => g \notin published
        /\ spc[g] = "ok" => outcome[g] = "committed"

\* What is on disk is on record, and in a shape from which a later get can finish.
ResidueOnRecord == TypeOK /\ StageOnRecord /\ ResidueIsRecoverable

=============================================================================

----------------------------- MODULE AdapterFeed -----------------------------
(***************************************************************************)
(* An enrollment adapter and the server's local API for it                 *)
(* (internal/adapterapi, the fact, receipt and adapter tables of           *)
(* internal/membership, testscript/adapterfixture).                        *)
(*                                                                         *)
(* The server keeps a log of enrollment facts of which a prefix is pruned. *)
(* An adapter follows it in three ways that have to agree: it replays the  *)
(* log page by page from a cursor it keeps on disk, it takes a snapshot of *)
(* what is pending when its cursor was pruned, and it listens to a         *)
(* doorbell, a stream of markers that says no more than "replay".  It      *)
(* approves enrollments with numbered commands, whose receipts the server  *)
(* keeps for a while, and it may be killed at any step.                    *)
(*                                                                         *)
(* What an enrollment goes through is modelled in Membership; here it is   *)
(* a source of facts.  The response of the server and what the adapter     *)
(* does with it are one step where only the adapter's own disk changes.    *)
(***************************************************************************)
EXTENDS Naturals, Sequences, FiniteSetsExt

CONSTANTS
    Enrollments,            \* enrollments, by their IDs
    Scenes,                 \* bound of the model: what the adapter does, with what
    PageSize,               \* facts of a page
    MaxCommands,            \* bound of the model: commands ever numbered
    MaxStreams,             \* bound of the model: doorbell streams ever opened
    MaxRotations,           \* bound of the model: credentials ever issued
    NotificationCapacity    \* notifications that wait for the broker

ASSUME AdapterFeedConstants ==
    /\ Scenes \subseteq [does : SUBSET {"bell", "sync", "approve"},
                         enrollments : SUBSET Enrollments]
    /\ \A n \in {PageSize, MaxCommands, MaxStreams, MaxRotations,
                 NotificationCapacity} : n \in Nat \ {0}

Commands == 1 .. MaxCommands
Streams == 1 .. MaxStreams
None == 0

VARIABLES
    scene,      \* what the adapter does in this behaviour, and the enrollments there are
    log,        \* every fact there has been, pruned or not
    floor,      \* how many of them are pruned
    pend,       \* the pending enrollments
    owed,       \* committed transactions that have not notified yet
    bells,      \* notifications in the channel to the broker
    running,    \* the broker runs
    subscriber, \* the stream the broker holds for the adapter, or None
    streams,    \* the doorbell streams
    adapter,    \* the adapter's row: active, credential generation, last command
    receipts,   \* the receipts, by command
    calls,      \* commands under way in the server
    outcome,    \* what became of each command, kept or not
    disk,       \* the adapter's state file
    pc,         \* what the adapter's sync or approve waits for
    expired,    \* the answer cursor_expired it has received
    credential  \* the generation in its credential file

facts == <<log, floor, pend, owed>>
doorbell == <<bells, running, subscriber, streams>>
commands == <<receipts, calls, outcome>>
client == <<disk, pc, expired>>
vars == <<scene, facts, doorbell, adapter, commands, client, credential>>

\* state: none, open, writing, ended
\* ring: a notification in the subscriber's channel; marker: one on its way
\* knows: the facts there were when the adapter last had to look
NoStream == [state |-> "none", generation |-> 0, ring |-> FALSE, closed |-> FALSE,
             marker |-> FALSE, knows |-> 0]

NoCommand == [id |-> None, enrollment |-> None]
EmptyState == [cursor |-> 0, high |-> 0, view |-> {}, applied |-> {}, last |-> 0,
               command |-> NoCommand, started |-> FALSE, effects |-> {}]

Init ==
    /\ scene \in Scenes
    /\ log = <<>> /\ floor = 0 /\ pend = {} /\ owed = 0
    /\ bells = 0 /\ running = TRUE /\ subscriber = None
    /\ streams = [s \in Streams |-> NoStream]
    /\ adapter = [active |-> TRUE, generation |-> 1, last |-> 0]
    /\ receipts = <<>> /\ calls = {}
    /\ outcome = [c \in Commands |-> "none"]
    /\ disk = EmptyState /\ pc = "idle" /\ expired = [floor |-> 0, high |-> 0]
    /\ credential = 1

-----------------------------------------------------------------------------
(***************************************************************************)
(* Facts.                                                                  *)
(***************************************************************************)
Fact(kind, e) == [kind |-> kind, enrollment |-> e]
Happened(kind, e) == \E i \in DOMAIN log : log[i] = Fact(kind, e)

\* The prefixes that can be pruned: up to the admission of a pending enrollment.
Prunable == {n \in floor .. Len(log) :
    \A i \in floor + 1 .. n : ~(log[i].kind = "admitted" /\ log[i].enrollment \in pend)}

\* A transaction commits the fact; it notifies when it has committed.
Commit(kind, e) ==
    /\ log' = Append(log, Fact(kind, e))
    /\ owed' = IF "bell" \in scene.does THEN owed + 1 ELSE owed

\* An enrollment is settled by someone else than the command c.
Settled(e, c) ==
    LET lost == {d \in DOMAIN receipts :
                    d # c /\ receipts[d].enrollment = e /\ receipts[d].state = "admitted"}
    IN  /\ receipts' = [d \in DOMAIN receipts |->
              IF d \in lost THEN [receipts[d] EXCEPT !.state = "rejected"]
              ELSE IF d = c THEN [receipts[d] EXCEPT !.state = "committed"] ELSE receipts[d]]
        /\ outcome' = [d \in Commands |->
              IF d \in lost THEN "rejected" ELSE IF d = c THEN "committed" ELSE outcome[d]]

Admit(e) ==
    /\ ~Happened("admitted", e)
    /\ Commit("admitted", e)
    /\ pend' = pend \cup {e}
    /\ floor' \in Prunable
    /\ UNCHANGED <<scene, doorbell, adapter, commands, client, credential>>

Expire(e) ==
    /\ e \in pend
    /\ Commit("expired", e)
    /\ pend' = pend \ {e}
    /\ Settled(e, None)
    /\ UNCHANGED <<scene, floor, doorbell, adapter, calls, client, credential>>

ApproveElsewhere(e) ==
    /\ e \in pend
    /\ Commit("approved", e)
    /\ pend' = pend \ {e}
    /\ Settled(e, None)
    /\ UNCHANGED <<scene, floor, doorbell, adapter, calls, client, credential>>

Revoke(e) ==
    /\ Happened("approved", e) /\ ~Happened("revoked", e)
    /\ Commit("revoked", e)
    /\ UNCHANGED <<scene, floor, pend, doorbell, adapter, commands, client, credential>>

-----------------------------------------------------------------------------
(***************************************************************************)
(* The doorbell.                                                           *)
(***************************************************************************)
Authorized(generation) == adapter.active /\ adapter.generation = generation

\* notifyFacts: a notification that does not fit is not needed.
Notify ==
    /\ owed > 0
    /\ owed' = owed - 1
    /\ bells' = IF bells < NotificationCapacity THEN bells + 1 ELSE bells
    /\ UNCHANGED <<scene, log, floor, pend, running, subscriber, streams, adapter,
                   commands, client, credential>>

\* Mutant: a subscriber that still has a ring is forgotten and not told.
FanoutForgets ==
    /\ running /\ bells > 0
    /\ bells' = bells - 1
    /\ LET s == subscriber IN
       \/ /\ s = None
          /\ UNCHANGED <<subscriber, streams>>
       \/ /\ s # None /\ ~streams[s].ring
          /\ streams' = [streams EXCEPT ![s].ring = TRUE]
          /\ UNCHANGED subscriber
       \/ /\ s # None /\ streams[s].ring
          /\ subscriber' = None
          /\ UNCHANGED streams
    /\ UNCHANGED <<scene, facts, running, adapter, commands, client, credential>>

\* The broker rings the subscriber; one that still has a ring is dropped.
Fanout ==
    /\ running /\ bells > 0
    /\ bells' = bells - 1
    /\ LET s == subscriber IN
       \/ /\ s = None
          /\ UNCHANGED <<subscriber, streams>>
       \/ /\ s # None /\ ~streams[s].ring
          /\ streams' = [streams EXCEPT ![s].ring = TRUE]
          /\ UNCHANGED subscriber
       \/ /\ s # None /\ streams[s].ring
          /\ streams' = [streams EXCEPT ![s].closed = TRUE]
          /\ subscriber' = None
    /\ UNCHANGED <<scene, facts, running, adapter, commands, client, credential>>

\* The adapter opens a stream, which replaces the one it had.
SubscribeBell(s) ==
    /\ streams[s].state = "none" /\ \A t \in 1 .. s - 1 : streams[t].state # "none"
    /\ running
    /\ Authorized(credential)
    /\ streams' = [t \in Streams |->
          IF t = s THEN [NoStream EXCEPT !.state = "open", !.generation = credential,
                                         !.knows = Len(log)]
          ELSE IF t = subscriber THEN [streams[t] EXCEPT !.closed = TRUE]
          ELSE streams[t]]
    /\ subscriber' = s
    /\ UNCHANGED <<scene, facts, bells, running, adapter, commands, client, credential>>

\* The handler of stream s returns: the deferred cancel takes it from the broker.
Ends(s) ==
    /\ streams' = [streams EXCEPT ![s].state = "ended", ![s].closed = TRUE, ![s].ring = FALSE]
    /\ subscriber' = IF subscriber = s THEN None ELSE subscriber

\* The handler receives from its channel: a ring, or that it is closed.
HearRing(s) ==
    /\ streams[s].state = "open"
    /\ \/ /\ streams[s].ring /\ Authorized(streams[s].generation)
          /\ streams' = [streams EXCEPT ![s].ring = FALSE, ![s].state = "writing"]
          /\ UNCHANGED subscriber
       \/ /\ streams[s].ring /\ ~Authorized(streams[s].generation)
          /\ Ends(s)
       \/ /\ ~streams[s].ring /\ streams[s].closed
          /\ Ends(s)
    /\ UNCHANGED <<scene, facts, bells, running, adapter, commands, client, credential>>

\* The marker is written under the lock of the credentials, or it cannot be.
WriteMarker(s) ==
    /\ streams[s].state = "writing"
    /\ \/ /\ streams' = [streams EXCEPT ![s].state = "open", ![s].marker = TRUE]
          /\ UNCHANGED subscriber
       \/ Ends(s)
    /\ UNCHANGED <<scene, facts, bells, running, adapter, commands, client, credential>>

\* The ticker finds that the credential is not good any more, or the adapter left.
EndStream(s) ==
    /\ streams[s].state = "open"
    /\ Ends(s)
    /\ UNCHANGED <<scene, facts, bells, running, adapter, commands, client, credential>>

ReadMarker(s) ==
    /\ streams[s].marker
    /\ streams' = [streams EXCEPT ![s].marker = FALSE, ![s].knows = Len(log)]
    /\ UNCHANGED <<scene, facts, bells, running, subscriber, adapter, commands, client,
                   credential>>

StopBroker ==
    /\ running
    /\ running' = FALSE
    /\ subscriber' = None
    /\ streams' = [s \in Streams |->
          IF s = subscriber THEN [streams[s] EXCEPT !.closed = TRUE] ELSE streams[s]]
    /\ UNCHANGED <<scene, facts, bells, adapter, commands, client, credential>>

\* The server starts again after it stopped or was killed: what it held in
\* memory is gone, and so are the streams and the calls.
RestartServer ==
    /\ owed' = 0 /\ bells' = 0 /\ running' = TRUE /\ subscriber' = None
    /\ calls' = {}
    /\ pc' = IF pc \in {"submitted", "dropping"} THEN "idle" ELSE pc
    /\ streams' = [s \in Streams |->
          IF streams[s].state = "none" THEN NoStream
          ELSE [streams[s] EXCEPT !.state = "ended", !.closed = TRUE, !.ring = FALSE]]
    /\ UNCHANGED <<scene, log, floor, pend, adapter, receipts, outcome, disk, expired,
                   credential>>

-----------------------------------------------------------------------------
(***************************************************************************)
(* The operator's administration of the adapter.                           *)
(***************************************************************************)

\* The lock of the credentials can be taken: no marker is being written.
AuthorityLock == \A s \in Streams : streams[s].state # "writing"

SetAdapterActive(active) ==
    /\ AuthorityLock
    /\ adapter.active # active
    /\ adapter' = [adapter EXCEPT !.active = active]
    /\ UNCHANGED <<scene, facts, doorbell, commands, client, credential>>

RotateAdapterCredential ==
    /\ AuthorityLock
    /\ adapter.generation < MaxRotations
    /\ adapter' = [adapter EXCEPT !.generation = @ + 1]
    /\ UNCHANGED <<scene, facts, doorbell, commands, client, credential>>

\* The operator puts the new credential in the adapter's file.
InstallCredential ==
    /\ credential # adapter.generation
    /\ credential' = adapter.generation
    /\ UNCHANGED <<scene, facts, doorbell, adapter, commands, client>>

-----------------------------------------------------------------------------
(***************************************************************************)
(* The adapter replays facts.                                              *)
(***************************************************************************)
\* The state a run of the adapter begins with is the one on disk; it holds the
\* lock of the state file.
StartSync ==
    /\ pc = "idle"
    /\ pc' = "replay"
    /\ UNCHANGED <<scene, facts, doorbell, adapter, commands, disk, expired, credential>>

\* A run ends without a result: an error, a lost answer, or it is killed.  What
\* it asked of the server goes on, and nobody hears the answer.
Abandon ==
    /\ pc # "idle"
    /\ pc' = "idle"
    /\ calls' = {[k EXCEPT !.how = "orphan"] : k \in calls}
    /\ UNCHANGED <<scene, facts, doorbell, adapter, receipts, outcome, disk, expired,
                   credential>>

\* ReplayFacts for the cursor on disk: the page, up to the high water.
HighWater == IF disk.high = 0 THEN Len(log) ELSE disk.high
PageEnd == Min({HighWater, disk.cursor + PageSize})

\* The adapter's state with the fact at position i applied.
Applied(state, i) ==
    LET f == log[i] IN
    IF f \in state.applied THEN [state EXCEPT !.cursor = i]
    ELSE [state EXCEPT !.cursor = i, !.applied = @ \cup {f},
                       !.view = IF f.kind = "admitted" THEN @ \cup {f.enrollment}
                                ELSE @ \ {f.enrollment}]

\* Its state with the first n facts of the page applied.
Replayed[n \in Nat] ==
    IF n = 0 THEN [disk EXCEPT !.high = HighWater]
             ELSE Applied(Replayed[n - 1], disk.cursor + n)

\* A page is applied and saved; or the cursor is gone.
SyncPage ==
    /\ pc = "replay"
    /\ Authorized(credential)
    /\ \/ /\ disk.cursor >= floor
          /\ disk' = Replayed[PageEnd - disk.cursor]
          /\ pc' = IF disk'.cursor = HighWater THEN "finish" ELSE "replay"
          /\ UNCHANGED expired
       \/ /\ disk.cursor < floor
          /\ expired' = [floor |-> floor, high |-> Len(log)]
          /\ pc' = "snapshot"
          /\ UNCHANGED disk
    /\ UNCHANGED <<scene, facts, doorbell, adapter, commands, credential>>

FinishSync ==
    /\ pc = "finish"
    /\ disk' = [disk EXCEPT !.high = 0]
    /\ pc' = "idle"
    /\ UNCHANGED <<scene, facts, doorbell, adapter, commands, expired, credential>>

\* Mutant: the cursor is taken from the answer that told it was gone.
SnapshotCursorOfAnswer == expired.high

\* The cursor that goes with the snapshot, which was read together with it.
SnapshotCursor == Len(log)

\* What is pending replaces the view, and the replay goes on from there.
Rebuild ==
    /\ pc = "snapshot"
    /\ Authorized(credential)
    /\ disk' = [disk EXCEPT !.view = pend, !.cursor = SnapshotCursor, !.high = 0]
    /\ pc' = "replay"
    /\ UNCHANGED <<scene, facts, doorbell, adapter, commands, expired, credential>>

-----------------------------------------------------------------------------
(***************************************************************************)
(* The adapter approves.                                                   *)
(***************************************************************************)
\* ownCommand: the command on disk, or a new one that is on disk before it is sent.
OwnCommand(e) ==
    IF disk.command # NoCommand THEN disk
    ELSE [disk EXCEPT !.last = @ + 1, !.command = [id |-> disk.last + 1, enrollment |-> e]]

Call(state, how) == [command |-> state.command, stage |-> "admit", how |-> how,
                     credential |-> credential]

\* approve: a command is on disk already, and the server is asked about it first.
StartApprove(e) ==
    /\ pc = "idle"
    /\ disk.command = NoCommand \/ disk.command.enrollment = e
    /\ disk.last < MaxCommands \/ disk.command # NoCommand
    /\ disk' = OwnCommand(e)
    /\ \/ /\ disk.command # NoCommand
          /\ pc' = "query"
          /\ UNCHANGED calls
       \/ /\ disk.command = NoCommand
          /\ pc' = "submitted"
          /\ calls' = calls \cup {Call(disk', "approve")}
    /\ UNCHANGED <<scene, facts, doorbell, adapter, receipts, outcome, expired, credential>>

\* approve-drop: the command is sent, and only the start of the answer is read.
StartDrop(e) ==
    /\ pc = "idle"
    /\ disk.last < MaxCommands \/ disk.command # NoCommand
    /\ disk' = OwnCommand(e)
    /\ pc' = "dropping"
    /\ calls' = calls \cup {Call(disk', "drop")}
    /\ UNCHANGED <<scene, facts, doorbell, adapter, receipts, outcome, expired, credential>>

\* Mutant: an answer that is no result ends the command.
AcceptedAnything(state) ==
    [disk EXCEPT !.command = NoCommand, !.started = FALSE,
                 !.effects = @ \cup (IF state = "committed" THEN {disk.command.id} ELSE {})]

\* The adapter's state once it has the answer; one that is no result changes
\* nothing, and the command stays on disk.
Accepted(state) ==
    IF state = "error" THEN disk
    ELSE [disk EXCEPT !.command = NoCommand, !.started = FALSE,
                      !.effects = @ \cup (IF state = "committed" THEN {disk.command.id} ELSE {})]

\* approve-drop accepts no answer, but notes that a good one has started.
Started(state) == [disk EXCEPT !.started = @ \/ state # "error"]

\* The call k is answered; the answer of an abandoned one reaches nobody.
Answer(k, state) ==
    /\ disk' = CASE k.how = "approve" -> Accepted(state)
                 [] k.how = "drop" -> Started(state)
                 [] k.how = "orphan" -> disk
    /\ pc' = IF k.how = "orphan" THEN pc ELSE "idle"

\* QueryCommand and what approve makes of the answer: it submits the command
\* that is not known, or known and not settled.  What the answer is.
Receipt(c) ==
    IF c \in DOMAIN receipts THEN receipts[c].state
    ELSE IF c <= adapter.last THEN "error" ELSE "missing"

QueryCommand ==
    /\ pc = "query"
    /\ Authorized(credential)
    /\ LET answer == Receipt(disk.command.id) IN
       \/ /\ answer \in {"committed", "rejected", "error"}
          /\ disk' = Accepted(answer)
          /\ pc' = "idle"
          /\ UNCHANGED calls
       \/ /\ answer = "admitted" \/ (answer = "missing" /\ ~disk.started)
          /\ pc' = "submitted"
          /\ calls' = calls \cup {Call(disk, "approve")}
          /\ UNCHANGED disk
    /\ UNCHANGED <<scene, facts, doorbell, adapter, receipts, outcome, expired, credential>>

\* The settled receipt that is deleted first when there is no room: by this
\* adapter's next command, or by another adapter's.
Oldest == {c \in DOMAIN receipts : receipts[c].state # "admitted"
              /\ \A d \in DOMAIN receipts : receipts[d].state # "admitted" => c <= d}
Kept(evicted) == [c \in DOMAIN receipts \ evicted |-> receipts[c]]

OthersCommand ==
    /\ Oldest # {}
    /\ receipts' = Kept(Oldest)
    /\ UNCHANGED <<scene, facts, doorbell, adapter, calls, outcome, client, credential>>

\* AdmitApprovalCommand
AdmitCommand(k) ==
    /\ k.stage = "admit"
    /\ LET c == k.command.id
           known == Authorized(k.credential) /\ c \in DOMAIN receipts
           fresh == Authorized(k.credential) /\ Receipt(c) = "missing"
       IN
       \/ /\ known /\ receipts[c].state # "admitted"
          /\ calls' = calls \ {k}
          /\ Answer(k, receipts[c].state)
          /\ UNCHANGED <<adapter, receipts>>
       \/ /\ known /\ receipts[c].state = "admitted"
          /\ calls' = (calls \ {k}) \cup {[k EXCEPT !.stage = "execute"]}
          /\ UNCHANGED <<adapter, receipts, disk, pc>>
       \/ /\ fresh
          /\ \E evicted \in {{}, Oldest} :
                receipts' = [d \in {c} \cup (DOMAIN receipts \ evicted) |->
                    IF d = c THEN [enrollment |-> k.command.enrollment, state |-> "admitted"]
                             ELSE receipts[d]]
          /\ adapter' = [adapter EXCEPT !.last = c]
          /\ calls' = (calls \ {k}) \cup {[k EXCEPT !.stage = "execute"]}
          /\ UNCHANGED <<disk, pc>>
       \/ \* refused: the credential, an old command, its time, or no room
          /\ ~known
          /\ calls' = calls \ {k}
          /\ Answer(k, "error")
          /\ UNCHANGED <<adapter, receipts>>
    /\ UNCHANGED <<scene, facts, doorbell, outcome, expired, credential>>

\* ApproveAdapterCommand.  An admitted command is rejected when its enrollment
\* is not pending any more, or when there are too many members.
ExecuteCommand(k) ==
    /\ k.stage = "execute"
    /\ calls' = calls \ {k}
    /\ LET c == k.command.id  e == k.command.enrollment  state == Receipt(c) IN
       \/ /\ state = "admitted" /\ e \in pend
          /\ Commit("approved", e)
          /\ pend' = pend \ {e}
          /\ Settled(e, c)
          /\ Answer(k, "committed")
       \/ /\ state = "admitted"
          /\ receipts' = [receipts EXCEPT ![c].state = "rejected"]
          /\ outcome' = [outcome EXCEPT ![c] = "rejected"]
          /\ Answer(k, "rejected")
          /\ UNCHANGED <<log, owed, pend>>
       \/ /\ state # "admitted"
          /\ Answer(k, state)
          /\ UNCHANGED <<log, owed, pend, receipts, outcome>>
    /\ UNCHANGED <<scene, floor, doorbell, adapter, expired, credential>>

-----------------------------------------------------------------------------
Server ==
    \/ \E e \in scene.enrollments : Admit(e) \/ Expire(e) \/ ApproveElsewhere(e) \/ Revoke(e)
    \/ RestartServer

Administration ==
    (\E a \in BOOLEAN : SetAdapterActive(a)) \/ RotateAdapterCredential \/ InstallCredential

Doorbell ==
    /\ "bell" \in scene.does
    /\ \/ Notify \/ Fanout \/ StopBroker
       \/ \E s \in Streams : SubscribeBell(s) \/ HearRing(s) \/ WriteMarker(s)
                                \/ EndStream(s) \/ ReadMarker(s)
       \/ Administration

Sync == "sync" \in scene.does /\ (StartSync \/ SyncPage \/ FinishSync \/ Rebuild \/ Abandon)

Approval ==
    /\ "approve" \in scene.does
    /\ \/ \E e \in scene.enrollments : StartApprove(e) \/ StartDrop(e)
       \/ QueryCommand \/ Abandon \/ OthersCommand
       \/ \E k \in calls : AdmitCommand(k) \/ ExecuteCommand(k)

Next == Server \/ Doorbell \/ Sync \/ Approval

Spec == Init /\ [][Next]_vars

-----------------------------------------------------------------------------
(***************************************************************************)
(* Properties.                                                             *)
(***************************************************************************)

TypeOK ==
    /\ floor \in 0 .. Len(log) /\ pend \subseteq Enrollments
    /\ bells \in 0 .. NotificationCapacity
    /\ subscriber \in Streams \cup {None}
    /\ \A s \in Streams : streams[s].state \in {"none", "open", "writing", "ended"}
    /\ DOMAIN receipts \subseteq Commands
    /\ disk.cursor \in 0 .. Len(log) /\ disk.last \in 0 .. MaxCommands
    /\ disk.high = 0 \/ disk.high \in disk.cursor .. Len(log)
    /\ pc \in {"idle", "replay", "snapshot", "finish", "query", "submitted", "dropping"}

\* What is pending after the first n facts.
PendingAt(n) ==
    {e \in Enrollments :
        /\ \E i \in 1 .. n : log[i] = Fact("admitted", e)
        /\ \A i \in 1 .. n : log[i].enrollment = e => log[i].kind = "admitted"}

\* What the adapter holds on disk is what was pending at its cursor, whichever
\* pages, snapshots, prunings and crashes it took to get there (main.go
\* syncFacts, facts.go replayFactsRead and currentPendingSnapshotRead).
ViewTrue == disk.view = PendingAt(disk.cursor)

\* No fact goes unheard on a stream that the server keeps open: while there is
\* one the adapter has not looked for, a notification, a ring or a marker is on
\* its way, or the stream is about to end, after which the adapter replays.
NoLostBell ==
    \A s \in Streams :
        streams[s].state \in {"open", "writing"} /\ Len(log) > streams[s].knows
        => \/ owed > 0 \/ bells > 0
           \/ streams[s].ring \/ streams[s].state = "writing" \/ streams[s].marker
           \/ streams[s].closed

\* No marker is written with a credential that was rotated or deactivated
\* before: AuthorizeAdapterMarker holds the credentials until it is written.
MarkerAuthorized ==
    \A s \in Streams : streams[s].state = "writing" => Authorized(streams[s].generation)

\* The adapter and the server agree on every command the adapter has done
\* with: it recorded an effect for those that approved an enrollment, and none
\* of the others did or will, whatever answers were lost and receipts evicted.
CommandsSettled ==
    \A c \in 1 .. disk.last :
        c # disk.command.id => outcome[c] = IF c \in disk.effects THEN "committed" ELSE "rejected"

\* A command whose response had started was admitted, so that the server knows
\* it or knows it to be old (main.go "response-started command receipt is
\* unexpectedly missing").
StartedIsKnown == disk.started => disk.command.id \in 1 .. adapter.last

\* The doorbell rings for every fact, for adapters with a valid credential only.
BellSound == TypeOK /\ NoLostBell /\ MarkerAuthorized

\* Adapter and server agree on the commands, done with or under way.
CommandsAgreed == CommandsSettled /\ StartedIsKnown

=============================================================================

--------------------------- MODULE ContextManager ---------------------------
(***************************************************************************)
(* One context of the agent (src/internal/contexts/manager.go): its row in *)
(* the agent database, its key files, the worker that keeps it connected,  *)
(* the operations that run on its roots, and the calls that create,        *)
(* configure, disable, enable and remove it.                               *)
(*                                                                         *)
(* Manager.lifecycle serializes the calls, so there is at most one, in the *)
(* variable call.  Manager.mu makes a section of a call, of the worker or  *)
(* of an operation one step; a call gives it up while it talks to the      *)
(* rendezvous server, waits for the worker or removes transfer state.  A   *)
(* worker is canceled under the same lock that changes the row, and a      *)
(* statement with a canceled context writes nothing.                       *)
(*                                                                         *)
(* A root and the policy that goes with it is known by its revision.  The  *)
(* rendezvous server is what Membership describes, seen by one device.     *)
(***************************************************************************)
EXTENDS Naturals, FiniteSets

CONSTANTS
    Workers,        \* goroutines running runContext
    Ops,            \* operations on the roots of the context
    Devices,        \* identities the agent may generate
    None,           \* no device, no worker
    Scenes,         \* what happens: records [start, calls, kinds, faults]
    MaxRevision,    \* bound of the model: configuration changes of one root
    MaxCalls        \* bound of the model: lifecycle calls

ASSUME ContextAssumption ==
    /\ MaxRevision \in Nat
    /\ MaxCalls \in Nat
    /\ None \notin Devices \cup Workers
    /\ Devices # {}
    /\ {"open", "gone"} \cap (Devices \cup {None}) = {}
    /\ IsFiniteSet(Ops)

Terminal == {"revoked", "expired"}

States == {"pending", "enrolled", "connected", "disconnected"} \cup Terminal

\* The counters of activeOperations an operation of this kind holds, total
\* aside (the scopes of incomingProtocols and of the local operations).
Scope ==
    [outgoing |-> {},                       \* ListRemote, GetRemote, SendRemote, PutRemote
     browse   |-> {"offered"},              \* px-offered-
     receive  |-> {"offered", "inbox"},     \* px-send-, px-fast-
     put      |-> {"put"},                  \* px-put-
     inbox    |-> {"inbox"},                \* Inbox, InboxPath, MoveInbox
     resolve  |-> {"put"}]                  \* ResolveTransferAcceptCurrent

Kinds == DOMAIN Scope

Incoming == {"browse", "receive", "put"}

Roots == {"offered", "inbox", "put"}

\* The unresolved rows an operation may leave behind, with the root whose
\* revision the row records.
Evidence == [receive |-> "offered", put |-> "put", outgoing |-> "sent"]

VARIABLES
    scene,      \* the member of Scenes this behaviour follows
    row,        \* the row of table contexts, or NoRow
    placed,     \* the device whose key files are in place, or None
    staged,     \* devices with a key file renamed to .removing-
    evidence,   \* unresolved transfer rows: [root, revision, device]
    server,     \* what the server holds of each device
    invite,     \* "open", "gone", or the device that redeemed it
    runtime,    \* "down", "started", "active", "stopping"
    queued,     \* Manager.pending holds the context
    worker,     \* the goroutines
    entry,      \* Manager.workers
    control,    \* the worker of the connection in Manager.controls
    call,       \* the call that holds Manager.lifecycle
    calls,      \* lifecycle calls made so far
    answer,     \* how the last call ended
    op,         \* the operations
    active,     \* activeOperations
    overtaken   \* history: Activate overtook a removal, and the context was
                \* neither enabled nor disabled by a call since

vars == <<scene, row, placed, staged, evidence, server, invite, runtime, queued,
          worker, entry, control, call, calls, answer, op, active, overtaken>>

disk == <<row, placed, staged, evidence>>
rendezvous == <<server, invite>>
workers == <<queued, worker, entry, control>>
caller == <<call, calls, answer>>
operations == <<op, active>>

NoRow ==
    [exists |-> FALSE, device |-> None, credential |-> FALSE, state |-> "pending",
     enabled |-> FALSE, revision |-> [r \in Roots |-> 0]]

NoWorker == [pc |-> "none", canceled |-> FALSE, saw |-> "none", device |-> None]

NoCall ==
    [pc |-> "idle", saw |-> NoRow, worker |-> None, keys |-> None, change |-> {},
     reply |-> "none"]

NoOp == [kind |-> "none", device |-> None, revision |-> NoRow.revision]

NoActive == [total |-> 0, offered |-> 0, inbox |-> 0, put |-> 0]

\* The row of an enrolled context.
Enrolled(d) ==
    [exists |-> TRUE, device |-> d, credential |-> TRUE, state |-> "enrolled",
     enabled |-> TRUE, revision |-> [r \in Roots |-> 1]]

Init ==
    /\ scene \in Scenes
    /\ LET d == CHOOSE x \in Devices : TRUE IN
       \/ /\ scene.start = "new"
          /\ row = NoRow
          /\ placed = None
          /\ server = [x \in Devices |-> "none"]
          /\ invite \in {"open", "gone"}
       \/ /\ scene.start = "enrolled"
          /\ row = Enrolled(d)
          /\ placed = d
          /\ server = [x \in Devices |-> IF x = d THEN "enrolled" ELSE "none"]
          /\ invite = "gone"
    /\ staged = {}
    /\ evidence = {}
    /\ runtime = "down"
    /\ queued = FALSE
    /\ worker = [w \in Workers |-> NoWorker]
    /\ entry = None
    /\ control = None
    /\ call = NoCall
    /\ calls = 0
    /\ answer = "none"
    /\ op = [o \in Ops |-> NoOp]
    /\ active = NoActive
    /\ overtaken = FALSE

-----------------------------------------------------------------------------
(***************************************************************************)
(* The worker map.                                                         *)
(***************************************************************************)

Running(w) == worker[w].pc # "none"

Idle == {w \in Workers : ~Running(w)}

\* startWorkerLocked: nothing is started while the manager stops or when the
\* context has a worker; before Activate the context is put in line.
StartWorker ==
    \E w \in (IF runtime = "active" /\ entry = None THEN Idle ELSE {None}) :
        /\ queued' = (queued \/ runtime = "started")
        /\ entry' = IF w = None THEN entry ELSE w
        /\ worker' = [x \in Workers |-> IF x = w THEN [NoWorker EXCEPT !.pc = "read"] ELSE worker[x]]

\* delete(m.workers, name); worker.cancel()
CancelWorker ==
    /\ entry' = None
    /\ worker' = IF entry = None THEN worker ELSE [worker EXCEPT ![entry].canceled = TRUE]
    /\ UNCHANGED queued

\* The worker the call waits for has closed its done channel.
WorkerDone == call.worker \in Idle \cup {None}

Up == runtime \in {"started", "active", "stopping"}

\* A call takes Manager.lifecycle.
Begins(kind) ==
    /\ Up
    /\ call.pc = "idle"
    /\ calls < MaxCalls
    /\ kind \in scene.calls
    /\ calls' = calls + 1

Ends(result) ==
    /\ call' = NoCall
    /\ answer' = result

\* The row after its connection was given up.
Dropped(r) == [r EXCEPT !.state = IF @ = "connected" THEN "disconnected" ELSE @]

\* The row with the roots of change configured anew.
Reconfigured(r, change) ==
    [r EXCEPT !.revision = [x \in Roots |-> IF x \in change THEN r.revision[x] + 1 ELSE r.revision[x]]]

\* Mutant: a change looks only at rows in the database.
BlockedByRowsOnly(change) == \E e \in evidence : e.root \in change

\* ErrContextActive and ErrContextAuthorityBlocked: an operation runs on a root
\* that changes, or an unresolved row is bound to its revision.
Blocked(change) ==
    \/ \E r \in change \cap Roots : active[r] # 0
    \/ \E e \in evidence : e.root \in change
-----------------------------------------------------------------------------
(***************************************************************************)
(* Join.  The reply of the server travels while the row and the worker go  *)
(* on.                                                                     *)
(***************************************************************************)

\* The identity a join uses: that of the row, or the key files in place, which
\* ensureIdentity writes when there are none.  An existing row whose key files
\* are gone cannot be joined again.
Identity(d) ==
    IF row.exists THEN placed = row.device /\ d = row.device
    ELSE IF placed # None THEN d = placed
    ELSE d \notin staged /\ server[d] = "none"

JoinBegin(change, invited) ==
    /\ Begins("join")
    /\ \E d \in Devices :
          /\ Identity(d)
          /\ placed' = d
          /\ call' = [NoCall EXCEPT !.pc = IF invited THEN "redeem" ELSE "enroll",
                                    !.saw = row, !.change = change]
    /\ \A r \in change : row.exists /\ row.revision[r] < MaxRevision
    /\ answer' = "none"
    /\ UNCHANGED <<scene, row, staged, evidence, rendezvous, runtime, workers, operations, overtaken>>

\* POST /v1/enrollments: the server answers with the state it leaves the
\* device in, or refuses, or the answer is lost.
JoinEnroll ==
    /\ call.pc = "enroll"
    /\ \/ /\ server[placed] # "revoked"
          /\ server' = [server EXCEPT ![placed] = IF @ = "enrolled" THEN @ ELSE "pending"]
          /\ \/ /\ call' = [call EXCEPT !.pc = "commit", !.reply = server'[placed]]
                /\ UNCHANGED answer
             \/ Ends("failed")
       \/ /\ server[placed] = "revoked"
          /\ Ends("failed")
          /\ UNCHANGED server
    /\ UNCHANGED <<scene, disk, invite, runtime, workers, calls, operations, overtaken>>

\* The device may still redeem the invite.
Redeemable == invite = "open" /\ server[placed] \in {"none", "expired"}

\* A call to the server whose answer leads to next, or to lost.
Step(next) == call' = [call EXCEPT !.pc = next] /\ UNCHANGED answer

JoinEnrolled == call' = [call EXCEPT !.pc = "commit", !.reply = "enrolled"] /\ UNCHANGED answer

\* POST /v1/invites/redeem, the first and the second time: redeemed, redeemed
\* with a lost answer, never arrived, unavailable, or turned away (invalid, no
\* room, too many requests).
JoinRedeem ==
    /\ \/ /\ call.pc \in {"redeem", "redeem again"}
          /\ Redeemable
          /\ invite' = placed
          /\ server' = [server EXCEPT ![placed] = "enrolled"]
          /\ \/ JoinEnrolled
             \/ Step(IF call.pc = "redeem" THEN "check lost" ELSE "check last")
       \/ /\ call.pc \in {"redeem", "redeem again"}
          /\ Step(IF call.pc = "redeem" THEN "check lost" ELSE "check last")
          /\ UNCHANGED <<server, invite>>
       \/ /\ call.pc = "redeem"
          /\ \/ ~Redeemable /\ Step("check refused")
             \/ Ends("failed")
          /\ UNCHANGED <<server, invite>>
    /\ UNCHANGED <<scene, disk, runtime, workers, calls, operations, overtaken>>

\* Mutant: a status that could not be read counts as not enrolled.
JoinReconcileUnread ==
    /\ call.pc \in {"check refused", "check lost", "check last"}
    /\ \/ server[placed] = "enrolled" /\ JoinEnrolled
       \/ call.pc = "check lost" /\ Step("redeem again")
       \/ call.pc = "check last" /\ Ends("unknown")
       \/ call.pc = "check refused" /\ Ends("refused")
    /\ UNCHANGED <<scene, disk, rendezvous, runtime, workers, calls, operations, overtaken>>

\* reconciledEnrollmentStatus after a refusal, after a lost answer and after
\* the second attempt: the device is enrolled after all, it is not, or the
\* status cannot be read.
JoinReconcile ==
    /\ call.pc \in {"check refused", "check lost", "check last"}
    /\ \/ server[placed] = "enrolled" /\ JoinEnrolled
       \/ call.pc = "check lost" /\ Step("redeem again")
       \/ call.pc = "check last" /\ Ends("unknown")
       \/ /\ call.pc = "check refused"
          /\ server[placed] \in {"none", "pending", "expired"}
          /\ Ends("refused")
       \/ call.pc = "check refused" /\ Ends("unknown")
    /\ UNCHANGED <<scene, disk, rendezvous, runtime, workers, calls, operations, overtaken>>

\* The row of a join: a connected context stays connected when the server says
\* enrolled, everything else follows the reply.
Joined ==
    LET old == IF row.exists THEN row ELSE [Enrolled(placed) EXCEPT !.state = "pending"]
    IN  [Reconfigured(old, call.change) EXCEPT
            !.credential = call.reply = "enrolled",
            !.state = IF row.exists /\ @ = "connected" /\ call.reply = "enrolled" THEN @ ELSE call.reply,
            !.enabled = TRUE]

\* Mutant: the row is not read again before it is written.
JoinCommitBlind ==
    /\ call.pc = "commit"
    /\ IF runtime = "stopping" \/ call.saw.state \in Terminal \/ (row.exists /\ Blocked(call.change))
         THEN /\ Ends("failed")
              /\ UNCHANGED <<row, queued, worker, entry, overtaken>>
         ELSE /\ row' = Joined
              /\ StartWorker
              /\ overtaken' = FALSE
              /\ Ends("joined")
    /\ UNCHANGED <<scene, placed, staged, evidence, rendezvous, runtime, control, calls, operations>>

\* The last section of Join: the row is read again; a terminal membership, a
\* root in use and a manager that stops (beginMutationCommit) refuse the join.
JoinCommit ==
    /\ call.pc = "commit"
    /\ IF runtime = "stopping" \/ row.state \in Terminal \/ (row.exists /\ Blocked(call.change))
         THEN /\ Ends("failed")
              /\ UNCHANGED <<row, queued, worker, entry, overtaken>>
         ELSE /\ row' = Joined
              /\ StartWorker
              /\ overtaken' = FALSE
              /\ Ends("joined")
    /\ UNCHANGED <<scene, placed, staged, evidence, rendezvous, runtime, control, calls, operations>>

-----------------------------------------------------------------------------
(***************************************************************************)
(* Update, Disable, Enable.                                                *)
(***************************************************************************)

\* New roots, and with stun new STUN servers, for which the worker is started
\* again.
Update(change, stun) ==
    /\ Begins("update")
    /\ row.exists
    /\ \A r \in change : row.revision[r] < MaxRevision
    /\ ~Blocked(change)
    /\ row' = IF stun /\ row.enabled THEN Dropped(Reconfigured(row, change))
                                     ELSE Reconfigured(row, change)
    /\ IF stun
         THEN /\ CancelWorker
              /\ call' = [NoCall EXCEPT !.pc = "restart", !.saw = row, !.worker = entry]
              /\ answer' = "none"
         ELSE /\ UNCHANGED <<queued, worker, entry>>
              /\ Ends("updated")
    /\ UNCHANGED <<scene, placed, staged, evidence, rendezvous, runtime, control, operations, overtaken>>

UpdateRestart ==
    /\ call.pc = "restart"
    /\ WorkerDone
    /\ IF call.saw.enabled THEN StartWorker ELSE UNCHANGED <<queued, worker, entry>>
    /\ Ends("updated")
    /\ UNCHANGED <<scene, disk, rendezvous, runtime, control, calls, operations, overtaken>>

Disable ==
    /\ Begins("disable")
    /\ row.exists
    /\ row' = [Dropped(row) EXCEPT !.enabled = FALSE]
    /\ CancelWorker
    /\ call' = [NoCall EXCEPT !.pc = "stop worker", !.worker = entry]
    /\ answer' = "none"
    /\ overtaken' = FALSE
    /\ UNCHANGED <<scene, placed, staged, evidence, rendezvous, runtime, control, operations>>

\* Mutant: Disable waits for the worker but not for the operations.
DisableNoWait ==
    /\ call.pc = "stop worker"
    /\ WorkerDone
    /\ Ends("disabled")
    /\ UNCHANGED <<scene, disk, rendezvous, runtime, workers, calls, operations, overtaken>>

\* The worker has stopped; waitForTransfers takes the channel of the operations
\* under way.
DisableStopped ==
    /\ call.pc = "stop worker"
    /\ WorkerDone
    /\ IF active.total = 0 THEN Ends("disabled") ELSE Step("drain")
    /\ UNCHANGED <<scene, disk, rendezvous, runtime, workers, calls, operations, overtaken>>

\* The request of Disable is canceled while it waits.
DisableGiveUp ==
    /\ call.pc \in {"stop worker", "drain"}
    /\ Ends("failed")
    /\ UNCHANGED <<scene, disk, rendezvous, runtime, workers, calls, operations, overtaken>>

Enable ==
    /\ Begins("enable")
    /\ row.exists
    /\ row.state \notin Terminal
    /\ row' = [row EXCEPT !.enabled = TRUE]
    /\ StartWorker
    /\ Ends("enabled")
    /\ overtaken' = FALSE
    /\ UNCHANGED <<scene, placed, staged, evidence, rendezvous, runtime, control, operations>>

-----------------------------------------------------------------------------
(***************************************************************************)
(* Remove.                                                                 *)
(***************************************************************************)

\* Everything that keeps a context from being removed.
Removable == active.total = 0 /\ evidence = {}

\* Remove looks at the operations, cancels the worker and waits for it; before
\* Activate there is none.
Remove ==
    /\ Begins("remove")
    /\ row.exists
    /\ active.total = 0
    /\ CancelWorker
    /\ call' = [NoCall EXCEPT !.pc = "halt", !.saw = row, !.worker = entry]
    /\ answer' = "none"
    /\ UNCHANGED <<scene, disk, rendezvous, runtime, control, operations, overtaken>>

\* The request of Remove is canceled while it waits for the worker.
RemoveGiveUp ==
    /\ call.pc = "halt"
    /\ call.worker \in Workers \ Idle
    /\ Ends("failed")
    /\ UNCHANGED <<scene, disk, rendezvous, runtime, workers, calls, operations, overtaken>>

\* The worker has stopped.  Operations and rows are looked at once more; then
\* the context is disabled and its key files are renamed.
RemoveStage ==
    /\ call.pc = "halt"
    /\ WorkerDone
    /\ IF ~Removable
         THEN /\ IF call.saw.enabled THEN StartWorker ELSE UNCHANGED <<queued, worker, entry>>
              /\ Ends("failed")
              /\ UNCHANGED <<row, placed, staged>>
         ELSE /\ row' = [Dropped(row) EXCEPT !.enabled = FALSE]
              /\ staged' = staged \cup ({placed} \ {None})
              /\ placed' = None
              /\ call' = [call EXCEPT !.pc = "delete", !.keys = placed]
              /\ UNCHANGED <<queued, worker, entry, answer>>
    /\ UNCHANGED <<scene, evidence, rendezvous, runtime, control, calls, operations, overtaken>>

\* Mutant: the renamed keys are deleted whatever became of the row.
RemoveDeleteKeysGone ==
    /\ call.pc = "delete"
    /\ \/ /\ evidence = {}
          /\ row' = NoRow
          /\ Step("delete keys")
          /\ UNCHANGED staged
       \/ /\ Ends("failed")
          /\ staged' = staged \ {call.keys}
          /\ UNCHANGED row
    /\ UNCHANGED <<scene, placed, evidence, rendezvous, runtime, workers, calls, operations, overtaken>>

\* RemoveContextWith, without Manager.mu: the transaction looks for blocking
\* rows again and deletes the row; a failure brings the key files back and
\* leaves the context disabled.
RemoveDelete ==
    /\ call.pc = "delete"
    /\ \/ /\ evidence = {}
          /\ row' = NoRow
          /\ Step("delete keys")
          /\ UNCHANGED <<placed, staged>>
       \/ /\ Ends("failed")
          /\ placed' = call.keys
          /\ staged' = staged \ {call.keys}
          /\ UNCHANGED row
    /\ UNCHANGED <<scene, evidence, rendezvous, runtime, workers, calls, operations, overtaken>>

RemoveKeys ==
    /\ call.pc = "delete keys"
    /\ staged' = staged \ {call.keys}
    /\ Ends("removed")
    /\ UNCHANGED <<scene, row, placed, evidence, rendezvous, runtime, workers, calls, operations, overtaken>>
-----------------------------------------------------------------------------
(***************************************************************************)
(* The worker: runContext, refreshEnrollment, connectControl.              *)
(***************************************************************************)

Goto(w, pc) == worker' = [worker EXCEPT ![w].pc = pc]

\* updateState and the update of refreshEnrollment under Manager.mu; a
\* canceled context writes nothing, a removed row is not there to be written.
Write(w, new) == row' = IF worker[w].canceled \/ ~row.exists THEN row ELSE new

\* The head of the loop reads the row without Manager.mu and decides; the local
\* deadline of a pending row may have passed at any time.  What follows goes by
\* the device it read.
WorkerRead(w) ==
    /\ worker[w].pc = "read"
    /\ \E pc \in (IF worker[w].canceled \/ ~row.exists \/ ~row.enabled \/ row.state \in Terminal
                     THEN {"exit"}
                   ELSE IF row.state = "pending"
                     THEN {"poll", "expire"}
                   ELSE IF row.credential THEN {"dial"} ELSE {"no credential"}) :
          worker' = [worker EXCEPT ![w].pc = pc, ![w].device = row.device]
    /\ UNCHANGED <<scene, disk, rendezvous, runtime, queued, entry, control, caller, operations, overtaken>>

\* The deadline of the pending row has passed, or the row has no credential:
\* the worker says so and ends.
WorkerGivesUp(w) ==
    /\ worker[w].pc \in {"expire", "no credential"}
    /\ Write(w, [row EXCEPT !.state = IF worker[w].pc = "expire" THEN "expired" ELSE "disconnected"])
    /\ Goto(w, "exit")
    /\ UNCHANGED <<scene, placed, staged, evidence, rendezvous, runtime, queued, entry, control, caller, operations, overtaken>>

\* refreshEnrollment asks the server with the key files in place; the answer may
\* be lost, and a credential for another device than the row's is not taken.
WorkerPoll(w) ==
    /\ worker[w].pc = "poll"
    /\ \/ /\ placed # None
          /\ worker' = [worker EXCEPT
                           ![w].pc = "polled",
                           ![w].saw = IF server[placed] = "enrolled" /\ placed # worker[w].device
                                        THEN "pending" ELSE server[placed]]
       \/ Goto(w, "read")
    /\ UNCHANGED <<scene, disk, rendezvous, runtime, queued, entry, control, caller, operations, overtaken>>

\* and applies the answer: a terminal state, a credential, or nothing.
WorkerPolled(w) ==
    /\ worker[w].pc = "polled"
    /\ LET status == IF worker[w].saw = "none" THEN "expired" ELSE worker[w].saw IN
       Write(w, CASE status \in Terminal -> [row EXCEPT !.state = status]
                  [] status = "enrolled" -> [row EXCEPT !.state = status, !.credential = TRUE]
                  [] OTHER -> row)
    /\ worker' = [worker EXCEPT ![w].pc = "read", ![w].saw = "none"]
    /\ UNCHANGED <<scene, placed, staged, evidence, rendezvous, runtime, queued, entry, control, caller, operations, overtaken>>

\* connectControl loads the keys, dials and authenticates; then the connection
\* is the one in Manager.controls.
WorkerDial(w) ==
    /\ worker[w].pc = "dial"
    /\ \/ /\ ~worker[w].canceled
          /\ placed = worker[w].device
          /\ server[placed] = "enrolled"
          /\ control' = w
          /\ Goto(w, "connected")
       \/ /\ Goto(w, IF worker[w].canceled THEN "exit" ELSE "lost")
          /\ UNCHANGED control
    /\ UNCHANGED <<scene, disk, rendezvous, runtime, queued, entry, caller, operations, overtaken>>

WorkerConnected(w) ==
    /\ worker[w].pc = "connected"
    /\ Write(w, [row EXCEPT !.state = "connected"])
    /\ Goto(w, "serve")
    /\ UNCHANGED <<scene, placed, staged, evidence, rendezvous, runtime, queued, entry, control, caller, operations, overtaken>>

\* The connection ends: the worker is canceled, it breaks, or the server says
\* that the device is revoked.  The deferred function takes it out of
\* Manager.controls.
WorkerServe(w) ==
    /\ worker[w].pc = "serve"
    /\ \E pc \in (IF worker[w].canceled THEN {"exit"}
                   ELSE {"lost"} \cup (IF server[worker[w].device] = "revoked" THEN {"revoked"} ELSE {})) :
          Goto(w, pc)
    /\ control' = IF control = w THEN None ELSE control
    /\ UNCHANGED <<scene, disk, rendezvous, runtime, queued, entry, caller, operations, overtaken>>

WorkerLost(w) ==
    /\ worker[w].pc \in {"lost", "revoked"}
    /\ Write(w, [row EXCEPT !.state = IF worker[w].pc = "revoked" THEN "revoked" ELSE "disconnected"])
    /\ Goto(w, IF worker[w].pc = "revoked" THEN "exit" ELSE "read")
    /\ UNCHANGED <<scene, placed, staged, evidence, rendezvous, runtime, queued, entry, control, caller, operations, overtaken>>

\* The goroutine ends and leaves the map, if the entry is its own.
WorkerExit(w) ==
    /\ worker[w].pc = "exit"
    /\ worker' = [worker EXCEPT ![w] = NoWorker]
    /\ entry' = IF entry = w THEN None ELSE entry
    /\ UNCHANGED <<scene, disk, rendezvous, runtime, queued, control, caller, operations, overtaken>>

-----------------------------------------------------------------------------
(***************************************************************************)
(* Operations on the roots.                                                *)
(***************************************************************************)

\* beginContextOperation needs an enabled context, beginLocalContextOperation
\* only one that exists; incomingState reads the row with the context of the
\* connection.
MayBegin(kind) ==
    /\ row.exists
    /\ kind # "resolve" => row.enabled
    /\ kind \in Incoming => control # None /\ ~worker[control].canceled

\* activeOperations when an operation begins (n = 1) or ends.
Counted(kind, n) ==
    [x \in DOMAIN active |->
        IF x = "total" \/ x \in Scope[kind] THEN IF n = 1 THEN active[x] + 1 ELSE active[x] - 1
                                            ELSE active[x]]

BeginOperation(o, kind) ==
    /\ Up
    /\ kind \in scene.kinds
    /\ op[o] = NoOp
    /\ MayBegin(kind)
    /\ op' = [op EXCEPT ![o] = [kind |-> kind, device |-> row.device, revision |-> row.revision]]
    /\ active' = Counted(kind, 1)
    /\ UNCHANGED <<scene, disk, rendezvous, runtime, workers, caller, overtaken>>

\* The operation records an unresolved row, bound to the revision it works on.
Persist(o) ==
    /\ op[o].kind \in DOMAIN Evidence
    /\ LET r == Evidence[op[o].kind] IN
       evidence' = evidence \cup
         {[root |-> r, device |-> op[o].device,
           revision |-> IF r = "sent" THEN 0 ELSE op[o].revision[r]]}
    /\ UNCHANGED <<scene, row, placed, staged, rendezvous, runtime, workers, caller, operations, overtaken>>

\* endContextOperation; the last operation closes the channel Disable waits on.
EndOperation(o) ==
    /\ op[o] # NoOp
    /\ op' = [op EXCEPT ![o] = NoOp]
    /\ active' = Counted(op[o].kind, 0)
    /\ IF call.pc = "drain" /\ active'.total = 0 THEN Ends("disabled") ELSE UNCHANGED <<call, answer>>
    /\ UNCHANGED <<scene, disk, rendezvous, runtime, workers, calls, overtaken>>

\* A transfer row is committed, resolved or cleaned up.
Settle ==
    /\ Up
    /\ \E e \in evidence : evidence' = evidence \ {e}
    /\ UNCHANGED <<scene, row, placed, staged, rendezvous, runtime, workers, caller, operations, overtaken>>

-----------------------------------------------------------------------------
(***************************************************************************)
(* The server and the process.                                             *)
(***************************************************************************)

\* A pending device is approved or expires, a member is revoked, somebody else
\* redeems or revokes the invite.
ServerMoves ==
    /\ \/ /\ \E d \in Devices :
                \/ server[d] = "pending" /\ server' = [server EXCEPT ![d] = "enrolled"]
                \/ server[d] = "pending" /\ server' = [server EXCEPT ![d] = "expired"]
                \/ server[d] = "enrolled" /\ server' = [server EXCEPT ![d] = "revoked"]
          /\ UNCHANGED invite
       \/ /\ invite = "open"
          /\ invite' = "gone"
          /\ UNCHANGED server
    /\ UNCHANGED <<scene, disk, runtime, workers, caller, operations, overtaken>>

Start ==
    /\ runtime = "down"
    /\ runtime' = "started"
    /\ queued' = (row.exists /\ row.enabled /\ row.state \notin Terminal)
    /\ UNCHANGED <<scene, disk, rendezvous, worker, entry, control, caller, operations, overtaken>>

\* Activate takes Manager.mu but not Manager.lifecycle: a removal that found no
\* worker to wait for has not disabled the row yet when its worker starts.
Activate ==
    /\ runtime = "started"
    /\ runtime' = "active"
    /\ queued' = FALSE
    /\ IF queued
         THEN \E w \in Idle :
                /\ worker' = [worker EXCEPT ![w] = [NoWorker EXCEPT !.pc = "read"]]
                /\ entry' = w
         ELSE UNCHANGED <<worker, entry>>
    /\ overtaken' = (overtaken \/ (queued /\ call.pc = "halt"))
    /\ UNCHANGED <<scene, disk, rendezvous, control, caller, operations>>

\* Stop cancels the runtime context, and with it every worker.
Stop ==
    /\ "stop" \in scene.faults
    /\ runtime \in {"started", "active"}
    /\ runtime' = "stopping"
    /\ worker' = [w \in Workers |-> [worker[w] EXCEPT !.canceled = Running(w)]]
    /\ UNCHANGED <<scene, disk, rendezvous, queued, entry, control, caller, operations, overtaken>>

\* The memory of the process is gone.
Down ==
    /\ runtime' = "down"
    /\ queued' = FALSE
    /\ worker' = [w \in Workers |-> NoWorker]
    /\ entry' = None
    /\ control' = None
    /\ call' = NoCall
    /\ answer' = IF call.pc = "idle" THEN answer ELSE "none"
    /\ op' = [o \in Ops |-> NoOp]
    /\ active' = NoActive

\* Stop returns when workers and incoming operations have ended, and the
\* process exits.
Stopped ==
    /\ runtime = "stopping"
    /\ \A w \in Workers : ~Running(w)
    /\ \A o \in Ops : op[o].kind \notin Incoming
    /\ Down
    /\ UNCHANGED <<scene, disk, rendezvous, calls, overtaken>>

\* The process dies.
Crash ==
    /\ "crash" \in scene.faults
    /\ runtime # "down"
    /\ Down
    /\ scene' = [scene EXCEPT !.faults = @ \ {"crash"}]
    /\ UNCHANGED <<disk, rendezvous, calls, overtaken>>

Join ==
    \/ \E change \in SUBSET Roots, invited \in BOOLEAN : JoinBegin(change, invited)
    \/ JoinEnroll
    \/ JoinRedeem
    \/ JoinReconcile
    \/ JoinCommit

Configure ==
    \/ \E change \in SUBSET Roots, stun \in BOOLEAN : (change # {} \/ stun) /\ Update(change, stun)
    \/ UpdateRestart
    \/ Disable
    \/ DisableStopped
    \/ DisableGiveUp
    \/ Enable

Removal ==
    \/ Remove
    \/ RemoveGiveUp
    \/ RemoveStage
    \/ RemoveDelete
    \/ RemoveKeys

Work(w) ==
    \/ WorkerRead(w)
    \/ WorkerGivesUp(w)
    \/ WorkerPoll(w)
    \/ WorkerPolled(w)
    \/ WorkerDial(w)
    \/ WorkerConnected(w)
    \/ WorkerServe(w)
    \/ WorkerLost(w)
    \/ WorkerExit(w)

Operate(o) ==
    \/ \E kind \in Kinds : BeginOperation(o, kind)
    \/ Persist(o)
    \/ EndOperation(o)

Process == Start \/ Activate \/ Stop \/ Stopped \/ Crash

Next ==
    \/ Join
    \/ Configure
    \/ Removal
    \/ \E w \in Workers : Work(w)
    \/ \E o \in Ops : Operate(o)
    \/ Settle
    \/ ServerMoves
    \/ Process

Spec == Init /\ [][Next]_vars

-----------------------------------------------------------------------------
(***************************************************************************)
(* Properties.                                                             *)
(***************************************************************************)

TypeOK ==
    /\ row.device \in Devices \cup {None}
    /\ row.state \in States
    /\ placed \in Devices \cup {None}
    /\ staged \subseteq Devices
    /\ \A e \in evidence : e.device \in Devices /\ e.root \in {"offered", "put", "sent"}
    /\ server \in [Devices -> {"none", "pending", "enrolled"} \cup Terminal]
    /\ entry \in Workers \cup {None}
    /\ control \in Workers \cup {None}
    /\ call.worker \in Workers \cup {None}
    /\ call.keys \in Devices \cup {None}
    /\ \A o \in Ops : op[o].kind \in Kinds \cup {"none"}
    /\ \A x \in DOMAIN active : active[x] \in 0 .. Cardinality(Ops)

\* A context has one worker at a time: a goroutine that was not told to stop is
\* the one in Manager.workers, whatever calls started and restarted it.
OneWorker ==
    \A w \in Workers : Running(w) /\ ~worker[w].canceled => entry = w

\* A disabled context is never recorded as connected, although the worker
\* writes its progress without taking part in the call that disables it.  It
\* fails in one case, which is excepted: Activate starts a worker while Remove,
\* having found none, is between its two sections; the worker reads the enabled
\* row and nobody cancels it when Remove disables the context.
DisabledNeverConnected ==
    row.exists /\ ~row.enabled /\ ~overtaken => row.state # "connected"

\* When Disable has answered, no worker goes on and no operation runs but a
\* local resolution (docs/guides/usage.md: disabling closes the control and
\* direct sessions).
DisabledIsQuiet ==
    answer = "disabled" =>
        /\ \A w \in Workers : worker[w].canceled \/ worker[w].pc \in {"none", "read", "exit"}
        /\ \A o \in Ops : op[o].kind \in {"none", "resolve"}

\* No operation outlives the context it runs in: removal counts the operations
\* again after it has waited for the worker.
RemovedHasNoOperation ==
    ~row.exists => \A o \in Ops : op[o].kind \in {"none", "resolve"}

\* The roots an operation works on keep the revision it began with for as long
\* as it runs: neither Update nor a second Join changes them under it.
OperationKeepsAuthority ==
    \A o \in Ops : op[o] # NoOp /\ op[o].device = row.device =>
        \A r \in Scope[op[o].kind] : op[o].revision[r] = row.revision[r]

\* An unresolved transfer row always finds its context, and the revision of
\* the root it was bound to: retry and resolution stay possible.
EvidenceKeepsContext ==
    \A e \in evidence :
        /\ row.exists
        /\ row.device = e.device
        /\ e.root \in Roots => row.revision[e.root] = e.revision

\* The key files of a context are on disk, in place or renamed, until its row
\* is deleted, whenever the process dies (Remove, stageContextKeys).  Nothing
\* looks for the renamed ones after a crash: they are kept, not usable.
KeysOutliveRow == row.exists => row.device = placed \/ row.device \in staged

\* A join that reports the invite as unusable has not used it: an earlier
\* attempt whose answer was lost is found in the enrollment status.
RefusedIsUnredeemed == answer = "refused" => invite # placed

\* A membership that has ended stays ended until the context is removed, even
\* for a join that was under way when the worker recorded the end.
TerminalStays ==
    [][row.exists /\ row.state \in Terminal /\ row'.exists => row'.state = row.state]_vars

\* A context that was stopped by Disable or Remove stays stopped: neither the
\* worker nor an operation that was admitted meanwhile goes on or writes.
StoppedIsQuiet ==
    TypeOK /\ OneWorker /\ DisabledNeverConnected /\ DisabledIsQuiet /\ RemovedHasNoOperation

\* The configuration that operations and unresolved transfers depend on stays.
AuthorityKept == OperationKeepsAuthority /\ EvidenceKeepsContext

=============================================================================

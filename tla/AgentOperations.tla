-------------------------- MODULE AgentOperations --------------------------
(***************************************************************************)
(* The operations of one context of an agent                               *)
(* (src/internal/agentapi/handler.go, src/internal/contexts/manager.go,    *)
(* src/internal/inbox): requests of the local API that list, get, send,    *)
(* put, retry, ping or ask for observations, each over a direct session    *)
(* with one peer; sessions a peer opens; canceling and deleting transfers; *)
(* and moving a file out of the inbox.                                     *)
(*                                                                         *)
(* Each operation is a goroutine that takes resources on its way (a slot   *)
(* of the API, the lease of a transfer, a place in activeOperations, an    *)
(* entry of transferOps, a session of the control connection, a slot for   *)
(* incoming transfers) and gives them back when it returns.  Undo says     *)
(* what the code gives back, in which order, at each place it returns.     *)
(*                                                                         *)
(* The direct connection is external: it opens or fails.  The bytes of a   *)
(* transfer are ResumeTransfer, PutTransfer and GetTransfer.  All          *)
(* operations name the peer by one label, which devices may take over.     *)
(***************************************************************************)
EXTENDS Naturals, Sequences, FiniteSets

CONSTANTS
    Ops,            \* requests and incoming sessions
    Ids,            \* transfer identifiers
    Devices,        \* peers that may be present under the label
    Files,          \* states of the inbox entry
    None,
    Scenes,         \* what may happen: records [most, kinds, rows, events]
    SlotLimit,      \* capacity of Handler.operations (4)
    IncomingLimit,  \* capacity of Manager.incoming (4)
    SessionLimit,   \* sessions of a control connection (16)
    WaiterLimit,    \* requests that wait on a control connection (4)
    MaxConnections  \* bound of the model: control connections

ASSUME OperationsAssumption ==
    /\ {SlotLimit, IncomingLimit, SessionLimit, WaiterLimit, MaxConnections} \subseteq Nat \ {0}
    /\ None \notin Ops \cup Ids \cup Devices \cup Files
    /\ Ops \cap Ids = {}

\* Requests of the local API.
Local == {"get", "send", "fast", "put", "retry", "putretry", "list", "recent", "ping",
          "bench", "probe", "direct", "move", "server ping", "read", "change"}

\* Requests the rendezvous server answers: a ping; the members, the pending devices
\* and the invites; an approval, a new invite and a revoked one.
Reads == {"server ping", "read"}

Changes == {"change"}

\* Those answered by a stream of events, the last of which ends the request.
Streams == {"get", "send", "fast", "put", "retry", "putretry"}

\* Sessions a peer opens (incomingProtocols): px-recent-, px-ping-, px-bench-,
\* px-send- and px-fast-, px-put-, px-offered-.
Incoming == {"in recent", "in ping", "in bench", "in send", "in put", "in offered"}

\* Retries, which hold the lease of a stored transfer before they begin.  The
\* row that is claimed makes a retry the retry of a send or of a put.
Prepared == {"retry", "putretry"}

\* Operations that do not count in activeOperations.
Uncounted == {"recent", "ping", "bench", "probe", "direct", "in recent", "in ping", "in bench"}
                \cup Reads \cup Changes

\* Sessions that stay registered with the control connection while they run
\* (RetainSignaler), and those that end with the presence of the peer.
Retaining == {"recent", "ping", "bench", "in recent", "in ping", "in bench"}

Bound == {"recent", "in recent"}

\* Incoming sessions that take a slot of Manager.incoming.
Limited == {"in bench", "in send", "in put"}

VARIABLES
    scene,      \* the member of Scenes this behaviour follows
    conn,       \* the control connection: [n, up]
    online,     \* controlConnection.peers at the label
    row,        \* stored transfers: [kind, device]
    lease,      \* the operation that holds the lease of a transfer
    named,      \* Manager.transferOps
    op,         \* the operations
    slots,      \* operations with a slot of the API
    active,     \* operations counted in activeOperations
    served,     \* operations with a slot of Manager.incoming
    sessions,   \* operations registered in controlConnection.sessions
    waiters,    \* operations registered in controlConnection.waiters
    caller,     \* a call to cancel or delete a transfer
    lockmap,    \* the lock in Manager.inboxMoves, or 0
    locks,      \* inboxMoveLock objects: [token, refs]
    entry,      \* the file at the inbox path
    claims,     \* the file in the claim directory of a move
    moved,      \* files published at a destination, by which move
    made,       \* files that were received
    dropped     \* files the user removed

vars == <<scene, conn, online, row, lease, named, op, slots, active, served,
          sessions, waiters, caller, lockmap, locks, entry, claims, moved, made, dropped>>

network == <<conn, online>>
stored == <<row, lease>>
counts == <<slots, active, served>>
inbox == <<lockmap, locks, entry, claims, moved, made, dropped>>

NoOp ==
    [kind |-> "none", pc |-> "new", undo |-> <<>>, id |-> None, peer |-> None,
     conn |-> 0, canceled |-> FALSE, client |-> TRUE, told |-> 0, lock |-> 0,
     file |-> None, out |-> "none"]

NoRow == [kind |-> "none", device |-> None]

Gone == [kind |-> "gone", device |-> None]

Idle == [pc |-> "idle", id |-> None, what |-> "none"]

Init ==
    /\ scene \in Scenes
    /\ conn = [n |-> 1, up |-> TRUE]
    /\ online \in Devices
    /\ row \in [Ids -> IF scene.rows = {} THEN {NoRow} ELSE [kind : scene.rows, device : Devices]]
    /\ lease = [i \in Ids |-> None]
    /\ named = [x \in Ids \cup Ops |-> None]
    /\ op = [o \in Ops |-> NoOp]
    /\ slots = {}
    /\ active = {}
    /\ served = {}
    /\ sessions = {}
    /\ waiters = {}
    /\ caller = Idle
    /\ lockmap = 0
    /\ locks = [g \in 1 .. Cardinality(Ops) |-> [token |-> TRUE, refs |-> 0]]
    /\ entry = None
    /\ claims = [o \in Ops |-> None]
    /\ moved = {}
    /\ made = {}
    /\ dropped = {}

-----------------------------------------------------------------------------
(***************************************************************************)
(* Returning.                                                              *)
(***************************************************************************)

Kind(o) == op[o].kind

At(o, pc) == op[o].pc = pc

Goes(o, pc) == op' = [op EXCEPT ![o].pc = pc]

May(event) == event \in scene.events

\* An operation that may begin: a behaviour has at most scene.most of them.
New(o) == op[o].pc = "new" /\ Cardinality({p \in Ops : op[p].pc # "new"}) < scene.most

(***************************************************************************)
(* What an operation gives back when it returns at pc: the explicit calls  *)
(* of the error path, then its deferred functions in their order.          *)
(***************************************************************************)

\* The signaler is closed on every way out between its opening and the end of
\* direct.Connect, by which it is closed already.
SignalAt(pc) == IF pc \in {"check", "run", "connect", "serve"} THEN <<"signal">> ELSE <<>>

ActiveAt(pc) == IF pc \in {"claim", "begin", "admit"} THEN <<>> ELSE <<"active">>

UndoList(pc) == SignalAt(pc) \o ActiveAt(pc)

UndoGet(pc) == SignalAt(pc) \o (IF pc = "begin" THEN <<>> ELSE <<"name">>) \o ActiveAt(pc)

UndoSend(pc) == (IF pc = "work" THEN <<"lease">> ELSE SignalAt(pc)) \o ActiveAt(pc)

UndoPut(pc) ==
    (IF pc = "work" THEN <<"lease">> ELSE SignalAt(pc)) \o ActiveAt(pc)
        \o (IF pc \in {"reserve", "work"} THEN <<"name">> ELSE <<>>)

\* PrepareRetry, then PreparedRetry.Close.
UndoRetry(pc) ==
    SignalAt(pc) \o ActiveAt(pc) \o (IF pc = "claim" THEN <<>> ELSE <<"lease">>)

\* PreparedPutRetry.Run takes its name back before Close does the rest.
UndoPutRetry(pc) ==
    SignalAt(pc) \o (IF pc \in {"connect", "work"} THEN <<"name">> ELSE <<>>)
        \o ActiveAt(pc) \o <<"lease">>

\* Without a place in activeOperations; the session stays open to the end.
UndoRecent(pc) == IF pc \in {"lookup", "ask", "members", "open"} THEN <<>> ELSE <<"signal">>

UndoPing(pc) == IF pc \in {"lookup", "ask", "members", "open"} THEN <<>> ELSE <<"signal">>

UndoBench(pc) == IF pc \in {"lookup", "ask", "members", "open"} THEN <<>> ELSE <<"signal">>

UndoProbe(pc) == SignalAt(pc)

UndoMove(pc) ==
    (IF pc = "token" THEN <<>> ELSE ActiveAt(pc) \o <<"token">>) \o <<"ref">>

UndoInRecent(pc) == <<"signal">>

UndoInPing(pc) == <<"signal">>

UndoInBench(pc) == <<"signal">> \o (IF pc = "serve" THEN <<>> ELSE <<"served">>)

ServedAt(pc) == IF pc \in {"admit", "serve"} THEN <<>> ELSE <<"served">>

\* Nothing closes the session of a send or a put whose root is not usable.
UndoInSend(pc) ==
    (IF pc = "admit" THEN <<"signal">> ELSE SignalAt(pc)) \o ServedAt(pc) \o ActiveAt(pc)

UndoInPut(pc) ==
    (IF pc = "admit" THEN <<"signal">> ELSE SignalAt(pc)) \o ServedAt(pc) \o ActiveAt(pc)

UndoInOffered(pc) ==
    (IF pc = "admit" THEN <<"signal">> ELSE SignalAt(pc)) \o ActiveAt(pc)

Undo(k, pc) ==
    CASE k = "list" -> UndoList(pc)
      [] k = "get" -> UndoGet(pc)
      [] k = "send" -> UndoSend(pc)
      [] k = "fast" -> UndoList(pc)
      [] k = "put" -> UndoPut(pc)
      [] k = "retry" -> UndoRetry(pc)
      [] k = "putretry" -> UndoPutRetry(pc)
      [] k = "recent" -> UndoRecent(pc)
      [] k = "ping" -> UndoPing(pc)
      [] k = "bench" -> UndoBench(pc)
      [] k = "probe" -> UndoProbe(pc)
      [] k \in {"direct"} \cup Reads \cup Changes -> <<>>
      [] k = "move" -> UndoMove(pc)
      [] k = "in recent" -> UndoInRecent(pc)
      [] k = "in ping" -> UndoInPing(pc)
      [] k = "in bench" -> UndoInBench(pc)
      [] k = "in send" -> UndoInSend(pc)
      [] k = "in put" -> UndoInPut(pc)
      [] k = "in offered" -> UndoInOffered(pc)

\* The operation returns from where it is.
Leave(o, changed) ==
    op' = [op EXCEPT ![o] = [changed EXCEPT !.pc = "unwind", !.undo = Undo(Kind(o), op[o].pc)]]

Returns(o) ==
    /\ Leave(o, op[o])
    /\ UNCHANGED <<scene, network, stored, named, counts, sessions, waiters, caller, inbox>>

\* The lock of a move after its release: without references it leaves the map.
Released(l) == IF locks[l].refs = 1 THEN 0 ELSE lockmap

\* One resource is given back.
Unwind(o) ==
    /\ At(o, "unwind")
    /\ op[o].undo # <<>>
    /\ LET r == Head(op[o].undo) IN
       /\ lease' = IF r = "lease" THEN [lease EXCEPT ![op[o].id] = None] ELSE lease
       /\ active' = IF r = "active" THEN active \ {o} ELSE active
       /\ served' = IF r = "served" THEN served \ {o} ELSE served
       /\ sessions' = IF r = "signal" THEN sessions \ {o} ELSE sessions
       /\ named' = IF r = "name" THEN [named EXCEPT ![op[o].id] = None] ELSE named
       /\ locks' = CASE r = "token" -> [locks EXCEPT ![op[o].lock].token = TRUE]
                     [] r = "ref" -> [locks EXCEPT ![op[o].lock].refs = @ - 1]
                     [] OTHER -> locks
       /\ lockmap' = IF r = "ref" THEN Released(op[o].lock) ELSE lockmap
    /\ op' = [op EXCEPT ![o].undo = Tail(@)]
    /\ UNCHANGED <<scene, network, row, slots, waiters, caller, entry, claims, moved, made, dropped>>

\* The handler answers, unless the stream has had its last event or the client
\* is gone, and gives its slot back.
Report(o) ==
    /\ At(o, "unwind")
    /\ op[o].undo = <<>>
    /\ op' = [op EXCEPT ![o].pc = "done",
                        ![o].told = IF Kind(o) \in Local /\ op[o].client /\ @ = 0 THEN 1 ELSE @]
    /\ slots' = slots \ {o}
    /\ UNCHANGED <<scene, network, stored, named, active, served, sessions, waiters, caller, inbox>>

-----------------------------------------------------------------------------
(***************************************************************************)
(* Requests of the local API, up to the direct session.                    *)
(***************************************************************************)

\* Handler.beginOperation: a request takes a slot of the API, or is turned away.
\* It then starts at pc.
BeginOperation(o, k, i, pc) ==
    LET free == Cardinality(slots) < SlotLimit IN
    /\ New(o)
    /\ k \in scene.kinds
    /\ op' = [op EXCEPT ![o] = [@ EXCEPT !.kind = k, !.id = i,
                  !.pc = IF free THEN pc ELSE "done",
                  !.told = IF free THEN 0 ELSE 1]]
    /\ slots' = IF free THEN slots \cup {o} ELSE slots
    /\ UNCHANGED <<scene, network, stored, named, active, served, sessions, waiters, caller, inbox>>

ListOffered(o) == BeginOperation(o, "list", None, "begin")

GetOffered(o) == BeginOperation(o, "get", None, "begin")

SendContextFile(o) == \E k \in {"send", "fast"} : BeginOperation(o, k, None, "begin")

PutContextFile(o) == BeginOperation(o, "put", None, "begin")

RetryTransfer(o) == \E i \in Ids : BeginOperation(o, "retry", i, "claim")

ListPeerRecent(o) == BeginOperation(o, "recent", None, "lookup")

Ping(o) == BeginOperation(o, "ping", None, "lookup")

Benchmark(o) == BeginOperation(o, "bench", None, "lookup")

DiagnosePeer(o) == BeginOperation(o, "probe", None, "lookup")

\* The requests that name a signaling server themselves (send, receive, probe).
DirectRequest(o) == BeginOperation(o, "direct", None, "connect")

MoveInbox(o) == BeginOperation(o, "move", None, "lock")

PingServer(o) == BeginOperation(o, "server ping", None, "lookup")

\* Requests for the server take no slot.
Unslotted(o, k) ==
    /\ New(o)
    /\ k \in scene.kinds
    /\ op' = [op EXCEPT ![o] = [@ EXCEPT !.kind = k, !.pc = "lookup"]]
    /\ UNCHANGED <<scene, network, stored, named, counts, sessions, waiters, caller, inbox>>

ListMembers(o) == Unslotted(o, "read")

ApproveDevice(o) == Unslotted(o, "change")

\* The lease of the transfer: of a send, or else of a put.
Claim(o) ==
    LET i == op[o].id IN
    /\ At(o, "claim")
    /\ ~ op[o].canceled
    /\ row[i].kind \in {"send", "put"}
    /\ lease[i] = None
    /\ lease' = [lease EXCEPT ![i] = o]
    /\ op' = [op EXCEPT ![o].pc = "begin",
                        ![o].kind = IF row[i].kind = "put" THEN "putretry" ELSE "retry"]
    /\ UNCHANGED <<scene, network, row, named, counts, sessions, waiters, caller, inbox>>

ClaimFails(o) ==
    /\ At(o, "claim")
    /\ \/ op[o].canceled
       \/ row[op[o].id].kind \notin {"send", "put"}
       \/ lease[op[o].id] # None
    /\ Returns(o)

\* The context is connected: the operation counts from here.  A get also
\* registers under an identifier of its own.
Begin(o) ==
    /\ At(o, "begin")
    /\ ~ op[o].canceled
    /\ active' = active \cup {o}
    /\ named' = IF Kind(o) = "get" THEN [named EXCEPT ![o] = o] ELSE named
    /\ op' = [op EXCEPT ![o].pc = IF Kind(o) = "move" THEN "open" ELSE "lookup",
                        ![o].id = IF Kind(o) = "get" THEN o ELSE @]
    /\ UNCHANGED <<scene, network, stored, slots, served, sessions, waiters, caller, inbox>>

BeginFails(o) ==
    /\ At(o, "begin")
    /\ op[o].canceled \/ May("refuse")
    /\ Returns(o)

\* The control connection, and the peer by its label; the server is asked for the
\* members when the peer is not online.
Lookup(o) ==
    /\ At(o, "lookup")
    /\ conn.up
    /\ ~ op[o].canceled
    /\ op' = [op EXCEPT ![o].pc = IF online = None \/ Kind(o) \in Reads \cup Changes THEN "ask" ELSE "open",
                        ![o].conn = conn.n,
                        ![o].peer = IF Kind(o) \in Reads \cup Changes THEN None ELSE online]
    /\ UNCHANGED <<scene, network, stored, named, counts, sessions, waiters, caller, inbox>>

LookupFails(o) ==
    /\ At(o, "lookup")
    /\ op[o].canceled \/ ~ conn.up
    /\ Returns(o)

Current(o) == conn.up /\ op[o].conn = conn.n

\* requestControl: a waiter, if the connection has room for one, then the request.
Ask(o) ==
    /\ At(o, "ask")
    /\ IF ~ Current(o) \/ Cardinality(waiters) >= WaiterLimit THEN Returns(o)
       ELSE /\ waiters' = waiters \cup {o}
            /\ Goes(o, "members")
            /\ UNCHANGED <<scene, network, stored, named, counts, sessions, caller, inbox>>

\* The answer takes the waiter off; a peer is looked up again.
Answered(o) ==
    /\ At(o, "members")
    /\ o \in waiters
    /\ waiters' = waiters \ {o}
    /\ IF Kind(o) \in Reads \cup Changes THEN Leave(o, op[o])
       ELSE IF online = None THEN Leave(o, op[o])
       ELSE op' = [op EXCEPT ![o].pc = "open", ![o].peer = online]
    /\ UNCHANGED <<scene, network, stored, named, counts, sessions, caller, inbox>>

\* The request or its answer is given up: the caller is gone or the connection.
\* Whether a change was made is then unknown.
Unanswered(o) ==
    /\ At(o, "members")
    /\ op[o].canceled
    /\ waiters' = waiters \ {o}
    /\ Leave(o, IF Kind(o) \in Changes THEN [op[o] EXCEPT !.out = "unknown"] ELSE op[o])
    /\ UNCHANGED <<scene, network, stored, named, counts, sessions, caller, inbox>>

\* The session of the control connection the peer was found on.
Open(o) ==
    /\ At(o, "open")
    /\ Kind(o) # "move"
    /\ Current(o)
    /\ Cardinality(sessions) < SessionLimit
    /\ online = op[o].peer
    /\ sessions' = sessions \cup {o}
    /\ Goes(o, IF Kind(o) \in Prepared THEN "check" ELSE "connect")
    /\ UNCHANGED <<scene, network, stored, named, counts, waiters, caller, inbox>>

OpenFails(o) ==
    /\ At(o, "open")
    /\ Kind(o) # "move"
    /\ ~ Current(o) \/ Cardinality(sessions) >= SessionLimit \/ online # op[o].peer
    /\ Returns(o)

\* Mutant: only the label of the peer is compared.
CheckLabel(o) ==
    /\ At(o, "check")
    /\ Goes(o, IF Kind(o) = "putretry" THEN "run" ELSE "connect")
    /\ UNCHANGED <<scene, network, stored, named, counts, sessions, waiters, caller, inbox>>

\* Mutant: a retry that finds another device leaves its session open.
CheckLeaks(o) ==
    /\ At(o, "check")
    /\ IF op[o].peer # row[op[o].id].device
       THEN op' = [op EXCEPT ![o].pc = "unwind", ![o].undo = <<"active", "lease">>]
       ELSE Goes(o, IF Kind(o) = "putretry" THEN "run" ELSE "connect")
    /\ UNCHANGED <<scene, network, stored, named, counts, sessions, waiters, caller, inbox>>

\* A retry goes to the device its transfer was started with.
Check(o) ==
    /\ At(o, "check")
    /\ IF op[o].peer # row[op[o].id].device THEN Returns(o)
       ELSE /\ Goes(o, IF Kind(o) = "putretry" THEN "run" ELSE "connect")
            /\ UNCHANGED <<scene, network, stored, named, counts, sessions, waiters, caller, inbox>>

\* The retry of a put registers, unless the put is still registered.
RunRetry(o) ==
    /\ At(o, "run")
    /\ IF named[op[o].id] # None THEN Returns(o)
       ELSE /\ named' = [named EXCEPT ![op[o].id] = o]
            /\ Goes(o, "connect")
            /\ UNCHANGED <<scene, network, stored, counts, sessions, waiters, caller, inbox>>

-----------------------------------------------------------------------------
(***************************************************************************)
(* Sessions a peer opens.                                                  *)
(***************************************************************************)

\* The first signal of a session starts its goroutine.
Signal(o) ==
    /\ New(o)
    /\ conn.up
    /\ online # None
    /\ Cardinality(sessions) < SessionLimit
    /\ \E k \in scene.kinds \cap Incoming :
         op' = [op EXCEPT ![o] = [@ EXCEPT !.kind = k, !.peer = online, !.conn = conn.n,
                    !.pc = IF k \in Uncounted THEN "serve" ELSE "admit"]]
    /\ sessions' = sessions \cup {o}
    /\ UNCHANGED <<scene, network, stored, named, counts, waiters, caller, inbox>>

\* incomingState: the context is connected and allows the protocol.
Admit(o) ==
    /\ At(o, "admit")
    /\ ~ op[o].canceled
    /\ active' = active \cup {o}
    /\ Goes(o, "serve")
    /\ UNCHANGED <<scene, network, stored, named, slots, served, sessions, waiters, caller, inbox>>

AdmitFails(o) ==
    /\ At(o, "admit")
    /\ op[o].canceled \/ May("refuse")
    /\ Returns(o)

\* A transfer takes a slot of Manager.incoming, or is dropped.
Serve(o) ==
    /\ At(o, "serve")
    /\ IF Kind(o) \in Limited /\ Cardinality(served) >= IncomingLimit THEN Returns(o)
       ELSE /\ served' = IF Kind(o) \in Limited THEN served \cup {o} ELSE served
            /\ Goes(o, IF Kind(o) \in {"in send", "in put"} THEN "prepare" ELSE "connect")
            /\ UNCHANGED <<scene, network, stored, named, slots, active, sessions, waiters, caller, inbox>>

\* The inbox root of a send, the authority of a put.
Prepare(o) ==
    /\ At(o, "prepare")
    /\ Goes(o, "connect")
    /\ UNCHANGED <<scene, network, stored, named, counts, sessions, waiters, caller, inbox>>

\* On this path the code leaves the session registered.
PrepareFails(o) ==
    /\ At(o, "prepare")
    /\ May("unprepared")
    /\ Leave(o, [op[o] EXCEPT !.out = "unprepared"])
    /\ UNCHANGED <<scene, network, stored, named, counts, sessions, waiters, caller, inbox>>

-----------------------------------------------------------------------------
(***************************************************************************)
(* The direct session and what runs over it.                               *)
(***************************************************************************)

\* direct.Connect closes the signaler unless it is retained.
Connected(o, pc) ==
    /\ At(o, "connect")
    /\ sessions' = IF Kind(o) \in Retaining THEN sessions ELSE sessions \ {o}
    /\ Goes(o, pc)
    /\ UNCHANGED <<scene, network, stored, named, counts, waiters, caller, inbox>>

\* A new send goes on to store its transfer, a new put to submit it.
ConnectSend(o) ==
    /\ Kind(o) \in {"send", "fast", "retry"}
    /\ Connected(o, IF Kind(o) = "send" THEN "store" ELSE "work")

ConnectPut(o) ==
    /\ Kind(o) \in {"put", "putretry"}
    /\ Connected(o, IF Kind(o) = "put" THEN "submit" ELSE "work")

ConnectPeer(o) ==
    /\ Kind(o) \notin {"send", "fast", "retry", "put", "putretry"}
    /\ Connected(o, "work")

ConnectFails(o) ==
    /\ At(o, "connect")
    /\ Returns(o)

Fresh(i) == row[i] = NoRow /\ \A p \in Ops : op[p].id # i

\* A new row, with its lease.
Store(o) ==
    /\ At(o, "store")
    /\ ~ op[o].canceled
    /\ \E i \in Ids :
         /\ Fresh(i)
         /\ row' = [row EXCEPT ![i] = [kind |-> "send", device |-> op[o].peer]]
         /\ lease' = [lease EXCEPT ![i] = o]
         /\ op' = [op EXCEPT ![o].pc = "work", ![o].id = i]
    /\ UNCHANGED <<scene, network, named, counts, sessions, waiters, caller, inbox>>

\* The first event of a put registers it, before its row exists.
Submit(o) ==
    /\ At(o, "submit")
    /\ ~ op[o].canceled
    /\ \E i \in Ids :
         /\ Fresh(i)
         /\ named' = [named EXCEPT ![i] = o]
         /\ op' = [op EXCEPT ![o].pc = "reserve", ![o].id = i]
    /\ UNCHANGED <<scene, network, stored, counts, sessions, waiters, caller, inbox>>

Reserve(o) ==
    /\ At(o, "reserve")
    /\ ~ op[o].canceled
    /\ row' = [row EXCEPT ![op[o].id] = [kind |-> "put", device |-> op[o].peer]]
    /\ lease' = [lease EXCEPT ![op[o].id] = o]
    /\ Goes(o, "work")
    /\ UNCHANGED <<scene, network, named, counts, sessions, waiters, caller, inbox>>

StoreFails(o) ==
    /\ op[o].pc \in {"store", "submit", "reserve"}
    /\ Returns(o)

\* The protocol ends with a result of the peer: its transfer is settled, and the
\* last event of a stream is written.  Observations are only given to a peer
\* that is still present.
Finish(o) ==
    /\ At(o, "work")
    /\ Kind(o) = "in recent" => online = op[o].peer
    /\ Leave(o, [op[o] EXCEPT !.told = IF Kind(o) \in Streams /\ op[o].client THEN @ + 1 ELSE @])
    /\ row' = [i \in Ids |-> IF lease[i] = o THEN Gone ELSE row[i]]
    /\ UNCHANGED <<scene, network, lease, named, counts, sessions, waiters, caller, inbox>>

\* Or it fails: the transfer stays for a retry.
Fails(o) ==
    /\ At(o, "work")
    /\ Returns(o)

-----------------------------------------------------------------------------
(***************************************************************************)
(* Clients, the control connection and presence.                           *)
(***************************************************************************)

Begun(o) == op[o].pc \notin {"new", "unwind", "done"}

\* The client closes its request, or can no longer be written to.
ClientGone(o) ==
    /\ May("gone")
    /\ Begun(o)
    /\ Kind(o) \in Local
    /\ op[o].client
    /\ op' = [op EXCEPT ![o].client = FALSE, ![o].canceled = TRUE]
    /\ UNCHANGED <<scene, network, stored, named, counts, sessions, waiters, caller, inbox>>

Canceling(S) == [o \in Ops |-> IF o \in S THEN [op[o] EXCEPT !.canceled = TRUE] ELSE op[o]]

\* closeSessions and closeWaiters; the context of the connection ends.
ControlLost ==
    /\ May("lost")
    /\ conn.up
    /\ conn' = [conn EXCEPT !.up = FALSE]
    /\ online' = None
    /\ sessions' = {}
    /\ waiters' = {}
    /\ op' = Canceling({o \in Ops : Begun(o) /\ op[o].conn = conn.n})
    /\ UNCHANGED <<scene, stored, named, counts, caller, inbox>>

Reconnect ==
    /\ ~ conn.up
    /\ conn.n < MaxConnections
    /\ conn' = [n |-> conn.n + 1, up |-> TRUE]
    /\ online' \in Devices \cup {None}
    /\ UNCHANGED <<scene, stored, named, op, counts, sessions, waiters, caller, inbox>>

SessionsOf(d) == {o \in sessions : op[o].peer = d}

\* cancelPeerSessionsLocked: the contexts of the sessions of a device end, which
\* ends the operations bound to them.
CancelPeerSessions(d) ==
    /\ sessions' = sessions \ SessionsOf(d)
    /\ op' = Canceling({o \in SessionsOf(d) : Begun(o) /\ Kind(o) \in Bound})

\* A device comes online, perhaps under the label of another.
PeerJoins ==
    /\ May("presence")
    /\ conn.up
    /\ \E d \in Devices \ {online} : online' = d
    /\ CancelPeerSessions(online)
    /\ UNCHANGED <<scene, conn, stored, named, counts, waiters, caller, inbox>>

PeerLeaves ==
    /\ May("presence")
    /\ online # None
    /\ online' = None
    /\ CancelPeerSessions(online)
    /\ UNCHANGED <<scene, conn, stored, named, counts, waiters, caller, inbox>>

-----------------------------------------------------------------------------
(***************************************************************************)
(* Canceling and deleting a transfer.                                      *)
(***************************************************************************)

Held(i) == i \in Ids /\ lease[i] # None

\* ShowTransfer: the kind of an open transfer.
Shown(i) == IF i \in Ids THEN row[i].kind ELSE "none"

\* CancelTransfer first asks the recoverable sends.
CancelSend(i) ==
    /\ May("cancel")
    /\ caller.pc = "idle"
    /\ IF Held(i) /\ Shown(i) = "send"
       THEN /\ op' = Canceling({lease[i]})
            /\ UNCHANGED caller
       ELSE /\ caller' = [pc |-> "registry", id |-> i, what |-> "cancel"]
            /\ UNCHANGED op
    /\ UNCHANGED <<scene, network, stored, named, counts, sessions, waiters, inbox>>

\* Then the registered operations.
CancelNamed ==
    /\ caller.pc = "registry"
    /\ IF named[caller.id] # None
       THEN /\ op' = Canceling({named[caller.id]})
            /\ caller' = Idle
       ELSE /\ caller' = [caller EXCEPT !.pc = "row"]
            /\ UNCHANGED op
    /\ UNCHANGED <<scene, network, stored, named, counts, sessions, waiters, inbox>>

\* DeleteTransfer refuses a registered operation.
DeleteNamed(i) ==
    /\ May("delete")
    /\ caller.pc = "idle"
    /\ named[i] = None
    /\ caller' = [pc |-> "row", id |-> i, what |-> "delete"]
    /\ UNCHANGED <<scene, network, stored, named, op, counts, sessions, waiters, inbox>>

\* Mutant: Abandon does not look at the lease.
CloseRowAnyway ==
    /\ caller.pc = "row"
    /\ row' = IF Shown(caller.id) \in IF caller.what = "cancel" THEN {"put"} ELSE {"put", "send"}
              THEN [row EXCEPT ![caller.id] = Gone] ELSE row
    /\ caller' = Idle
    /\ UNCHANGED <<scene, network, lease, named, op, counts, sessions, waiters, inbox>>

\* A put is abandoned, and a deleted send removed, if no operation holds it.
CloseRow ==
    /\ caller.pc = "row"
    /\ row' = IF /\ ~ Held(caller.id)
                 /\ Shown(caller.id) \in IF caller.what = "cancel" THEN {"put"} ELSE {"put", "send"}
              THEN [row EXCEPT ![caller.id] = Gone] ELSE row
    /\ caller' = Idle
    /\ UNCHANGED <<scene, network, lease, named, op, counts, sessions, waiters, inbox>>

-----------------------------------------------------------------------------
(***************************************************************************)
(* Moving a file out of the inbox.                                         *)
(***************************************************************************)

\* lockInboxMove: a lock nobody refers to is made anew.
Lock(o) ==
    LET l == IF lockmap # 0 THEN lockmap
             ELSE CHOOSE g \in DOMAIN locks : \A p \in Ops : op[p].lock # g
    IN  /\ At(o, "lock")
        /\ lockmap' = l
        /\ locks' = [locks EXCEPT ![l].refs = @ + 1]
        /\ op' = [op EXCEPT ![o].pc = "token", ![o].lock = l]
        /\ UNCHANGED <<scene, network, stored, named, counts, sessions, waiters, caller,
                       entry, claims, moved, made, dropped>>

Token(o) ==
    /\ At(o, "token")
    /\ locks[op[o].lock].token
    /\ locks' = [locks EXCEPT ![op[o].lock].token = FALSE]
    /\ Goes(o, "begin")
    /\ UNCHANGED <<scene, network, stored, named, counts, sessions, waiters, caller,
                   lockmap, entry, claims, moved, made, dropped>>

TokenFails(o) ==
    /\ At(o, "token")
    /\ op[o].canceled
    /\ Returns(o)

OpenFile(o) ==
    /\ At(o, "open")
    /\ Kind(o) = "move"
    /\ IF entry = None THEN Returns(o)
       ELSE /\ op' = [op EXCEPT ![o].pc = "copy", ![o].file = entry]
            /\ UNCHANGED <<scene, network, stored, named, counts, sessions, waiters, caller, inbox>>

\* The copy fails when the entry is no longer the opened file.
Copy(o) ==
    /\ At(o, "copy")
    /\ IF op[o].canceled \/ entry # op[o].file THEN Returns(o)
       ELSE /\ Goes(o, "publish")
            /\ UNCHANGED <<scene, network, stored, named, counts, sessions, waiters, caller, inbox>>

\* The destination is published; with an error after it is visible, the source
\* stays.
Publish(o) ==
    /\ At(o, "publish")
    /\ moved' = moved \cup {<<o, op[o].file>>}
    /\ \/ op' = [op EXCEPT ![o].pc = "take", ![o].out = "published"]
       \/ Leave(o, [op[o] EXCEPT !.out = "retained"])
    /\ UNCHANGED <<scene, network, stored, named, counts, sessions, waiters, caller,
                   lockmap, locks, entry, claims, made, dropped>>

PublishFails(o) ==
    /\ At(o, "publish")
    /\ Returns(o)

\* Source.Remove looks at the entry once more.
Revalidate(o) ==
    /\ At(o, "take")
    /\ IF entry # op[o].file THEN Leave(o, [op[o] EXCEPT !.out = "retained"])
                             ELSE Goes(o, "rename")
    /\ UNCHANGED <<scene, network, stored, named, counts, sessions, waiters, caller, inbox>>

\* Whatever is at the entry by now moves into the claim directory.
Rename(o) ==
    /\ At(o, "rename")
    /\ IF entry = None
       THEN /\ Leave(o, [op[o] EXCEPT !.out = "retained"])
            /\ UNCHANGED <<entry, claims>>
       ELSE /\ Goes(o, "verify")
            /\ claims' = [claims EXCEPT ![o] = entry]
            /\ entry' = None
    /\ UNCHANGED <<scene, network, stored, named, counts, sessions, waiters, caller,
                   lockmap, locks, moved, made, dropped>>

\* Mutant: the claimed file is removed without a look at it.
VerifyBlind(o) ==
    /\ At(o, "verify")
    /\ claims' = [claims EXCEPT ![o] = None]
    /\ Leave(o, [op[o] EXCEPT !.out = "moved"])
    /\ UNCHANGED <<scene, network, stored, named, counts, sessions, waiters, caller,
                   lockmap, locks, entry, moved, made, dropped>>

\* The published file is removed, another one put back unless its place is
\* taken again.
Verify(o) ==
    /\ At(o, "verify")
    /\ \/ /\ claims[o] = op[o].file
          /\ \/ /\ claims' = [claims EXCEPT ![o] = None]
                /\ \E out \in {"moved", "uncertain"} : Leave(o, [op[o] EXCEPT !.out = out])
             \/ /\ UNCHANGED claims
                /\ Leave(o, [op[o] EXCEPT !.out = "uncertain"])
          /\ UNCHANGED entry
       \/ /\ claims[o] # op[o].file
          /\ entry = None
          /\ entry' = claims[o]
          /\ claims' = [claims EXCEPT ![o] = None]
          /\ Leave(o, [op[o] EXCEPT !.out = "retained"])
       \/ /\ claims[o] # op[o].file
          /\ entry # None
          /\ Leave(o, [op[o] EXCEPT !.out = "uncertain"])
          /\ UNCHANGED <<entry, claims>>
    /\ UNCHANGED <<scene, network, stored, named, counts, sessions, waiters, caller,
                   lockmap, locks, moved, made, dropped>>

\* A received file appears where there is none; the user replaces or deletes.
FileAppears ==
    /\ May("files")
    /\ \E f \in Files \ made :
         /\ entry' = f
         /\ made' = made \cup {f}
    /\ dropped' = dropped \cup ({entry} \ {None})
    /\ UNCHANGED <<scene, network, stored, named, op, counts, sessions, waiters, caller,
                   lockmap, locks, claims, moved>>

FileDeleted ==
    /\ May("files")
    /\ entry # None
    /\ dropped' = dropped \cup {entry}
    /\ entry' = None
    /\ UNCHANGED <<scene, network, stored, named, op, counts, sessions, waiters, caller,
                   lockmap, locks, claims, moved, made>>

-----------------------------------------------------------------------------

Next ==
    \/ \E o \in Ops :
         \/ ListOffered(o) \/ GetOffered(o) \/ SendContextFile(o) \/ PutContextFile(o)
         \/ RetryTransfer(o) \/ ListPeerRecent(o) \/ Ping(o) \/ Benchmark(o)
         \/ DiagnosePeer(o) \/ DirectRequest(o) \/ MoveInbox(o) \/ Signal(o)
         \/ PingServer(o) \/ ListMembers(o) \/ ApproveDevice(o)
         \/ Claim(o) \/ ClaimFails(o) \/ Begin(o) \/ BeginFails(o)
         \/ Lookup(o) \/ LookupFails(o) \/ Ask(o) \/ Answered(o) \/ Unanswered(o)
         \/ Open(o) \/ OpenFails(o) \/ Check(o) \/ RunRetry(o)
         \/ Admit(o) \/ AdmitFails(o) \/ Serve(o) \/ Prepare(o) \/ PrepareFails(o)
         \/ ConnectSend(o) \/ ConnectPut(o) \/ ConnectPeer(o) \/ ConnectFails(o)
         \/ Store(o) \/ Submit(o) \/ Reserve(o) \/ StoreFails(o)
         \/ Finish(o) \/ Fails(o) \/ Unwind(o) \/ Report(o) \/ ClientGone(o)
         \/ Lock(o) \/ Token(o) \/ TokenFails(o) \/ OpenFile(o) \/ Copy(o)
         \/ Publish(o) \/ PublishFails(o) \/ Revalidate(o) \/ Rename(o) \/ Verify(o)
    \/ ControlLost \/ Reconnect \/ PeerJoins \/ PeerLeaves
    \/ \E i \in Ids \cup Ops : CancelSend(i) \/ DeleteNamed(i)
    \/ CancelNamed \/ CloseRow
    \/ FileAppears \/ FileDeleted

Spec == Init /\ [][Next]_vars

-----------------------------------------------------------------------------

\* Types, and the capacities, which operations of different kinds use up together:
\* the slots of the API and for incoming transfers, the sessions of a connection
\* and the requests that wait on it.
TypeOK ==
    /\ scene \in Scenes
    /\ online \in Devices \cup {None}
    /\ \A i \in Ids : row[i].kind \in {"none", "send", "put", "gone"}
    /\ lease \in [Ids -> Ops \cup {None}]
    /\ named \in [Ids \cup Ops -> Ops \cup {None}]
    /\ \A o \in Ops : op[o].kind \in {"none"} \cup Local \cup Incoming
    /\ slots \cup active \cup served \cup sessions \cup waiters \subseteq Ops
    /\ Cardinality(slots) <= SlotLimit
    /\ Cardinality(served) <= IncomingLimit
    /\ Cardinality(sessions) <= SessionLimit
    /\ Cardinality(waiters) <= WaiterLimit
    /\ entry \in Files \cup {None}

\* An operation that has ended holds nothing, whichever of its steps failed and
\* whoever canceled it: no slot, no place in activeOperations, no lease, no
\* registration, no waiter and no session.  (An incoming send whose inbox root cannot be made
\* is the exception: its session stays until the connection ends.)
NothingLeft ==
    \A o \in Ops : At(o, "done") =>
        /\ o \notin slots \cup active \cup served \cup waiters
        /\ op[o].out # "unprepared" => o \notin sessions
        /\ \A i \in Ids : lease[i] # o
        /\ \A x \in Ids \cup Ops : named[x] # o
        /\ op[o].lock # 0 => locks[op[o].lock].refs = Cardinality({p \in Ops :
              op[p].lock = op[o].lock /\ op[p].pc # "done" /\
              (op[p].undo # <<>> \/ op[p].pc # "unwind")})

\* A retry only ever runs with the device its transfer was started with, though
\* it finds the peer by a label that another device may have taken.
RetryReachesItsPeer ==
    \A o \in Ops : Kind(o) \in Prepared /\ op[o].pc \in {"run", "connect", "work"} =>
        op[o].peer = row[op[o].id].device

\* An operation that can be canceled by its identifier is registered under it as
\* long as it runs: the end of an earlier operation with the same identifier
\* does not take the registration away.
CancelFindsIt ==
    \A o \in Ops :
        \/ Kind(o) = "get" /\ op[o].pc \in {"lookup", "ask", "members", "open", "connect", "work"}
        \/ Kind(o) = "put" /\ op[o].pc \in {"reserve", "work"}
        \/ Kind(o) = "putretry" /\ op[o].pc \in {"connect", "work"}
        => named[op[o].id] = o

\* A transfer that was abandoned or deleted is not being retried or sent: while
\* an operation runs on a stored transfer, its row is open.
AbandonedNeverRuns ==
    \A i \in Ids : lease[i] # None /\ Begun(lease[i]) => row[i].kind \in {"send", "put"}

\* A client that waits for its answer gets exactly one: an ended stream has one
\* last event, even when the operation fails after it was written.
OneAnswer ==
    \A o \in Ops : /\ op[o].told <= 1
                   /\ At(o, "done") /\ Kind(o) \in Local /\ op[o].client => op[o].told = 1

\* Observations are exchanged only with a peer that is present on the connection
\* the session was opened on; otherwise the exchange has been canceled.
PresenceBound ==
    \A o \in Ops : Kind(o) \in Bound /\ op[o].pc \in {"connect", "work"} /\ ~ op[o].canceled =>
        Current(o) /\ online = op[o].peer

\* No move loses a file: one that the user did not remove is in the inbox, in a
\* claim directory, or was published at a destination.
FilesKept ==
    \A f \in made \ dropped :
        \/ entry = f
        \/ \E o \in Ops : claims[o] = f \/ <<o, f>> \in moved

\* Two moves of one path do not both deliver the file: the second one starts
\* when the first has removed the source or answered that it may still be there.
DeliveredOnce ==
    \A m, n \in moved : m[2] = n[2] /\ m # n =>
        \E x \in {m, n} : op[x[1]].out \in {"retained", "uncertain"}

\* Resources stay within their limits, come back, and the client is answered.
EverythingReturned == TypeOK /\ NothingLeft /\ OneAnswer

\* An operation deals with the device it was meant for, as long as it is present.
RightPeer == RetryReachesItsPeer /\ PresenceBound

\* Canceling and deleting a transfer meet the operation that runs on it.
TransfersFound == CancelFindsIt /\ AbandonedNeverRuns

\* A file that is moved arrives, and arrives once.
FilesMoveOnce == FilesKept /\ DeliveredOnce

=============================================================================

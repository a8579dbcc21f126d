------------------------------ MODULE Rendezvous ------------------------------
(***************************************************************************)
(* The control plane between the rendezvous server and its agents: the     *)
(* presence hub and its clients (internal/rendezvousapi), the control      *)
(* connections, requests and signaling sessions of an agent                *)
(* (internal/contexts), and the presence stream a local program watches    *)
(* (internal/contextwatch).                                                *)
(*                                                                         *)
(* A connection has a server end (the goroutine of connect with its        *)
(* bounded queue and its writer) and an agent end (connectControl with its *)
(* control object).  Both ends outlive each other: the network breaks, the *)
(* writer falls behind, the agent goes away, and each end notices later.   *)
(* The writer and the network are not told apart: an event leaves the      *)
(* queue when the agent reads it, and what is not read when the connection *)
(* ends is lost.  The challenge, the credential and the proof are verified *)
(* by both ends before anything else happens and touch no shared state but *)
(* the membership that Authenticate reads.                                 *)
(***************************************************************************)
EXTENDS Naturals, Sequences, FiniteSets

CONSTANTS
    Devices,        \* enrolled devices
    Scenes,         \* bound of the model: what happens besides the connections
    QueueSize,      \* events a client's queue holds
    MaxOnline,      \* online sessions the hub admits
    MaxSessions,    \* direct sessions of a control connection
    WatchDepth,     \* events a watch stream holds besides its gap
    MaxConnections  \* bound of the model: connections ever made

ASSUME RendezvousConstants ==
    /\ Scenes \subseteq [watched : SUBSET Devices, signaling : SUBSET Devices,
                         approving : SUBSET Devices, revocable : SUBSET Devices,
                         closing : BOOLEAN]
    /\ \A n \in {QueueSize, MaxOnline, MaxSessions, WatchDepth, MaxConnections} :
          n \in Nat \ {0}

Conns == 1 .. MaxConnections

VARIABLES
    scene,      \* which devices are watched, used and revoked; the hub may close
    members,    \* "active" or "revoked", in the database
    pushing,    \* devices whose revocation is committed and not yet pushed
    closed,     \* the hub is shutting down
    clients,    \* the connection registered for each device, or 0
    server,     \* the server end of each connection
    agent,      \* the agent end of each connection
    current,    \* the connection each agent's worker is busy with, or 0
    stopped,    \* devices whose worker has stopped: it learned of its revocation
    request,    \* an approval a local program requests over a connection
    applied,    \* the server has carried it out
    watch       \* a local program's stream of one device's presence events

hub == <<closed, clients>>
database == <<scene, members, pushing>>
worker == <<current, stopped>>
approval == <<request, applied>>
vars == <<database, hub, server, agent, worker, approval, watch>>

\* phase: none, auth, proved, registered, serving, leaving, gone
\* live: its session has not been canceled
NoServer == [phase |-> "none", device |-> "none", live |-> FALSE, peers |-> {},
             send |-> <<>>]

\* state: none, waiting, live, closing, closed
\* open: the network still connects the two ends
NoAgent == [state |-> "none", open |-> FALSE, peers |-> {}, sessions |-> {}]

\* state: none, written, or its outcome; sent: it is under way to the server
NoRequest == [conn |-> 0, state |-> "none", sent |-> FALSE]

\* state: none, open, ended; seen: what the program has made of the events
NoWatch == [state |-> "none", device |-> "none", events |-> <<>>, seen |-> {}]
Offline == {"offline"}

Init ==
    /\ scene \in Scenes
    /\ members = [d \in Devices |-> "active"]
    /\ pushing = {}
    /\ closed = FALSE
    /\ clients = [d \in Devices |-> 0]
    /\ server = [k \in Conns |-> NoServer]
    /\ agent = [k \in Conns |-> NoAgent]
    /\ current = [d \in Devices |-> 0]
    /\ stopped = {}
    /\ request = NoRequest
    /\ applied = FALSE
    /\ watch = NoWatch

Online == {d \in Devices : clients[d] # 0}
DeviceOf(k) == server[k].device

Joined(d) == [type |-> "joined", device |-> d]
Left(d) == [type |-> "left", device |-> d]
Revoked == [type |-> "revoked"]
Authenticated(P) == [type |-> "authenticated", peers |-> P]
Signal(d, s) == [type |-> "signal", device |-> d, session |-> s]
Refusal == [type |-> "signal.error"]
Reply(ok) == [type |-> "reply", ok |-> ok]

-----------------------------------------------------------------------------
(***************************************************************************)
(* The hub.                                                                *)
(***************************************************************************)
Full(k) == Len(server[k].send) >= QueueSize

\* Mutant: an event that does not fit is dropped.
EnqueueOrDrop(ends, K, m) ==
    [k \in Conns |->
        IF k \notin K \/ Full(k) THEN ends[k] ELSE [ends[k] EXCEPT !.send = Append(@, m)]]

\* The server ends with m in the queues of K; a full queue cancels its session.
Enqueue(ends, K, m) ==
    [k \in Conns |->
        IF k \notin K THEN ends[k]
        ELSE IF Full(k) THEN [ends[k] EXCEPT !.live = FALSE]
        ELSE [ends[k] EXCEPT !.send = Append(@, m)]]

\* The server end e when its goroutines have ended.
Gone(e) == [NoServer EXCEPT !.phase = "gone", !.device = e.device]

\* Every client but the one of d.
Others(d) == {clients[e] : e \in Online \ {d}}

\* register, under the hub's lock: the list of peers, the map and the event.
Register(k) ==
    /\ server[k].phase = "proved"
    /\ LET d == DeviceOf(k)
           refused == closed \/ clients[d] # 0 \/ Cardinality(Online) >= MaxOnline
       IN  \/ /\ refused
              /\ server' = [server EXCEPT ![k] = Gone(@)]
              /\ UNCHANGED clients
           \/ /\ ~refused
              /\ clients' = [clients EXCEPT ![d] = k]
              /\ server' = Enqueue([server EXCEPT ![k].phase = "registered",
                                                  ![k].peers = Online],
                                   Others(d), Joined(d))
    /\ UNCHANGED <<database, closed, agent, worker, approval, watch>>

\* unregister, which only removes the client itself.
Unregister(k) ==
    /\ server[k].phase = "leaving"
    /\ LET d == DeviceOf(k)
           mine == clients[d] = k
       IN  /\ clients' = [clients EXCEPT ![d] = IF mine THEN 0 ELSE @]
           /\ server' = Enqueue([server EXCEPT ![k] = Gone(@)],
                                IF mine THEN Others(d) ELSE {}, Left(d))
    /\ UNCHANGED <<database, closed, agent, worker, approval, watch>>

\* Close, when the server shuts down.
CloseHub ==
    /\ ~closed
    /\ closed' = TRUE
    /\ server' = [k \in Conns |->
          IF \E d \in Online : clients[d] = k
          THEN [server[k] EXCEPT !.live = FALSE] ELSE server[k]]
    /\ UNCHANGED <<database, clients, agent, worker, approval, watch>>

\* The operator revokes a member: the database, and then the hub.
RevokeMember(d) ==
    /\ members[d] = "active"
    /\ members' = [members EXCEPT ![d] = "revoked"]
    /\ pushing' = pushing \cup {d}
    /\ UNCHANGED <<scene, hub, server, agent, worker, approval, watch>>

PushRevocation(d) ==
    /\ d \in pushing
    /\ pushing' = pushing \ {d}
    /\ server' = Enqueue(server, {clients[d]} \ {0}, Revoked)
    /\ UNCHANGED <<scene, members, hub, agent, worker, approval, watch>>

-----------------------------------------------------------------------------
(***************************************************************************)
(* The server end of a connection.                                         *)
(***************************************************************************)
MayConnect(d) == members[d] = "active"

\* The authentication arrives, and the membership is read once; or it does not.
Authenticate(k) ==
    /\ server[k].phase = "auth"
    /\ \/ /\ MayConnect(DeviceOf(k))
          /\ server' = [server EXCEPT ![k].phase = "proved"]
       \/ /\ ~MayConnect(DeviceOf(k)) \/ ~agent[k].open
          /\ server' = [server EXCEPT ![k] = Gone(@)]
    /\ UNCHANGED <<database, hub, agent, worker, approval, watch>>

\* What the client's goroutine does after it put something in its own queue.
Goes(k) == IF Full(k) THEN "leaving" ELSE "serving"

\* The client is told that it is authenticated after it can receive events.
SendAuthenticated(k) ==
    /\ server[k].phase = "registered"
    /\ server' = [Enqueue(server, {k}, Authenticated(server[k].peers)) EXCEPT
                    ![k].phase = Goes(k), ![k].peers = {}]
    /\ UNCHANGED <<database, hub, agent, worker, approval, watch>>

\* The writer finds the connection broken.
WriteFails(k) ==
    /\ server[k].live
    /\ server[k].send # <<>>
    /\ ~agent[k].open
    /\ server' = [server EXCEPT ![k].live = FALSE]
    /\ UNCHANGED <<database, hub, agent, worker, approval, watch>>

\* The reader of the connection ends, because it is canceled or broken.
StopServing(k) ==
    /\ server[k].phase = "serving"
    /\ ~(server[k].live /\ agent[k].open)
    /\ server' = [server EXCEPT ![k].phase = "leaving"]
    /\ UNCHANGED <<database, hub, agent, worker, approval, watch>>

\* handleMemberMessage: an approval is carried out or refused.
HandleApproval(k) ==
    /\ server[k].phase = "serving"
    /\ request.conn = k /\ request.sent /\ agent[k].open
    /\ request' = [request EXCEPT !.sent = FALSE]
    /\ \E ok \in BOOLEAN :
          /\ applied' = ok
          /\ server' = [Enqueue(server, {k}, Reply(ok)) EXCEPT ![k].phase = Goes(k)]
    /\ UNCHANGED <<database, hub, agent, worker, watch>>

\* A signal of an agent's session is forwarded to the peer; one that cannot be
\* is answered with an error.
ForwardSignal(k, s) ==
    /\ server[k].phase = "serving"
    /\ agent[k].open /\ agent[k].state = "live"
    /\ s \in agent[k].sessions
    /\ LET to == {clients[s.peer]} \ {0}
           sent == Enqueue(server, to, Signal(DeviceOf(k), s.id))
       IN  \/ /\ \E t \in to : ~Full(t)
              /\ server' = sent
           \/ /\ \A t \in to : Full(t)
              /\ server' = [Enqueue(sent, {k}, Refusal) EXCEPT ![k].phase = Goes(k)]
    /\ UNCHANGED <<database, hub, agent, worker, approval, watch>>

-----------------------------------------------------------------------------
(***************************************************************************)
(* The watch stream: events of the device's presence projection, which is  *)
(* Offline or the set of peers it sees.                                    *)
(***************************************************************************)
Projection(d) ==
    LET k == current[d] IN
    IF k # 0 /\ agent[k].state \in {"live", "closing"} THEN agent[k].peers ELSE Offline

Connected(P) ==
    IF P = Offline THEN [type |-> "disconnected"] ELSE [type |-> "connected", peers |-> P]

\* What the program holds once it has read e.
Apply(seen, e) ==
    CASE e.type = "connected" -> e.peers
      [] e.type = "disconnected" -> Offline
      [] e.type = "online" -> seen \cup {e.device}
      [] e.type = "offline" -> seen \ {e.device}
      [] e.type = "gap" -> seen

\* The stream with the event e of device d published: a full one ends.
Published(d, e) ==
    IF watch.state # "open" \/ watch.device # d THEN watch
    ELSE IF Len(watch.events) < WatchDepth
         THEN [watch EXCEPT !.events = Append(@, e)]
         ELSE [watch EXCEPT !.events = Append(@, [type |-> "gap"]), !.state = "ended"]

\* What Join and Leave publish when a peer of d's agent comes or goes.
Join(d, p) ==
    IF p \in Projection(d) THEN watch ELSE Published(d, [type |-> "online", device |-> p])
Leave(d, p) ==
    IF p \notin Projection(d) THEN watch ELSE Published(d, [type |-> "offline", device |-> p])

Subscribe(d) ==
    /\ watch.state = "none"
    /\ watch' = [NoWatch EXCEPT !.state = "open", !.device = d,
                                !.events = <<Connected(Projection(d))>>]
    /\ UNCHANGED <<database, hub, server, agent, worker, approval>>

ReadEvent ==
    /\ watch.events # <<>>
    /\ watch' = [watch EXCEPT !.seen = Apply(@, Head(watch.events)), !.events = Tail(@)]
    /\ UNCHANGED <<database, hub, server, agent, worker, approval>>

Unsubscribe ==
    /\ watch.state # "none"
    /\ watch' = NoWatch
    /\ UNCHANGED <<database, hub, server, agent, worker, approval>>

-----------------------------------------------------------------------------
(***************************************************************************)
(* The agent end of a connection.                                          *)
(***************************************************************************)
Unused == {k \in Conns : server[k].phase = "none"}

\* The worker of a context connects and authenticates.
Dial(d) ==
    /\ current[d] = 0
    /\ d \notin stopped
    /\ Unused # {}
    /\ LET k == CHOOSE j \in Unused : \A i \in Unused : j <= i IN
          /\ server' = [server EXCEPT ![k] = [NoServer EXCEPT !.phase = "auth",
                                                  !.device = d, !.live = TRUE]]
          /\ agent' = [agent EXCEPT ![k] = [NoAgent EXCEPT !.state = "waiting", !.open = TRUE]]
          /\ current' = [current EXCEPT ![d] = k]
    /\ UNCHANGED <<database, hub, stopped, approval, watch>>

BreakNetwork(k) ==
    /\ agent[k].open
    /\ agent' = [agent EXCEPT ![k].open = FALSE]
    /\ UNCHANGED <<database, hub, server, worker, approval, watch>>

\* The writer has an event for the agent, which takes it off the queue; after
\* a revocation the server ends the session.
Arrived(k) == agent[k].open /\ server[k].live /\ server[k].send # <<>>
Event(k) == Head(server[k].send)
Taken(k) == [server EXCEPT ![k].send = Tail(@), ![k].live = Event(k) # Revoked]

\* The agent end k is live with the peers it was told of.
GoLive(k) ==
    LET P == Event(k).peers IN
    /\ agent' = [agent EXCEPT ![k].state = "live", ![k].peers = P]
    /\ watch' = Published(DeviceOf(k), Connected(P))
    /\ UNCHANGED current

\* The first message has to be the authentication, or the agent hangs up.
FirstMessage(k) ==
    /\ agent[k].state = "waiting"
    /\ Arrived(k)
    /\ server' = Taken(k)
    /\ \/ Event(k).type = "authenticated" /\ GoLive(k)
       \/ /\ Event(k).type # "authenticated"
          /\ agent' = [agent EXCEPT ![k].state = "closed", ![k].open = FALSE]
          /\ current' = [current EXCEPT ![DeviceOf(k)] = 0]
          /\ UNCHANGED watch
    /\ UNCHANGED <<database, hub, stopped, approval>>

\* Nothing more arrives.
Lost(k) == ~(agent[k].open /\ server[k].live)

\* The connection is refused or lost before it is authenticated.
DialFails(k) ==
    /\ agent[k].state = "waiting"
    /\ Lost(k)
    /\ agent' = [agent EXCEPT ![k].state = "closed", ![k].open = FALSE]
    /\ current' = [current EXCEPT ![DeviceOf(k)] = 0]
    /\ UNCHANGED <<database, hub, server, stopped, approval, watch>>

\* The agent end once d has left: its sessions are canceled.
WithoutPeer(a, d) ==
    [a EXCEPT !.peers = @ \ {d}, !.sessions = {s \in @ : s.peer # d}]

\* A signal opens a session with a peer, unless there are too many.
WithSignal(a, d, s) ==
    IF d \in a.peers /\ Cardinality(a.sessions) < MaxSessions
    THEN [a EXCEPT !.sessions = @ \cup {[id |-> s, peer |-> d]}] ELSE a

\* The presence events of handleData, and what they publish.
ReadPresence(k) ==
    LET m == Event(k)  d == DeviceOf(k) IN
    /\ \/ /\ m.type = "joined"
          /\ agent' = [agent EXCEPT ![k].peers = @ \cup {m.device}]
          /\ watch' = Join(d, m.device)
       \/ /\ m.type = "left"
          /\ agent' = [agent EXCEPT ![k] = WithoutPeer(@, m.device)]
          /\ watch' = Leave(d, m.device)
    /\ UNCHANGED <<request, stopped>>

\* A reply ends the request that waits for it.
ReadReply(k) ==
    /\ Event(k).type = "reply"
    /\ request' = IF request.state = "written"
                  THEN [request EXCEPT !.state = IF Event(k).ok THEN "done" ELSE "rejected"]
                  ELSE request
    /\ UNCHANGED <<agent, watch, stopped>>

ReadSignal(k) ==
    /\ Event(k).type \in {"signal", "signal.error"}
    /\ agent' = IF Event(k) = Refusal THEN agent
                ELSE [agent EXCEPT ![k] = WithSignal(@, Event(k).device, Event(k).session)]
    /\ UNCHANGED <<watch, request, stopped>>

\* The agent stops for good.
ReadRevoked(k) ==
    /\ Event(k) = Revoked
    /\ agent' = [agent EXCEPT ![k].state = "closing", ![k].open = FALSE]
    /\ stopped' = stopped \cup {DeviceOf(k)}
    /\ UNCHANGED <<watch, request>>

ReadMessage(k) ==
    /\ agent[k].state = "live"
    /\ Arrived(k)
    /\ server' = Taken(k)
    /\ ReadPresence(k) \/ ReadReply(k) \/ ReadSignal(k) \/ ReadRevoked(k)
    /\ UNCHANGED <<database, hub, current, applied>>

\* The control context is canceled: the read or the keepalive failed.
LoseControl(k) ==
    /\ agent[k].state = "live"
    /\ Lost(k)
    /\ agent' = [agent EXCEPT ![k].state = "closing", ![k].open = FALSE]
    /\ UNCHANGED <<database, hub, server, worker, approval, watch>>

\* Its sessions and requests are ended, and the watch is told.
CloseControl(k) ==
    /\ agent[k].state = "closing"
    /\ agent' = [agent EXCEPT ![k].state = "closed", ![k].sessions = {}]
    /\ request' = IF request.conn = k /\ request.state = "written"
                  THEN [request EXCEPT !.state = "unknown"] ELSE request
    /\ current' = [current EXCEPT ![DeviceOf(k)] = 0]
    /\ watch' = Published(DeviceOf(k), Connected(Offline))
    /\ UNCHANGED <<database, hub, server, stopped, applied>>

(***************************************************************************)
(* Local programs use a control connection they looked up before: it may   *)
(* have ended since.                                                       *)
(***************************************************************************)
\* Mutant: the control connection is not asked whether it has ended.
CanOpenStale(k, p) ==
    /\ agent[k].state \in {"live", "closing", "closed"}
    /\ Cardinality(agent[k].sessions) < MaxSessions
    /\ p \in agent[k].peers

\* openSignaler
CanOpen(k, p) ==
    /\ agent[k].state = "live"
    /\ Cardinality(agent[k].sessions) < MaxSessions
    /\ p \in agent[k].peers

OpenSession(k, p) ==
    /\ CanOpen(k, p)
    /\ agent' = [agent EXCEPT ![k].sessions = @ \cup {[id |-> k, peer |-> p]}]
    /\ UNCHANGED <<database, hub, server, worker, approval, watch>>

CloseSession(k, s) ==
    /\ s \in agent[k].sessions
    /\ agent' = [agent EXCEPT ![k].sessions = @ \ {s}]
    /\ UNCHANGED <<database, hub, server, worker, approval, watch>>

\* Mutant: a request whose write failed was not sent.
FailedWriteUnsent == "unsent"

\* A write that was attempted may have arrived, whatever it returned.
FailedWrite == "unknown"

\* requestControl, up to the wait for the response.
Request(k) ==
    /\ agent[k].state = "live"
    /\ request = NoRequest
    /\ \E r \in {"written", FailedWrite}, arrives \in BOOLEAN :
          request' = [conn |-> k, state |-> r, sent |-> arrives /\ agent[k].open]
    /\ UNCHANGED <<database, hub, server, agent, worker, applied, watch>>

\* The caller gives up, before the write or while it waits.
GiveUp(k) ==
    /\ agent[k].state = "live"
    /\ \/ /\ request = NoRequest
          /\ request' = [conn |-> k, state |-> "unsent", sent |-> FALSE]
       \/ /\ request.conn = k /\ request.state = "written"
          /\ request' = [request EXCEPT !.state = "unknown"]
    /\ UNCHANGED <<database, hub, server, agent, worker, applied, watch>>

-----------------------------------------------------------------------------
ServerStep(k) ==
    \/ Authenticate(k) \/ Register(k) \/ SendAuthenticated(k) \/ WriteFails(k)
    \/ HandleApproval(k) \/ StopServing(k) \/ Unregister(k)
    \/ \E s \in agent[k].sessions : ForwardSignal(k, s)

AgentStep(k) ==
    \/ FirstMessage(k) \/ DialFails(k) \/ ReadMessage(k) \/ LoseControl(k)
    \/ CloseControl(k)
    \/ \E s \in agent[k].sessions : CloseSession(k, s)

LocalProgram(k) ==
    \/ /\ DeviceOf(k) \in scene.signaling
       /\ \E p \in Devices : OpenSession(k, p)
    \/ /\ DeviceOf(k) \in scene.approving
       /\ Request(k) \/ GiveUp(k)

Next ==
    \/ \E k \in Conns : ServerStep(k) \/ AgentStep(k) \/ LocalProgram(k) \/ BreakNetwork(k)
    \/ \E d \in Devices : Dial(d) \/ PushRevocation(d)
    \/ \E d \in scene.revocable : RevokeMember(d)
    \/ \E d \in scene.watched : Subscribe(d)
    \/ scene.closing /\ CloseHub
    \/ ReadEvent \/ Unsubscribe

Spec == Init /\ [][Next]_vars

-----------------------------------------------------------------------------
(***************************************************************************)
(* Properties.                                                             *)
(***************************************************************************)

TypeOK ==
    /\ members \in [Devices -> {"active", "revoked"}]
    /\ pushing \subseteq Devices /\ stopped \subseteq Devices /\ applied \in BOOLEAN
    /\ clients \in [Devices -> Conns \cup {0}]
    /\ current \in [Devices -> Conns \cup {0}]
    /\ \A k \in Conns :
          /\ server[k].phase \in {"none", "auth", "proved", "registered", "serving", "leaving", "gone"}
          /\ Len(server[k].send) <= QueueSize
          /\ agent[k].state \in {"none", "waiting", "live", "closing", "closed"}
          /\ agent[k].peers \subseteq Devices
          /\ Cardinality(agent[k].sessions) <= MaxSessions
    /\ request.state \in {"none", "written", "done", "rejected", "unknown", "unsent"}
    /\ Len(watch.events) <= WatchDepth + 1

\* Whether the event m says anything about device d, and whether it says d is online.
Mentions(m, d) ==
    m.type = "authenticated" \/ (m.type \in {"joined", "left"} /\ m.device = d)
Says(m, d) == IF m.type = "authenticated" THEN d \in m.peers ELSE m.type = "joined"

\* The peers an agent that sees P will see once it has read the events q: the last one
\* that mentions a device counts.
Foreseen(P, q) ==
    {d \in Devices :
        \/ d \in P /\ \A i \in DOMAIN q : ~Mentions(q[i], d)
        \/ \E i \in DOMAIN q :
              /\ Mentions(q[i], d) /\ Says(q[i], d)
              /\ \A j \in DOMAIN q : j > i => ~Mentions(q[j], d)}

\* Presence is never silently wrong: what a connected agent sees, with the
\* events under way to it, is who is online.  An event that cannot be delivered
\* ends the connection instead (hub.go enqueue), and an event that arrives
\* before the list of peers makes the agent connect again.
PresenceTrue ==
    \A k \in Conns :
        /\ server[k].phase = "serving" /\ server[k].live /\ agent[k].open
        /\ \/ agent[k].state = "live"
           \/ agent[k].state = "waiting" /\ Event(k).type = "authenticated"
        => Foreseen(agent[k].peers, server[k].send) = Online \ {DeviceOf(k)}

\* A direct session is always with a peer its agent sees online, on a control
\* connection that has not ended: presence.left and the end of the connection
\* cancel it, also when it was being opened at that moment.
SessionsWithPeers ==
    \A k \in Conns :
        /\ agent[k].state = "closed" => agent[k].sessions = {}
        /\ \A s \in agent[k].sessions : s.peer \in agent[k].peers

\* An approval that was reported as refused or as not sent was not carried out
\* and never will be; one that is reported as done was.  Everything else is
\* reported as unknown (manager.go requestControl).
OutcomesTrue ==
    /\ request.state = "done" => applied
    /\ request.state \in {"rejected", "unsent"} => ~applied /\ ~request.sent

\* The entry of a device in the hub belongs to a connection of that device that
\* is not over, and every connection that is served has its entry: a device is
\* online once, and is never left online by a connection that ended.
RegisteredIsServed ==
    \A k \in Conns, d \in Devices :
        clients[d] = k <=>
            DeviceOf(k) = d /\ server[k].phase \in {"registered", "serving", "leaving"}

\* The same for the events of a watch stream, which also say that the device is offline.
Tells(e, x) == e.type \in {"connected", "disconnected"} \/ (e.type # "gap" /\ e.device = x)
Told(e, x) ==
    CASE e.type = "connected" -> x \in e.peers
      [] e.type = "disconnected" -> x \in Offline
      [] OTHER -> e.type = "online"

Expected(seen, q) ==
    {x \in Devices \cup Offline :
        \/ x \in seen /\ \A i \in DOMAIN q : ~Tells(q[i], x)
        \/ \E i \in DOMAIN q :
              /\ Tells(q[i], x) /\ Told(q[i], x)
              /\ \A j \in DOMAIN q : j > i => ~Tells(q[j], x)}

\* A program that watches a device holds, with the events in its stream, what
\* the agent's projection is; a stream that cannot hold an event ends with a gap.
WatchTrue ==
    watch.state = "open"
        => Expected(watch.seen, watch.events) = Projection(watch.device)

\* The hub, the agents and the programs that watch agree on who is online, but
\* for the events under way.
ViewsTrue == TypeOK /\ RegisteredIsServed /\ PresenceTrue /\ WatchTrue

=============================================================================

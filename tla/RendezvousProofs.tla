-------------------------- MODULE RendezvousProofs --------------------------
(***************************************************************************)
(* Proofs about Rendezvous, for any devices, scenes, queue sizes, limits   *)
(* and number of connections that satisfy RendezvousConstants.             *)
(*                                                                         *)
(* The types say what may be in a queue: a reply only once the request it  *)
(* answers has been handled, with the outcome the database has (Replies).  *)
(* EndsInv relates the two ends of a connection, the hub's map and the     *)
(* agent's worker; PresenceInv follows a connection from its registration  *)
(* on, through the authentication that carries the peers of that moment.   *)
(***************************************************************************)
EXTENDS Rendezvous, FiniteSetTheorems, SequenceTheorems, WellFoundedInduction,
        TLAPS

Phases == {"none", "auth", "proved", "registered", "serving", "leaving", "gone"}
States == {"none", "waiting", "live", "closing", "closed"}

\* Events other than replies.
Plain ==
    {Joined(d) : d \in Devices} \cup {Left(d) : d \in Devices} \cup {Revoked, Refusal}
        \cup {Authenticated(P) : P \in SUBSET Devices}
        \cup {Signal(d, i) : d \in Devices, i \in Conns}

\* The replies that may be under way.
Replies ==
    IF ~request.sent /\ request.state \notin {"none", "unsent"} THEN {Reply(applied)} ELSE {}

Ends(S) ==
    [phase : Phases, device : Devices \cup {"none"}, live : BOOLEAN, peers : SUBSET Devices,
     send : Seq(S)]
Sessions == [id : Conns, peer : Devices]
AgentEnds ==
    [state : States, open : BOOLEAN, peers : SUBSET Devices, sessions : SUBSET Sessions]
WatchEvents ==
    [type : {"connected"}, peers : SUBSET (Devices \cup Offline)]
        \cup [type : {"disconnected", "gap"}]
        \cup [type : {"online", "offline"}, device : Devices]

DatabaseType ==
    scene \in Scenes /\ members \in [Devices -> {"active", "revoked"}]
      /\ pushing \subseteq Devices
HubType == closed \in BOOLEAN /\ clients \in [Devices -> Conns \cup {0}]
ServerType == server \in [Conns -> Ends(Plain \cup Replies)]
AgentType == agent \in [Conns -> AgentEnds]
WorkerType == current \in [Devices -> Conns \cup {0}] /\ stopped \subseteq Devices
ApprovalType ==
    /\ request \in [conn : Conns \cup {0}, sent : BOOLEAN,
                    state : {"none", "written", "done", "rejected", "unknown", "unsent"}]
    /\ applied \in BOOLEAN
WatchType ==
    watch \in [state : {"none", "open", "ended"}, device : Devices \cup {"none"},
               events : Seq(WatchEvents), seen : SUBSET (Devices \cup Offline)]

Types ==
    /\ DatabaseType /\ HubType /\ ServerType /\ AgentType /\ WorkerType /\ ApprovalType
    /\ WatchType

\* The queues, the sessions and the stream stay within their capacities.
QueuesBounded == \A k \in Conns : Len(server[k].send) <= QueueSize
SessionsBounded ==
    \A k \in Conns :
        IsFiniteSet(agent[k].sessions) /\ Cardinality(agent[k].sessions) <= MaxSessions
WatchBounded ==
    /\ Len(watch.events) <= WatchDepth + 1
    /\ watch.state = "open" => watch.device \in Devices /\ Len(watch.events) <= WatchDepth

Bounds == QueuesBounded /\ SessionsBounded /\ WatchBounded

\* A connection that was made has a device.
MadeHasDevice ==
    \A k \in Conns :
        /\ server[k].phase = "none" <=> agent[k].state = "none"
        /\ server[k].phase # "none" => server[k].device \in Devices

\* An agent's worker is busy with the connection that has not ended.
CurrentIsOpen ==
    /\ \A k \in Conns :
          agent[k].state \in {"waiting", "live", "closing"} => current[DeviceOf(k)] = k
    /\ \A d \in Devices : current[d] # 0 => DeviceOf(current[d]) = d
         /\ agent[current[d]].state # "none"

\* Only a live connection, or one that is just closing, has sessions.
SessionsInv ==
    \A k \in Conns :
        /\ agent[k].state \in {"none", "waiting", "closed"} => agent[k].sessions = {}
        /\ \A s \in agent[k].sessions : s.peer \in agent[k].peers

\* What the server has carried out and what the requester was told.
RequestInv ==
    /\ request.state \in {"none", "unsent"} => ~applied
    /\ request.sent => ~applied
    /\ request.state \in {"none", "unsent", "done", "rejected"} => ~request.sent
    /\ request.state = "done" => applied
    /\ request.state = "rejected" => ~applied

EndsInv == MadeHasDevice /\ CurrentIsOpen /\ SessionsInv /\ RequestInv /\ RegisteredIsServed

NoAuthentication(q) == \A i \in DOMAIN q : q[i].type # "authenticated"

\* Before it is served a connection has not been told of its authentication.
NotYetTold ==
    \A k \in Conns :
        /\ server[k].phase \in {"auth", "proved"} => server[k].send = <<>>
        /\ server[k].phase \in {"auth", "proved", "registered"}
              => agent[k].state \in {"waiting", "closed"} /\ NoAuthentication(server[k].send)

\* The list of peers a registered connection is about to send is right while no
\* event has overtaken it.
ListIsTrue ==
    \A k \in Conns :
        /\ server[k].phase = "registered" /\ server[k].live /\ agent[k].open
        /\ agent[k].state = "waiting" /\ server[k].send = <<>>
        => server[k].peers = Online \ {DeviceOf(k)}

\* A served connection that waits has something to read.
WaitsForSomething ==
    \A k \in Conns :
        /\ server[k].phase = "serving" /\ server[k].live /\ agent[k].open
        /\ agent[k].state = "waiting"
        => server[k].send # <<>>

PresenceInv ==
    NotYetTold /\ ListIsTrue /\ WaitsForSomething /\ PresenceTrue /\ WatchTrue

Inv == Types /\ Bounds /\ EndsInv /\ PresenceInv

(***************************************************************************)
(* Events.                                                                 *)
(***************************************************************************)
\* Connections are numbered from 1.
LEMMA ConnFacts ==
    Conns \subseteq Nat /\ 0 \notin Conns
  BY RendezvousConstants DEF Conns

\* What an event carries follows from its type.
LEMMA EventFacts ==
    ASSUME NEW m \in Plain \cup Replies
    PROVE  /\ m.type \in {"joined", "left", "revoked", "signal.error", "authenticated",
                           "signal", "reply"}
           /\ m.type \in {"joined", "left", "signal"} => m.device \in Devices
           /\ m.type = "authenticated" => m.peers \subseteq Devices
           /\ m.type = "signal" => m.session \in Conns
           /\ m.type = "reply" => m.ok = applied /\ m \in Replies
           /\ m.type = "revoked" <=> m = Revoked
           /\ m.type = "signal.error" <=> m = Refusal
  BY DEF Plain, Replies, Joined, Left, Revoked, Refusal, Authenticated, Signal, Reply

\* The events the hub builds.
LEMMA EventTypes ==
    /\ \A d \in Devices : Joined(d) \in Plain /\ Left(d) \in Plain
    /\ Revoked \in Plain /\ Refusal \in Plain
    /\ \A P \in SUBSET Devices : Authenticated(P) \in Plain
    /\ \A d \in Devices, i \in Conns : Signal(d, i) \in Plain
  BY DEF Plain

\* What Enqueue does to each end.
LEMMA EnqueueEffect ==
    ASSUME NEW S, NEW ends \in [Conns -> Ends(S)], NEW K, NEW m \in S
    PROVE  LET E == Enqueue(ends, K, m) IN
           /\ E \in [Conns -> Ends(S)]
           /\ \A k \in Conns :
                /\ E[k].phase = ends[k].phase
                /\ E[k].device = ends[k].device
                /\ E[k].peers = ends[k].peers
                /\ E[k].live => ends[k].live
                /\ k \notin K => E[k] = ends[k]
                /\ k \in K /\ Full(k) => ~E[k].live /\ E[k].send = ends[k].send
                /\ k \in K /\ ~Full(k) => E[k].send = Append(ends[k].send, m)
                     /\ E[k].live = ends[k].live
  <1> DEFINE E == Enqueue(ends, K, m)
  <1>1. ASSUME NEW k \in Conns
        PROVE  /\ E[k] \in Ends(S)
               /\ E[k].phase = ends[k].phase
               /\ E[k].device = ends[k].device
               /\ E[k].peers = ends[k].peers
               /\ E[k].live => ends[k].live
               /\ k \notin K => E[k] = ends[k]
               /\ k \in K /\ Full(k) => ~E[k].live /\ E[k].send = ends[k].send
               /\ k \in K /\ ~Full(k) => E[k].send = Append(ends[k].send, m)
                    /\ E[k].live = ends[k].live
    <2>1. ends[k] \in Ends(S) /\ Append(ends[k].send, m) \in Seq(S)
      BY <1>1 DEF Ends
    <2>2. E[k] = IF k \notin K THEN ends[k]
                 ELSE IF Full(k) THEN [ends[k] EXCEPT !.live = FALSE]
                 ELSE [ends[k] EXCEPT !.send = Append(@, m)]
      BY <1>1 DEF Enqueue
    <2> HIDE DEF E
    <2>3. CASE k \notin K
      BY <2>1, <2>2, <2>3
    <2>4. CASE k \in K /\ Full(k)
      BY <2>1, <2>2, <2>4 DEF Ends
    <2>5. CASE k \in K /\ ~Full(k)
      BY <2>1, <2>2, <2>5 DEF Ends
    <2> QED
      BY <2>3, <2>4, <2>5
  <1>2. E \in [Conns -> Ends(S)]
    <2>1. E = [k \in Conns |-> E[k]]
      BY DEF Enqueue
    <2> HIDE DEF E
    <2> QED
      BY <1>1, <2>1
  <1> QED
    BY <1>1, <1>2

(***************************************************************************)
(* What is foreseen after an event is added and after one is read.         *)
(***************************************************************************)
LEMMA ForeseenEmpty ==
    ASSUME NEW P \in SUBSET Devices
    PROVE  Foreseen(P, <<>>) = P
  BY DEF Foreseen

\* An event at the end of the queue overrides what the queue said of the devices it mentions.
LEMMA ForeseenAppend ==
    ASSUME NEW P, NEW S, NEW q \in Seq(S), NEW m \in S
    PROVE  /\ Foreseen(P, Append(q, m)) \subseteq Devices
           /\ \A d \in Devices : d \in Foreseen(P, Append(q, m))
                <=> IF Mentions(m, d) THEN Says(m, d) ELSE d \in Foreseen(P, q)
  <1> DEFINE a == Append(q, m)
  <1>1. /\ DOMAIN a = 1 .. Len(q) + 1 /\ DOMAIN q = 1 .. Len(q) /\ Len(q) \in Nat
        /\ a[Len(q) + 1] = m /\ \A i \in 1 .. Len(q) : a[i] = q[i]
    OBVIOUS
  <1> HIDE DEF a
  <1>2. ASSUME NEW d \in Devices
        PROVE  d \in Foreseen(P, a) <=> IF Mentions(m, d) THEN Says(m, d)
                 ELSE d \in Foreseen(P, q)
    <2>1. CASE Mentions(m, d)
      BY <1>1, <2>1 DEF Foreseen
    <2>2. CASE ~Mentions(m, d)
      BY <1>1, <2>2 DEF Foreseen
    <2> QED
      BY <2>1, <2>2
  <1> QED
    BY <1>2 DEF a, Foreseen

\* Reading the first event does not change what is foreseen.
LEMMA ForeseenTail ==
    ASSUME NEW P, NEW S, NEW q \in Seq(S), q # <<>>, NEW R,
           \A d \in Devices : d \in R <=> IF Mentions(Head(q), d) THEN Says(Head(q), d)
             ELSE d \in P
    PROVE  Foreseen(R, Tail(q)) = Foreseen(P, q)
  <1> DEFINE t == Tail(q)  n == Len(q)
  <1>1. /\ n \in Nat \ {0} /\ DOMAIN q = 1 .. n /\ DOMAIN t = 1 .. n - 1
        /\ Head(q) = q[1] /\ \A i \in 1 .. n - 1 : t[i] = q[i + 1]
    OBVIOUS
  <1> HIDE DEF t, n
  <1>2. \A i \in DOMAIN q : i = 1 \/ (i - 1 \in DOMAIN t /\ q[i] = t[i - 1])
    BY <1>1
  <1>3. \A i \in DOMAIN t : i + 1 \in DOMAIN q /\ t[i] = q[i + 1] /\ i \in Nat
    BY <1>1
  <1>4. ASSUME NEW d \in Devices
        PROVE  d \in Foreseen(R, t) <=> d \in Foreseen(P, q)
    <2>1. CASE \A i \in DOMAIN t : ~Mentions(t[i], d)
      <3>1. d \in Foreseen(R, t) <=> d \in R
        BY <2>1 DEF Foreseen
      <3>2. \A i \in DOMAIN q : i # 1 => ~Mentions(q[i], d)
        BY <1>2, <2>1
      <3>3. d \in Foreseen(P, q) <=> IF Mentions(q[1], d) THEN Says(q[1], d) ELSE d \in P
        BY <1>1, <3>2 DEF Foreseen
      <3> QED
        BY <1>1, <3>1, <3>3
    <2>2. CASE \E i \in DOMAIN t : Mentions(t[i], d)
      <3>1. \E i \in DOMAIN q : i > 1 /\ Mentions(q[i], d)
        BY <1>1, <1>3, <2>2
      <3>2. ASSUME d \in Foreseen(R, t)
            PROVE  d \in Foreseen(P, q)
        <4>1. PICK i \in DOMAIN t : /\ Mentions(t[i], d) /\ Says(t[i], d)
                                    /\ \A j \in DOMAIN t : j > i => ~Mentions(t[j], d)
          BY <2>2, <3>2 DEF Foreseen
        <4>2. ASSUME NEW j \in DOMAIN q, j > i + 1
              PROVE  ~Mentions(q[j], d)
          <5>1. j - 1 \in DOMAIN t /\ q[j] = t[j - 1] /\ j - 1 > i
            BY <1>1, <1>2, <4>2
          <5> QED
            BY <4>1, <5>1
        <4> QED
          <5>1. i + 1 \in DOMAIN q /\ Mentions(q[i + 1], d) /\ Says(q[i + 1], d)
            BY <1>3, <4>1
          <5> QED
            BY <4>2, <5>1 DEF Foreseen
      <3>3. ASSUME d \in Foreseen(P, q)
            PROVE  d \in Foreseen(R, t)
        <4>1. PICK i \in DOMAIN q : /\ Mentions(q[i], d) /\ Says(q[i], d)
                                    /\ \A j \in DOMAIN q : j > i => ~Mentions(q[j], d)
          BY <3>1, <3>3 DEF Foreseen
        <4>2. i # 1
          BY <1>1, <3>1, <4>1
        <4>3. ASSUME NEW j \in DOMAIN t, j > i - 1
              PROVE  ~Mentions(t[j], d)
          <5>1. j + 1 \in DOMAIN q /\ t[j] = q[j + 1] /\ j + 1 > i
            BY <1>1, <1>3, <4>3
          <5> QED
            BY <4>1, <5>1
        <4> QED
          <5>1. i - 1 \in DOMAIN t /\ t[i - 1] = q[i]
            BY <1>2, <4>1, <4>2
          <5>2. Mentions(t[i - 1], d) /\ Says(t[i - 1], d)
            BY <4>1, <5>1
          <5> QED
            BY <4>3, <5>1, <5>2 DEF Foreseen
      <3> QED
        BY <3>2, <3>3
    <2> QED
      BY <2>1, <2>2
  <1> QED
    BY <1>4 DEF t, Foreseen

\* The same for the events of the watch stream.
LEMMA ExpectedAppend ==
    ASSUME NEW P, NEW S, NEW q \in Seq(S), NEW m \in S
    PROVE  /\ Expected(P, Append(q, m)) \subseteq Devices \cup Offline
           /\ \A x \in Devices \cup Offline : x \in Expected(P, Append(q, m))
                <=> IF Tells(m, x) THEN Told(m, x) ELSE x \in Expected(P, q)
  <1> DEFINE a == Append(q, m)
  <1>1. /\ DOMAIN a = 1 .. Len(q) + 1 /\ DOMAIN q = 1 .. Len(q) /\ Len(q) \in Nat
        /\ a[Len(q) + 1] = m /\ \A i \in 1 .. Len(q) : a[i] = q[i]
    OBVIOUS
  <1> HIDE DEF a
  <1>2. ASSUME NEW x \in Devices \cup Offline
        PROVE  x \in Expected(P, a) <=> IF Tells(m, x) THEN Told(m, x) ELSE x \in Expected(P, q)
    <2>1. CASE Tells(m, x)
      BY <1>1, <2>1 DEF Expected
    <2>2. CASE ~Tells(m, x)
      BY <1>1, <2>2 DEF Expected
    <2> QED
      BY <2>1, <2>2
  <1> QED
    BY <1>2 DEF a, Expected

\* Reading an event of the stream does not change what is expected.
LEMMA ExpectedTail ==
    ASSUME NEW P, NEW S, NEW q \in Seq(S), q # <<>>, NEW R,
           \A x \in Devices \cup Offline : x \in R <=> IF Tells(Head(q), x) THEN Told(Head(q), x)
             ELSE x \in P
    PROVE  Expected(R, Tail(q)) = Expected(P, q)
  <1> DEFINE t == Tail(q)  n == Len(q)
  <1>1. /\ n \in Nat \ {0} /\ DOMAIN q = 1 .. n /\ DOMAIN t = 1 .. n - 1
        /\ Head(q) = q[1] /\ \A i \in 1 .. n - 1 : t[i] = q[i + 1]
    OBVIOUS
  <1> HIDE DEF t, n
  <1>2. \A i \in DOMAIN q : i = 1 \/ (i - 1 \in DOMAIN t /\ q[i] = t[i - 1])
    BY <1>1
  <1>3. \A i \in DOMAIN t : i + 1 \in DOMAIN q /\ t[i] = q[i + 1] /\ i \in Nat
    BY <1>1
  <1>4. ASSUME NEW x \in Devices \cup Offline
        PROVE  x \in Expected(R, t) <=> x \in Expected(P, q)
    <2>1. CASE \A i \in DOMAIN t : ~Tells(t[i], x)
      <3>1. x \in Expected(R, t) <=> x \in R
        BY <2>1 DEF Expected
      <3>2. \A i \in DOMAIN q : i # 1 => ~Tells(q[i], x)
        BY <1>2, <2>1
      <3>3. x \in Expected(P, q) <=> IF Tells(q[1], x) THEN Told(q[1], x) ELSE x \in P
        BY <1>1, <3>2 DEF Expected
      <3> QED
        BY <1>1, <3>1, <3>3
    <2>2. CASE \E i \in DOMAIN t : Tells(t[i], x)
      <3>1. \E i \in DOMAIN q : i > 1 /\ Tells(q[i], x)
        BY <1>1, <1>3, <2>2
      <3>2. ASSUME x \in Expected(R, t)
            PROVE  x \in Expected(P, q)
        <4>1. PICK i \in DOMAIN t : /\ Tells(t[i], x) /\ Told(t[i], x)
                                    /\ \A j \in DOMAIN t : j > i => ~Tells(t[j], x)
          BY <2>2, <3>2 DEF Expected
        <4>2. ASSUME NEW j \in DOMAIN q, j > i + 1
              PROVE  ~Tells(q[j], x)
          <5>1. j - 1 \in DOMAIN t /\ q[j] = t[j - 1] /\ j - 1 > i
            BY <1>1, <1>2, <4>2
          <5> QED
            BY <4>1, <5>1
        <4> QED
          <5>1. i + 1 \in DOMAIN q /\ Tells(q[i + 1], x) /\ Told(q[i + 1], x)
            BY <1>3, <4>1
          <5> QED
            BY <4>2, <5>1 DEF Expected
      <3>3. ASSUME x \in Expected(P, q)
            PROVE  x \in Expected(R, t)
        <4>1. PICK i \in DOMAIN q : /\ Tells(q[i], x) /\ Told(q[i], x)
                                    /\ \A j \in DOMAIN q : j > i => ~Tells(q[j], x)
          BY <3>1, <3>3 DEF Expected
        <4>2. i # 1
          BY <1>1, <3>1, <4>1
        <4>3. ASSUME NEW j \in DOMAIN t, j > i - 1
              PROVE  ~Tells(t[j], x)
          <5>1. j + 1 \in DOMAIN q /\ t[j] = q[j + 1] /\ j + 1 > i
            BY <1>1, <1>3, <4>3
          <5> QED
            BY <4>1, <5>1
        <4> QED
          <5>1. i - 1 \in DOMAIN t /\ t[i - 1] = q[i]
            BY <1>2, <4>1, <4>2
          <5>2. Tells(t[i - 1], x) /\ Told(t[i - 1], x)
            BY <4>1, <5>1
          <5> QED
            BY <4>3, <5>1, <5>2 DEF Expected
      <3> QED
        BY <3>2, <3>3
    <2> QED
      BY <2>1, <2>2
  <1> QED
    BY <1>4 DEF t, Expected

\* A set of natural numbers that is not empty has a least element.
LEMMA LeastNatural ==
    ASSUME NEW T, T \subseteq Nat, T # {}
    PROVE  \E x \in T : \A y \in T : x <= y
  <1> DEFINE R == OpToRel(<, Nat)
  <1>1. IsWellFoundedOn(R, Nat)
    BY NatLessThanWellFounded
  <1>2. \A x, y \in Nat : y < x => <<y, x>> \in R
    BY DEF OpToRel
  <1> HIDE DEF R
  <1>3. PICK x \in T : \A y \in T : ~(<<y, x>> \in R)
    BY <1>1, WFMin
  <1>4. \A y \in T : ~(y < x)
    BY <1>2, <1>3
  <1> QED
    BY <1>4

\* Dial takes a connection that was never made.
LEMMA UnusedConn ==
    ASSUME Unused # {}
    PROVE  (CHOOSE j \in Unused : \A i \in Unused : j <= i) \in Unused
  <1>1. Unused \subseteq Nat
    BY ConnFacts DEF Unused
  <1> QED
    BY <1>1, LeastNatural

(***************************************************************************)
(* What each action does to the server's ends.                             *)
(***************************************************************************)
\* An empty queue holds events of any type.
LEMMA EmptyQueue == ASSUME NEW S PROVE <<>> \in Seq(S)
  OBVIOUS

\* An end stays typed when more events may be in its queue.
LEMMA EndsGrow ==
    ASSUME NEW S, NEW T, S \subseteq T
    PROVE  Ends(S) \subseteq Ends(T)
  BY DEF Ends

\* A step that grows what replies may be under way and leaves the ends in their type.
LEMMA ServerTyped ==
    ASSUME NEW S, S \subseteq Plain \cup Replies', server' \in [Conns -> Ends(S)]
    PROVE  ServerType'
  <1>1. Plain' = Plain
    BY DEF Plain, Joined, Left, Revoked, Refusal, Authenticated, Signal
  <1>2. \A k \in Conns : server'[k] \in Ends(Plain' \cup Replies')
    BY <1>1, EndsGrow
  <1> QED
    BY <1>2 DEF ServerType, Ends, Conns, Phases

\* The replies that may be under way depend on the request and its outcome only.
LEMMA RepliesKept ==
    ASSUME request' = request, applied' = applied
    PROVE  Replies' = Replies
  BY DEF Replies, Reply

\* The end of a connection that is over.
LEMMA GoneFacts ==
    ASSUME NEW S, NEW e \in Ends(S)
    PROVE  /\ Gone(e) \in Ends(S)
           /\ Gone(e).phase = "gone" /\ Gone(e).device = e.device /\ Gone(e).send = <<>>
           /\ ~Gone(e).live /\ Gone(e).peers = {}
  BY EmptyQueue DEF Gone, NoServer, Ends, Phases

\* What Authenticate does to the server's ends.
LEMMA AuthenticateEffect ==
    ASSUME ServerType, NEW k \in Conns, Authenticate(k)
    PROVE  /\ ServerType'
           /\ \A j \in Conns \ {k} : server'[j] = server[j]
           /\ \/ server'[k] = Gone(server[k])
              \/ server'[k] = [server[k] EXCEPT !.phase = "proved"]
  <1> DEFINE S == Plain \cup Replies
  <1>1. server \in [Conns -> Ends(S)] /\ Replies' = Replies /\ server[k] \in Ends(S)
    BY RepliesKept DEF ServerType, Authenticate, approval
  <1>2. Gone(server[k]) \in Ends(S) /\ [server[k] EXCEPT !.phase = "proved"] \in Ends(S)
    BY <1>1, GoneFacts DEF Ends, Phases
  <1> HIDE DEF S
  <1>3. server' \in [Conns -> Ends(S)]
    BY <1>1, <1>2 DEF Authenticate
  <1>4. ServerType'
    BY <1>1, <1>3, ServerTyped DEF S
  <1> QED
    BY <1>1, <1>3, <1>4 DEF Authenticate

\* The queue of the end j takes the event m, or is full and its session ends.
Queued(j, m) ==
    /\ server'[j].device = server[j].device
    /\ Full(j) => ~server'[j].live /\ server'[j].send = server[j].send
    /\ ~Full(j) => server'[j].live = server[j].live /\ server'[j].send = Append(server[j].send, m)

\* The end j gets the event m from another goroutine, or from its own, which goes on or leaves.
Gets(j, m) == Queued(j, m) /\ server'[j].phase = server[j].phase
GetsOwn(j, m) == Queued(j, m) /\ server'[j].phase = Goes(j)

\* What Register does: it refuses, or it adds the client and tells every other one.
LEMMA RegisterEffect ==
    ASSUME Types, MadeHasDevice, RegisteredIsServed, NEW k \in Conns, Register(k)
    PROVE  /\ ServerType' /\ DeviceOf(k) \in Devices
           /\ \/ /\ clients' = clients /\ server'[k] = Gone(server[k])
                 /\ \A j \in Conns \ {k} : server'[j] = server[j]
              \/ /\ clients[DeviceOf(k)] = 0 /\ clients' = [clients EXCEPT ![DeviceOf(k)] = k]
                 /\ server'[k] = [server[k] EXCEPT !.phase = "registered", !.peers = Online]
                 /\ \A j \in Conns \ {k} :
                       IF j \in Others(DeviceOf(k)) THEN Gets(j, Joined(DeviceOf(k)))
                       ELSE server'[j] = server[j]
  <1> DEFINE S == Plain \cup Replies  d == DeviceOf(k)
             new == [server EXCEPT ![k].phase = "registered", ![k].peers = Online]
  <1>1. server \in [Conns -> Ends(S)] /\ Replies' = Replies /\ server[k] \in Ends(S)
    BY RepliesKept DEF Types, ServerType, Register, approval
  <1>2. d \in Devices /\ server[k].phase = "proved"
    BY DEF MadeHasDevice, Register, DeviceOf
  <1>3. Gone(server[k]) \in Ends(S)
    BY <1>1, GoneFacts
  <1>4. new \in [Conns -> Ends(S)] /\ Joined(d) \in S
        /\ new[k] = [server[k] EXCEPT !.phase = "registered", !.peers = Online]
        /\ \A j \in Conns \ {k} : new[j] = server[j]
    <2>1. Online \in SUBSET Devices
      BY DEF Online
    <2>2. [server[k] EXCEPT !.phase = "registered", !.peers = Online] \in Ends(S)
      BY <1>1, <2>1 DEF Ends, Phases
    <2> QED
      BY <1>1, <1>2, <2>2, EventTypes DEF Ends
  <1>5. k \notin Others(d)
    BY <1>2, ConnFacts DEF RegisteredIsServed, Others, Online
  <1> DEFINE E == Enqueue(new, Others(d), Joined(d))
  <1>6. /\ E \in [Conns -> Ends(S)]
        /\ \A j \in Conns :
             /\ E[j].phase = new[j].phase
             /\ E[j].device = new[j].device
             /\ E[j].peers = new[j].peers
             /\ E[j].live => new[j].live
             /\ j \notin Others(d) => E[j] = new[j]
             /\ j \in Others(d) /\ Full(j) => ~E[j].live /\ E[j].send = new[j].send
             /\ j \in Others(d) /\ ~Full(j) => E[j].send = Append(new[j].send, Joined(d))
                  /\ E[j].live = new[j].live
    <2> HIDE DEF S, new, d
    <2> QED
      BY <1>4, EnqueueEffect
  <1>7. CASE clients' = clients /\ server' = [server EXCEPT ![k] = Gone(@)]
    <2>1. server' \in [Conns -> Ends(S)]
      BY <1>1, <1>3, <1>7
    <2>2. ServerType'
      BY <1>1, <2>1, ServerTyped
    <2> QED
      BY <1>1, <1>2, <1>7, <2>2
  <1>8. CASE clients[d] = 0 /\ clients' = [clients EXCEPT ![d] = k] /\ server' = E
    <2> HIDE DEF E, new, d
    <2>1. ServerType'
      BY <1>1, <1>6, <1>8, ServerTyped
    <2>2. server'[k] = [server[k] EXCEPT !.phase = "registered", !.peers = Online]
      BY <1>4, <1>5, <1>6, <1>8
    <2>3. ASSUME NEW j \in Conns \ {k}
          PROVE  IF j \in Others(d) THEN Gets(j, Joined(d)) ELSE server'[j] = server[j]
      BY <1>4, <1>6, <1>8 DEF Gets, Queued
    <2> QED
      BY <1>2, <1>8, <2>1, <2>2, <2>3 DEF d
  <1> QED
    BY <1>7, <1>8 DEF Register

\* What Unregister does: the entry is its own, and every other client is told.
LEMMA UnregisterEffect ==
    ASSUME Types, MadeHasDevice, RegisteredIsServed, NEW k \in Conns, Unregister(k)
    PROVE  /\ ServerType' /\ DeviceOf(k) \in Devices /\ clients[DeviceOf(k)] = k
           /\ clients' = [clients EXCEPT ![DeviceOf(k)] = 0] /\ server'[k] = Gone(server[k])
           /\ \A j \in Conns \ {k} :
                 IF j \in Others(DeviceOf(k)) THEN Gets(j, Left(DeviceOf(k)))
                 ELSE server'[j] = server[j]
  <1> DEFINE S == Plain \cup Replies  d == DeviceOf(k)
             new == [server EXCEPT ![k] = Gone(@)]
             E == Enqueue(new, Others(d), Left(d))
  <1>1. server \in [Conns -> Ends(S)] /\ Replies' = Replies /\ server[k] \in Ends(S)
    BY RepliesKept DEF Types, ServerType, Unregister, approval
  <1>2. d \in Devices /\ clients[d] = k
    BY DEF MadeHasDevice, RegisteredIsServed, Unregister, DeviceOf
  <1>3. Gone(server[k]) \in Ends(S)
    BY <1>1, GoneFacts
  <1>4. new \in [Conns -> Ends(S)] /\ Left(d) \in S /\ new[k] = Gone(server[k])
        /\ \A j \in Conns \ {k} : new[j] = server[j]
    BY <1>1, <1>2, <1>3, EventTypes
  <1>5. k \notin Others(d)
    BY <1>2, ConnFacts DEF RegisteredIsServed, Others, Online
  <1>6. /\ E \in [Conns -> Ends(S)]
        /\ \A j \in Conns :
             /\ E[j].phase = new[j].phase
             /\ E[j].device = new[j].device
             /\ E[j].peers = new[j].peers
             /\ E[j].live => new[j].live
             /\ j \notin Others(d) => E[j] = new[j]
             /\ j \in Others(d) /\ Full(j) => ~E[j].live /\ E[j].send = new[j].send
             /\ j \in Others(d) /\ ~Full(j) => E[j].send = Append(new[j].send, Left(d))
                  /\ E[j].live = new[j].live
    <2> HIDE DEF S, new, d
    <2> QED
      BY <1>4, EnqueueEffect
  <1>7. server' = E /\ clients' = [clients EXCEPT ![d] = 0]
    BY <1>2 DEF Unregister
  <1> HIDE DEF E, new, d
  <1>8. ServerType'
    BY <1>1, <1>6, <1>7, ServerTyped
  <1>9. server'[k] = Gone(server[k])
    BY <1>4, <1>5, <1>6, <1>7
  <1>10. ASSUME NEW j \in Conns \ {k}
         PROVE  IF j \in Others(d) THEN Gets(j, Left(d)) ELSE server'[j] = server[j]
    BY <1>4, <1>6, <1>7 DEF Gets, Queued
  <1> QED
    BY <1>2, <1>7, <1>8, <1>9, <1>10 DEF d

\* What PushRevocation does: the client of the device, if there is one, gets the event.
LEMMA PushRevocationEffect ==
    ASSUME Types, NEW d \in Devices, PushRevocation(d)
    PROVE  /\ ServerType'
           /\ \A j \in Conns : IF j = clients[d] THEN Gets(j, Revoked) ELSE server'[j] = server[j]
  <1> DEFINE S == Plain \cup Replies  K == {clients[d]} \ {0}
             E == Enqueue(server, K, Revoked)
  <1>1. server \in [Conns -> Ends(S)] /\ Replies' = Replies /\ Revoked \in S
    BY RepliesKept, EventTypes DEF Types, ServerType, PushRevocation, approval
  <1>2. /\ E \in [Conns -> Ends(S)]
        /\ \A j \in Conns :
             /\ E[j].phase = server[j].phase
             /\ E[j].device = server[j].device
             /\ E[j].peers = server[j].peers
             /\ E[j].live => server[j].live
             /\ j \notin K => E[j] = server[j]
             /\ j \in K /\ Full(j) => ~E[j].live /\ E[j].send = server[j].send
             /\ j \in K /\ ~Full(j) => E[j].send = Append(server[j].send, Revoked)
                  /\ E[j].live = server[j].live
    <2> HIDE DEF S, K
    <2> QED
      BY <1>1, EnqueueEffect
  <1>3. server' = E
    BY DEF PushRevocation
  <1> HIDE DEF E
  <1>4. ServerType'
    BY <1>1, <1>2, <1>3, ServerTyped
  <1>5. ASSUME NEW j \in Conns
        PROVE  IF j = clients[d] THEN Gets(j, Revoked) ELSE server'[j] = server[j]
    BY <1>2, <1>3, ConnFacts DEF Gets, Queued
  <1> QED
    BY <1>4, <1>5

\* What SendAuthenticated does to the server's ends.
LEMMA SendAuthenticatedEffect ==
    ASSUME Types, NEW k \in Conns, SendAuthenticated(k)
    PROVE  /\ ServerType' /\ GetsOwn(k, Authenticated(server[k].peers))
           /\ \A j \in Conns \ {k} : server'[j] = server[j]
  <1> DEFINE S == Plain \cup Replies  m == Authenticated(server[k].peers)
             E == Enqueue(server, {k}, m)
  <1>1. server \in [Conns -> Ends(S)] /\ Replies' = Replies /\ server[k] \in Ends(S)
    BY RepliesKept DEF Types, ServerType, SendAuthenticated, approval
  <1>2. m \in S
    BY <1>1, EventTypes DEF Ends
  <1>3. server' = [E EXCEPT ![k].phase = Goes(k), ![k].peers = {}]
    BY DEF SendAuthenticated
  <1> HIDE DEF m, S, E
  <1>4. /\ E \in [Conns -> Ends(S)]
        /\ \A j \in Conns :
             /\ E[j].device = server[j].device
             /\ j \notin {k} => E[j] = server[j]
             /\ j \in {k} /\ Full(j) => ~E[j].live /\ E[j].send = server[j].send
             /\ j \in {k} /\ ~Full(j) => E[j].send = Append(server[j].send, m)
                  /\ E[j].live = server[j].live
    BY <1>1, <1>2, EnqueueEffect DEF E
  <1>5. /\ server'[k] = [E[k] EXCEPT !.phase = Goes(k), !.peers = {}]
        /\ \A j \in Conns \ {k} : server'[j] = E[j]
    BY <1>4, <1>3
  <1>6. server' = [j \in Conns |-> server'[j]]
    BY <1>4, <1>3
  <1>7. Goes(k) \in Phases /\ E[k] \in Ends(S) /\ {} \in SUBSET Devices
    BY <1>4 DEF Goes, Phases
  <1>8. /\ server'[k] \in Ends(S) /\ server'[k].device = E[k].device /\ server'[k].phase = Goes(k)
        /\ server'[k].live = E[k].live /\ server'[k].send = E[k].send
    BY <1>5, <1>7 DEF Ends
  <1>9. /\ server' \in [Conns -> Ends(S)]
        /\ \A j \in Conns \ {k} : server'[j] = server[j]
        /\ server'[k].device = server[k].device /\ server'[k].phase = Goes(k)
        /\ Full(k) => ~server'[k].live /\ server'[k].send = server[k].send
        /\ ~Full(k) => server'[k].live = server[k].live
             /\ server'[k].send = Append(server[k].send, m)
    <2>1. \A j \in Conns : server'[j] \in Ends(S)
      BY <1>4, <1>5, <1>8
    <2>2. server' \in [Conns -> Ends(S)]
      BY <1>6, <2>1
    <2> QED
      BY <1>4, <1>5, <1>8, <2>2
  <1>10. ServerType'
    BY <1>1, <1>9, ServerTyped DEF S
  <1> QED
    BY <1>9, <1>10 DEF GetsOwn, Queued, m

\* What HandleApproval does: the reply says what was done.
LEMMA HandleApprovalEffect ==
    ASSUME Types, RequestInv, NEW k \in Conns, HandleApproval(k)
    PROVE  /\ ServerType' /\ GetsOwn(k, Reply(applied'))
           /\ \A j \in Conns \ {k} : server'[j] = server[j]
  <1> DEFINE S == Plain \cup Replies  T == Plain \cup Replies'
  <1>1. PICK ok \in BOOLEAN :
           /\ applied' = ok
           /\ server' = [Enqueue(server, {k}, Reply(ok)) EXCEPT ![k].phase = Goes(k)]
    BY DEF HandleApproval
  <1>2. S \subseteq T /\ Reply(ok) \in T
    <2>1. Replies = {}
      BY DEF HandleApproval, Replies
    <2>2. ~request'.sent /\ request'.state = request.state
            /\ request.state \notin {"none", "unsent"}
      BY DEF Types, ApprovalType, RequestInv, HandleApproval
    <2>3. Replies' = {Reply(ok)}
      BY <1>1, <2>2 DEF Replies, Reply
    <2> QED
      BY <2>1, <2>3
  <1>3. server \in [Conns -> Ends(T)]
    <2>1. server \in [Conns -> Ends(S)]
      BY DEF Types, ServerType
    <2> HIDE DEF S, T
    <2> QED
      BY <1>2, <2>1, EndsGrow
  <1> DEFINE m == Reply(ok)  E == Enqueue(server, {k}, m)
  <1>4. m \in T /\ server' = [E EXCEPT ![k].phase = Goes(k)]
    BY <1>1, <1>2
  <1>5. m = Reply(applied')
    BY <1>1
  <1>6. m \in T
    BY <1>2
  <1> HIDE DEF m, S, T, E
  <1>7. /\ E \in [Conns -> Ends(T)]
        /\ \A j \in Conns :
             /\ E[j].device = server[j].device
             /\ j \notin {k} => E[j] = server[j]
             /\ j \in {k} /\ Full(j) => ~E[j].live /\ E[j].send = server[j].send
             /\ j \in {k} /\ ~Full(j) => E[j].send = Append(server[j].send, m)
                  /\ E[j].live = server[j].live
    BY <1>3, <1>6, EnqueueEffect DEF E
  <1>8. /\ server'[k] = [E[k] EXCEPT !.phase = Goes(k)]
        /\ \A j \in Conns \ {k} : server'[j] = E[j]
    BY <1>7, <1>4
  <1>9. server' = [j \in Conns |-> server'[j]]
    BY <1>7, <1>4
  <1>10. Goes(k) \in Phases /\ E[k] \in Ends(T) /\ {} \in SUBSET Devices
    BY <1>7 DEF Goes, Phases
  <1>11. /\ server'[k] \in Ends(T) /\ server'[k].device = E[k].device
              /\ server'[k].phase = Goes(k)
         /\ server'[k].live = E[k].live /\ server'[k].send = E[k].send
    BY <1>8, <1>10 DEF Ends
  <1>12. /\ server' \in [Conns -> Ends(T)]
         /\ \A j \in Conns \ {k} : server'[j] = server[j]
         /\ server'[k].device = server[k].device /\ server'[k].phase = Goes(k)
         /\ Full(k) => ~server'[k].live /\ server'[k].send = server[k].send
         /\ ~Full(k) => server'[k].live = server[k].live
              /\ server'[k].send = Append(server[k].send, m)
    <2>1. \A j \in Conns : server'[j] \in Ends(T)
      BY <1>7, <1>8, <1>11
    <2>2. server' \in [Conns -> Ends(T)]
      BY <1>9, <2>1
    <2> QED
      BY <1>7, <1>8, <1>11, <2>2
  <1>13. ServerType'
    BY <1>12, ServerTyped DEF T
  <1> QED
    BY <1>5, <1>12, <1>13 DEF GetsOwn, Queued

\* What ForwardSignal does: the peer gets the signal, or the sender a refusal.
LEMMA ForwardSignalEffect ==
    ASSUME Types, MadeHasDevice, NEW k \in Conns, NEW s \in agent[k].sessions, ForwardSignal(k, s)
    PROVE  /\ ServerType' /\ server'[k].device = server[k].device
           /\ \/ /\ \A j \in Conns :
                       IF j = clients[s.peer] THEN Gets(j, Signal(DeviceOf(k), s.id))
                       ELSE server'[j] = server[j]
              \/ /\ GetsOwn(k, Refusal)
                 /\ \A j \in Conns \ {k} :
                       IF j = clients[s.peer] THEN Full(j) /\ Gets(j, Refusal)
                       ELSE server'[j] = server[j]
  <1> DEFINE S == Plain \cup Replies  m == Signal(DeviceOf(k), s.id)  K == {clients[s.peer]} \ {0}
             E == Enqueue(server, K, m)
  <1>1. server \in [Conns -> Ends(S)] /\ Replies' = Replies
    BY RepliesKept DEF Types, ServerType, ForwardSignal, approval
  <1>2. s.id \in Conns /\ s.peer \in Devices
    BY DEF Types, AgentType, AgentEnds, Sessions
  <1>3. m \in S /\ Refusal \in S
    BY <1>2, EventTypes DEF MadeHasDevice, ForwardSignal, DeviceOf
  <1>4. /\ E \in [Conns -> Ends(S)]
        /\ \A j \in Conns :
             /\ E[j].phase = server[j].phase
             /\ E[j].device = server[j].device
             /\ E[j].peers = server[j].peers
             /\ E[j].live => server[j].live
             /\ j \notin K => E[j] = server[j]
             /\ j \in K /\ Full(j) => ~E[j].live /\ E[j].send = server[j].send
             /\ j \in K /\ ~Full(j) => E[j].send = Append(server[j].send, m)
                  /\ E[j].live = server[j].live
    <2> HIDE DEF S, K, m
    <2> QED
      BY <1>1, <1>3, EnqueueEffect
  <1>5. \/ server' = E
        \/ /\ \A t \in K : Full(t)
           /\ server' = [Enqueue(E, {k}, Refusal) EXCEPT ![k].phase = Goes(k)]
    BY DEF ForwardSignal
  <1>6. CASE server' = E
    <2> HIDE DEF E, m
    <2>1. ServerType'
      BY <1>1, <1>4, <1>6, ServerTyped
    <2>2. ASSUME NEW j \in Conns
          PROVE  IF j = clients[s.peer] THEN Gets(j, m) ELSE server'[j] = server[j]
      BY <1>4, <1>6, ConnFacts DEF Gets, Queued
    <2> QED
      BY <1>4, <1>6, <2>1, <2>2 DEF m
  <1>7. CASE /\ \A t \in K : Full(t)
             /\ server' = [Enqueue(E, {k}, Refusal) EXCEPT ![k].phase = Goes(k)]
    <2> DEFINE R == Enqueue(E, {k}, Refusal)
    <2>1. server' = [R EXCEPT ![k].phase = Goes(k)]
      BY <1>7
    <2> HIDE DEF E, m, S, R
    <2>2. /\ R \in [Conns -> Ends(S)]
          /\ \A j \in Conns :
               /\ R[j].device = E[j].device
               /\ j \notin {k} => R[j] = E[j]
               /\ j \in {k} /\ Full(j) => ~R[j].live /\ R[j].send = E[j].send
               /\ j \in {k} /\ ~Full(j) => R[j].send = Append(E[j].send, Refusal)
                    /\ R[j].live = E[j].live
      BY <1>3, <1>4, EnqueueEffect DEF R
    <2>3. /\ server'[k] = [R[k] EXCEPT !.phase = Goes(k)]
          /\ \A j \in Conns \ {k} : server'[j] = R[j]
      BY <2>2, <2>1
    <2>4. server' = [j \in Conns |-> server'[j]]
      BY <2>2, <2>1
    <2>5. Goes(k) \in Phases /\ R[k] \in Ends(S) /\ {} \in SUBSET Devices
      BY <2>2 DEF Goes, Phases
    <2>6. /\ server'[k] \in Ends(S) /\ server'[k].device = R[k].device
               /\ server'[k].phase = Goes(k)
          /\ server'[k].live = R[k].live /\ server'[k].send = R[k].send
      BY <2>3, <2>5 DEF Ends
    <2>7. /\ server' \in [Conns -> Ends(S)]
          /\ \A j \in Conns \ {k} : server'[j] = E[j]
          /\ server'[k].device = E[k].device /\ server'[k].phase = Goes(k)
          /\ Full(k) => ~server'[k].live /\ server'[k].send = E[k].send
          /\ ~Full(k) => server'[k].live = E[k].live
               /\ server'[k].send = Append(E[k].send, Refusal)
      <3>1. \A j \in Conns : server'[j] \in Ends(S)
        BY <2>2, <2>3, <2>6
      <3>2. server' \in [Conns -> Ends(S)]
        BY <2>4, <3>1
      <3> QED
        BY <2>2, <2>3, <2>6, <3>2
    <2>8. ServerType'
      BY <1>1, <2>7, ServerTyped DEF S
    <2>9. GetsOwn(k, Refusal)
      BY <1>4, <1>7, <2>7 DEF GetsOwn, Queued
    <2>10. ASSUME NEW j \in Conns \ {k}
           PROVE  IF j = clients[s.peer] THEN Full(j) /\ Gets(j, Refusal)
                    ELSE server'[j] = server[j]
      <3>1. server'[j] = E[j] /\ j # 0
        BY <2>7, ConnFacts
      <3>2. CASE j = clients[s.peer]
        BY <1>4, <1>7, <3>1, <3>2 DEF Gets, Queued
      <3>3. CASE j # clients[s.peer]
        BY <1>4, <3>1, <3>3
      <3> QED
        BY <3>2, <3>3
    <2> QED
      BY <1>4, <2>7, <2>8, <2>9, <2>10
  <1> QED
    BY <1>5, <1>6, <1>7

\* PresenceInv of one connection, but for the watch stream.
PresenceAt(k) ==
    /\ server[k].phase = "serving" /\ server[k].live /\ agent[k].open
    /\ \/ agent[k].state = "live"
       \/ agent[k].state = "waiting" /\ Event(k).type = "authenticated"
    => Foreseen(agent[k].peers, server[k].send) = Online \ {DeviceOf(k)}

NotToldAt(k) ==
    /\ server[k].phase \in {"auth", "proved"} => server[k].send = <<>>
    /\ server[k].phase \in {"auth", "proved", "registered"}
          => agent[k].state \in {"waiting", "closed"} /\ NoAuthentication(server[k].send)

ListAt(k) ==
    /\ server[k].phase = "registered" /\ server[k].live /\ agent[k].open
    /\ agent[k].state = "waiting" /\ server[k].send = <<>>
    => server[k].peers = Online \ {DeviceOf(k)}

WaitsAt(k) ==
    /\ server[k].phase = "serving" /\ server[k].live /\ agent[k].open
    /\ agent[k].state = "waiting"
    => server[k].send # <<>>

SoundAt(k) == NotToldAt(k) /\ ListAt(k) /\ WaitsAt(k) /\ PresenceAt(k)

\* The invariants of presence are the conjunction over the connections.
LEMMA AtAll ==
    NotYetTold /\ ListIsTrue /\ WaitsForSomething /\ PresenceTrue <=> \A k \in Conns : SoundAt(k)
  BY DEF NotYetTold, ListIsTrue, WaitsForSomething, PresenceTrue, SoundAt, NotToldAt, ListAt,
       WaitsAt, PresenceAt

\* The same after a step.
LEMMA AtAllNext ==
    (NotYetTold /\ ListIsTrue /\ WaitsForSomething /\ PresenceTrue)'
      <=> \A k \in Conns : SoundAt(k)'
  BY DEF NotYetTold, ListIsTrue, WaitsForSomething, PresenceTrue, SoundAt, NotToldAt, ListAt,
       WaitsAt, PresenceAt

\* A connection that nothing happened to stays sound.
LEMMA KeptAt ==
    ASSUME NEW j \in Conns, SoundAt(j), server'[j] = server[j], agent'[j] = agent[j],
             Online' = Online
    PROVE  SoundAt(j)'
  BY DEF SoundAt, NotToldAt, ListAt, WaitsAt, PresenceAt, DeviceOf, Event

\* A connection that is not served has nothing to show.
LEMMA AwayAt ==
    ASSUME NEW j \in Conns, server'[j].phase \in {"none", "leaving", "gone"}
    PROVE  SoundAt(j)'
  BY DEF SoundAt, NotToldAt, ListAt, WaitsAt, PresenceAt

\* A connection that is not registered yet has nothing to show.
LEMMA OutsideAt ==
    ASSUME NEW j \in Conns, server'[j].phase \in {"auth", "proved"}, server'[j].send = <<>>,
           agent'[j].state \in {"waiting", "closed"}
    PROVE  SoundAt(j)'
  BY DEF SoundAt, NotToldAt, ListAt, WaitsAt, PresenceAt, NoAuthentication


\* Facts about a queue with an event added.
LEMMA AppendFacts ==
    ASSUME NEW S, NEW q \in Seq(S), NEW m \in S
    PROVE  /\ Append(q, m) \in Seq(S) /\ Append(q, m) # <<>>
           /\ Len(q) \in Nat /\ Len(Append(q, m)) = Len(q) + 1
           /\ q # <<>> => Head(Append(q, m)) = Head(q)
           /\ q = <<>> => Head(Append(q, m)) = m
           /\ m.type # "authenticated" /\ NoAuthentication(q) => NoAuthentication(Append(q, m))
           /\ NoAuthentication(q) /\ q # <<>> => Head(q).type # "authenticated"
  <1>1. /\ Append(q, m) \in Seq(S) /\ Append(q, m) # <<>>
        /\ Len(q) \in Nat /\ Len(Append(q, m)) = Len(q) + 1
        /\ q # <<>> => Head(Append(q, m)) = Head(q)
        /\ q = <<>> => Head(Append(q, m)) = m
    BY AppendProperties, HeadTailAppend
  <1>2. m.type # "authenticated" /\ NoAuthentication(q) => NoAuthentication(Append(q, m))
    BY DEF NoAuthentication
  <1>3. NoAuthentication(q) /\ q # <<>> => Head(q).type # "authenticated"
    BY DEF NoAuthentication
  <1> QED
    BY <1>1, <1>2, <1>3

\* An event that tells what changes keeps a connection right.
LEMMA GetsAt ==
    ASSUME ServerType, NEW j \in Conns, SoundAt(j), agent'[j] = agent[j],
           server[j].phase \notin {"auth", "proved"},
           NEW m \in Plain \cup Replies \cup Replies', m.type # "authenticated", Gets(j, m),
           \A d \in Devices : d \in Online' \ {DeviceOf(j)}
                <=> IF Mentions(m, d) THEN Says(m, d) ELSE d \in Online \ {DeviceOf(j)}
    PROVE  SoundAt(j)'
  <1> DEFINE S == Plain \cup Replies \cup Replies'  q == server[j].send  P == agent[j].peers
  <1>1. q \in Seq(S) /\ m \in S
    BY DEF ServerType, Ends
  <1>2. /\ Append(q, m) # <<>>
        /\ q # <<>> => Head(Append(q, m)) = Head(q)
        /\ m.type # "authenticated" /\ NoAuthentication(q) => NoAuthentication(Append(q, m))
    <2> HIDE DEF S, q
    <2> QED
      BY <1>1, AppendFacts
  <1>3. /\ server'[j].phase = server[j].phase /\ server'[j].device = server[j].device
        /\ Full(j) => ~server'[j].live /\ server'[j].send = q
        /\ ~Full(j) => server'[j].live = server[j].live /\ server'[j].send = Append(q, m)
    BY DEF Gets, Queued
  <1>4. NotToldAt(j)'
    BY <1>2, <1>3 DEF SoundAt, NotToldAt
  <1>5. ListAt(j)' /\ WaitsAt(j)'
    BY <1>2, <1>3 DEF ListAt, WaitsAt
  <1>6. PresenceAt(j)'
    <2> SUFFICES ASSUME server'[j].phase = "serving", server'[j].live, agent'[j].open,
                        \/ agent'[j].state = "live"
                        \/ agent'[j].state = "waiting" /\ Event(j)'.type = "authenticated"
                 PROVE  Foreseen(agent'[j].peers, server'[j].send) = Online' \ {DeviceOf(j)'}
      BY DEF PresenceAt
    <2>1. ~Full(j) /\ server'[j].send = Append(q, m) /\ server[j].phase = "serving"
            /\ server[j].live
      BY <1>3
    <2>2. agent[j].state = "waiting" => Event(j)' = Event(j)
      BY <1>2, <2>1 DEF SoundAt, WaitsAt, Event
    <2>3. Foreseen(agent[j].peers, q) = Online \ {DeviceOf(j)}
      BY <2>1, <2>2 DEF SoundAt, PresenceAt
    <2>4. /\ Foreseen(P, Append(q, m)) \subseteq Devices
          /\ \A d \in Devices : d \in Foreseen(P, Append(q, m))
                <=> IF Mentions(m, d) THEN Says(m, d) ELSE d \in Foreseen(P, q)
      <3> HIDE DEF S, q, P
      <3> QED
        BY <1>1, ForeseenAppend
    <2>5. Online' \subseteq Devices /\ DeviceOf(j)' = DeviceOf(j)
      BY <1>3 DEF Online, DeviceOf
    <2> HIDE DEF q
    <2>6. Foreseen(P, Append(q, m)) = Online' \ {DeviceOf(j)}
      BY <2>3, <2>4, <2>5
    <2> QED
      BY <2>1, <2>5, <2>6
  <1> QED
    BY <1>4, <1>5, <1>6 DEF SoundAt

\* The authentication tells a connection the peers that it was registered with.
LEMMA AuthenticatedAt ==
    ASSUME ServerType, NEW k \in Conns, SoundAt(k), agent'[k] = agent[k], Online' = Online,
           server[k].phase = "registered", GetsOwn(k, Authenticated(server[k].peers))
    PROVE  SoundAt(k)'
  <1> DEFINE S == Plain \cup Replies  q == server[k].send  m == Authenticated(server[k].peers)
             P == agent[k].peers
  <1>1. q \in Seq(S) /\ m \in S /\ server[k].peers \subseteq Devices
    BY EventTypes DEF ServerType, Ends
  <1>2. CASE Full(k)
    BY <1>2, AwayAt DEF GetsOwn, Queued, Goes
  <1>3. CASE ~Full(k)
    <2>1. /\ Append(q, m) # <<>>
          /\ q # <<>> => Head(Append(q, m)) = Head(q)
          /\ NoAuthentication(q) /\ q # <<>> => Head(q).type # "authenticated"
      <3> HIDE DEF S, q, m
      <3> QED
        BY <1>1, AppendFacts
    <2>2. /\ server'[k].phase = "serving" /\ server'[k].device = server[k].device
          /\ server'[k].live = server[k].live /\ server'[k].send = Append(q, m)
      BY <1>3 DEF GetsOwn, Queued, Goes
    <2>3. agent[k].state \in {"waiting", "closed"} /\ NoAuthentication(q)
      BY DEF SoundAt, NotToldAt
    <2>4. NotToldAt(k)' /\ ListAt(k)' /\ WaitsAt(k)'
      BY <2>1, <2>2 DEF NotToldAt, ListAt, WaitsAt
    <2>5. PresenceAt(k)'
      <3> SUFFICES ASSUME server'[k].live, agent'[k].open,
                          agent'[k].state = "waiting", Event(k)'.type = "authenticated"
                   PROVE  Foreseen(agent'[k].peers, server'[k].send) = Online' \ {DeviceOf(k)'}
        BY <2>3 DEF PresenceAt
      <3>1. q = <<>>
        BY <2>1, <2>2, <2>3 DEF Event
      <3>2. server[k].peers = Online \ {DeviceOf(k)}
        BY <2>2, <3>1 DEF SoundAt, ListAt
      <3>3. /\ Foreseen(P, Append(q, m)) \subseteq Devices
            /\ \A d \in Devices : d \in Foreseen(P, Append(q, m))
                  <=> IF Mentions(m, d) THEN Says(m, d) ELSE d \in Foreseen(P, q)
        <4> HIDE DEF S, q, m, P
        <4> QED
          BY <1>1, ForeseenAppend
      <3>4. \A d \in Devices : Mentions(m, d) /\ (Says(m, d) <=> d \in server[k].peers)
        BY DEF Mentions, Says, Authenticated
      <3> HIDE DEF m, q
      <3>5. Foreseen(P, Append(q, m)) = server[k].peers
        BY <1>1, <3>3, <3>4
      <3> QED
        BY <2>2, <3>2, <3>5 DEF DeviceOf
    <2> QED
      BY <2>4, <2>5 DEF SoundAt
  <1> QED
    BY <1>2, <1>3

\* A step that leaves the agents alone and every end its device.
LEMMA EndsKept ==
    ASSUME Types, MadeHasDevice, CurrentIsOpen, agent' = agent, current' = current,
           \A j \in Conns : /\ server'[j].device = server[j].device
                            /\ server'[j].phase = "none" <=> server[j].phase = "none"
    PROVE  MadeHasDevice' /\ CurrentIsOpen'
  <1>1. MadeHasDevice'
    BY DEF MadeHasDevice
  <1>2. CurrentIsOpen'
    <2>1. \A d \in Devices : current[d] # 0 => current[d] \in Conns
      BY DEF Types, WorkerType
    <2> QED
      BY <2>1 DEF CurrentIsOpen, DeviceOf
  <1> QED
    BY <1>1, <1>2

\* A queue never holds more than its capacity.
LEMMA QueuedBounded ==
    ASSUME ServerType, QueuesBounded, NEW j \in Conns, NEW m \in Plain \cup Replies \cup Replies',
           Queued(j, m)
    PROVE  Len(server'[j].send) <= QueueSize
  <1> DEFINE S == Plain \cup Replies \cup Replies'  q == server[j].send
  <1>1. q \in Seq(S) /\ m \in S
    BY DEF ServerType, Ends
  <1>2. Len(q) \in Nat /\ Len(Append(q, m)) = Len(q) + 1
    <2> HIDE DEF S, q
    <2> QED
      BY <1>1, AppendFacts
  <1>3. Len(q) <= QueueSize
    BY DEF QueuesBounded
  <1> QED
    BY <1>2, <1>3, RendezvousConstants DEF Queued, Full

\* The events that say nothing of presence.
LEMMA SilentEvents ==
    ASSUME NEW m, m = Revoked \/ m = Refusal \/ (\E d, i : m = Signal(d, i))
             \/ (\E b : m = Reply(b))
    PROVE  m.type # "authenticated" /\ \A d : ~Mentions(m, d)
  BY DEF Mentions, Revoked, Refusal, Signal, Reply

\* An event that says nothing of presence keeps a connection sound.
LEMMA SilentAt ==
    ASSUME ServerType, NEW j \in Conns, SoundAt(j), agent'[j] = agent[j], clients' = clients,
           server[j].phase \notin {"auth", "proved"},
           NEW m \in Plain \cup Replies \cup Replies', Gets(j, m),
           m.type # "authenticated", \A d : ~Mentions(m, d)
    PROVE  SoundAt(j)'
  <1>1. Online' = Online
    BY DEF Online
  <1> QED
    BY <1>1, GetsAt

\* The same for an event of the connection's own goroutine.
LEMMA SilentOwnAt ==
    ASSUME ServerType, NEW j \in Conns, SoundAt(j), agent'[j] = agent[j], clients' = clients,
           server[j].phase = "serving",
           NEW m \in Plain \cup Replies \cup Replies', GetsOwn(j, m),
           m.type # "authenticated", \A d : ~Mentions(m, d)
    PROVE  SoundAt(j)'
  <1>1. CASE Full(j)
    BY <1>1, AwayAt DEF GetsOwn, Goes
  <1>2. CASE ~Full(j)
    <2>1. Gets(j, m)
      BY <1>2 DEF GetsOwn, Gets, Goes
    <2> QED
      BY <2>1, SilentAt
  <1> QED
    BY <1>1, <1>2

\* What the steps of the server's end can disturb.
ConnInv ==
    /\ QueuesBounded /\ MadeHasDevice /\ CurrentIsOpen /\ RegisteredIsServed
    /\ NotYetTold /\ ListIsTrue /\ WaitsForSomething /\ PresenceTrue

Served == {"registered", "serving", "leaving"}

(***************************************************************************)
(* The steps of the server keep the connections sound.                     *)
(***************************************************************************)
\* A step that leaves the hub's map alone, and every end its device and whether it is served.
LEMMA ServedKept ==
    ASSUME RegisteredIsServed, clients' = clients,
           \A j \in Conns : /\ server'[j].device = server[j].device
                            /\ server'[j].phase \in Served <=> server[j].phase \in Served
    PROVE  RegisteredIsServed'
  BY DEF RegisteredIsServed, DeviceOf, Served

\* Authenticate only concerns a connection that is not registered.
LEMMA AuthenticateKeeps ==
    ASSUME Inv, NEW k \in Conns, Authenticate(k)
    PROVE  ServerType' /\ ConnInv'
  <1> USE DEF Inv, Bounds, EndsInv, PresenceInv
  <1>1. /\ server[k].phase = "auth" /\ clients' = clients /\ agent' = agent /\ current' = current
        /\ Online' = Online
    BY DEF Authenticate, hub, worker, Online
  <1>2. /\ ServerType' /\ \A j \in Conns \ {k} : server'[j] = server[j]
        /\ \/ server'[k] = Gone(server[k])
           \/ server'[k] = [server[k] EXCEPT !.phase = "proved"]
    BY AuthenticateEffect DEF Types
  <1>3. server[k] \in Ends(Plain \cup Replies)
    BY DEF Types, ServerType
  <1>4. /\ server'[k].phase \in {"gone", "proved"} /\ server'[k].device = server[k].device
        /\ server'[k].send = server[k].send \/ server'[k].send = <<>>
    <2>1. CASE server'[k] = Gone(server[k])
      BY <1>3, <2>1, GoneFacts
    <2>2. CASE server'[k] = [server[k] EXCEPT !.phase = "proved"]
      BY <1>3, <2>2 DEF Ends
    <2> QED
      BY <1>2, <2>1, <2>2
  <1>5. QueuesBounded'
    <2>1. server'[k].send = <<>>
      BY <1>1, <1>4 DEF NotYetTold
    <2> QED
      BY <1>2, <2>1, RendezvousConstants DEF QueuesBounded
  <1>6. MadeHasDevice' /\ CurrentIsOpen'
    BY <1>1, <1>2, <1>4, EndsKept
  <1>7. RegisteredIsServed'
    BY <1>1, <1>2, <1>4, ServedKept DEF Served
  <1>8. ASSUME NEW j \in Conns
        PROVE  SoundAt(j)'
    <2>1. SoundAt(j) /\ agent'[j] = agent[j]
      BY <1>1, AtAll
    <2>2. CASE j # k
      BY <1>1, <1>2, <2>1, <2>2, KeptAt
    <2>3. CASE j = k /\ server'[k].phase = "gone"
      BY <2>3, AwayAt
    <2>4. CASE j = k /\ server'[k].phase = "proved"
      <3>1. server'[k].send = <<>> /\ agent[k].state \in {"waiting", "closed"}
        BY <1>1, <1>4 DEF NotYetTold
      <3> QED
        BY <2>1, <2>4, <3>1, OutsideAt
    <2> QED
      BY <1>4, <2>2, <2>3, <2>4
  <1> QED
    BY <1>2, <1>5, <1>6, <1>7, <1>8, AtAllNext DEF ConnInv

\* Register tells everyone who is served, and the list it hands out is the one of that moment.
LEMMA RegisterKeeps ==
    ASSUME Inv, NEW k \in Conns, Register(k)
    PROVE  ServerType' /\ ConnInv'
  <1> USE DEF Inv, Bounds, EndsInv, PresenceInv
  <1> DEFINE d == DeviceOf(k)
  <1>1. server[k].phase = "proved" /\ agent' = agent /\ current' = current
    BY DEF Register, worker
  <1>2. /\ ServerType' /\ d \in Devices
        /\ \/ /\ clients' = clients /\ server'[k] = Gone(server[k])
              /\ \A j \in Conns \ {k} : server'[j] = server[j]
           \/ /\ clients[d] = 0 /\ clients' = [clients EXCEPT ![d] = k]
              /\ server'[k] = [server[k] EXCEPT !.phase = "registered", !.peers = Online]
              /\ \A j \in Conns \ {k} :
                    IF j \in Others(d) THEN Gets(j, Joined(d)) ELSE server'[j] = server[j]
    BY RegisterEffect
  <1>3. /\ server[k] \in Ends(Plain \cup Replies) /\ server[k].device = d /\ server[k].send = <<>>
        /\ agent[k].state \in {"waiting", "closed"} /\ Joined(d) \in Plain \cup Replies
    BY <1>1, <1>2, EventTypes DEF Types, ServerType, NotYetTold, DeviceOf
  <1> HIDE DEF d
  <1>4. CASE /\ clients' = clients /\ server'[k] = Gone(server[k])
             /\ \A j \in Conns \ {k} : server'[j] = server[j]
    <2>1. server'[k].phase = "gone" /\ server'[k].device = server[k].device
            /\ server'[k].send = <<>>
      BY <1>3, <1>4, GoneFacts
    <2>2. QueuesBounded'
      BY <1>4, <2>1, RendezvousConstants DEF QueuesBounded
    <2>3. MadeHasDevice' /\ CurrentIsOpen'
      BY <1>1, <1>4, <2>1, EndsKept
    <2>4. RegisteredIsServed'
      BY <1>1, <1>4, <2>1, ServedKept DEF Served
    <2>5. ASSUME NEW j \in Conns
          PROVE  SoundAt(j)'
      <3>1. SoundAt(j) /\ agent'[j] = agent[j] /\ Online' = Online
        BY <1>1, <1>4, AtAll DEF Online
      <3> QED
        BY <1>4, <2>1, <3>1, KeptAt, AwayAt
    <2> QED
      BY <1>2, <2>2, <2>3, <2>4, <2>5, AtAllNext DEF ConnInv
  <1>5. CASE /\ clients[d] = 0 /\ clients' = [clients EXCEPT ![d] = k]
             /\ server'[k] = [server[k] EXCEPT !.phase = "registered", !.peers = Online]
             /\ \A j \in Conns \ {k} :
                   IF j \in Others(d) THEN Gets(j, Joined(d)) ELSE server'[j] = server[j]
    <2>1. /\ server'[k].phase = "registered" /\ server'[k].device = d /\ server'[k].send = <<>>
          /\ server'[k].peers = Online /\ server'[k].live = server[k].live
      BY <1>3, <1>5 DEF Ends
    <2>2. \A j \in Conns \ {k} : /\ server'[j].phase = server[j].phase
                                 /\ server'[j].device = server[j].device
      BY <1>5 DEF Gets, Queued
    <2>3. clients \in [Devices -> Conns \cup {0}]
      BY DEF Types, HubType
    <2>4. Online' = Online \cup {d} /\ d \notin Online
      BY <1>2, <1>5, <2>3, ConnFacts DEF Online
    <2>5. QueuesBounded'
      <3> SUFFICES ASSUME NEW j \in Conns PROVE Len(server'[j].send) <= QueueSize
        BY DEF QueuesBounded
      <3>1. CASE j = k
        BY <2>1, <3>1, RendezvousConstants
      <3>2. CASE j # k /\ j \in Others(d)
        BY <1>3, <1>5, <3>2, QueuedBounded DEF Gets, Types
      <3>3. CASE j # k /\ j \notin Others(d)
        BY <1>5, <3>3 DEF QueuesBounded
      <3> QED
        BY <3>1, <3>2, <3>3
    <2>6. MadeHasDevice' /\ CurrentIsOpen'
      BY <1>1, <1>3, <2>1, <2>2, EndsKept
    <2>7. RegisteredIsServed'
      <3> SUFFICES ASSUME NEW j \in Conns, NEW e \in Devices
                   PROVE  clients'[e] = j <=> server'[j].device = e /\ server'[j].phase \in Served
        BY DEF RegisteredIsServed, DeviceOf, Served
      <3>1. clients[e] = j <=> server[j].device = e /\ server[j].phase \in Served
        BY DEF RegisteredIsServed, DeviceOf, Served
      <3>2. clients'[e] = IF e = d THEN k ELSE clients[e]
        BY <1>2, <1>5, <2>3
      <3>3. CASE j = k
        BY <1>1, <2>1, <3>1, <3>2, <3>3 DEF Served
      <3>4. CASE j # k
        BY <1>5, <2>2, <3>1, <3>2, <3>4, ConnFacts
      <3> QED
        BY <3>3, <3>4
    <2>8. ASSUME NEW j \in Conns
          PROVE  SoundAt(j)'
      <3>1. SoundAt(j) /\ agent'[j] = agent[j]
        BY <1>1, AtAll
      <3>2. CASE j = k
        <4>1. NotToldAt(k)' /\ WaitsAt(k)' /\ PresenceAt(k)'
          BY <1>3, <2>1, <3>1, <3>2 DEF NotToldAt, WaitsAt, PresenceAt, NoAuthentication
        <4>2. ListAt(k)'
          BY <2>1, <2>4 DEF ListAt, DeviceOf
        <4> QED
          BY <3>2, <4>1, <4>2 DEF SoundAt
      <3>3. CASE j # k /\ j \in Others(d)
        <4>1. server[j].device # d /\ server[j].phase \in Served
          BY <1>5, <3>3, ConnFacts DEF Others, Online, RegisteredIsServed, DeviceOf, Served
        <4>2. \A e \in Devices : e \in Online' \ {DeviceOf(j)}
                <=> IF Mentions(Joined(d), e) THEN Says(Joined(d), e)
                  ELSE e \in Online \ {DeviceOf(j)}
          BY <2>4, <4>1 DEF Mentions, Says, Joined, DeviceOf
        <4>3. Joined(d).type # "authenticated" /\ server[j].phase \notin {"auth", "proved"}
              /\ Joined(d) \in Plain \cup Replies \cup Replies' /\ Gets(j, Joined(d))
          BY <1>3, <1>5, <3>3, <4>1 DEF Joined, Served
        <4> QED
          BY <3>1, <4>2, <4>3, GetsAt DEF Types
      <3>4. CASE j # k /\ j \notin Others(d)
        <4>1. server[j].phase \notin Served
          <5> SUFFICES ASSUME server[j].phase \in Served
                       PROVE  FALSE
            OBVIOUS
          <5>1. server[j].device \in Devices
            BY DEF MadeHasDevice, Served
          <5>2. clients[server[j].device] = j
            BY <5>1 DEF RegisteredIsServed, DeviceOf, Served
          <5> QED
            BY <1>5, <3>4, <5>1, <5>2, ConnFacts DEF Others, Online
        <4>2. server'[j] = server[j]
          BY <1>5, <3>4
        <4>3. server[j].phase \in Phases
          BY DEF Types, ServerType, Ends
        <4>4. CASE server[j].phase \in {"none", "leaving", "gone"}
          BY <4>2, <4>4, AwayAt
        <4>5. CASE server[j].phase \in {"auth", "proved"}
          BY <3>1, <4>2, <4>5, OutsideAt DEF SoundAt, NotToldAt
        <4> QED
          BY <4>1, <4>3, <4>4, <4>5 DEF Phases, Served
      <3> QED
        BY <3>2, <3>3, <3>4
    <2> QED
      BY <1>2, <2>5, <2>6, <2>7, <2>8, AtAllNext DEF ConnInv
  <1> QED
    BY <1>2, <1>4, <1>5

\* Unregister tells everyone who is served.
LEMMA UnregisterKeeps ==
    ASSUME Inv, NEW k \in Conns, Unregister(k)
    PROVE  ServerType' /\ ConnInv'
  <1> USE DEF Inv, Bounds, EndsInv, PresenceInv
  <1> DEFINE d == DeviceOf(k)
  <1>1. server[k].phase = "leaving" /\ agent' = agent /\ current' = current
    BY DEF Unregister, worker
  <1>2. /\ ServerType' /\ d \in Devices /\ clients[d] = k
        /\ clients' = [clients EXCEPT ![d] = 0] /\ server'[k] = Gone(server[k])
        /\ \A j \in Conns \ {k} :
              IF j \in Others(d) THEN Gets(j, Left(d)) ELSE server'[j] = server[j]
    BY UnregisterEffect
  <1>3. /\ server[k] \in Ends(Plain \cup Replies) /\ server[k].device = d
        /\ Left(d) \in Plain \cup Replies
    BY <1>1, <1>2, EventTypes DEF Types, ServerType, DeviceOf
  <1> HIDE DEF d
  <1>4. server'[k].phase = "gone" /\ server'[k].device = d /\ server'[k].send = <<>>
    BY <1>2, <1>3, GoneFacts
  <1>5. \A j \in Conns \ {k} : /\ server'[j].phase = server[j].phase
                               /\ server'[j].device = server[j].device
    BY <1>2 DEF Gets, Queued
  <1>6. clients \in [Devices -> Conns \cup {0}]
    BY DEF Types, HubType
  <1>7. Online' = Online \ {d} /\ d \in Online
    BY <1>2, <1>6, ConnFacts DEF Online
  <1>8. QueuesBounded'
    <2> SUFFICES ASSUME NEW j \in Conns PROVE Len(server'[j].send) <= QueueSize
      BY DEF QueuesBounded
    <2>1. CASE j = k
      BY <1>4, <2>1, RendezvousConstants
    <2>2. CASE j # k /\ j \in Others(d)
      BY <1>2, <1>3, <2>2, QueuedBounded DEF Gets, Types
    <2>3. CASE j # k /\ j \notin Others(d)
      BY <1>2, <2>3 DEF QueuesBounded
    <2> QED
      BY <2>1, <2>2, <2>3
  <1>9. MadeHasDevice' /\ CurrentIsOpen'
    BY <1>1, <1>3, <1>4, <1>5, EndsKept
  <1>10. RegisteredIsServed'
    <2> SUFFICES ASSUME NEW j \in Conns, NEW e \in Devices
                 PROVE  clients'[e] = j <=> server'[j].device = e /\ server'[j].phase \in Served
      BY DEF RegisteredIsServed, DeviceOf, Served
    <2>1. clients[e] = j <=> server[j].device = e /\ server[j].phase \in Served
      BY DEF RegisteredIsServed, DeviceOf, Served
    <2>2. clients'[e] = IF e = d THEN 0 ELSE clients[e]
      BY <1>2, <1>6
    <2>3. CASE j = k
      BY <1>1, <1>3, <1>4, <2>1, <2>2, <2>3, ConnFacts DEF Served
    <2>4. CASE j # k
      BY <1>2, <1>5, <2>1, <2>2, <2>4, ConnFacts
    <2> QED
      BY <2>3, <2>4
  <1>11. ASSUME NEW j \in Conns
         PROVE  SoundAt(j)'
    <2>1. SoundAt(j) /\ agent'[j] = agent[j]
      BY <1>1, AtAll
    <2>2. CASE j = k
      BY <1>4, <2>2, AwayAt
    <2>3. CASE j # k /\ j \in Others(d)
      <3>1. server[j].device # d /\ server[j].phase \in Served
        BY <1>2, <2>3, ConnFacts DEF Others, Online, RegisteredIsServed, DeviceOf, Served
      <3>2. \A e \in Devices : e \in Online' \ {DeviceOf(j)}
              <=> IF Mentions(Left(d), e) THEN Says(Left(d), e) ELSE e \in Online \ {DeviceOf(j)}
        BY <1>7, <3>1 DEF Mentions, Says, Left, DeviceOf
      <3>3. Left(d).type # "authenticated" /\ server[j].phase \notin {"auth", "proved"}
            /\ Left(d) \in Plain \cup Replies \cup Replies' /\ Gets(j, Left(d))
        BY <1>2, <1>3, <2>3, <3>1 DEF Left, Served
      <3> QED
        BY <2>1, <3>2, <3>3, GetsAt DEF Types
    <2>4. CASE j # k /\ j \notin Others(d)
      <3>1. server[j].phase \notin Served
        <4> SUFFICES ASSUME server[j].phase \in Served
                     PROVE  FALSE
          OBVIOUS
        <4>1. server[j].device \in Devices
          BY DEF MadeHasDevice, Served
        <4>2. clients[server[j].device] = j
          BY <4>1 DEF RegisteredIsServed, DeviceOf, Served
        <4> QED
          BY <1>2, <2>4, <4>1, <4>2, ConnFacts DEF Others, Online
      <3>2. server'[j] = server[j]
        BY <1>2, <2>4
      <3>3. server[j].phase \in Phases
        BY DEF Types, ServerType, Ends
      <3>4. CASE server[j].phase \in {"none", "leaving", "gone"}
        BY <3>2, <3>4, AwayAt
      <3>5. CASE server[j].phase \in {"auth", "proved"}
        BY <2>1, <3>2, <3>5, OutsideAt DEF SoundAt, NotToldAt
      <3> QED
        BY <3>1, <3>3, <3>4, <3>5 DEF Phases, Served
    <2> QED
      BY <2>2, <2>3, <2>4
  <1> QED
    BY <1>2, <1>8, <1>9, <1>10, <1>11, AtAllNext DEF ConnInv

\* Events that say nothing of presence, put in any queues of served connections.
LEMMA SilentKeeps ==
    ASSUME Inv, ServerType', clients' = clients, agent' = agent, current' = current,
           \A j \in Conns :
              \/ server'[j] = server[j]
              \/ \E m \in Plain \cup Replies \cup Replies' :
                    /\ m.type # "authenticated" /\ \A d : ~Mentions(m, d)
                    /\ \/ server[j].phase \in Served /\ Gets(j, m)
                       \/ server[j].phase = "serving" /\ GetsOwn(j, m)
    PROVE  ServerType' /\ ConnInv'
  <1> USE DEF Inv, Bounds, EndsInv, PresenceInv
  <1>1. \A j \in Conns : /\ server'[j].device = server[j].device
                         /\ server'[j].phase = "none" <=> server[j].phase = "none"
                         /\ server'[j].phase \in Served <=> server[j].phase \in Served
    BY DEF Gets, GetsOwn, Queued, Goes, Served
  <1>2. QueuesBounded'
    <2> SUFFICES ASSUME NEW j \in Conns PROVE Len(server'[j].send) <= QueueSize
      BY DEF QueuesBounded
    <2>1. CASE server'[j] = server[j]
      BY <2>1 DEF QueuesBounded
    <2>2. CASE \E m \in Plain \cup Replies \cup Replies' : Queued(j, m)
      BY <2>2, QueuedBounded DEF Types
    <2> QED
      BY <2>1, <2>2 DEF Gets, GetsOwn
  <1>3. MadeHasDevice' /\ CurrentIsOpen'
    BY <1>1, EndsKept
  <1>4. RegisteredIsServed'
    BY <1>1, ServedKept
  <1>5. ASSUME NEW j \in Conns
        PROVE  SoundAt(j)'
    <2>1. SoundAt(j) /\ agent'[j] = agent[j] /\ Online' = Online
      BY AtAll DEF Online
    <2>2. CASE server'[j] = server[j]
      BY <2>1, <2>2, KeptAt
    <2>3. ASSUME NEW m \in Plain \cup Replies \cup Replies',
                 m.type # "authenticated", \A d : ~Mentions(m, d),
                 server[j].phase \in Served, Gets(j, m)
          PROVE  SoundAt(j)'
      <3>1. server[j].phase \notin {"auth", "proved"}
        BY <2>3 DEF Served
      <3> QED
        BY <2>1, <2>3, <3>1, SilentAt DEF Types
    <2>4. ASSUME NEW m \in Plain \cup Replies \cup Replies',
                 m.type # "authenticated", \A d : ~Mentions(m, d),
                 server[j].phase = "serving", GetsOwn(j, m)
          PROVE  SoundAt(j)'
      BY <2>1, <2>4, SilentOwnAt DEF Types
    <2> QED
      BY <2>2, <2>3, <2>4
  <1> QED
    BY <1>2, <1>3, <1>4, <1>5, AtAllNext DEF ConnInv

\* The client of a device is served.
LEMMA ClientServed ==
    ASSUME RegisteredIsServed, NEW d \in Devices, NEW j \in Conns, j = clients[d]
    PROVE  server[j].phase \in Served
  BY DEF RegisteredIsServed, Served

\* PushRevocation says nothing of presence.
LEMMA PushRevocationKeeps ==
    ASSUME Inv, NEW d \in Devices, PushRevocation(d)
    PROVE  ServerType' /\ ConnInv'
  <1>1. clients' = clients /\ agent' = agent /\ current' = current
    BY DEF PushRevocation, hub, worker
  <1>2. /\ ServerType'
        /\ \A j \in Conns : IF j = clients[d] THEN Gets(j, Revoked) ELSE server'[j] = server[j]
    BY PushRevocationEffect DEF Inv
  <1>3. Revoked \in Plain /\ Revoked.type # "authenticated" /\ \A e : ~Mentions(Revoked, e)
    BY EventTypes, SilentEvents
  <1>4. ASSUME NEW j \in Conns, j = clients[d]
        PROVE  server[j].phase \in Served
    BY <1>4, ClientServed DEF Inv, EndsInv
  <1>5. \A j \in Conns :
           \/ server'[j] = server[j]
           \/ \E m \in Plain \cup Replies \cup Replies' :
                 /\ m.type # "authenticated" /\ \A e : ~Mentions(m, e)
                 /\ \/ server[j].phase \in Served /\ Gets(j, m)
                    \/ server[j].phase = "serving" /\ GetsOwn(j, m)
    BY <1>2, <1>3, <1>4
  <1> QED
    BY <1>1, <1>2, <1>5, SilentKeeps

\* HandleApproval says nothing of presence.
LEMMA HandleApprovalKeeps ==
    ASSUME Inv, NEW k \in Conns, HandleApproval(k)
    PROVE  ServerType' /\ ConnInv'
  <1>1. /\ clients' = clients /\ agent' = agent /\ current' = current
        /\ server[k].phase = "serving"
    BY DEF HandleApproval, hub, worker
  <1>2. /\ ServerType' /\ GetsOwn(k, Reply(applied'))
        /\ \A j \in Conns \ {k} : server'[j] = server[j]
    BY HandleApprovalEffect DEF Inv, EndsInv
  <1>3. Reply(applied').type # "authenticated" /\ \A d : ~Mentions(Reply(applied'), d)
    BY SilentEvents
  <1>4. Reply(applied') \in Replies'
    <2>1. ~request'.sent /\ request'.state = request.state
            /\ request.state \notin {"none", "unsent"}
      BY DEF Inv, Types, ApprovalType, EndsInv, RequestInv, HandleApproval
    <2> QED
      BY <2>1 DEF Replies, Reply
  <1>5. \A j \in Conns :
           \/ server'[j] = server[j]
           \/ \E m \in Plain \cup Replies \cup Replies' :
                 /\ m.type # "authenticated" /\ \A d : ~Mentions(m, d)
                 /\ \/ server[j].phase \in Served /\ Gets(j, m)
                    \/ server[j].phase = "serving" /\ GetsOwn(j, m)
    BY <1>1, <1>2, <1>3, <1>4
  <1> QED
    BY <1>1, <1>2, <1>5, SilentKeeps

\* ForwardSignal says nothing of presence.
LEMMA ForwardSignalKeeps ==
    ASSUME Inv, NEW k \in Conns, NEW s \in agent[k].sessions, ForwardSignal(k, s)
    PROVE  ServerType' /\ ConnInv'
  <1> DEFINE m == Signal(DeviceOf(k), s.id)
  <1>1. /\ clients' = clients /\ agent' = agent /\ current' = current
        /\ server[k].phase = "serving"
    BY DEF ForwardSignal, hub, worker
  <1>2. /\ ServerType'
        /\ \/ /\ \A j \in Conns :
                    IF j = clients[s.peer] THEN Gets(j, m) ELSE server'[j] = server[j]
           \/ /\ GetsOwn(k, Refusal)
              /\ \A j \in Conns \ {k} :
                    IF j = clients[s.peer] THEN Full(j) /\ Gets(j, Refusal)
                    ELSE server'[j] = server[j]
    BY ForwardSignalEffect DEF Inv, EndsInv
  <1>3. s.peer \in Devices /\ s.id \in Conns /\ DeviceOf(k) \in Devices
    BY <1>1 DEF Inv, Types, AgentType, AgentEnds, Sessions, EndsInv, MadeHasDevice, DeviceOf
  <1>4. /\ Refusal \in Plain /\ Refusal.type # "authenticated" /\ \A d : ~Mentions(Refusal, d)
        /\ m \in Plain /\ m.type # "authenticated" /\ \A d : ~Mentions(m, d)
    BY <1>3, EventTypes, SilentEvents
  <1>5. ASSUME NEW j \in Conns, j = clients[s.peer]
        PROVE  server[j].phase \in Served
    BY <1>3, <1>5, ClientServed DEF Inv, EndsInv
  <1> HIDE DEF m
  <1>6. \A j \in Conns :
           \/ server'[j] = server[j]
           \/ \E n \in Plain \cup Replies \cup Replies' :
                 /\ n.type # "authenticated" /\ \A d : ~Mentions(n, d)
                 /\ \/ server[j].phase \in Served /\ Gets(j, n)
                    \/ server[j].phase = "serving" /\ GetsOwn(j, n)
    BY <1>1, <1>2, <1>4, <1>5
  <1> QED
    BY <1>1, <1>2, <1>6, SilentKeeps

\* SendAuthenticated hands out a list that no event has overtaken, or an agent will hang up.
LEMMA SendAuthenticatedKeeps ==
    ASSUME Inv, NEW k \in Conns, SendAuthenticated(k)
    PROVE  ServerType' /\ ConnInv'
  <1> USE DEF Inv, Bounds, EndsInv, PresenceInv
  <1>1. /\ clients' = clients /\ agent' = agent /\ current' = current
        /\ server[k].phase = "registered" /\ Online' = Online
    BY DEF SendAuthenticated, hub, worker, Online
  <1>2. /\ ServerType' /\ GetsOwn(k, Authenticated(server[k].peers))
        /\ \A j \in Conns \ {k} : server'[j] = server[j]
    BY SendAuthenticatedEffect
  <1>3. Authenticated(server[k].peers) \in Plain
    BY EventTypes DEF Types, ServerType, Ends
  <1>4. \A j \in Conns : /\ server'[j].device = server[j].device
                         /\ server'[j].phase = "none" <=> server[j].phase = "none"
                         /\ server'[j].phase \in Served <=> server[j].phase \in Served
    BY <1>1, <1>2 DEF GetsOwn, Queued, Goes, Served
  <1>5. QueuesBounded'
    <2>1. Len(server'[k].send) <= QueueSize
      BY <1>2, <1>3, QueuedBounded DEF Types, GetsOwn
    <2> QED
      BY <1>2, <2>1 DEF QueuesBounded
  <1>6. MadeHasDevice' /\ CurrentIsOpen'
    BY <1>1, <1>4, EndsKept
  <1>7. RegisteredIsServed'
    BY <1>1, <1>4, ServedKept
  <1>8. ASSUME NEW j \in Conns
        PROVE  SoundAt(j)'
    <2>1. SoundAt(j) /\ agent'[j] = agent[j]
      BY <1>1, AtAll
    <2>2. CASE j # k
      BY <1>1, <1>2, <2>1, <2>2, KeptAt
    <2>3. CASE j = k
      BY <1>1, <1>2, <2>1, <2>3, AuthenticatedAt DEF Types
    <2> QED
      BY <2>2, <2>3
  <1> QED
    BY <1>2, <1>5, <1>6, <1>7, <1>8, AtAllNext DEF ConnInv

\* What is in the queue that an agent reads from.
LEMMA EventInQueue ==
    ASSUME ServerType, NEW k \in Conns, Arrived(k)
    PROVE  /\ Event(k) \in Plain \cup Replies /\ server[k].send # <<>>
           /\ Tail(server[k].send) \in Seq(Plain \cup Replies)
           /\ Len(server[k].send) \in Nat /\ Len(Tail(server[k].send)) = Len(server[k].send) - 1
           /\ server[k].send \in Seq(Plain \cup Replies)
  <1> DEFINE S == Plain \cup Replies  q == server[k].send
  <1>1. q \in Seq(S) /\ q # <<>>
    BY DEF ServerType, Ends, Arrived
  <1>2. Event(k) = Head(q)
    BY DEF Event
  <1> HIDE DEF S, q
  <1>3. Head(q) \in S /\ Tail(q) \in Seq(S) /\ Len(q) \in Nat /\ Len(Tail(q)) = Len(q) - 1
    BY <1>1
  <1> QED
    BY <1>1, <1>2, <1>3 DEF S, q

\* What reading an event does to the server's ends.
LEMMA TakenEffect ==
    ASSUME ServerType, NEW k \in Conns, Arrived(k), server' = Taken(k), Replies \subseteq Replies'
    PROVE  /\ ServerType'
           /\ \A j \in Conns \ {k} : server'[j] = server[j]
           /\ server'[k].phase = server[k].phase /\ server'[k].device = server[k].device
           /\ server'[k].send = Tail(server[k].send) /\ server'[k].peers = server[k].peers
           /\ server'[k].live <=> Event(k) # Revoked
  <1> DEFINE S == Plain \cup Replies  b == (Event(k) # Revoked)
  <1>1. server[k] \in Ends(S) /\ server \in [Conns -> Ends(S)]
    BY DEF ServerType
  <1>2. Tail(server[k].send) \in Seq(S) /\ b \in BOOLEAN
    BY EventInQueue
  <1>3. server' = [server EXCEPT ![k].send = Tail(@), ![k].live = b]
    BY DEF Taken
  <1> HIDE DEF S, b
  <1>4. /\ server' = [j \in Conns |-> server'[j]] /\ \A j \in Conns \ {k} : server'[j] = server[j]
        /\ server'[k] = [server[k] EXCEPT !.send = Tail(@), !.live = b]
    BY <1>1, <1>3
  <1>5. server'[k].phase = server[k].phase /\ server'[k].device = server[k].device
        /\ server'[k].send = Tail(server[k].send) /\ server'[k].live = b
        /\ server'[k].peers = server[k].peers /\ server'[k] \in Ends(S)
    BY <1>1, <1>2, <1>4 DEF Ends
  <1>6. \A j \in Conns : server'[j] \in Ends(S)
    BY <1>1, <1>4, <1>5
  <1>7. server' \in [Conns -> Ends(S)]
    BY <1>4, <1>6
  <1>8. ServerType'
    BY <1>7, ServerTyped DEF S
  <1> QED
    BY <1>4, <1>5, <1>8 DEF b

\* Reading an event keeps a connection right: the agent makes of it what it says.
LEMMA ReadAt ==
    ASSUME ServerType, NEW k \in Conns, SoundAt(k), Arrived(k), server' = Taken(k),
           Replies \subseteq Replies', Online' = Online,
           agent[k].state \in {"live", "waiting"},
           agent[k].state = "waiting" => Event(k).type = "authenticated",
           agent'[k].state = "live",
           \A d \in Devices : d \in agent'[k].peers
                <=> IF Mentions(Event(k), d) THEN Says(Event(k), d) ELSE d \in agent[k].peers
    PROVE  SoundAt(k)'
  <1> DEFINE S == Plain \cup Replies  q == server[k].send  P == agent[k].peers  R == agent'[k].peers
  <1>1. q \in Seq(S) /\ q # <<>> /\ Event(k) = Head(q)
    BY EventInQueue DEF Event
  <1>2. /\ server'[k].phase = server[k].phase /\ server'[k].device = server[k].device
        /\ server'[k].send = Tail(q)
    BY TakenEffect
  <1>3. server[k].phase \notin {"auth", "proved", "registered"}
    <2>1. NoAuthentication(q) => Head(q).type # "authenticated"
      <3> HIDE DEF S, q
      <3> QED
        BY <1>1 DEF NoAuthentication
    <2> QED
      BY <1>1, <2>1 DEF SoundAt, NotToldAt
  <1>4. NotToldAt(k)' /\ ListAt(k)' /\ WaitsAt(k)'
    BY <1>2, <1>3 DEF NotToldAt, ListAt, WaitsAt
  <1>5. Foreseen(R, Tail(q)) = Foreseen(P, q)
    <2> HIDE DEF S, q, P, R
    <2>1. \A d \in Devices : d \in R <=> IF Mentions(Head(q), d) THEN Says(Head(q), d)
            ELSE d \in P
      BY <1>1 DEF P, R
    <2> QED
      BY <1>1, <2>1, ForeseenTail
  <1>6. PresenceAt(k)'
    <2> SUFFICES ASSUME server'[k].phase = "serving"
                 PROVE  Foreseen(R, server'[k].send) = Online' \ {DeviceOf(k)'}
      BY DEF PresenceAt
    <2>1. server[k].phase = "serving" /\ server[k].live /\ agent[k].open
      BY <1>2 DEF Arrived
    <2>2. Foreseen(P, q) = Online \ {DeviceOf(k)}
      BY <2>1 DEF SoundAt, PresenceAt
    <2> QED
      BY <1>2, <1>5, <2>2 DEF DeviceOf
  <1> QED
    BY <1>4, <1>6 DEF SoundAt

\* An agent end that is not connected any more.
LEMMA ClosedAt ==
    ASSUME ServerType, NEW k \in Conns, SoundAt(k), Arrived(k), server' = Taken(k),
           Replies \subseteq Replies', agent'[k].state = "closed"
    PROVE  SoundAt(k)'
  <1> DEFINE S == Plain \cup Replies  q == server[k].send
  <1>1. q \in Seq(S) /\ q # <<>>
    BY EventInQueue
  <1>2. server'[k].phase = server[k].phase /\ server'[k].send = Tail(q)
    BY TakenEffect
  <1>3. NoAuthentication(q) => NoAuthentication(Tail(q))
    <2> HIDE DEF S, q
    <2> QED
      BY <1>1 DEF NoAuthentication
  <1>4. server[k].phase \notin {"auth", "proved"}
    BY <1>1 DEF SoundAt, NotToldAt
  <1>5. NotToldAt(k)'
    BY <1>2, <1>3, <1>4 DEF SoundAt, NotToldAt
  <1>6. ListAt(k)' /\ WaitsAt(k)' /\ PresenceAt(k)'
    BY DEF ListAt, WaitsAt, PresenceAt
  <1> QED
    BY <1>5, <1>6 DEF SoundAt

(***************************************************************************)
(* The watch stream.                                                       *)
(***************************************************************************)
LEMMA ProjectionType ==
    ASSUME AgentType, WorkerType, NEW d \in Devices
    PROVE  Projection(d) \subseteq Devices \cup Offline
  BY DEF AgentType, WorkerType, AgentEnds, Projection

\* A step that publishes what changes in one device's projection.
LEMMA PublishedTrue ==
    ASSUME WatchType, WatchBounded, WatchTrue, NEW d \in Devices, NEW e \in WatchEvents,
           e.type # "gap", watch' = Published(d, e),
           \A x \in Devices \ {d} : Projection(x)' = Projection(x),
           Projection(d)' \subseteq Devices \cup Offline,
           \A x \in Devices \cup Offline : x \in Projection(d)'
                <=> IF Tells(e, x) THEN Told(e, x) ELSE x \in Projection(d)
    PROVE  WatchType' /\ WatchBounded' /\ WatchTrue'
  <1> DEFINE q == watch.events  s == watch.seen
  <1>1. q \in Seq(WatchEvents) /\ [type |-> "gap"] \in WatchEvents
    BY DEF WatchType, WatchEvents
  <1>2. /\ Append(q, e) \in Seq(WatchEvents) /\ Append(q, [type |-> "gap"]) \in Seq(WatchEvents)
        /\ Len(q) \in Nat /\ Len(Append(q, e)) = Len(q) + 1
        /\ Len(Append(q, [type |-> "gap"])) = Len(q) + 1
    BY <1>1
  <1>3. CASE watch.state # "open" \/ watch.device # d
    <2>1. watch' = watch
      BY <1>3 DEF Published
    <2>2. watch.state = "open" => watch.device \in Devices \ {d}
      BY <1>3 DEF WatchBounded
    <2>3. WatchType' /\ WatchBounded'
      BY <2>1 DEF WatchType, WatchBounded, WatchEvents
    <2>4. WatchTrue'
      BY <2>1, <2>2 DEF WatchTrue
    <2> QED
      BY <2>3, <2>4
  <1>4. CASE watch.state = "open" /\ watch.device = d /\ Len(q) < WatchDepth
    <2>1. watch' = [watch EXCEPT !.events = Append(@, e)]
      BY <1>4 DEF Published
    <2>2. watch'.state = "open" /\ watch'.device = d /\ watch'.events = Append(q, e)
            /\ watch'.seen = s
      BY <1>4, <2>1 DEF WatchType
    <2>3. WatchType'
      BY <1>2, <2>1 DEF WatchType, WatchEvents
    <2>4. WatchBounded'
      BY <1>2, <1>4, <2>2, RendezvousConstants DEF WatchBounded
    <2>5. /\ Expected(s, Append(q, e)) \subseteq Devices \cup Offline
          /\ \A x \in Devices \cup Offline : x \in Expected(s, Append(q, e))
                <=> IF Tells(e, x) THEN Told(e, x) ELSE x \in Expected(s, q)
      <3> HIDE DEF q, s
      <3> QED
        BY <1>1, ExpectedAppend
    <2>6. Expected(s, q) = Projection(d)
      BY <1>4 DEF WatchTrue
    <2> HIDE DEF q, s
    <2>7. Expected(s, Append(q, e)) = Projection(d)'
      BY <2>5, <2>6
    <2>8. WatchTrue'
      BY <2>2, <2>7 DEF WatchTrue
    <2> QED
      BY <2>3, <2>4, <2>8
  <1>5. CASE watch.state = "open" /\ watch.device = d /\ ~(Len(q) < WatchDepth)
    <2>1. watch' = [watch EXCEPT !.events = Append(@, [type |-> "gap"]), !.state = "ended"]
      BY <1>5 DEF Published
    <2>2. watch'.state = "ended" /\ watch'.events = Append(q, [type |-> "gap"])
      BY <2>1 DEF WatchType
    <2>3. WatchType'
      BY <1>2, <2>1 DEF WatchType, WatchEvents
    <2>4. WatchBounded'
      BY <1>2, <1>5, <2>2, RendezvousConstants DEF WatchBounded
    <2> QED
      BY <2>2, <2>3, <2>4 DEF WatchTrue
  <1> QED
    BY <1>3, <1>4, <1>5

\* A step that changes no projection and publishes nothing.
LEMMA WatchKept ==
    ASSUME WatchType, WatchBounded, WatchTrue, watch' = watch,
           \A x \in Devices : Projection(x)' = Projection(x)
    PROVE  WatchType' /\ WatchBounded' /\ WatchTrue'
  <1>1. WatchType' /\ WatchBounded'
    BY DEF WatchType, WatchBounded, WatchEvents
  <1>2. WatchTrue'
    BY DEF WatchTrue, WatchBounded
  <1> QED
    BY <1>1, <1>2

\* A step of the agent end k leaves the projections of the other devices alone.
LEMMA OtherProjections ==
    ASSUME Types, MadeHasDevice, CurrentIsOpen, NEW k \in Conns, server[k].phase # "none",
           \A j \in Conns \ {k} : agent'[j] = agent[j],
           current' = current \/ current' = [current EXCEPT ![DeviceOf(k)] = 0]
    PROVE  \A x \in Devices \ {DeviceOf(k)} : Projection(x)' = Projection(x)
  <1> SUFFICES ASSUME NEW x \in Devices \ {DeviceOf(k)}
               PROVE  Projection(x)' = Projection(x)
    OBVIOUS
  <1>1. current'[x] = current[x] /\ current[x] \in Conns \cup {0}
    BY DEF Types, WorkerType
  <1>2. current[x] # k
    BY ConnFacts DEF CurrentIsOpen
  <1> QED
    BY <1>1, <1>2 DEF Projection

AtInv == NotYetTold /\ ListIsTrue /\ WaitsForSomething /\ PresenceTrue
WatchInv == WatchType /\ WatchBounded /\ WatchTrue

\* An agent end is live, closing or waiting only on a connection that was made.
LEMMA MadeConn ==
    ASSUME MadeHasDevice, NEW k \in Conns, agent[k].state # "none"
    PROVE  server[k].phase # "none" /\ DeviceOf(k) \in Devices
  BY DEF MadeHasDevice, DeviceOf

\* FirstMessage makes the agent's view the list it reads, or ends the connection.
LEMMA FirstMessageKeeps ==
    ASSUME Inv, NEW k \in Conns, FirstMessage(k)
    PROVE  /\ ServerType' /\ AgentType' /\ SessionsBounded' /\ SessionsInv'
           /\ AtInv' /\ WatchInv'
  <1> USE DEF Inv, Bounds, EndsInv, PresenceInv
  <1>1. PICK d \in Devices : d = DeviceOf(k)
    BY MadeConn DEF FirstMessage
  <1>2. /\ agent[k].state = "waiting" /\ Arrived(k) /\ server' = Taken(k) /\ Replies' = Replies
        /\ Online' = Online /\ server[k].phase # "none"
    <2>1. agent[k].state = "waiting" /\ Arrived(k) /\ server' = Taken(k) /\ Replies' = Replies
      BY RepliesKept DEF FirstMessage, approval
    <2>2. Online' = Online
      BY DEF FirstMessage, hub, Online
    <2> QED
      BY <2>1, <2>2, MadeConn
  <1>3. /\ ServerType' /\ \A j \in Conns \ {k} : server'[j] = server[j]
        /\ server'[k].phase = server[k].phase /\ server'[k].device = server[k].device
    BY <1>2, TakenEffect DEF Types
  <1>4. Event(k) \in Plain \cup Replies
    BY <1>2, EventInQueue DEF Types
  <1>5. current[d] = k /\ current \in [Devices -> Conns \cup {0}]
          /\ agent \in [Conns -> AgentEnds]
        /\ agent[k] \in AgentEnds /\ k # 0 /\ agent[k].sessions = {}
    BY <1>1, <1>2, ConnFacts DEF CurrentIsOpen, Types, WorkerType, AgentType, SessionsInv
  <1>6. CASE Event(k).type = "authenticated" /\ GoLive(k)
    <2> DEFINE P == Event(k).peers
    <2>1. P \subseteq Devices
      BY <1>4, <1>6, EventFacts
    <2>2. /\ agent' = [agent EXCEPT ![k].state = "live", ![k].peers = P] /\ current' = current
          /\ watch' = Published(d, Connected(P))
      BY <1>1, <1>6 DEF GoLive
    <2> HIDE DEF P
    <2>3. /\ \A j \in Conns \ {k} : agent'[j] = agent[j]
          /\ agent'[k] = [agent[k] EXCEPT !.state = "live", !.peers = P]
      BY <1>5, <2>2
    <2>4. agent'[k].state = "live" /\ agent'[k].peers = P
            /\ agent'[k].sessions = agent[k].sessions
          /\ agent'[k].open = agent[k].open /\ agent'[k] \in AgentEnds
      BY <1>5, <2>1, <2>3 DEF AgentEnds, States
    <2>5. AgentType'
      BY <1>5, <2>2, <2>4 DEF AgentType, AgentEnds, States, Sessions, Conns
    <2>6. SessionsBounded' /\ SessionsInv'
      <3>1. SessionsBounded'
        BY <2>3, <2>4 DEF SessionsBounded
      <3> QED
        BY <1>5, <2>3, <2>4, <3>1 DEF SessionsInv
    <2>7. ASSUME NEW j \in Conns
          PROVE  SoundAt(j)'
      <3>1. SoundAt(j)
        BY AtAll
      <3>2. CASE j # k
        BY <1>2, <1>3, <2>3, <3>1, <3>2, KeptAt
      <3>3. CASE j = k
        <4>1. \A x \in Devices : x \in agent'[k].peers
                <=> IF Mentions(Event(k), x) THEN Says(Event(k), x) ELSE x \in agent[k].peers
          BY <1>6, <2>4 DEF Mentions, Says, P
        <4> QED
          BY <1>2, <1>6, <2>4, <3>1, <3>3, <4>1, ReadAt DEF Types
      <3> QED
        BY <3>2, <3>3
    <2>8. WatchInv'
      <3>1. Projection(d) = Offline
        BY <1>2, <1>5 DEF Projection
      <3>2. Projection(d)' = P
        BY <1>5, <2>2, <2>4 DEF Projection
      <3>3. \A x \in Devices \ {d} : Projection(x)' = Projection(x)
        BY <1>1, <1>2, <2>2, <2>3, OtherProjections
      <3>4. Connected(P) \in WatchEvents /\ Connected(P).type # "gap"
        BY <2>1 DEF Connected, WatchEvents
      <3>5. \A x \in Devices \cup Offline : Tells(Connected(P), x)
              /\ (Told(Connected(P), x) <=> x \in P)
        BY DEF Connected, Tells, Told
      <3>6. Projection(d)' \subseteq Devices \cup Offline
        BY <2>1, <3>2
      <3>7. \A x \in Devices \cup Offline : x \in Projection(d)'
                <=> IF Tells(Connected(P), x) THEN Told(Connected(P), x) ELSE x \in Projection(d)
        BY <3>2, <3>5
      <3> QED
        BY <1>2, <2>2, <3>3, <3>4, <3>6, <3>7, PublishedTrue DEF Types, WatchInv
    <2> QED
      BY <1>3, <2>5, <2>6, <2>7, <2>8, AtAllNext DEF AtInv
  <1>7. CASE /\ agent' = [agent EXCEPT ![k].state = "closed", ![k].open = FALSE]
             /\ current' = [current EXCEPT ![d] = 0] /\ watch' = watch
    <2>1. /\ \A j \in Conns \ {k} : agent'[j] = agent[j]
          /\ agent'[k] = [agent[k] EXCEPT !.state = "closed", !.open = FALSE]
      BY <1>5, <1>7
    <2>2. agent'[k].state = "closed" /\ agent'[k].peers = agent[k].peers
          /\ agent'[k].sessions = agent[k].sessions /\ agent'[k] \in AgentEnds
      BY <1>5, <2>1 DEF AgentEnds, States
    <2>3. AgentType'
      BY <1>5, <1>7, <2>2 DEF AgentType, AgentEnds, States, Sessions, Conns
    <2>4. SessionsBounded' /\ SessionsInv'
      <3>1. SessionsBounded'
        BY <2>1, <2>2 DEF SessionsBounded
      <3> QED
        BY <1>5, <2>1, <2>2, <3>1 DEF SessionsInv
    <2>5. ASSUME NEW j \in Conns
          PROVE  SoundAt(j)'
      <3>1. SoundAt(j)
        BY AtAll
      <3>2. CASE j # k
        BY <1>2, <1>3, <2>1, <3>1, <3>2, KeptAt
      <3>3. CASE j = k
        BY <1>2, <2>2, <3>1, <3>3, ClosedAt DEF Types
      <3> QED
        BY <3>2, <3>3
    <2>6. WatchInv'
      <3>1. Projection(d) = Offline
        BY <1>2, <1>5 DEF Projection
      <3>2. Projection(d)' = Offline
        BY <1>2, <1>5, <1>7 DEF Projection
      <3>3. \A x \in Devices \ {d} : Projection(x)' = Projection(x)
        BY <1>1, <1>2, <1>7, <2>1, OtherProjections
      <3>4. \A x \in Devices : Projection(x)' = Projection(x)
        BY <3>1, <3>2, <3>3
      <3> QED
        BY <1>7, <3>4, WatchKept DEF Types, WatchInv
    <2> QED
      BY <1>3, <2>3, <2>4, <2>5, <2>6, AtAllNext DEF AtInv
  <1> QED
    BY <1>1, <1>6, <1>7 DEF FirstMessage

\* What every message of a live connection finds.
LEMMA ReadFacts ==
    ASSUME Inv, NEW k \in Conns, ReadMessage(k)
    PROVE  /\ agent[k].state = "live" /\ Arrived(k) /\ server' = Taken(k)
           /\ Online' = Online /\ current' = current /\ clients' = clients
           /\ server[k].phase # "none" /\ DeviceOf(k) \in Devices
           /\ Event(k) \in Plain \cup Replies
           /\ current[DeviceOf(k)] = k /\ current \in [Devices -> Conns \cup {0}]
           /\ agent \in [Conns -> AgentEnds] /\ agent[k] \in AgentEnds /\ k # 0
  <1> USE DEF Inv, EndsInv
  <1>1. agent[k].state = "live" /\ Arrived(k) /\ server' = Taken(k) /\ current' = current
        /\ clients' = clients
    BY DEF ReadMessage, hub
  <1>2. Online' = Online
    BY <1>1 DEF Online
  <1>3. server[k].phase # "none" /\ DeviceOf(k) \in Devices
    BY <1>1, MadeConn
  <1>4. Event(k) \in Plain \cup Replies
    BY <1>1, EventInQueue DEF Types
  <1>5. current[DeviceOf(k)] = k /\ current \in [Devices -> Conns \cup {0}]
        /\ agent \in [Conns -> AgentEnds] /\ agent[k] \in AgentEnds /\ k # 0
    BY <1>1, ConnFacts DEF CurrentIsOpen, Types, WorkerType, AgentType
  <1> QED
    BY <1>1, <1>2, <1>3, <1>4, <1>5

\* A session more, when there was room for one.
LEMMA OneMore ==
    ASSUME NEW T, IsFiniteSet(T), Cardinality(T) < MaxSessions, NEW s
    PROVE  IsFiniteSet(T \cup {s}) /\ Cardinality(T \cup {s}) <= MaxSessions
  <1>1. Cardinality(T) \in Nat /\ MaxSessions \in Nat
    BY FS_CardinalityType, RendezvousConstants
  <1>2. /\ IsFiniteSet(T \cup {s})
        /\ Cardinality(T \cup {s}) = IF s \in T THEN Cardinality(T) ELSE Cardinality(T) + 1
    BY FS_AddElement
  <1> QED
    BY <1>1, <1>2

\* ReadPresence makes of an event what it says, and publishes it.
LEMMA ReadPresenceKeeps ==
    ASSUME Inv, NEW k \in Conns, ReadMessage(k), ReadPresence(k)
    PROVE  /\ ServerType' /\ AgentType' /\ SessionsBounded' /\ SessionsInv'
           /\ MadeHasDevice' /\ CurrentIsOpen' /\ AtInv' /\ WatchInv'
  <1> USE DEF Inv, Bounds, EndsInv, PresenceInv
  <1>1. PICK d \in Devices : d = DeviceOf(k)
    BY ReadFacts
  <1> DEFINE m == Event(k)  x == m.device
  <1>2. /\ agent[k].state = "live" /\ Arrived(k) /\ server' = Taken(k)
        /\ Online' = Online /\ current' = current
        /\ server[k].phase # "none" /\ m \in Plain \cup Replies
        /\ current[d] = k /\ current \in [Devices -> Conns \cup {0}]
        /\ agent \in [Conns -> AgentEnds] /\ agent[k] \in AgentEnds /\ k # 0
    BY <1>1, ReadFacts
  <1>3. Replies' = Replies
    BY RepliesKept DEF ReadMessage, ReadPresence
  <1>4. /\ ServerType' /\ \A j \in Conns \ {k} : server'[j] = server[j]
        /\ server'[k].phase = server[k].phase /\ server'[k].device = server[k].device
    BY <1>2, <1>3, TakenEffect DEF Types
  <1>5. m.type \in {"joined", "left"} /\ x \in Devices
    <2>1. m.type \in {"joined", "left"}
      BY DEF ReadPresence
    <2> QED
      BY <1>2, <2>1, EventFacts
  <1>6. PICK a \in AgentEnds : /\ agent' = [agent EXCEPT ![k] = a]
                               /\ a.state = "live" /\ a.open = agent[k].open
                               /\ \/ m.type = "joined" /\ a.peers = agent[k].peers \cup {x}
                                     /\ a.sessions = agent[k].sessions /\ watch' = Join(d, x)
                                  \/ m.type = "left" /\ a.peers = agent[k].peers \ {x}
                                     /\ a.sessions = {s \in agent[k].sessions : s.peer # x}
                                     /\ watch' = Leave(d, x)
    <2>1. CASE /\ m.type = "joined" /\ agent' = [agent EXCEPT ![k].peers = @ \cup {x}]
               /\ watch' = Join(d, x)
      <3> DEFINE a == [agent[k] EXCEPT !.peers = @ \cup {x}]
      <3>1. a \in AgentEnds /\ a.state = "live" /\ a.open = agent[k].open
            /\ a.peers = agent[k].peers \cup {x} /\ a.sessions = agent[k].sessions
        BY <1>2, <1>5 DEF AgentEnds
      <3>2. agent' = [agent EXCEPT ![k] = a]
        BY <1>2, <2>1
      <3> QED
        BY <2>1, <3>1, <3>2
    <2>2. CASE /\ m.type = "left" /\ agent' = [agent EXCEPT ![k] = WithoutPeer(@, x)]
               /\ watch' = Leave(d, x)
      <3> DEFINE a == WithoutPeer(agent[k], x)
      <3>1. a \in AgentEnds /\ a.state = "live" /\ a.open = agent[k].open
            /\ a.peers = agent[k].peers \ {x}
                 /\ a.sessions = {s \in agent[k].sessions : s.peer # x}
        BY <1>2, <1>5 DEF AgentEnds, WithoutPeer
      <3>2. agent' = [agent EXCEPT ![k] = a]
        BY <1>2, <2>2
      <3> QED
        BY <2>2, <3>1, <3>2
    <2> QED
      BY <1>1, <2>1, <2>2 DEF ReadPresence
  <1> HIDE DEF m
  <1>7. agent'[k] = a /\ \A j \in Conns \ {k} : agent'[j] = agent[j]
    BY <1>2, <1>6
  <1>8. AgentType'
    BY <1>2, <1>6 DEF AgentType, AgentEnds, States, Sessions, Conns
  <1>9. SessionsBounded'
    <2>1. a.sessions \subseteq agent[k].sessions
      BY <1>6
    <2>2. IsFiniteSet(agent[k].sessions) /\ Cardinality(agent[k].sessions) <= MaxSessions
      BY DEF SessionsBounded
    <2>3. IsFiniteSet(a.sessions) /\ Cardinality(a.sessions) <= Cardinality(agent[k].sessions)
      BY <2>1, <2>2, FS_Subset
    <2>4. Cardinality(a.sessions) <= MaxSessions
      BY <2>2, <2>3, FS_CardinalityType, RendezvousConstants
    <2> QED
      BY <1>7, <2>3, <2>4 DEF SessionsBounded
  <1>10. SessionsInv'
    <2>1. \A s \in a.sessions : s.peer \in a.peers
      BY <1>6 DEF SessionsInv
    <2> QED
      BY <1>6, <1>7, <2>1 DEF SessionsInv
  <1>11. MadeHasDevice' /\ CurrentIsOpen'
    <2>1. \A j \in Conns : server'[j].phase = server[j].phase
            /\ server'[j].device = server[j].device
                           /\ agent'[j].state = agent[j].state
      BY <1>2, <1>4, <1>6, <1>7
    <2>2. \A y \in Devices : current[y] # 0 => current[y] \in Conns
      BY <1>2
    <2> QED
      BY <1>2, <2>1, <2>2 DEF MadeHasDevice, CurrentIsOpen, DeviceOf
  <1>12. ASSUME NEW j \in Conns
         PROVE  SoundAt(j)'
    <2>1. SoundAt(j)
      BY AtAll
    <2>2. CASE j # k
      BY <1>2, <1>4, <1>7, <2>1, <2>2, KeptAt
    <2>3. CASE j = k
      <3>1. \A y \in Devices : y \in agent'[k].peers
              <=> IF Mentions(Event(k), y) THEN Says(Event(k), y) ELSE y \in agent[k].peers
        BY <1>6, <1>7 DEF Mentions, Says, m
      <3> QED
        BY <1>2, <1>3, <1>6, <1>7, <2>1, <2>3, <3>1, ReadAt DEF Types
    <2> QED
      BY <2>2, <2>3
  <1>13. WatchInv'
    <2>1. Projection(d) = agent[k].peers /\ Projection(d)' = a.peers
      BY <1>2, <1>6, <1>7 DEF Projection
    <2>2. \A y \in Devices \ {d} : Projection(y)' = Projection(y)
      BY <1>1, <1>2, <1>7, OtherProjections
    <2>3. Projection(d)' \subseteq Devices \cup Offline
      BY <1>6, <2>1 DEF AgentEnds
    <2>4. CASE watch' = watch /\ Projection(d)' = Projection(d)
      <3>1. \A y \in Devices : Projection(y)' = Projection(y)
        BY <2>2, <2>4
      <3> QED
        BY <2>4, <3>1, WatchKept DEF Types, WatchInv
    <2>5. ASSUME NEW e \in WatchEvents, e.type # "gap", watch' = Published(d, e),
                 \A y \in Devices \cup Offline : y \in Projection(d)'
                    <=> IF Tells(e, y) THEN Told(e, y) ELSE y \in Projection(d)
          PROVE  WatchInv'
      BY <2>2, <2>3, <2>5, PublishedTrue DEF Types, WatchInv
    <2>6. CASE m.type = "joined" /\ a.peers = agent[k].peers \cup {x} /\ watch' = Join(d, x)
      <3>1. CASE x \in Projection(d)
        BY <2>1, <2>4, <2>6, <3>1 DEF Join
      <3>2. CASE x \notin Projection(d)
        <4> DEFINE e == [type |-> "online", device |-> x]
        <4>1. e \in WatchEvents /\ e.type # "gap"
          BY <1>5 DEF WatchEvents
        <4>2. \A y \in Devices \cup Offline : y \in Projection(d)'
                 <=> IF Tells(e, y) THEN Told(e, y) ELSE y \in Projection(d)
          BY <2>1, <2>6 DEF Tells, Told
        <4>3. watch' = Published(d, e)
          BY <2>6, <3>2 DEF Join
        <4> HIDE DEF e
        <4> QED
          BY <2>5, <4>1, <4>2, <4>3
      <3> QED
        BY <3>1, <3>2
    <2>7. CASE m.type = "left" /\ a.peers = agent[k].peers \ {x} /\ watch' = Leave(d, x)
      <3>1. CASE x \notin Projection(d)
        BY <2>1, <2>4, <2>7, <3>1 DEF Leave
      <3>2. CASE x \in Projection(d)
        <4> DEFINE e == [type |-> "offline", device |-> x]
        <4>1. e \in WatchEvents /\ e.type # "gap"
          BY <1>5 DEF WatchEvents
        <4>2. \A y \in Devices \cup Offline : y \in Projection(d)'
                 <=> IF Tells(e, y) THEN Told(e, y) ELSE y \in Projection(d)
          BY <2>1, <2>7 DEF Tells, Told
        <4>3. watch' = Published(d, e)
          BY <2>7, <3>2 DEF Leave
        <4> HIDE DEF e
        <4> QED
          BY <2>5, <4>1, <4>2, <4>3
      <3> QED
        BY <3>1, <3>2
    <2> QED
      BY <1>6, <2>6, <2>7
  <1> QED
    BY <1>4, <1>8, <1>9, <1>10, <1>11, <1>12, <1>13, AtAllNext DEF AtInv

\* ReadReply changes no view.
LEMMA ReadReplyKeeps ==
    ASSUME Inv, NEW k \in Conns, ReadMessage(k), ReadReply(k)
    PROVE  ServerType' /\ AtInv'
  <1> USE DEF Inv, Bounds, EndsInv, PresenceInv
  <1>1. /\ agent[k].state = "live" /\ Arrived(k) /\ server' = Taken(k)
        /\ Online' = Online /\ Event(k) \in Plain \cup Replies
    BY ReadFacts
  <1>2. agent' = agent /\ applied' = applied /\ Event(k).type = "reply"
    BY DEF ReadMessage, ReadReply
  <1>3. Replies' = Replies
    <2>1. request' = request \/ (request.state = "written" /\ request'.sent = request.sent
                                 /\ request'.state \in {"done", "rejected"})
      BY DEF ReadReply, Types, ApprovalType
    <2> QED
      BY <1>2, <2>1 DEF Replies, Reply
  <1>4. ServerType' /\ \A j \in Conns \ {k} : server'[j] = server[j]
    BY <1>1, <1>3, TakenEffect DEF Types
  <1>5. ASSUME NEW j \in Conns
        PROVE  SoundAt(j)'
    <2>1. SoundAt(j)
      BY AtAll
    <2>2. CASE j # k
      BY <1>1, <1>2, <1>4, <2>1, <2>2, KeptAt
    <2>3. CASE j = k
      <3>1. \A y \in Devices : ~Mentions(Event(k), y)
        BY <1>2 DEF Mentions
      <3> QED
        BY <1>1, <1>2, <1>3, <2>1, <2>3, <3>1, ReadAt DEF Types
    <2> QED
      BY <2>2, <2>3
  <1> QED
    BY <1>4, <1>5, AtAllNext DEF AtInv

\* ReadSignal changes no view, and opens a session only when there is room.
LEMMA ReadSignalKeeps ==
    ASSUME Inv, NEW k \in Conns, ReadMessage(k), ReadSignal(k)
    PROVE  ServerType' /\ AgentType' /\ SessionsBounded' /\ AtInv'
  <1> USE DEF Inv, Bounds, EndsInv, PresenceInv
  <1>1. /\ agent[k].state = "live" /\ Arrived(k) /\ server' = Taken(k)
        /\ Online' = Online /\ Event(k) \in Plain \cup Replies
        /\ agent \in [Conns -> AgentEnds] /\ agent[k] \in AgentEnds
    BY ReadFacts
  <1>2. Replies' = Replies
    BY RepliesKept DEF ReadMessage, ReadSignal
  <1>3. Event(k).type \in {"signal", "signal.error"}
    BY DEF ReadSignal
  <1>4. ServerType' /\ \A j \in Conns \ {k} : server'[j] = server[j]
    BY <1>1, <1>2, TakenEffect DEF Types
  <1>5. PICK a \in AgentEnds :
           /\ agent' = [agent EXCEPT ![k] = a] /\ a.state = agent[k].state
                /\ a.peers = agent[k].peers
           /\ \/ a.sessions = agent[k].sessions
              \/ /\ Cardinality(agent[k].sessions) < MaxSessions
                 /\ \E s : a.sessions = agent[k].sessions \cup {s}
    <2>1. CASE Event(k) = Refusal
      <3>1. agent' = [agent EXCEPT ![k] = agent[k]]
        BY <1>1, <2>1 DEF ReadSignal
      <3> QED
        BY <1>1, <3>1
    <2>2. CASE Event(k) # Refusal
      <3> DEFINE s == [id |-> Event(k).session, peer |-> Event(k).device]
                 a == WithSignal(agent[k], Event(k).device, Event(k).session)
      <3>1. s \in Sessions
        BY <1>1, <1>3, <2>2, EventFacts DEF Sessions
      <3>2. a = agent[k] \/ (Cardinality(agent[k].sessions) < MaxSessions
                             /\ a = [agent[k] EXCEPT !.sessions = @ \cup {s}])
        BY DEF WithSignal
      <3>3. agent' = [agent EXCEPT ![k] = a]
        BY <2>2 DEF ReadSignal
      <3> HIDE DEF a, s
      <3>4. CASE a = agent[k]
        BY <1>1, <3>3, <3>4
      <3>5. CASE a = [agent[k] EXCEPT !.sessions = @ \cup {s}]
        <4>1. a \in AgentEnds /\ a.state = agent[k].state /\ a.peers = agent[k].peers
              /\ a.sessions = agent[k].sessions \cup {s}
          BY <1>1, <3>1, <3>5 DEF AgentEnds
        <4> QED
          BY <3>2, <3>3, <4>1
      <3> QED
        BY <3>2, <3>4, <3>5
    <2> QED
      BY <2>1, <2>2
  <1>6. agent'[k] = a /\ \A j \in Conns \ {k} : agent'[j] = agent[j]
    BY <1>1, <1>5
  <1>7. AgentType'
    BY <1>1, <1>5 DEF AgentType, AgentEnds, States, Sessions, Conns
  <1>8. SessionsBounded'
    <2>1. IsFiniteSet(agent[k].sessions) /\ Cardinality(agent[k].sessions) <= MaxSessions
      BY DEF SessionsBounded
    <2>2. IsFiniteSet(a.sessions) /\ Cardinality(a.sessions) <= MaxSessions
      <3>1. CASE a.sessions = agent[k].sessions
        BY <2>1, <3>1
      <3>2. ASSUME NEW s, Cardinality(agent[k].sessions) < MaxSessions,
                   a.sessions = agent[k].sessions \cup {s}
            PROVE  IsFiniteSet(a.sessions) /\ Cardinality(a.sessions) <= MaxSessions
        BY <2>1, <3>2, OneMore
      <3> QED
        BY <1>5, <3>1, <3>2
    <2> QED
      BY <1>6, <2>2 DEF SessionsBounded
  <1>9. ASSUME NEW j \in Conns
        PROVE  SoundAt(j)'
    <2>1. SoundAt(j)
      BY AtAll
    <2>2. CASE j # k
      BY <1>1, <1>4, <1>6, <2>1, <2>2, KeptAt
    <2>3. CASE j = k
      <3>1. \A y \in Devices : ~Mentions(Event(k), y)
        BY <1>3 DEF Mentions
      <3> QED
        BY <1>1, <1>2, <1>5, <1>6, <2>1, <2>3, <3>1, ReadAt DEF Types
    <2> QED
      BY <2>2, <2>3
  <1> QED
    BY <1>4, <1>7, <1>8, <1>9, AtAllNext DEF AtInv

(***************************************************************************)
(* The other steps.                                                        *)
(***************************************************************************)
\* A step that ends sessions or lets goroutines leave keeps the ends typed.
LEMMA LiveCleared ==
    ASSUME ServerType, Replies' = Replies,
           \A j \in Conns : \/ server'[j] = server[j]
                            \/ server'[j] = [server[j] EXCEPT !.live = FALSE]
                            \/ server'[j] = [server[j] EXCEPT !.phase = "leaving"],
           server' = [j \in Conns |-> server'[j]]
    PROVE  ServerType'
  <1> DEFINE S == Plain \cup Replies
  <1>1. ASSUME NEW j \in Conns PROVE server'[j] \in Ends(S)
    <2>1. server[j] \in Ends(S)
      BY DEF ServerType
    <2> HIDE DEF S
    <2> QED
      BY <2>1 DEF Ends, Phases
  <1> HIDE DEF S
  <1>2. server' \in [Conns -> Ends(S)]
    BY <1>1
  <1> QED
    BY <1>2, ServerTyped DEF S

\* WriteFails keeps the ends typed.
LEMMA WriteFailsServer ==
    ASSUME Inv, NEW k \in Conns, WriteFails(k)
    PROVE  ServerType'
  <1>1. server \in [Conns -> Ends(Plain \cup Replies)] /\ Replies' = Replies
    BY RepliesKept DEF Inv, Types, ServerType, WriteFails, approval
  <1>2. server' = [server EXCEPT ![k].live = FALSE]
    BY DEF WriteFails
  <1>3. server' = [j \in Conns |-> server'[j]]
        /\ \A j \in Conns : server'[j] = server[j]
             \/ server'[j] = [server[j] EXCEPT !.live = FALSE]
    BY <1>1, <1>2
  <1> QED
    BY <1>1, <1>3, LiveCleared DEF Inv, Types

\* StopServing keeps the ends typed.
LEMMA StopServingServer ==
    ASSUME Inv, NEW k \in Conns, StopServing(k)
    PROVE  ServerType'
  <1>1. server \in [Conns -> Ends(Plain \cup Replies)] /\ Replies' = Replies
    BY RepliesKept DEF Inv, Types, ServerType, StopServing, approval
  <1>2. server' = [server EXCEPT ![k].phase = "leaving"]
    BY DEF StopServing
  <1>3. server' = [j \in Conns |-> server'[j]]
        /\ \A j \in Conns : server'[j] = server[j]
             \/ server'[j] = [server[j] EXCEPT !.phase = "leaving"]
    BY <1>1, <1>2
  <1> QED
    BY <1>1, <1>3, LiveCleared DEF Inv, Types

\* CloseHub keeps the ends typed.
LEMMA CloseHubServer ==
    ASSUME Inv, CloseHub
    PROVE  ServerType'
  <1>1. Replies' = Replies
    BY RepliesKept DEF CloseHub, approval
  <1>2. server' = [j \in Conns |-> server'[j]]
        /\ \A j \in Conns : server'[j] = server[j]
             \/ server'[j] = [server[j] EXCEPT !.live = FALSE]
    BY DEF CloseHub
  <1> QED
    BY <1>1, <1>2, LiveCleared DEF Inv, Types

\* GiveUp keeps the types: no reply is under way to a request that was not sent.
LEMMA GiveUpTypes ==
    ASSUME Inv, NEW k \in Conns, GiveUp(k)
    PROVE  ServerType' /\ ApprovalType'
  <1> USE DEF Inv, Types, EndsInv
  <1>1. server' = server /\ applied' = applied
    BY DEF GiveUp
  <1>2. CASE request = NoRequest /\ request' = [conn |-> k, state |-> "unsent", sent |-> FALSE]
    <2>1. ApprovalType'
      BY <1>1, <1>2 DEF ApprovalType, Conns
    <2>2. Replies = {} /\ Replies' = {}
      BY <1>2 DEF Replies, NoRequest
    <2>3. ServerType'
      BY <1>1, <2>2, ServerTyped DEF ServerType
    <2> QED
      BY <2>1, <2>3
  <1>3. CASE request.state = "written" /\ request' = [request EXCEPT !.state = "unknown"]
    <2>1. request'.state = "unknown" /\ request'.sent = request.sent
      BY <1>3 DEF ApprovalType
    <2>2. ApprovalType'
      BY <1>1, <1>3 DEF ApprovalType, Conns
    <2>3. Replies' = Replies
      BY <1>1, <1>3, <2>1 DEF Replies, Reply
    <2>4. ServerType'
      BY <1>1, <2>3, ServerTyped DEF ServerType
    <2> QED
      BY <2>2, <2>4
  <1> QED
    BY <1>2, <1>3 DEF GiveUp

\* No sessions are within the limit.
LEMMA NoSessions == IsFiniteSet({}) /\ Cardinality({}) <= MaxSessions
  <1>1. IsFiniteSet({}) /\ Cardinality({}) = 0
    BY FS_EmptySet
  <1> QED
    BY <1>1, RendezvousConstants

\* OpenSession stays within the limit.
LEMMA OpenSessionBounded ==
    ASSUME Inv, NEW k \in Conns, NEW p \in Devices, OpenSession(k, p)
    PROVE  SessionsBounded'
  <1> DEFINE s == [id |-> k, peer |-> p]  T == agent[k].sessions
  <1>1. /\ agent'[k].sessions = T \cup {s} /\ \A j \in Conns \ {k} : agent'[j] = agent[j]
    BY DEF Inv, Types, AgentType, AgentEnds, OpenSession
  <1>2. Cardinality(T) < MaxSessions /\ IsFiniteSet(T)
    BY DEF OpenSession, CanOpen, Inv, Bounds, SessionsBounded
  <1> HIDE DEF s, T
  <1>3. IsFiniteSet(T \cup {s}) /\ Cardinality(T \cup {s}) <= MaxSessions
    BY <1>2, OneMore
  <1> QED
    BY <1>1, <1>3 DEF Inv, Bounds, SessionsBounded

\* CloseSession stays within the limit.
LEMMA CloseSessionBounded ==
    ASSUME Inv, NEW k \in Conns, NEW s \in agent[k].sessions, CloseSession(k, s)
    PROVE  SessionsBounded'
  <1> DEFINE T == agent[k].sessions
  <1>1. /\ agent'[k].sessions = T \ {s} /\ \A j \in Conns \ {k} : agent'[j] = agent[j]
    BY DEF Inv, Types, AgentType, AgentEnds, CloseSession
  <1>2. Cardinality(T) <= MaxSessions /\ IsFiniteSet(T)
    BY DEF Inv, Bounds, SessionsBounded
  <1> HIDE DEF T
  <1>3. IsFiniteSet(T \ {s}) /\ Cardinality(T \ {s}) <= Cardinality(T)
    BY <1>2, FS_Subset
  <1>4. Cardinality(T \ {s}) <= MaxSessions
    BY <1>2, <1>3, FS_CardinalityType, RendezvousConstants
  <1> QED
    BY <1>1, <1>3, <1>4 DEF Inv, Bounds, SessionsBounded

\* DialFails changes no projection: the device was offline before.
LEMMA DialFailsWatch ==
    ASSUME Inv, NEW k \in Conns, DialFails(k)
    PROVE  WatchInv'
  <1> USE DEF Inv, Types, Bounds, EndsInv, PresenceInv
  <1>1. PICK d \in Devices : d = DeviceOf(k)
    BY MadeConn DEF DialFails
  <1>2. /\ agent[k].state = "waiting" /\ watch' = watch /\ current' = [current EXCEPT ![d] = 0]
        /\ \A j \in Conns \ {k} : agent'[j] = agent[j]
    BY <1>1 DEF DialFails, AgentType
  <1>3. server[k].phase # "none" /\ current[d] = k
    BY <1>1, <1>2, MadeConn DEF CurrentIsOpen
  <1>4. Projection(d) = Offline /\ Projection(d)' = Offline
    BY <1>2, <1>3 DEF Projection, WorkerType
  <1>5. \A x \in Devices \ {d} : Projection(x)' = Projection(x)
    BY <1>1, <1>2, <1>3, OtherProjections
  <1>6. \A x \in Devices : Projection(x)' = Projection(x)
    BY <1>4, <1>5
  <1> QED
    BY <1>2, <1>6, WatchKept DEF WatchInv

\* LoseControl changes no projection: the agent keeps its peers until it has closed.
LEMMA LoseControlWatch ==
    ASSUME Inv, NEW k \in Conns, LoseControl(k)
    PROVE  WatchInv'
  <1> USE DEF Inv, Types, Bounds, EndsInv, PresenceInv
  <1>1. /\ agent[k].state = "live" /\ watch' = watch /\ current' = current
        /\ \A j \in Conns \ {k} : agent'[j] = agent[j]
        /\ agent'[k].state = "closing" /\ agent'[k].peers = agent[k].peers
    BY DEF LoseControl, AgentType, AgentEnds, worker
  <1>2. \A x \in Devices : Projection(x)' = Projection(x)
    BY <1>1 DEF Projection, WorkerType
  <1> QED
    BY <1>1, <1>2, WatchKept DEF WatchInv

\* CloseControl publishes that the device is offline, and ends the sessions.
LEMMA CloseControlKeeps ==
    ASSUME Inv, NEW k \in Conns, CloseControl(k)
    PROVE  SessionsBounded' /\ WatchInv'
  <1> USE DEF Inv, Types, Bounds, EndsInv, PresenceInv
  <1>1. PICK d \in Devices : d = DeviceOf(k)
    BY MadeConn DEF CloseControl
  <1>2. /\ agent[k].state = "closing" /\ current' = [current EXCEPT ![d] = 0]
        /\ watch' = Published(d, Connected(Offline))
        /\ \A j \in Conns \ {k} : agent'[j] = agent[j]
        /\ agent'[k].sessions = {}
    BY <1>1 DEF CloseControl, AgentType, AgentEnds
  <1>3. SessionsBounded'
    BY <1>2, NoSessions DEF SessionsBounded
  <1>4. server[k].phase # "none" /\ current[d] = k
    BY <1>1, <1>2, MadeConn DEF CurrentIsOpen
  <1>5. Projection(d)' = Offline
    BY <1>2, <1>4 DEF Projection, WorkerType
  <1>6. \A x \in Devices \ {d} : Projection(x)' = Projection(x)
    BY <1>1, <1>2, <1>4, OtherProjections
  <1> DEFINE e == Connected(Offline)
  <1>7. e \in WatchEvents /\ e.type # "gap"
    BY DEF Connected, WatchEvents
  <1>8. \A x \in Devices \cup Offline : x \in Projection(d)'
            <=> IF Tells(e, x) THEN Told(e, x) ELSE x \in Projection(d)
    BY <1>5 DEF Connected, Tells, Told
  <1>9. Projection(d)' \subseteq Devices \cup Offline
    BY <1>5
  <1>10. watch' = Published(d, e)
    BY <1>2
  <1> HIDE DEF e
  <1>11. WatchInv'
    BY <1>6, <1>7, <1>8, <1>9, <1>10, PublishedTrue DEF WatchInv
  <1> QED
    BY <1>3, <1>11

\* A new stream begins with the projection.
LEMMA SubscribeWatch ==
    ASSUME Inv, NEW d \in Devices, Subscribe(d)
    PROVE  WatchType' /\ WatchTrue'
  <1> USE DEF Inv, Types
  <1> DEFINE P == Projection(d)  e == Connected(P)
  <1>1. P \subseteq Devices \cup Offline
    BY ProjectionType
  <1>2. e \in WatchEvents /\ \A x \in Devices \cup Offline : Tells(e, x)
          /\ (Told(e, x) <=> x \in P)
    BY <1>1 DEF Connected, WatchEvents, Tells, Told
  <1>3. watch' = [state |-> "open", device |-> d, events |-> <<e>>, seen |-> {}]
    BY DEF Subscribe, NoWatch
  <1>4. P' = P
    BY DEF Projection, Subscribe, worker
  <1> HIDE DEF e, P
  <1>5. <<e>> \in Seq(WatchEvents)
    BY <1>2
  <1>6. WatchType'
    BY <1>3, <1>5 DEF WatchType, WatchEvents
  <1>7. Expected({}, <<e>>) = P
    BY <1>1, <1>2 DEF Expected
  <1>8. WatchTrue'
    BY <1>3, <1>4, <1>7 DEF WatchTrue, P
  <1> QED
    BY <1>6, <1>8

\* Reading an event keeps what the program will hold.
LEMMA ReadEventWatch ==
    ASSUME Inv, ReadEvent
    PROVE  WatchType' /\ WatchTrue'
  <1> USE DEF Inv, Types, PresenceInv
  <1> DEFINE q == watch.events  s == watch.seen  e == Head(q)  R == Apply(s, e)
  <1>1. q \in Seq(WatchEvents) /\ q # <<>> /\ s \subseteq Devices \cup Offline
    BY DEF WatchType, ReadEvent
  <1>2. e \in WatchEvents /\ Tail(q) \in Seq(WatchEvents)
    <2> HIDE DEF q
    <2> QED
      BY <1>1
  <1>3. R \subseteq Devices \cup Offline
        /\ \A x \in Devices \cup Offline : x \in R <=> IF Tells(e, x) THEN Told(e, x) ELSE x \in s
    <2> HIDE DEF q, s, e
    <2>1. CASE e.type = "connected"
      BY <1>1, <1>2, <2>1 DEF Apply, Tells, Told, WatchEvents
    <2>2. CASE e.type = "disconnected"
      BY <1>1, <1>2, <2>2 DEF Apply, Tells, Told, WatchEvents
    <2>3. CASE e.type = "gap"
      BY <1>1, <1>2, <2>3 DEF Apply, Tells, Told, WatchEvents
    <2>4. CASE e.type = "online"
      BY <1>1, <1>2, <2>4 DEF Apply, Tells, Told, WatchEvents
    <2>5. CASE e.type = "offline"
      BY <1>1, <1>2, <2>5 DEF Apply, Tells, Told, WatchEvents
    <2> QED
      BY <1>2, <2>1, <2>2, <2>3, <2>4, <2>5 DEF WatchEvents
  <1>4. watch' = [watch EXCEPT !.seen = R, !.events = Tail(q)]
    BY DEF ReadEvent
  <1> HIDE DEF R
  <1>5. WatchType'
    BY <1>1, <1>2, <1>3, <1>4 DEF WatchType, WatchEvents
  <1>6. watch'.state = watch.state /\ watch'.device = watch.device /\ watch'.seen = R
        /\ watch'.events = Tail(q)
    BY <1>4 DEF WatchType
  <1>7. Expected(R, Tail(q)) = Expected(s, q)
    <2> HIDE DEF q, s
    <2> QED
      BY <1>1, <1>3, ExpectedTail DEF e
  <1>8. Projection(watch.device)' = Projection(watch.device)
    BY <1>6 DEF Projection, ReadEvent, worker
  <1>9. WatchTrue'
    BY <1>6, <1>7, <1>8 DEF WatchTrue
  <1> QED
    BY <1>5, <1>9

\* Dial takes a connection that was never made.
LEMMA DialKeeps ==
    ASSUME Inv, NEW d \in Devices, Dial(d)
    PROVE  /\ ServerType' /\ SessionsBounded' /\ CurrentIsOpen' /\ RegisteredIsServed'
           /\ NotYetTold' /\ WatchInv'
  <1> USE DEF Inv, Types, Bounds, EndsInv, PresenceInv
  <1>1. PICK k \in Unused :
           /\ server' = [server EXCEPT ![k] = [NoServer EXCEPT !.phase = "auth",
                                                  !.device = d, !.live = TRUE]]
           /\ agent' = [agent EXCEPT ![k] = [NoAgent EXCEPT !.state = "waiting", !.open = TRUE]]
           /\ current' = [current EXCEPT ![d] = k]
    BY UnusedConn DEF Dial
  <1>2. k \in Conns /\ server[k].phase = "none" /\ agent[k].state = "none" /\ k # 0
          /\ current[d] = 0
    BY ConnFacts DEF Unused, MadeHasDevice, Dial
  <1>3. Replies' = Replies /\ clients' = clients /\ watch' = watch
    BY RepliesKept DEF Dial, approval, hub
  <1> DEFINE S == Plain \cup Replies
             r == [NoServer EXCEPT !.phase = "auth", !.device = d, !.live = TRUE]
             a == [NoAgent EXCEPT !.state = "waiting", !.open = TRUE]
  <1>4. server' = [server EXCEPT ![k] = r] /\ agent' = [agent EXCEPT ![k] = a]
    BY <1>1
  <1>5. /\ r \in Ends(S) /\ r.phase = "auth" /\ r.device = d /\ r.send = <<>>
        /\ a.state = "waiting" /\ a.sessions = {}
    BY EmptyQueue DEF Ends, Phases, NoServer, NoAgent
  <1> HIDE DEF r, a
  <1>6. server \in [Conns -> Ends(S)]
    BY DEF ServerType
  <1>7. /\ \A j \in Conns \ {k} : server'[j] = server[j] /\ agent'[j] = agent[j]
        /\ server'[k] = r /\ agent'[k] = a
    BY <1>2, <1>4, <1>6 DEF AgentType
  <1>8. ServerType'
    <2> HIDE DEF S, r
    <2>1. server' \in [Conns -> Ends(S)]
      BY <1>4, <1>5, <1>6
    <2> QED
      BY <1>3, <2>1, ServerTyped DEF S
  <1>9. SessionsBounded'
    BY <1>5, <1>7, NoSessions DEF SessionsBounded
  <1>10. /\ current'[d] = k /\ \A x \in Devices \ {d} : current'[x] = current[x]
         /\ \A x \in Devices : current[x] # 0 => current[x] \in Conns
    BY <1>1 DEF WorkerType
  <1>11. \A x \in Devices : current[x] # k
    BY <1>2 DEF CurrentIsOpen
  <1>12. CurrentIsOpen'
    <2>1. ASSUME NEW j \in Conns, agent'[j].state \in {"waiting", "live", "closing"}
          PROVE  current'[DeviceOf(j)'] = j
      <3>1. CASE j = k
        BY <1>5, <1>7, <1>10, <3>1 DEF DeviceOf
      <3>2. CASE j # k
        <4>1. current[DeviceOf(j)] = j /\ DeviceOf(j)' = DeviceOf(j) /\ DeviceOf(j) \in Devices
          BY <1>7, <2>1, <3>2 DEF CurrentIsOpen, DeviceOf, MadeHasDevice
        <4>2. DeviceOf(j) # d
          BY <1>2, <4>1, ConnFacts
        <4> QED
          BY <1>10, <4>1, <4>2
      <3> QED
        BY <3>1, <3>2
    <2>2. ASSUME NEW x \in Devices, current'[x] # 0
          PROVE  server'[current'[x]].device = x /\ agent'[current'[x]].state # "none"
      <3>1. CASE x = d
        BY <1>5, <1>7, <1>10, <3>1
      <3>2. CASE x # d
        BY <1>7, <1>10, <1>11, <2>2, <3>2 DEF CurrentIsOpen, DeviceOf
      <3> QED
        BY <3>1, <3>2
    <2> QED
      BY <2>1, <2>2 DEF CurrentIsOpen, DeviceOf
  <1>13. RegisteredIsServed'
    <2>1. \A x \in Devices : clients[x] # k
      BY <1>2 DEF RegisteredIsServed
    <2> QED
      BY <1>5, <1>3, <1>7, <2>1 DEF RegisteredIsServed, DeviceOf
  <1>14. NotYetTold'
    BY <1>5, <1>7 DEF NotYetTold, NoAuthentication
  <1>15. WatchInv'
    <2>1. Projection(d) = Offline /\ Projection(d)' = Offline
      BY <1>5, <1>2, <1>7, <1>10 DEF Projection
    <2>2. ASSUME NEW x \in Devices, x # d
          PROVE  Projection(x)' = Projection(x)
      BY <1>7, <1>10, <1>11, <2>2 DEF Projection
    <2>3. \A x \in Devices : Projection(x)' = Projection(x)
      BY <2>1, <2>2
    <2> QED
      BY <1>3, <2>3, WatchKept DEF WatchInv
  <1> QED
    BY <1>8, <1>9, <1>12, <1>13, <1>14, <1>15

(***************************************************************************)
(* Every action keeps the invariant: one lemma for each action, with one   *)
(* step for what the action leaves alone and one for each conjunct that it *)
(* disturbs.                                                               *)
(***************************************************************************)
LEMMA AuthenticateKeepsInv ==
    ASSUME Inv, NEW k \in Conns, Authenticate(k)
    PROVE  Inv'
  <1>1. ServerType' /\ ConnInv'
    BY AuthenticateKeeps
  <1>2. DatabaseType' /\ HubType' /\ AgentType' /\ WorkerType' /\ ApprovalType' /\ WatchType' /\
        SessionsBounded' /\ WatchBounded' /\ SessionsInv' /\ RequestInv' /\ WatchTrue'
    BY DEF Inv, Types, Bounds, EndsInv, PresenceInv, DatabaseType, HubType, AgentType,
      WorkerType, ApprovalType, WatchType, SessionsBounded, WatchBounded, SessionsInv,
      RequestInv, WatchTrue, Projection, Authenticate, database, hub, worker, approval
  <1> QED
    BY <1>1, <1>2 DEF Inv, Types, Bounds, EndsInv, PresenceInv, ConnInv

LEMMA RegisterKeepsInv ==
    ASSUME Inv, NEW k \in Conns, Register(k)
    PROVE  Inv'
  <1> USE DEF Inv, Types, Register
  <1>1. ServerType' /\ ConnInv'
    BY RegisterKeeps
  <1>2. DatabaseType' /\ AgentType' /\ WorkerType' /\ ApprovalType' /\ WatchType' /\
        SessionsBounded' /\ WatchBounded' /\ SessionsInv' /\ RequestInv' /\ WatchTrue'
    BY DEF Bounds, EndsInv, PresenceInv, DatabaseType, AgentType, WorkerType, ApprovalType,
      WatchType, SessionsBounded, WatchBounded, SessionsInv, RequestInv, WatchTrue, Projection,
      database, worker, approval
  <1>3. HubType'
    BY DEF HubType, Online, Gone, Others
  <1> QED
    BY <1>1, <1>2, <1>3 DEF Bounds, EndsInv, PresenceInv, ConnInv

LEMMA SendAuthenticatedKeepsInv ==
    ASSUME Inv, NEW k \in Conns, SendAuthenticated(k)
    PROVE  Inv'
  <1>1. ServerType' /\ ConnInv'
    BY SendAuthenticatedKeeps
  <1>2. DatabaseType' /\ HubType' /\ AgentType' /\ WorkerType' /\ ApprovalType' /\ WatchType' /\
        SessionsBounded' /\ WatchBounded' /\ SessionsInv' /\ RequestInv' /\ WatchTrue'
    BY DEF Inv, Types, Bounds, EndsInv, PresenceInv, DatabaseType, HubType, AgentType,
      WorkerType, ApprovalType, WatchType, SessionsBounded, WatchBounded, SessionsInv,
      RequestInv, WatchTrue, Projection, SendAuthenticated, database, hub, worker, approval
  <1> QED
    BY <1>1, <1>2 DEF Inv, Types, Bounds, EndsInv, PresenceInv, ConnInv

LEMMA WriteFailsKeepsInv ==
    ASSUME Inv, NEW k \in Conns, WriteFails(k)
    PROVE  Inv'
  <1> USE DEF Inv, Types, WriteFails
  <1>1. ServerType'
    BY WriteFailsServer
  <1>2. DatabaseType' /\ HubType' /\ AgentType' /\ WorkerType' /\ ApprovalType' /\ WatchType' /\
        SessionsBounded' /\ WatchBounded' /\ SessionsInv' /\ RequestInv' /\ WatchTrue'
    BY DEF Bounds, EndsInv, PresenceInv, DatabaseType, HubType, AgentType, WorkerType,
      ApprovalType, WatchType, SessionsBounded, WatchBounded, SessionsInv, RequestInv,
      WatchTrue, Projection, database, hub, worker, approval
  <1>3. QueuesBounded'
    BY DEF Bounds, QueuesBounded, ServerType, Ends, Replies
  <1>4. MadeHasDevice'
    BY DEF EndsInv, MadeHasDevice, ServerType, AgentType, Ends, Replies
  <1>5. CurrentIsOpen'
    BY DEF EndsInv, CurrentIsOpen, ServerType, AgentType, WorkerType, worker, DeviceOf, Ends,
      Replies
  <1>6. RegisteredIsServed'
    BY DEF EndsInv, RegisteredIsServed, HubType, ServerType, hub, DeviceOf, Ends, Replies
  <1>7. NotYetTold'
    BY DEF PresenceInv, NotYetTold, ServerType, AgentType, NoAuthentication, Ends, Replies
  <1>8. ListIsTrue'
    BY DEF PresenceInv, ListIsTrue, HubType, ServerType, AgentType, hub, Online, DeviceOf, Ends,
      Replies
  <1>9. WaitsForSomething'
    BY DEF PresenceInv, WaitsForSomething, ServerType, AgentType, Ends, Replies
  <1>10. PresenceTrue'
    BY DEF PresenceInv, PresenceTrue, HubType, ServerType, AgentType, hub, Event, Online,
      DeviceOf, Ends, Replies
  <1> QED
    BY <1>1, <1>2, <1>3, <1>4, <1>5, <1>6, <1>7, <1>8, <1>9, <1>10 DEF Bounds, EndsInv,
      PresenceInv

LEMMA HandleApprovalKeepsInv ==
    ASSUME Inv, NEW k \in Conns, HandleApproval(k)
    PROVE  Inv'
  <1> USE DEF Inv, Types, HandleApproval
  <1>1. ServerType' /\ ConnInv'
    BY HandleApprovalKeeps
  <1>2. DatabaseType' /\ HubType' /\ AgentType' /\ WorkerType' /\ WatchType' /\ SessionsBounded'
        /\ WatchBounded' /\ SessionsInv' /\ WatchTrue'
    BY DEF Bounds, EndsInv, PresenceInv, DatabaseType, HubType, AgentType, WorkerType,
      WatchType, SessionsBounded, WatchBounded, SessionsInv, WatchTrue, Projection, database,
      hub, worker
  <1>3. ApprovalType'
    BY DEF ApprovalType
  <1>4. RequestInv'
    BY DEF EndsInv, RequestInv, ApprovalType
  <1> QED
    BY <1>1, <1>2, <1>3, <1>4 DEF Bounds, EndsInv, PresenceInv, ConnInv

LEMMA StopServingKeepsInv ==
    ASSUME Inv, NEW k \in Conns, StopServing(k)
    PROVE  Inv'
  <1> USE DEF Inv, Types, StopServing
  <1>1. ServerType'
    BY StopServingServer
  <1>2. DatabaseType' /\ HubType' /\ AgentType' /\ WorkerType' /\ ApprovalType' /\ WatchType' /\
        SessionsBounded' /\ WatchBounded' /\ SessionsInv' /\ RequestInv' /\ WatchTrue'
    BY DEF Bounds, EndsInv, PresenceInv, DatabaseType, HubType, AgentType, WorkerType,
      ApprovalType, WatchType, SessionsBounded, WatchBounded, SessionsInv, RequestInv,
      WatchTrue, Projection, database, hub, worker, approval
  <1>3. QueuesBounded'
    BY DEF Bounds, QueuesBounded, ServerType, Ends, Replies
  <1>4. MadeHasDevice'
    BY DEF EndsInv, MadeHasDevice, ServerType, AgentType, Ends, Replies
  <1>5. CurrentIsOpen'
    BY DEF EndsInv, CurrentIsOpen, ServerType, AgentType, WorkerType, worker, DeviceOf, Ends,
      Replies
  <1>6. RegisteredIsServed'
    BY DEF EndsInv, RegisteredIsServed, HubType, ServerType, hub, DeviceOf, Ends, Replies
  <1>7. NotYetTold'
    BY DEF PresenceInv, NotYetTold, ServerType, AgentType, NoAuthentication, Ends, Replies
  <1>8. ListIsTrue'
    BY DEF PresenceInv, ListIsTrue, HubType, ServerType, AgentType, hub, Online, DeviceOf, Ends,
      Replies
  <1>9. WaitsForSomething'
    BY DEF PresenceInv, WaitsForSomething, ServerType, AgentType, Ends, Replies
  <1>10. PresenceTrue'
    BY DEF PresenceInv, PresenceTrue, HubType, ServerType, AgentType, hub, Event, Online,
      DeviceOf, Ends, Replies
  <1> QED
    BY <1>1, <1>2, <1>3, <1>4, <1>5, <1>6, <1>7, <1>8, <1>9, <1>10 DEF Bounds, EndsInv,
      PresenceInv

LEMMA UnregisterKeepsInv ==
    ASSUME Inv, NEW k \in Conns, Unregister(k)
    PROVE  Inv'
  <1> USE DEF Inv, Types, Unregister
  <1>1. ServerType' /\ ConnInv'
    BY UnregisterKeeps
  <1>2. DatabaseType' /\ AgentType' /\ WorkerType' /\ ApprovalType' /\ WatchType' /\
        SessionsBounded' /\ WatchBounded' /\ SessionsInv' /\ RequestInv' /\ WatchTrue'
    BY DEF Bounds, EndsInv, PresenceInv, DatabaseType, AgentType, WorkerType, ApprovalType,
      WatchType, SessionsBounded, WatchBounded, SessionsInv, RequestInv, WatchTrue, Projection,
      database, worker, approval
  <1>3. HubType'
    BY DEF HubType, Gone, Others, Online
  <1> QED
    BY <1>1, <1>2, <1>3 DEF Bounds, EndsInv, PresenceInv, ConnInv

LEMMA FirstMessageKeepsInv ==
    ASSUME Inv, NEW k \in Conns, FirstMessage(k)
    PROVE  Inv'
  <1> USE DEF Inv, Types, FirstMessage
  <1>1. ServerType' /\ AgentType' /\ SessionsBounded' /\ SessionsInv' /\ AtInv' /\ WatchInv'
    BY FirstMessageKeeps
  <1>2. DatabaseType' /\ HubType' /\ ApprovalType' /\ RequestInv'
    BY DEF EndsInv, DatabaseType, HubType, ApprovalType, RequestInv, database, hub, approval
  <1>3. WorkerType'
    BY DEF WorkerType, GoLive, Connected
  <1>4. QueuesBounded'
    BY RendezvousConstants, ConnFacts, EventFacts DEF Bounds, QueuesBounded, ServerType,
      Arrived, Taken, Event, GoLive, DeviceOf, Connected, Offline, Ends, Phases, Replies
  <1>5. MadeHasDevice'
    BY DEF EndsInv, MadeHasDevice, ServerType, AgentType, Arrived, Taken, Event, GoLive,
      DeviceOf, Connected, Offline, Ends, Phases, Replies, AgentEnds, States, Sessions
  <1>6. CurrentIsOpen'
    BY DEF Bounds, EndsInv, PresenceInv, CurrentIsOpen, DatabaseType, HubType, ServerType,
      AgentType, WorkerType, ApprovalType, WatchType, MadeHasDevice, SessionsInv, RequestInv,
      RegisteredIsServed, Arrived, Taken, Event, GoLive, Published, DeviceOf, Connected,
      Offline, database, hub, approval, Ends, Phases, Replies, AgentEnds, States, Sessions,
      WatchEvents
  <1>7. RegisteredIsServed'
    BY DEF EndsInv, RegisteredIsServed, HubType, ServerType, Arrived, Taken, Event, GoLive,
      DeviceOf, Connected, hub, Ends, Replies
  <1> QED
    BY <1>1, <1>2, <1>3, <1>4, <1>5, <1>6, <1>7 DEF Bounds, EndsInv, PresenceInv, AtInv,
      WatchInv

LEMMA DialFailsKeepsInv ==
    ASSUME Inv, NEW k \in Conns, DialFails(k)
    PROVE  Inv'
  <1> USE DEF Inv, DialFails
  <1>1. WatchInv'
    BY DialFailsWatch
  <1>2. DatabaseType' /\ HubType' /\ ServerType' /\ ApprovalType'
    BY DEF Types, DatabaseType, HubType, ServerType, Replies, ApprovalType, database, hub,
      approval
  <1>3. QueuesBounded'
    BY DEF Bounds, QueuesBounded, database, hub, approval
  <1>4. RequestInv' /\ RegisteredIsServed'
    BY DEF EndsInv, RequestInv, RegisteredIsServed, DeviceOf, database, hub, approval
  <1>5. AgentType'
    BY DEF Types, AgentType, Lost, AgentEnds, States, Sessions
  <1>6. WorkerType'
    BY DEF Types, WorkerType
  <1>7. SessionsBounded'
    BY DEF Types, Bounds, SessionsBounded, AgentType, Lost
  <1>8. MadeHasDevice'
    BY DEF Types, EndsInv, MadeHasDevice, ServerType, AgentType, Lost, DeviceOf, Ends, Replies
  <1>9. CurrentIsOpen'
    BY DEF Types, EndsInv, CurrentIsOpen, ServerType, AgentType, WorkerType, Lost, DeviceOf,
      Ends, Replies
  <1>10. SessionsInv'
    BY DEF Types, EndsInv, SessionsInv, AgentType, Lost
  <1>11. NotYetTold'
    BY DEF Types, PresenceInv, NotYetTold, ServerType, AgentType, Lost, DeviceOf,
      NoAuthentication, Ends, Replies
  <1>12. ListIsTrue'
    BY DEF Types, PresenceInv, ListIsTrue, HubType, ServerType, AgentType, Lost, DeviceOf, hub,
      Online, Ends, Replies
  <1>13. WaitsForSomething'
    BY DEF Types, PresenceInv, WaitsForSomething, ServerType, AgentType, Lost, DeviceOf, Ends,
      Replies
  <1>14. PresenceTrue'
    BY DEF Types, PresenceInv, PresenceTrue, HubType, ServerType, AgentType, Lost, DeviceOf,
      hub, Event, Online, Ends, Replies
  <1> QED
    BY <1>1, <1>2, <1>3, <1>4, <1>5, <1>6, <1>7, <1>8, <1>9, <1>10, <1>11, <1>12, <1>13, <1>14
      DEF Types, Bounds, EndsInv, PresenceInv, WatchInv

LEMMA LoseControlKeepsInv ==
    ASSUME Inv, NEW k \in Conns, LoseControl(k)
    PROVE  Inv'
  <1> USE DEF Inv, LoseControl
  <1>1. WatchInv'
    BY LoseControlWatch
  <1>2. DatabaseType' /\ HubType' /\ ServerType' /\ WorkerType' /\ ApprovalType'
    BY DEF Types, DatabaseType, HubType, ServerType, Replies, WorkerType, ApprovalType,
      database, hub, worker, approval
  <1>3. QueuesBounded'
    BY DEF Bounds, QueuesBounded, database, hub, worker, approval
  <1>4. RequestInv' /\ RegisteredIsServed'
    BY DEF EndsInv, RequestInv, RegisteredIsServed, DeviceOf, database, hub, worker, approval
  <1>5. AgentType'
    BY DEF Types, AgentType, Lost, AgentEnds, States, Sessions
  <1>6. SessionsBounded'
    BY DEF Types, Bounds, SessionsBounded, AgentType, Lost
  <1>7. MadeHasDevice'
    BY DEF Types, EndsInv, MadeHasDevice, ServerType, AgentType, Lost, Ends, Replies
  <1>8. CurrentIsOpen'
    BY DEF Types, EndsInv, CurrentIsOpen, ServerType, AgentType, WorkerType, Lost, worker,
      DeviceOf, Ends, Replies
  <1>9. SessionsInv'
    BY DEF Types, EndsInv, SessionsInv, AgentType, Lost
  <1>10. NotYetTold'
    BY DEF Types, PresenceInv, NotYetTold, ServerType, AgentType, Lost, NoAuthentication, Ends,
      Replies
  <1>11. ListIsTrue'
    BY DEF Types, PresenceInv, ListIsTrue, HubType, ServerType, AgentType, Lost, hub, Online,
      DeviceOf, Ends, Replies
  <1>12. WaitsForSomething'
    BY DEF Types, PresenceInv, WaitsForSomething, ServerType, AgentType, Lost, Ends, Replies
  <1>13. PresenceTrue'
    BY DEF Types, PresenceInv, PresenceTrue, HubType, ServerType, AgentType, Lost, hub, Event,
      Online, DeviceOf, Ends, Replies
  <1> QED
    BY <1>1, <1>2, <1>3, <1>4, <1>5, <1>6, <1>7, <1>8, <1>9, <1>10, <1>11, <1>12, <1>13 DEF
      Types, Bounds, EndsInv, PresenceInv, WatchInv

LEMMA CloseControlKeepsInv ==
    ASSUME Inv, NEW k \in Conns, CloseControl(k)
    PROVE  Inv'
  <1> USE DEF Inv, Types, CloseControl
  <1>1. SessionsBounded' /\ WatchInv'
    BY CloseControlKeeps
  <1>2. DatabaseType' /\ HubType' /\ QueuesBounded' /\ RegisteredIsServed'
    BY DEF Bounds, EndsInv, DatabaseType, HubType, QueuesBounded, RegisteredIsServed, DeviceOf,
      database, hub
  <1>3. ServerType'
    BY DEF ServerType, ApprovalType, DeviceOf, Connected, Ends, Replies
  <1>4. AgentType'
    BY DEF AgentType, Connected, Offline, AgentEnds, States, Sessions
  <1>5. WorkerType'
    BY DEF WorkerType, Connected
  <1>6. ApprovalType'
    BY DEF ApprovalType, Connected
  <1>7. MadeHasDevice'
    BY DEF EndsInv, MadeHasDevice, ServerType, AgentType, DeviceOf, Connected, Ends, Replies
  <1>8. CurrentIsOpen'
    BY DEF EndsInv, CurrentIsOpen, ServerType, AgentType, WorkerType, DeviceOf, Connected, Ends,
      Replies
  <1>9. SessionsInv'
    BY DEF EndsInv, SessionsInv, AgentType, Connected
  <1>10. RequestInv'
    BY DEF EndsInv, RequestInv, ApprovalType, Connected
  <1>11. NotYetTold'
    BY DEF PresenceInv, NotYetTold, ServerType, AgentType, DeviceOf, Connected,
      NoAuthentication, Ends, Replies
  <1>12. ListIsTrue'
    BY DEF PresenceInv, ListIsTrue, HubType, ServerType, AgentType, DeviceOf, Connected, hub,
      Online, Ends, Replies
  <1>13. WaitsForSomething'
    BY DEF PresenceInv, WaitsForSomething, ServerType, AgentType, DeviceOf, Connected, Ends,
      Replies
  <1>14. PresenceTrue'
    BY DEF PresenceInv, PresenceTrue, HubType, ServerType, AgentType, DeviceOf, Connected,
      Offline, hub, Event, Online, Ends, Phases, Replies, AgentEnds, States, Sessions
  <1> QED
    BY <1>1, <1>2, <1>3, <1>4, <1>5, <1>6, <1>7, <1>8, <1>9, <1>10, <1>11, <1>12, <1>13, <1>14
      DEF Bounds, EndsInv, PresenceInv, WatchInv

LEMMA BreakNetworkKeepsInv ==
    ASSUME Inv, NEW k \in Conns, BreakNetwork(k)
    PROVE  Inv'
  <1> USE DEF Inv, BreakNetwork
  <1>1. DatabaseType' /\ HubType' /\ ServerType' /\ WorkerType' /\ ApprovalType' /\ WatchType'
    BY DEF Types, DatabaseType, HubType, ServerType, Replies, WorkerType, ApprovalType,
      WatchType, database, hub, worker, approval
  <1>2. QueuesBounded' /\ WatchBounded'
    BY DEF Bounds, QueuesBounded, WatchBounded, database, hub, worker, approval
  <1>3. RequestInv' /\ RegisteredIsServed'
    BY DEF EndsInv, RequestInv, RegisteredIsServed, DeviceOf, database, hub, worker, approval
  <1>4. AgentType'
    BY DEF Types, AgentType, AgentEnds, States, Sessions
  <1>5. SessionsBounded'
    BY DEF Types, Bounds, SessionsBounded, AgentType
  <1>6. MadeHasDevice'
    BY DEF Types, EndsInv, MadeHasDevice, ServerType, AgentType, Ends, Replies
  <1>7. CurrentIsOpen'
    BY DEF Types, EndsInv, CurrentIsOpen, ServerType, AgentType, WorkerType, worker, DeviceOf,
      Ends, Replies
  <1>8. SessionsInv'
    BY DEF Types, EndsInv, SessionsInv, AgentType
  <1>9. NotYetTold'
    BY DEF Types, PresenceInv, NotYetTold, ServerType, AgentType, NoAuthentication, Ends,
      Replies
  <1>10. ListIsTrue'
    BY DEF Types, PresenceInv, ListIsTrue, HubType, ServerType, AgentType, hub, Online,
      DeviceOf, Ends, Replies
  <1>11. WaitsForSomething'
    BY DEF Types, PresenceInv, WaitsForSomething, ServerType, AgentType, Ends, Replies
  <1>12. PresenceTrue'
    BY DEF Types, PresenceInv, PresenceTrue, HubType, ServerType, AgentType, hub, Event, Online,
      DeviceOf, Ends, Replies
  <1>13. WatchTrue'
    BY DEF Types, PresenceInv, WatchTrue, AgentType, WorkerType, WatchType, worker, Projection
  <1> QED
    BY <1>1, <1>2, <1>3, <1>4, <1>5, <1>6, <1>7, <1>8, <1>9, <1>10, <1>11, <1>12, <1>13 DEF
      Types, Bounds, EndsInv, PresenceInv

LEMMA RequestKeepsInv ==
    ASSUME Inv, NEW k \in Conns, Request(k)
    PROVE  Inv'
  <1> USE DEF Inv, Types, Request
  <1>1. DatabaseType' /\ HubType' /\ AgentType' /\ WorkerType' /\ WatchType' /\ QueuesBounded'
        /\ SessionsBounded' /\ WatchBounded' /\ MadeHasDevice' /\ CurrentIsOpen' /\ SessionsInv'
        /\ RegisteredIsServed' /\ NotYetTold' /\ ListIsTrue' /\ WaitsForSomething' /\
        PresenceTrue' /\ WatchTrue'
    BY DEF Bounds, EndsInv, PresenceInv, DatabaseType, HubType, AgentType, WorkerType,
      WatchType, QueuesBounded, SessionsBounded, WatchBounded, MadeHasDevice, CurrentIsOpen,
      DeviceOf, SessionsInv, RegisteredIsServed, NotYetTold, ListIsTrue, Online,
      WaitsForSomething, PresenceTrue, Event, WatchTrue, Projection, database, hub, worker
  <1>2. ServerType'
    BY DEF ServerType, ApprovalType, NoRequest, FailedWrite, Ends, Phases, Replies
  <1>3. ApprovalType'
    BY DEF ApprovalType, FailedWrite
  <1>4. RequestInv'
    BY DEF EndsInv, RequestInv, ApprovalType, NoRequest, FailedWrite
  <1> QED
    BY <1>1, <1>2, <1>3, <1>4 DEF Bounds, EndsInv, PresenceInv

LEMMA GiveUpKeepsInv ==
    ASSUME Inv, NEW k \in Conns, GiveUp(k)
    PROVE  Inv'
  <1> USE DEF Inv, Types, EndsInv, GiveUp
  <1>1. ServerType' /\ ApprovalType'
    BY GiveUpTypes
  <1>2. DatabaseType' /\ HubType' /\ AgentType' /\ WorkerType' /\ WatchType' /\ QueuesBounded'
        /\ SessionsBounded' /\ WatchBounded' /\ MadeHasDevice' /\ CurrentIsOpen' /\ SessionsInv'
        /\ RegisteredIsServed' /\ NotYetTold' /\ ListIsTrue' /\ WaitsForSomething' /\
        PresenceTrue' /\ WatchTrue'
    BY DEF Bounds, PresenceInv, DatabaseType, HubType, AgentType, WorkerType, WatchType,
      QueuesBounded, SessionsBounded, WatchBounded, MadeHasDevice, CurrentIsOpen, DeviceOf,
      SessionsInv, RegisteredIsServed, NotYetTold, ListIsTrue, Online, WaitsForSomething,
      PresenceTrue, Event, WatchTrue, Projection, database, hub, worker
  <1>3. RequestInv'
    BY DEF RequestInv, ApprovalType, NoRequest
  <1> QED
    BY <1>1, <1>2, <1>3 DEF Bounds, PresenceInv

LEMMA ReadPresenceKeepsInv ==
    ASSUME Inv, NEW k \in Conns, ReadMessage(k), ReadPresence(k)
    PROVE  Inv'
  <1> USE DEF Inv, Types, ReadMessage, ReadPresence, database, hub, worker, approval
  <1>1. ServerType' /\ AgentType' /\ SessionsBounded' /\ SessionsInv' /\ MadeHasDevice' /\
        CurrentIsOpen' /\ AtInv' /\ WatchInv'
    BY ReadPresenceKeeps
  <1>2. DatabaseType' /\ HubType' /\ WorkerType' /\ ApprovalType' /\ RequestInv'
    BY DEF EndsInv, DatabaseType, HubType, WorkerType, ApprovalType, RequestInv
  <1>3. QueuesBounded'
    BY RendezvousConstants, ConnFacts, EventFacts DEF Bounds, QueuesBounded, ServerType,
      Arrived, Event, Taken, DeviceOf, Offline, WithoutPeer, Ends, Phases, Replies
  <1>4. RegisteredIsServed'
    BY DEF EndsInv, RegisteredIsServed, HubType, ServerType, Arrived, Event, Taken, DeviceOf,
      WithoutPeer, Ends, Replies
  <1> QED
    BY <1>1, <1>2, <1>3, <1>4 DEF Bounds, EndsInv, PresenceInv, AtInv, WatchInv

LEMMA ReadReplyKeepsInv ==
    ASSUME Inv, NEW k \in Conns, ReadMessage(k), ReadReply(k)
    PROVE  Inv'
  <1> USE DEF Inv, Types, ReadMessage, ReadReply, database, hub, worker, approval
  <1>1. ServerType' /\ AtInv'
    BY ReadReplyKeeps
  <1>2. DatabaseType' /\ HubType' /\ AgentType' /\ WorkerType' /\ WatchType' /\ SessionsBounded'
        /\ WatchBounded' /\ SessionsInv' /\ WatchTrue'
    BY DEF Bounds, EndsInv, PresenceInv, DatabaseType, HubType, AgentType, WorkerType,
      WatchType, SessionsBounded, WatchBounded, SessionsInv, WatchTrue, Projection
  <1>3. ApprovalType'
    BY DEF ApprovalType, Arrived, Taken
  <1>4. QueuesBounded'
    BY RendezvousConstants, ConnFacts, EventFacts DEF Bounds, QueuesBounded, ServerType,
      Arrived, Event, Taken, Ends, Phases, Replies
  <1>5. MadeHasDevice'
    BY DEF EndsInv, MadeHasDevice, ServerType, AgentType, Arrived, Event, Taken, Ends, Replies
  <1>6. CurrentIsOpen'
    BY DEF EndsInv, CurrentIsOpen, ServerType, AgentType, WorkerType, Arrived, Event, Taken,
      DeviceOf, Ends, Replies
  <1>7. RequestInv'
    BY EventFacts DEF Bounds, EndsInv, PresenceInv, RequestInv, DatabaseType, HubType,
      ServerType, AgentType, WorkerType, ApprovalType, WatchType, MadeHasDevice, CurrentIsOpen,
      SessionsInv, RegisteredIsServed, Arrived, Event, Taken, Ends, Replies, DeviceOf
  <1>8. RegisteredIsServed'
    BY DEF EndsInv, RegisteredIsServed, HubType, ServerType, Arrived, Event, Taken, DeviceOf,
      Ends, Replies
  <1> QED
    BY <1>1, <1>2, <1>3, <1>4, <1>5, <1>6, <1>7, <1>8 DEF Bounds, EndsInv, PresenceInv, AtInv

LEMMA ReadSignalKeepsInv ==
    ASSUME Inv, NEW k \in Conns, ReadMessage(k), ReadSignal(k)
    PROVE  Inv'
  <1> USE DEF Inv, Types, ReadMessage, ReadSignal, database, hub, worker, approval
  <1>1. ServerType' /\ AgentType' /\ SessionsBounded' /\ AtInv'
    BY ReadSignalKeeps
  <1>2. DatabaseType' /\ HubType' /\ WorkerType' /\ ApprovalType' /\ WatchType' /\ WatchBounded'
        /\ RequestInv'
    BY DEF Bounds, EndsInv, DatabaseType, HubType, WorkerType, ApprovalType, WatchType,
      WatchBounded, RequestInv
  <1>3. QueuesBounded'
    BY RendezvousConstants, ConnFacts, EventFacts DEF Bounds, QueuesBounded, ServerType,
      Arrived, Event, Taken, WithSignal, Ends, Phases, Replies
  <1>4. MadeHasDevice'
    BY DEF EndsInv, MadeHasDevice, ServerType, AgentType, Arrived, Event, Taken, WithSignal,
      Ends, Replies
  <1>5. CurrentIsOpen'
    BY DEF EndsInv, CurrentIsOpen, ServerType, AgentType, WorkerType, Arrived, Event, Taken,
      WithSignal, DeviceOf, Ends, Replies
  <1>6. SessionsInv'
    BY DEF EndsInv, SessionsInv, AgentType, Arrived, Taken, WithSignal
  <1>7. RegisteredIsServed'
    BY DEF EndsInv, RegisteredIsServed, HubType, ServerType, Arrived, Event, Taken, WithSignal,
      DeviceOf, Ends, Replies
  <1>8. WatchTrue'
    BY DEF PresenceInv, WatchTrue, AgentType, WorkerType, WatchType, Arrived, Taken, WithSignal,
      Projection
  <1> QED
    BY <1>1, <1>2, <1>3, <1>4, <1>5, <1>6, <1>7, <1>8 DEF Bounds, EndsInv, PresenceInv, AtInv

LEMMA ReadRevokedKeepsInv ==
    ASSUME Inv, NEW k \in Conns, ReadMessage(k), ReadRevoked(k)
    PROVE  Inv'
  <1> USE DEF Inv, Types, ReadMessage, ReadRevoked, database, hub, worker, approval
  <1>1. DatabaseType' /\ HubType' /\ ApprovalType' /\ WatchType' /\ WatchBounded' /\ RequestInv'
    BY DEF Bounds, EndsInv, DatabaseType, HubType, ApprovalType, WatchType, WatchBounded,
      RequestInv
  <1>2. ServerType'
    BY DEF ServerType, ApprovalType, Arrived, Event, Taken, DeviceOf, Ends, Replies
  <1>3. AgentType'
    BY DEF AgentType, Arrived, Taken, AgentEnds, States, Sessions
  <1>4. WorkerType'
    BY DEF WorkerType, DatabaseType, HubType, ServerType, AgentType, ApprovalType, WatchType,
      Arrived, Taken, Ends, Replies
  <1>5. QueuesBounded'
    BY DEF Bounds, QueuesBounded, ServerType, Arrived, Event, Taken, DeviceOf, Ends, Replies
  <1>6. SessionsBounded'
    BY DEF Bounds, SessionsBounded, AgentType, Arrived, Taken
  <1>7. MadeHasDevice'
    BY DEF EndsInv, MadeHasDevice, ServerType, AgentType, Arrived, Event, Taken, DeviceOf, Ends,
      Replies
  <1>8. CurrentIsOpen'
    BY DEF EndsInv, CurrentIsOpen, ServerType, AgentType, WorkerType, Arrived, Event, Taken,
      DeviceOf, Ends, Replies
  <1>9. SessionsInv'
    BY DEF EndsInv, SessionsInv, AgentType, Arrived, Taken
  <1>10. RegisteredIsServed'
    BY DEF EndsInv, RegisteredIsServed, HubType, ServerType, Arrived, Event, Taken, DeviceOf,
      Ends, Replies
  <1>11. NotYetTold'
    BY DEF PresenceInv, NotYetTold, ServerType, AgentType, Arrived, Event, Taken, DeviceOf,
      NoAuthentication, Ends, Replies
  <1>12. ListIsTrue'
    BY DEF PresenceInv, ListIsTrue, HubType, ServerType, AgentType, Arrived, Event, Taken,
      DeviceOf, Online, Ends, Replies
  <1>13. WaitsForSomething'
    BY DEF PresenceInv, WaitsForSomething, ServerType, AgentType, Arrived, Event, Taken,
      DeviceOf, Ends, Replies
  <1>14. PresenceTrue'
    BY DEF PresenceInv, PresenceTrue, HubType, ServerType, AgentType, Arrived, Event, Taken,
      DeviceOf, Online, Ends, Replies
  <1>15. WatchTrue'
    BY RendezvousConstants, ConnFacts, EventFacts DEF PresenceInv, WatchTrue, AgentType,
      WorkerType, WatchType, Arrived, Taken, Projection, Offline, AgentEnds, States, Sessions,
      WatchEvents
  <1> QED
    BY <1>1, <1>2, <1>3, <1>4, <1>5, <1>6, <1>7, <1>8, <1>9, <1>10, <1>11, <1>12, <1>13, <1>14,
      <1>15 DEF Bounds, EndsInv, PresenceInv

LEMMA ForwardSignalKeepsInv ==
    ASSUME Inv, NEW k \in Conns, NEW s \in agent[k].sessions, ForwardSignal(k, s)
    PROVE  Inv'
  <1>1. ServerType' /\ ConnInv'
    BY ForwardSignalKeeps
  <1>2. DatabaseType' /\ HubType' /\ AgentType' /\ WorkerType' /\ ApprovalType' /\ WatchType' /\
        SessionsBounded' /\ WatchBounded' /\ SessionsInv' /\ RequestInv' /\ WatchTrue'
    BY DEF Inv, Types, Bounds, EndsInv, PresenceInv, DatabaseType, HubType, AgentType,
      WorkerType, ApprovalType, WatchType, SessionsBounded, WatchBounded, SessionsInv,
      RequestInv, WatchTrue, Projection, ForwardSignal, database, hub, worker, approval
  <1> QED
    BY <1>1, <1>2 DEF Inv, Types, Bounds, EndsInv, PresenceInv, ConnInv

LEMMA CloseSessionKeepsInv ==
    ASSUME Inv, NEW k \in Conns, NEW s \in agent[k].sessions, CloseSession(k, s)
    PROVE  Inv'
  <1> USE DEF Inv, CloseSession
  <1>1. SessionsBounded'
    BY CloseSessionBounded
  <1>2. DatabaseType' /\ HubType' /\ ServerType' /\ WorkerType' /\ ApprovalType' /\ WatchType'
    BY DEF Types, DatabaseType, HubType, ServerType, Replies, WorkerType, ApprovalType,
      WatchType, database, hub, worker, approval
  <1>3. QueuesBounded' /\ WatchBounded'
    BY DEF Bounds, QueuesBounded, WatchBounded, database, hub, worker, approval
  <1>4. RequestInv' /\ RegisteredIsServed'
    BY DEF EndsInv, RequestInv, RegisteredIsServed, DeviceOf, database, hub, worker, approval
  <1>5. AgentType'
    BY DEF Types, AgentType, AgentEnds, States, Sessions
  <1>6. MadeHasDevice'
    BY DEF Types, EndsInv, MadeHasDevice, ServerType, AgentType, Ends, Replies
  <1>7. CurrentIsOpen'
    BY DEF Types, EndsInv, CurrentIsOpen, ServerType, AgentType, WorkerType, worker, DeviceOf,
      Ends, Replies
  <1>8. SessionsInv'
    BY DEF Types, EndsInv, SessionsInv, AgentType
  <1>9. NotYetTold'
    BY DEF Types, PresenceInv, NotYetTold, ServerType, AgentType, NoAuthentication, Ends,
      Replies
  <1>10. ListIsTrue'
    BY DEF Types, PresenceInv, ListIsTrue, HubType, ServerType, AgentType, hub, Online,
      DeviceOf, Ends, Replies
  <1>11. WaitsForSomething'
    BY DEF Types, PresenceInv, WaitsForSomething, ServerType, AgentType, Ends, Replies
  <1>12. PresenceTrue'
    BY DEF Types, PresenceInv, PresenceTrue, HubType, ServerType, AgentType, hub, Event, Online,
      DeviceOf, Ends, Phases, Replies, AgentEnds, States, Sessions
  <1>13. WatchTrue'
    BY DEF Types, PresenceInv, WatchTrue, AgentType, WorkerType, WatchType, worker, Projection
  <1> QED
    BY <1>1, <1>2, <1>3, <1>4, <1>5, <1>6, <1>7, <1>8, <1>9, <1>10, <1>11, <1>12, <1>13 DEF
      Types, Bounds, EndsInv, PresenceInv

LEMMA OpenSessionKeepsInv ==
    ASSUME Inv, NEW k \in Conns, NEW p \in Devices, OpenSession(k, p)
    PROVE  Inv'
  <1> USE DEF Inv, OpenSession
  <1>1. SessionsBounded'
    BY OpenSessionBounded
  <1>2. DatabaseType' /\ HubType' /\ ServerType' /\ WorkerType' /\ ApprovalType' /\ WatchType'
    BY DEF Types, DatabaseType, HubType, ServerType, Replies, WorkerType, ApprovalType,
      WatchType, database, hub, worker, approval
  <1>3. QueuesBounded' /\ WatchBounded'
    BY DEF Bounds, QueuesBounded, WatchBounded, database, hub, worker, approval
  <1>4. RequestInv' /\ RegisteredIsServed'
    BY DEF EndsInv, RequestInv, RegisteredIsServed, DeviceOf, database, hub, worker, approval
  <1>5. AgentType'
    BY DEF Types, AgentType, CanOpen, AgentEnds, States, Sessions
  <1>6. MadeHasDevice'
    BY DEF Types, EndsInv, MadeHasDevice, ServerType, AgentType, CanOpen, Ends, Replies
  <1>7. CurrentIsOpen'
    BY DEF Types, EndsInv, CurrentIsOpen, ServerType, AgentType, WorkerType, CanOpen, worker,
      DeviceOf, Ends, Replies
  <1>8. SessionsInv'
    BY DEF Types, EndsInv, SessionsInv, AgentType, CanOpen
  <1>9. NotYetTold'
    BY DEF Types, PresenceInv, NotYetTold, ServerType, AgentType, CanOpen, NoAuthentication,
      Ends, Replies
  <1>10. ListIsTrue'
    BY DEF Types, PresenceInv, ListIsTrue, HubType, ServerType, AgentType, CanOpen, hub, Online,
      DeviceOf, Ends, Replies
  <1>11. WaitsForSomething'
    BY DEF Types, PresenceInv, WaitsForSomething, ServerType, AgentType, CanOpen, Ends, Replies
  <1>12. PresenceTrue'
    BY DEF Types, PresenceInv, PresenceTrue, HubType, ServerType, AgentType, CanOpen, hub,
      Event, Online, DeviceOf, Ends, Replies
  <1>13. WatchTrue'
    BY DEF Types, PresenceInv, WatchTrue, AgentType, WorkerType, WatchType, CanOpen, worker,
      Projection
  <1> QED
    BY <1>1, <1>2, <1>3, <1>4, <1>5, <1>6, <1>7, <1>8, <1>9, <1>10, <1>11, <1>12, <1>13 DEF
      Types, Bounds, EndsInv, PresenceInv

LEMMA DialKeepsInv ==
    ASSUME Inv, NEW d \in Devices, Dial(d)
    PROVE  Inv'
  <1> USE DEF Inv, Types, Dial
  <1>1. ServerType' /\ SessionsBounded' /\ CurrentIsOpen' /\ RegisteredIsServed' /\ NotYetTold'
        /\ WatchInv'
    BY DialKeeps
  <1>2. DatabaseType' /\ HubType' /\ ApprovalType' /\ RequestInv'
    BY DEF EndsInv, DatabaseType, HubType, ApprovalType, RequestInv, database, hub, approval
  <1>3. AgentType'
    BY DEF AgentType, NoServer, NoAgent, AgentEnds, States, Sessions
  <1>4. WorkerType'
    BY DEF Bounds, EndsInv, PresenceInv, WorkerType, Unused, database, hub, approval
  <1>5. QueuesBounded'
    BY RendezvousConstants, ConnFacts, UnusedConn DEF Bounds, QueuesBounded, ServerType, Unused,
      NoServer, NoAgent, Ends, Phases, Replies
  <1>6. MadeHasDevice'
    BY DEF EndsInv, MadeHasDevice, ServerType, AgentType, Unused, Ends, Replies
  <1>7. SessionsInv'
    BY DEF EndsInv, SessionsInv, AgentType, NoServer, NoAgent, AgentEnds, States, Sessions
  <1>8. ListIsTrue'
    BY DEF PresenceInv, ListIsTrue, HubType, ServerType, AgentType, Unused, hub, Online,
      DeviceOf, Ends, Replies
  <1>9. WaitsForSomething'
    BY DEF PresenceInv, WaitsForSomething, ServerType, AgentType, Unused, Ends, Replies
  <1>10. PresenceTrue'
    BY DEF PresenceInv, PresenceTrue, HubType, ServerType, AgentType, Unused, hub, Event,
      Online, DeviceOf, Ends, Replies
  <1> QED
    BY <1>1, <1>2, <1>3, <1>4, <1>5, <1>6, <1>7, <1>8, <1>9, <1>10 DEF Bounds, EndsInv,
      PresenceInv, WatchInv

LEMMA PushRevocationKeepsInv ==
    ASSUME Inv, NEW d \in Devices, PushRevocation(d)
    PROVE  Inv'
  <1> USE DEF Inv, Types, PushRevocation
  <1>1. ServerType' /\ ConnInv'
    BY PushRevocationKeeps
  <1>2. HubType' /\ AgentType' /\ WorkerType' /\ ApprovalType' /\ WatchType' /\ SessionsBounded'
        /\ WatchBounded' /\ SessionsInv' /\ RequestInv' /\ WatchTrue'
    BY DEF Bounds, EndsInv, PresenceInv, HubType, AgentType, WorkerType, ApprovalType,
      WatchType, SessionsBounded, WatchBounded, SessionsInv, RequestInv, WatchTrue, Projection,
      hub, worker, approval
  <1>3. DatabaseType'
    BY DEF DatabaseType
  <1> QED
    BY <1>1, <1>2, <1>3 DEF Bounds, EndsInv, PresenceInv, ConnInv

LEMMA RevokeMemberKeepsInv ==
    ASSUME Inv, NEW d \in Devices, RevokeMember(d)
    PROVE  Inv'
  <1> USE DEF Inv, RevokeMember
  <1>1. HubType' /\ ServerType' /\ AgentType' /\ WorkerType' /\ ApprovalType' /\ WatchType'
    BY DEF Types, HubType, ServerType, Replies, AgentType, WorkerType, ApprovalType, WatchType,
      hub, worker, approval
  <1>2. QueuesBounded' /\ SessionsBounded' /\ WatchBounded'
    BY DEF Bounds, QueuesBounded, SessionsBounded, WatchBounded, hub, worker, approval
  <1>3. MadeHasDevice' /\ CurrentIsOpen' /\ SessionsInv' /\ RequestInv' /\ RegisteredIsServed'
    BY DEF EndsInv, MadeHasDevice, CurrentIsOpen, DeviceOf, SessionsInv, RequestInv,
      RegisteredIsServed, hub, worker, approval
  <1>4. NotYetTold' /\ ListIsTrue' /\ WaitsForSomething' /\ PresenceTrue' /\ WatchTrue'
    BY DEF PresenceInv, NotYetTold, ListIsTrue, Online, DeviceOf, WaitsForSomething,
      PresenceTrue, Event, WatchTrue, Projection, hub, worker, approval
  <1>5. DatabaseType'
    BY DEF Types, DatabaseType
  <1> QED
    BY <1>1, <1>2, <1>3, <1>4, <1>5 DEF Types, Bounds, EndsInv, PresenceInv

LEMMA SubscribeKeepsInv ==
    ASSUME Inv, NEW d \in Devices, Subscribe(d)
    PROVE  Inv'
  <1> USE DEF Inv, Subscribe
  <1>1. WatchType' /\ WatchTrue'
    BY SubscribeWatch
  <1>2. DatabaseType' /\ HubType' /\ ServerType' /\ AgentType' /\ WorkerType' /\ ApprovalType'
    BY DEF Types, DatabaseType, HubType, ServerType, Replies, AgentType, WorkerType,
      ApprovalType, database, hub, worker, approval
  <1>3. QueuesBounded' /\ SessionsBounded'
    BY DEF Bounds, QueuesBounded, SessionsBounded, database, hub, worker, approval
  <1>4. MadeHasDevice' /\ CurrentIsOpen' /\ SessionsInv' /\ RequestInv' /\ RegisteredIsServed'
    BY DEF EndsInv, MadeHasDevice, CurrentIsOpen, DeviceOf, SessionsInv, RequestInv,
      RegisteredIsServed, database, hub, worker, approval
  <1>5. NotYetTold' /\ ListIsTrue' /\ WaitsForSomething' /\ PresenceTrue'
    BY DEF PresenceInv, NotYetTold, ListIsTrue, Online, DeviceOf, WaitsForSomething,
      PresenceTrue, Event, database, hub, worker, approval
  <1>6. WatchBounded'
    BY RendezvousConstants, ConnFacts DEF Types, Bounds, WatchBounded, WatchType, NoWatch,
      Connected, Offline, WatchEvents
  <1> QED
    BY <1>1, <1>2, <1>3, <1>4, <1>5, <1>6 DEF Types, Bounds, EndsInv, PresenceInv

LEMMA CloseHubKeepsInv ==
    ASSUME Inv, CloseHub
    PROVE  Inv'
  <1> USE DEF Inv, Types, CloseHub
  <1>1. ServerType'
    BY CloseHubServer
  <1>2. DatabaseType' /\ AgentType' /\ WorkerType' /\ ApprovalType' /\ WatchType' /\
        SessionsBounded' /\ WatchBounded' /\ SessionsInv' /\ RequestInv' /\ WatchTrue'
    BY DEF Bounds, EndsInv, PresenceInv, DatabaseType, AgentType, WorkerType, ApprovalType,
      WatchType, SessionsBounded, WatchBounded, SessionsInv, RequestInv, WatchTrue, Projection,
      database, worker, approval
  <1>3. HubType'
    BY DEF HubType, Online
  <1>4. QueuesBounded'
    BY DEF Bounds, QueuesBounded, ServerType, Ends, Replies
  <1>5. MadeHasDevice'
    BY DEF EndsInv, MadeHasDevice, ServerType, AgentType, Ends, Replies
  <1>6. CurrentIsOpen'
    BY DEF EndsInv, CurrentIsOpen, ServerType, AgentType, WorkerType, worker, DeviceOf, Ends,
      Replies
  <1>7. RegisteredIsServed'
    BY DEF EndsInv, RegisteredIsServed, HubType, ServerType, Online, DeviceOf, Ends, Replies
  <1>8. NotYetTold'
    BY DEF PresenceInv, NotYetTold, ServerType, AgentType, NoAuthentication, Ends, Replies
  <1>9. ListIsTrue'
    BY DEF PresenceInv, ListIsTrue, HubType, ServerType, AgentType, Online, DeviceOf, Ends,
      Replies
  <1>10. WaitsForSomething'
    BY DEF PresenceInv, WaitsForSomething, ServerType, AgentType, Ends, Replies
  <1>11. PresenceTrue'
    BY DEF PresenceInv, PresenceTrue, HubType, ServerType, AgentType, Online, Event, DeviceOf,
      Ends, Replies
  <1> QED
    BY <1>1, <1>2, <1>3, <1>4, <1>5, <1>6, <1>7, <1>8, <1>9, <1>10, <1>11 DEF Bounds, EndsInv,
      PresenceInv

LEMMA ReadEventKeepsInv ==
    ASSUME Inv, ReadEvent
    PROVE  Inv'
  <1> USE DEF Inv, ReadEvent
  <1>1. WatchType' /\ WatchTrue'
    BY ReadEventWatch
  <1>2. DatabaseType' /\ HubType' /\ ServerType' /\ AgentType' /\ WorkerType' /\ ApprovalType'
    BY DEF Types, DatabaseType, HubType, ServerType, Replies, AgentType, WorkerType,
      ApprovalType, database, hub, worker, approval
  <1>3. QueuesBounded' /\ SessionsBounded'
    BY DEF Bounds, QueuesBounded, SessionsBounded, database, hub, worker, approval
  <1>4. MadeHasDevice' /\ CurrentIsOpen' /\ SessionsInv' /\ RequestInv' /\ RegisteredIsServed'
    BY DEF EndsInv, MadeHasDevice, CurrentIsOpen, DeviceOf, SessionsInv, RequestInv,
      RegisteredIsServed, database, hub, worker, approval
  <1>5. NotYetTold' /\ ListIsTrue' /\ WaitsForSomething' /\ PresenceTrue'
    BY DEF PresenceInv, NotYetTold, ListIsTrue, Online, DeviceOf, WaitsForSomething,
      PresenceTrue, Event, database, hub, worker, approval
  <1>6. WatchBounded'
    BY RendezvousConstants, ConnFacts DEF Types, Bounds, WatchBounded, WatchType, Apply,
      Offline, WatchEvents
  <1> QED
    BY <1>1, <1>2, <1>3, <1>4, <1>5, <1>6 DEF Types, Bounds, EndsInv, PresenceInv

LEMMA UnsubscribeKeepsInv ==
    ASSUME Inv, Unsubscribe
    PROVE  Inv'
  <1> USE DEF Inv, Unsubscribe
  <1>1. DatabaseType' /\ HubType' /\ ServerType' /\ AgentType' /\ WorkerType' /\ ApprovalType'
    BY DEF Types, DatabaseType, HubType, ServerType, Replies, AgentType, WorkerType,
      ApprovalType, database, hub, worker, approval
  <1>2. QueuesBounded' /\ SessionsBounded'
    BY DEF Bounds, QueuesBounded, SessionsBounded, database, hub, worker, approval
  <1>3. MadeHasDevice' /\ CurrentIsOpen' /\ SessionsInv' /\ RequestInv' /\ RegisteredIsServed'
    BY DEF EndsInv, MadeHasDevice, CurrentIsOpen, DeviceOf, SessionsInv, RequestInv,
      RegisteredIsServed, database, hub, worker, approval
  <1>4. NotYetTold' /\ ListIsTrue' /\ WaitsForSomething' /\ PresenceTrue'
    BY DEF PresenceInv, NotYetTold, ListIsTrue, Online, DeviceOf, WaitsForSomething,
      PresenceTrue, Event, database, hub, worker, approval
  <1>5. WatchType'
    BY DEF Types, WatchType, NoWatch, WatchEvents, Offline
  <1>6. WatchBounded'
    BY RendezvousConstants, ConnFacts DEF Types, Bounds, WatchBounded, WatchType, NoWatch,
      WatchEvents, Offline
  <1>7. WatchTrue'
    BY DEF Types, PresenceInv, WatchTrue, AgentType, WorkerType, WatchType, NoWatch, worker,
      Projection, Offline, AgentEnds, States, Sessions, WatchEvents
  <1> QED
    BY <1>1, <1>2, <1>3, <1>4, <1>5, <1>6, <1>7 DEF Types, Bounds, EndsInv, PresenceInv

(***************************************************************************)
(* The invariant.                                                          *)
(***************************************************************************)
\* Nothing is connected, requested or watched at the start.
LEMMA InitInv ==
    ASSUME Init
    PROVE  Inv
  <1>1. ASSUME NEW k \in Conns
        PROVE  server[k] = NoServer /\ agent[k] = NoAgent
    BY <1>1 DEF Init
  <1>2. NoServer \in Ends(Plain \cup Replies) /\ NoAgent \in AgentEnds
    BY EmptyQueue DEF NoServer, NoAgent, Ends, Phases, AgentEnds, States
  <1>3. NoServer.phase = "none" /\ NoServer.send = <<>> /\ NoAgent.state = "none"
          /\ NoAgent.sessions = {}
    BY DEF NoServer, NoAgent
  <1>4. DatabaseType /\ HubType /\ WorkerType /\ ApprovalType
    BY DEF Init, DatabaseType, HubType, WorkerType, ApprovalType, NoRequest
  <1>5. WatchType
    BY EmptyQueue DEF Init, WatchType, NoWatch
  <1>6. ServerType
    BY <1>2 DEF Init, ServerType
  <1>7. AgentType
    BY <1>2 DEF Init, AgentType
  <1>8. QueuesBounded
    BY <1>1, <1>3, RendezvousConstants DEF QueuesBounded
  <1>9. SessionsBounded
    BY <1>1, <1>3, NoSessions DEF SessionsBounded
  <1>10. WatchBounded /\ WatchTrue
    BY RendezvousConstants DEF Init, WatchBounded, WatchTrue, NoWatch
  <1>11. MadeHasDevice /\ SessionsInv
    BY <1>1, <1>3 DEF MadeHasDevice, SessionsInv
  <1>12. CurrentIsOpen
    BY <1>1, <1>3 DEF CurrentIsOpen, Init
  <1>13. RequestInv
    BY DEF RequestInv, Init, NoRequest
  <1>14. RegisteredIsServed
    BY <1>1, <1>3, ConnFacts DEF RegisteredIsServed, Init
  <1>15. NotYetTold /\ ListIsTrue /\ WaitsForSomething /\ PresenceTrue
    BY <1>1, <1>3 DEF NotYetTold, ListIsTrue, WaitsForSomething, PresenceTrue
  <1> QED
    BY <1>4, <1>6, <1>7, <1>8, <1>10, <1>11, <1>12, <1>13, <1>14, <1>15, <1>5, <1>9
       DEF Inv, Types, Bounds, EndsInv, PresenceInv

\* A step that changes nothing.
LEMMA StutterInv ==
    ASSUME Inv, UNCHANGED vars
    PROVE  Inv'
  <1> USE DEF Inv, vars, database, hub, worker, approval
  <1>1. Types'
    <2>1. ServerType'
      BY DEF Types, ServerType, Replies
    <2> QED
      BY <2>1 DEF Types, DatabaseType, HubType, AgentType, WorkerType, ApprovalType, WatchType
  <1>2. Bounds'
    BY DEF Bounds, QueuesBounded, SessionsBounded, WatchBounded
  <1>3. EndsInv'
    BY DEF EndsInv, MadeHasDevice, CurrentIsOpen, SessionsInv, RequestInv, RegisteredIsServed,
         DeviceOf
  <1>4. PresenceInv'
    BY DEF PresenceInv, NotYetTold, ListIsTrue, WaitsForSomething, PresenceTrue, WatchTrue,
         DeviceOf,
           Event, Online, Projection
  <1> QED
    BY <1>1, <1>2, <1>3, <1>4

\* Every step keeps the invariant.
LEMMA NextInv ==
    ASSUME Inv, [Next]_vars
    PROVE  Inv'
  <1>1. ASSUME NEW k \in Conns, ServerStep(k)
        PROVE  Inv'
    BY <1>1, AuthenticateKeepsInv, RegisterKeepsInv, SendAuthenticatedKeepsInv,
         WriteFailsKeepsInv,
       HandleApprovalKeepsInv, StopServingKeepsInv, UnregisterKeepsInv, ForwardSignalKeepsInv
       DEF ServerStep
  <1>2. ASSUME NEW k \in Conns, ReadMessage(k)
        PROVE  Inv'
    <2>1. ReadPresence(k) \/ ReadReply(k) \/ ReadSignal(k) \/ ReadRevoked(k)
      BY <1>2 DEF ReadMessage
    <2> QED
      BY <1>2, <2>1, ReadPresenceKeepsInv, ReadReplyKeepsInv, ReadSignalKeepsInv,
           ReadRevokedKeepsInv
  <1>3. ASSUME NEW k \in Conns, AgentStep(k)
        PROVE  Inv'
    BY <1>2, <1>3, FirstMessageKeepsInv, DialFailsKeepsInv, LoseControlKeepsInv,
         CloseControlKeepsInv,
       CloseSessionKeepsInv
       DEF AgentStep
  <1>4. ASSUME NEW k \in Conns, LocalProgram(k)
        PROVE  Inv'
    BY <1>4, OpenSessionKeepsInv, RequestKeepsInv, GiveUpKeepsInv DEF LocalProgram
  <1>5. scene.revocable \subseteq Devices /\ scene.watched \subseteq Devices
    BY RendezvousConstants DEF Inv, Types, DatabaseType
  <1>6. CASE \E d \in Devices : Dial(d) \/ PushRevocation(d)
    BY <1>6, DialKeepsInv, PushRevocationKeepsInv
  <1>7. CASE \E d \in scene.revocable : RevokeMember(d)
    BY <1>5, <1>7, RevokeMemberKeepsInv
  <1>8. CASE \E d \in scene.watched : Subscribe(d)
    BY <1>5, <1>8, SubscribeKeepsInv
  <1>9. CASE CloseHub \/ ReadEvent \/ Unsubscribe
    BY <1>9, CloseHubKeepsInv, ReadEventKeepsInv, UnsubscribeKeepsInv
  <1>10. CASE \E k \in Conns : BreakNetwork(k)
    BY <1>10, BreakNetworkKeepsInv
  <1> QED
    BY <1>1, <1>3, <1>4, <1>6, <1>7, <1>8, <1>9, <1>10, StutterInv DEF Next

\* The invariant holds in every reachable state.
LEMMA Invariance == Spec => []Inv
  BY InitInv, NextInv, PTL DEF Spec

(***************************************************************************)
(* The properties.                                                         *)
(***************************************************************************)
\* TypeOK follows from the types and the bounds.
LEMMA InvTypeOK ==
    ASSUME Inv
    PROVE  TypeOK
  <1> USE DEF Inv, Types, Bounds
  <1>1. ASSUME NEW k \in Conns
        PROVE  /\ server[k].phase \in Phases /\ agent[k].state \in States
               /\ agent[k].peers \subseteq Devices
    BY <1>1 DEF ServerType, AgentType, Ends, AgentEnds
  <1>2. ASSUME NEW k \in Conns
        PROVE  Len(server[k].send) <= QueueSize /\ Cardinality(agent[k].sessions) <= MaxSessions
    BY <1>2 DEF QueuesBounded, SessionsBounded
  <1>3. /\ members \in [Devices -> {"active", "revoked"}]
        /\ pushing \subseteq Devices /\ stopped \subseteq Devices /\ applied \in BOOLEAN
        /\ clients \in [Devices -> Conns \cup {0}]
        /\ current \in [Devices -> Conns \cup {0}]
    BY DEF DatabaseType, WorkerType, ApprovalType, HubType
  <1>4. /\ request.state \in {"none", "written", "done", "rejected", "unknown", "unsent"}
        /\ Len(watch.events) <= WatchDepth + 1
    BY DEF ApprovalType, WatchBounded
  <1> QED
    BY <1>1, <1>2, <1>3, <1>4 DEF TypeOK, Phases, States

\* The hub, the agents and the programs that watch agree on who is online, but for the
\* events under way: whatever the sizes of the queues and however the connections break, a
\* device is online once, for a connection that is not over, and no view is silently wrong
\* (hub.go register, unregister and enqueue; manager.go handleData; contextwatch).
THEOREM Views == Spec => []ViewsTrue
  <1>1. Inv => ViewsTrue
    BY InvTypeOK DEF Inv, EndsInv, PresenceInv, ViewsTrue
  <1> QED
    BY <1>1, Invariance, PTL

\* A direct session is with a peer its agent sees online, on a control connection that
\* has not ended (manager.go openSignaler, removePeer and the end of connectControl).
THEOREM SessionPeers == Spec => []SessionsWithPeers
  <1>1. Inv => SessionsWithPeers
    BY DEF Inv, EndsInv, SessionsInv, SessionsWithPeers
  <1> QED
    BY <1>1, Invariance, PTL

\* What a program is told of its approval is true, and stays true while a reply is under
\* way or lost (manager.go requestControl).
THEOREM Outcomes == Spec => []OutcomesTrue
  <1>1. Inv => OutcomesTrue
    BY DEF Inv, EndsInv, RequestInv, OutcomesTrue
  <1> QED
    BY <1>1, Invariance, PTL
=============================================================================

-------------------------- MODULE AdapterFeedProofs --------------------------
(***************************************************************************)
(* Proofs about AdapterFeed: what the adapter holds on disk is what was    *)
(* pending at its cursor, no fact goes unheard on a doorbell stream, and   *)
(* adapter and server agree on every command.                              *)
(*                                                                         *)
(* The inductive invariant FeedInv is a conjunction of Types and of three  *)
(* parts that hardly share state: BellInv for the streams, ViewInv for the *)
(* log and the adapter's view of it, CommandInv for receipts, calls and    *)
(* the command on disk.  Each action is shown to keep the parts it touches *)
(* and to leave the others alone.  What a page of facts makes of the       *)
(* adapter's state is shown by the least number for which it would not     *)
(* hold.                                                                   *)
(***************************************************************************)
EXTENDS AdapterFeed, WellFoundedInduction, TLAPS

\* What is in the log, in a stream, in a receipt, in a call and on the adapter's
\* disk.
Facts == [kind : {"admitted", "expired", "approved", "revoked"}, enrollment : Enrollments]
StreamStates ==
    [state : {"none", "open", "writing", "ended"}, generation : Nat, ring : BOOLEAN,
     closed : BOOLEAN, marker : BOOLEAN, knows : Nat]
Receipts == [enrollment : Enrollments, state : {"admitted", "committed", "rejected"}]
Calls ==
    [command : [id : Commands, enrollment : Enrollments], stage : {"admit", "execute"},
     how : {"approve", "drop", "orphan"}, credential : Nat]
DiskStates ==
    [cursor : Nat, high : Nat, view : SUBSET Enrollments, applied : SUBSET Facts,
     last : 0 .. MaxCommands, command : [id : Commands, enrollment : Enrollments] \cup {NoCommand},
     started : BOOLEAN, effects : SUBSET Commands]
PCs == {"idle", "replay", "snapshot", "finish", "query", "submitted", "dropping"}

\* The types, in parts.
FactTypes ==
    /\ scene \in Scenes
    /\ log \in Seq(Facts) /\ floor \in 0 .. Len(log) /\ pend \subseteq Enrollments /\ owed \in Nat
BellTypes ==
    /\ bells \in 0 .. NotificationCapacity /\ subscriber \in Streams \cup {None}
    /\ streams \in [Streams -> StreamStates]
AdapterTypes ==
    /\ adapter \in [active : BOOLEAN, generation : Nat, last : 0 .. MaxCommands]
    /\ credential \in Nat
CommandTypes ==
    /\ DOMAIN receipts \subseteq Commands /\ receipts \in [DOMAIN receipts -> Receipts]
    /\ calls \subseteq Calls /\ outcome \in [Commands -> {"none", "committed", "rejected"}]
ClientTypes ==
    /\ disk \in DiskStates /\ disk.cursor <= Len(log)
    /\ disk.high # 0 => disk.cursor <= disk.high /\ disk.high <= Len(log)
    /\ pc \in PCs
Types == FactTypes /\ BellTypes /\ AdapterTypes /\ CommandTypes /\ ClientTypes

\* A stream the handler still serves is the subscriber's, or has been told to end.
Served(s) == streams[s].state \in {"open", "writing"}
StreamSound(s) ==
    /\ Served(s) /\ s # subscriber => streams[s].closed
    /\ s = subscriber => Served(s)
    /\ "bell" \notin scene.does => streams[s].state = "none"
Heard(s) ==
    Served(s) /\ Len(log) > streams[s].knows =>
        \/ owed > 0 \/ bells > 0
        \/ streams[s].ring \/ streams[s].state = "writing" \/ streams[s].marker
        \/ streams[s].closed
MarkedBy(s) == streams[s].state = "writing" => Authorized(streams[s].generation)
BellInv == \A s \in Streams : StreamSound(s) /\ Heard(s) /\ MarkedBy(s)

\* A fact is in a log once, after the admission of its enrollment.
SoundLog(l) ==
    /\ \A i, j \in 1 .. Len(l) : l[i] = l[j] => i = j
    /\ \A i \in 1 .. Len(l) : \E j \in 1 .. i : l[j] = Fact("admitted", l[i].enrollment)

\* What is pending after the first n facts of a log.
PendingIn(l, n) ==
    {e \in Enrollments :
        /\ \E i \in 1 .. n : l[i] = Fact("admitted", e)
        /\ \A i \in 1 .. n : l[i].enrollment = e => l[i].kind = "admitted"}

\* The adapter has applied no fact beyond its cursor.
AppliedSeen == \A f \in disk.applied : \E i \in 1 .. disk.cursor : log[i] = f
ViewInv ==
    /\ SoundLog(log) /\ pend = PendingIn(log, Len(log))
    /\ AppliedSeen /\ disk.view = PendingIn(log, disk.cursor)

\* The command on disk is the last one that was numbered.
OnDisk ==
    /\ disk.command # NoCommand => disk.command.id = disk.last
    /\ disk.command = NoCommand => ~disk.started
    /\ pc \in {"query", "submitted", "dropping"} => disk.command # NoCommand
    /\ adapter.last <= disk.last

\* What a receipt says is what became of its command; one that is gone was settled.
ReceiptSound(c) ==
    /\ c \in DOMAIN receipts =>
          /\ c <= adapter.last
          /\ outcome[c] = IF receipts[c].state = "admitted" THEN "none" ELSE receipts[c].state
    /\ c \notin DOMAIN receipts /\ c <= adapter.last => outcome[c] # "none"
    /\ c > adapter.last => outcome[c] = "none"

\* A call that is under way: whoever waits for it waits for the command on disk.
CallSound(k) ==
    /\ k.command.id <= disk.last
    /\ k.stage = "execute" => k.command.id <= adapter.last
    /\ k.how # "orphan" =>
          /\ k.command = disk.command
          /\ pc = IF k.how = "approve" THEN "submitted" ELSE "dropping"
OneCall == \A k, l \in calls : k.how # "orphan" /\ l.how # "orphan" => k = l
EffectsTrue == \A c \in disk.effects : outcome[c] = "committed"
CommandInv ==
    /\ OnDisk /\ OneCall /\ EffectsTrue /\ CommandsSettled /\ StartedIsKnown
    /\ \A c \in Commands : ReceiptSound(c)
    /\ \A k \in calls : CallSound(k)

\* The inductive invariant.
FeedInv == Types /\ BellInv /\ ViewInv /\ CommandInv

(***************************************************************************)
(* The log.                                                                *)
(***************************************************************************)
\* Streams and commands are numbers other than None.
LEMMA Numbered ==
    /\ Commands \subseteq Nat \ {0} /\ Streams \subseteq Nat \ {0} /\ None = 0
    /\ None \notin Streams /\ None \notin Commands
  BY AdapterFeedConstants DEF Commands, Streams, None

\* A scene names enrollments there are.
LEMMA SceneEnrollments ==
    ASSUME Types
    PROVE  scene.enrollments \subseteq Enrollments
  BY AdapterFeedConstants DEF Types, FactTypes

\* Append adds one fact and keeps the others where they are.
LEMMA Appended ==
    ASSUME log \in Seq(Facts), NEW f \in Facts, log' = Append(log, f)
    PROVE  /\ log' \in Seq(Facts) /\ Len(log') = Len(log) + 1 /\ Len(log) \in Nat
           /\ log'[Len(log) + 1] = f
           /\ \A i \in 1 .. Len(log) : log'[i] = log[i]
  OBVIOUS

\* A committed fact leaves a type-correct log.
LEMMA CommitTyped ==
    ASSUME Types, NEW f \in Facts, log' = Append(log, f)
    PROVE  /\ log' \in Seq(Facts) /\ floor \in 0 .. Len(log')
           /\ disk.cursor <= Len(log')
           /\ disk.high # 0 => disk.cursor <= disk.high /\ disk.high <= Len(log')
  <1>1. log \in Seq(Facts)
    BY DEF Types, FactTypes
  <1>2. log' \in Seq(Facts) /\ Len(log') = Len(log) + 1 /\ Len(log) \in Nat
    BY <1>1, Appended
  <1>3. disk.cursor \in Nat /\ disk.high \in Nat
    BY DEF Types, ClientTypes, DiskStates
  <1> QED
    BY <1>2, <1>3 DEF Types, FactTypes, ClientTypes

\* What is pending changes with the next fact as the adapter's view does.
LEMMA PendingStep ==
    ASSUME NEW l \in Seq(Facts), SoundLog(l), NEW i \in 1 .. Len(l)
    PROVE  PendingIn(l, i) = IF l[i].kind = "admitted" THEN PendingIn(l, i - 1) \cup {l[i].enrollment}
                                                      ELSE PendingIn(l, i - 1) \ {l[i].enrollment}
  <1> DEFINE e == l[i].enrollment
  <1>0. Len(l) \in Nat /\ i \in Nat /\ l[i] \in Facts
    OBVIOUS
  <1>1. Len(l) \in Nat /\ i \in Nat /\ l[i] \in Facts /\ e \in Enrollments
    BY <1>0 DEF Facts
  <1>2. \A j \in 1 .. i : j = i \/ j \in 1 .. i - 1
    OBVIOUS
  <1>3. \A j \in 1 .. i - 1 : j \in 1 .. i /\ j \in 1 .. Len(l) /\ j # i
    BY <1>1
  <1>4. CASE l[i].kind = "admitted"
    <2>1. l[i] = Fact("admitted", e)
      BY <1>1, <1>4 DEF Facts, Fact
    <2>2. ASSUME NEW j \in 1 .. i - 1, l[j].enrollment = e
          PROVE  l[j].kind = "admitted"
      <3>1. PICK m \in 1 .. j : l[m] = Fact("admitted", e)
        BY <1>3, <2>2 DEF SoundLog
      <3>2. m \in 1 .. Len(l) /\ m # i
        BY <1>1
      <3> QED
        BY <2>1, <3>1, <3>2 DEF SoundLog
    <2>3. \A x \in Enrollments : x \in PendingIn(l, i) <=> x \in PendingIn(l, i - 1) \cup {e}
      BY <1>1, <1>2, <1>3, <2>1, <2>2 DEF PendingIn, Fact
    <2> QED
      BY <1>1, <1>4, <2>3 DEF PendingIn
  <1>5. CASE l[i].kind # "admitted"
    <2>1. \A x \in Enrollments : l[i] # Fact("admitted", x)
      BY <1>5 DEF Fact
    <2>2. \A x \in Enrollments : x \in PendingIn(l, i) <=> x \in PendingIn(l, i - 1) \ {e}
      BY <1>1, <1>2, <1>3, <1>5, <2>1 DEF PendingIn
    <2> QED
      BY <1>1, <1>5, <2>2 DEF PendingIn
  <1> QED
    BY <1>4, <1>5

\* A new fact about an enrollment that was admitted, or the admission itself,
\* keeps the log sound.
LEMMA LogGrows ==
    ASSUME log \in Seq(Facts), SoundLog(log), NEW f \in Facts, log' = Append(log, f),
           \A i \in 1 .. Len(log) : log[i] # f,
           \/ f.kind = "admitted"
           \/ \E j \in 1 .. Len(log) : log[j] = Fact("admitted", f.enrollment)
    PROVE  SoundLog(log')
  <1>1. /\ Len(log') = Len(log) + 1 /\ Len(log) \in Nat /\ log'[Len(log) + 1] = f
        /\ \A i \in 1 .. Len(log) : log'[i] = log[i]
    BY Appended
  <1>2. \A i \in 1 .. Len(log') : i \in 1 .. Len(log) \/ i = Len(log) + 1
    BY <1>1
  <1>3. \A i, j \in 1 .. Len(log') : log'[i] = log'[j] => i = j
    BY <1>1, <1>2 DEF SoundLog
  <1>4. ASSUME NEW i \in 1 .. Len(log')
        PROVE  \E j \in 1 .. i : log'[j] = Fact("admitted", log'[i].enrollment)
    <2>1. CASE i \in 1 .. Len(log)
      <3>1. PICK j \in 1 .. i : log[j] = Fact("admitted", log[i].enrollment)
        BY <2>1 DEF SoundLog
      <3>2. j \in 1 .. Len(log)
        BY <1>1, <2>1
      <3> QED
        BY <1>1, <2>1, <3>1, <3>2
    <2>2. CASE i = Len(log) + 1 /\ f.kind = "admitted"
      <3>1. f = Fact("admitted", f.enrollment)
        BY <2>2 DEF Facts, Fact
      <3> QED
        BY <1>1, <2>2, <3>1
    <2>3. CASE i = Len(log) + 1 /\ f.kind # "admitted"
      <3>1. PICK j \in 1 .. Len(log) : log[j] = Fact("admitted", f.enrollment)
        BY <2>3
      <3>2. j \in 1 .. i
        BY <1>1, <2>3
      <3> QED
        BY <1>1, <2>3, <3>1, <3>2
    <2> QED
      BY <1>2, <2>1, <2>2, <2>3
  <1> QED
    BY <1>3, <1>4 DEF SoundLog

\* What the adapter has on disk stays true when the log grows.
LEMMA ViewGrows ==
    ASSUME Types, ViewInv, NEW f \in Facts, log' = Append(log, f),
           \A i \in 1 .. Len(log) : log[i] # f,
           \/ f.kind = "admitted"
           \/ \E j \in 1 .. Len(log) : log[j] = Fact("admitted", f.enrollment),
           disk'.view = disk.view, disk'.cursor = disk.cursor, disk'.applied = disk.applied,
           pend' = IF f.kind = "admitted" THEN pend \cup {f.enrollment} ELSE pend \ {f.enrollment}
    PROVE  ViewInv'
  <1>1. log \in Seq(Facts) /\ disk.cursor \in Nat /\ disk.cursor <= Len(log)
    BY DEF Types, FactTypes, ClientTypes, DiskStates
  <1>2. /\ log' \in Seq(Facts) /\ Len(log') = Len(log) + 1 /\ Len(log) \in Nat
        /\ log'[Len(log) + 1] = f /\ \A i \in 1 .. Len(log) : log'[i] = log[i]
    BY <1>1, Appended
  <1>3. SoundLog(log')
    BY <1>1, LogGrows DEF ViewInv
  <1>4. \A n \in 0 .. Len(log) : PendingIn(log', n) = PendingIn(log, n)
    BY <1>2 DEF PendingIn
  <1>5. pend' = PendingIn(log', Len(log'))
    <2>1. Len(log') \in 1 .. Len(log') /\ Len(log') - 1 = Len(log) /\ log'[Len(log')] = f
      BY <1>2
    <2>2. PendingIn(log', Len(log')) = IF log'[Len(log')].kind = "admitted"
              THEN PendingIn(log', Len(log') - 1) \cup {log'[Len(log')].enrollment}
              ELSE PendingIn(log', Len(log') - 1) \ {log'[Len(log')].enrollment}
      BY <1>2, <1>3, <2>1, PendingStep
    <2>3. PendingIn(log', Len(log') - 1) = pend
      BY <1>2, <1>4, <2>1 DEF ViewInv
    <2> QED
      BY <2>1, <2>2, <2>3
  <1>6. AppliedSeen'
    BY <1>1, <1>2 DEF ViewInv, AppliedSeen
  <1>7. disk'.view = PendingIn(log', disk'.cursor)
    BY <1>1, <1>2, <1>4 DEF ViewInv
  <1> QED
    BY <1>3, <1>5, <1>6, <1>7 DEF ViewInv

(***************************************************************************)
(* A page of facts is applied.                                             *)
(***************************************************************************)
\* A set of naturals that is not empty has a least element.
LEMMA LeastNumber ==
    ASSUME NEW T, T \subseteq Nat, T # {}
    PROVE  \E x \in T : \A y \in T : x <= y
  <1> DEFINE R == OpToRel(<, Nat)
  <1>1. IsWellFoundedOn(R, Nat)
    BY NatLessThanWellFounded
  <1>2. \A x, y \in Nat : y < x => <<y, x>> \in R
    BY DEF OpToRel
  <1> HIDE DEF R
  <1>3. PICK x \in T : \A y \in T : ~(<<y, x>> \in R)
    BY <1>1, WFMin
  <1>4. \A y \in T : ~(y < x)
    BY <1>2, <1>3
  <1> QED
    BY <1>4

\* A set that has 0 and, with each number, the next one, has them all.
LEMMA AllNumbers ==
    ASSUME NEW S, 0 \in S, \A n \in Nat \ {0} : n - 1 \in S => n \in S
    PROVE  Nat \subseteq S
  <1> SUFFICES ASSUME Nat \ S # {}
               PROVE  FALSE
    OBVIOUS
  <1>1. PICK x \in Nat \ S : \A y \in Nat \ S : x <= y
    BY LeastNumber
  <1>2. x # 0 /\ x - 1 \in Nat
    BY <1>1
  <1>3. x - 1 \in S
    BY <1>1, <1>2
  <1> QED
    BY <1>1, <1>2, <1>3

\* Replayed is what its definition says: the function it defines exists.
LEMMA ReplayedIs ==
    /\ Replayed[0] = [disk EXCEPT !.high = HighWater]
    /\ \A n \in Nat \ {0} : Replayed[n] = Applied(Replayed[n - 1], disk.cursor + n)
  <1> DEFINE Base == [disk EXCEPT !.high = HighWater]
             Step(s, n) == Applied(s, disk.cursor + n)
             Good(g, n) == g = [i \in 0 .. n |-> IF i = 0 THEN Base ELSE Step(g[i - 1], i)]
             f == [n \in Nat |-> (CHOOSE g : Good(g, n))[n]]
             Is(r) == r = [n \in Nat |-> IF n = 0 THEN Base ELSE Step(r[n - 1], n)]
  <1>1. Replayed = CHOOSE r : Is(r)
    BY DEF Replayed
  <1> HIDE DEF Base, Step
  <1>2. \A n \in Nat : \E g : Good(g, n)
    <2> DEFINE S == {n \in Nat : \E g : Good(g, n)}
    <2>1. 0 \in S
      <3>1. Good([i \in 0 .. 0 |-> Base], 0)
        OBVIOUS
      <3> QED
        BY <3>1
    <2>2. ASSUME NEW n \in Nat \ {0}, n - 1 \in S
          PROVE  n \in S
      <3>1. PICK g : Good(g, n - 1)
        BY <2>2
      <3> DEFINE h == [i \in 0 .. n |-> IF i = n THEN Step(g[n - 1], n) ELSE g[i]]
      <3>2. \A i \in 0 .. n - 1 : g[i] = IF i = 0 THEN Base ELSE Step(g[i - 1], i)
        BY <3>1
      <3>3. \A i \in 0 .. n - 1 : h[i] = g[i]
        OBVIOUS
      <3>4. h[n] = Step(g[n - 1], n) /\ n - 1 \in 0 .. n - 1
        OBVIOUS
      <3>5. \A i \in 0 .. n : h[i] = IF i = 0 THEN Base ELSE Step(h[i - 1], i)
        <4>1. \A i \in 0 .. n : i = n \/ i \in 0 .. n - 1
          OBVIOUS
        <4>2. \A i \in 1 .. n : i - 1 \in 0 .. n - 1
          OBVIOUS
        <4> HIDE DEF h
        <4>3. \A i \in 0 .. n - 1 : h[i] = IF i = 0 THEN Base ELSE Step(h[i - 1], i)
          BY <3>2, <3>3, <4>2
        <4>4. h[n] = Step(h[n - 1], n)
          BY <3>3, <3>4
        <4> QED
          BY <4>1, <4>3, <4>4
      <3>6. h = [i \in 0 .. n |-> h[i]]
        OBVIOUS
      <3> HIDE DEF h
      <3>7. Good(h, n)
        BY <3>5, <3>6
      <3> QED
        BY <3>7
    <2> HIDE DEF S
    <2>3. Nat \subseteq S
      BY <2>1, <2>2, AllNumbers
    <2> QED
      BY <2>3 DEF S
  <1>3. ASSUME NEW n \in Nat, NEW m \in Nat, NEW g, NEW h, Good(g, n), Good(h, m)
        PROVE  \A i \in Nat : i <= n /\ i <= m => g[i] = h[i]
    <2> DEFINE S == {i \in Nat : i <= n /\ i <= m => g[i] = h[i]}
    <2>1. /\ \A i \in 0 .. n : g[i] = IF i = 0 THEN Base ELSE Step(g[i - 1], i)
          /\ \A i \in 0 .. m : h[i] = IF i = 0 THEN Base ELSE Step(h[i - 1], i)
      BY <1>3
    <2>2. 0 \in S
      BY <2>1
    <2>3. ASSUME NEW i \in Nat \ {0}, i - 1 \in S
          PROVE  i \in S
      <3> SUFFICES ASSUME i <= n, i <= m
                   PROVE  g[i] = h[i]
        OBVIOUS
      <3>1. g[i - 1] = h[i - 1]
        BY <2>3
      <3>2. i \in 0 .. n /\ i \in 0 .. m
        OBVIOUS
      <3> QED
        BY <2>1, <3>1, <3>2
    <2> HIDE DEF S
    <2>4. Nat \subseteq S
      BY <2>2, <2>3, AllNumbers
    <2> QED
      BY <2>4 DEF S
  <1>4. \A n \in Nat : Good(CHOOSE g : Good(g, n), n)
    BY <1>2
  <1> DEFINE C(n) == CHOOSE g : Good(g, n)
  <1>5. \A n \in Nat : f[n] = C(n)[n] /\ Good(C(n), n)
    BY <1>4
  <1> HIDE DEF C
  <1>6. ASSUME NEW n \in Nat
        PROVE  f[n] = IF n = 0 THEN Base ELSE Step(f[n - 1], n)
    <2> HIDE DEF f
    <2>1. C(n)[n] = IF n = 0 THEN Base ELSE Step(C(n)[n - 1], n)
      <3>1. Good(C(n), n)
        BY <1>5
      <3>2. n \in 0 .. n
        OBVIOUS
      <3> QED
        BY <3>1, <3>2
    <2>2. CASE n = 0
      BY <1>5, <2>1, <2>2
    <2>3. CASE n # 0
      <3>1. n - 1 \in Nat /\ n - 1 <= n
        BY <2>3
      <3>2. C(n)[n - 1] = C(n - 1)[n - 1]
        <4>1. Good(C(n), n) /\ Good(C(n - 1), n - 1)
          BY <1>5, <3>1
        <4>2. n - 1 <= n - 1
          BY <3>1
        <4> HIDE DEF Good
        <4> QED
          BY <1>3, <3>1, <4>1, <4>2
      <3> QED
        BY <1>5, <2>1, <2>3, <3>1, <3>2
    <2> QED
      BY <2>2, <2>3
  <1>7. Is(f)
    <2>1. f = [n \in Nat |-> f[n]]
      OBVIOUS
    <2> HIDE DEF f
    <2> QED
      BY <1>6, <2>1
  <1>8. Is(Replayed)
    <2> HIDE DEF f, Is
    <2> QED
      BY <1>1, <1>7
  <1>9. /\ Replayed[0] = Base
        /\ \A n \in Nat \ {0} : Replayed[n] = Step(Replayed[n - 1], n)
    BY <1>8
  <1> QED
    BY <1>9 DEF Base, Step

\* The end of the page is at or after the cursor, within the log.
LEMMA PageBounds ==
    ASSUME Types
    PROVE  /\ HighWater \in Nat /\ PageEnd \in Nat
           /\ disk.cursor <= PageEnd /\ PageEnd <= HighWater /\ HighWater <= Len(log)
  <1>1. /\ disk.cursor \in Nat /\ disk.high \in Nat /\ disk.cursor <= Len(log) /\ Len(log) \in Nat
        /\ disk.high # 0 => disk.cursor <= disk.high /\ disk.high <= Len(log)
    BY DEF Types, FactTypes, ClientTypes, DiskStates
  <1>2. HighWater \in Nat /\ disk.cursor <= HighWater /\ HighWater <= Len(log)
    BY <1>1 DEF HighWater
  <1>3. PageSize \in Nat /\ disk.cursor + PageSize \in Nat
    BY <1>1, AdapterFeedConstants
  <1>4. ASSUME NEW a \in Nat, NEW b \in Nat
        PROVE  Min({a, b}) \in {a, b} /\ Min({a, b}) <= a
    BY DEF Min
  <1>5. PageEnd \in {HighWater, disk.cursor + PageSize} /\ PageEnd <= HighWater
    BY <1>2, <1>3, <1>4 DEF PageEnd
  <1> QED
    BY <1>1, <1>2, <1>3, <1>5

\* With a part of the page applied, the view is what was pending there.
ReplayedTo(s, n) ==
    /\ s \in DiskStates /\ s.cursor = disk.cursor + n /\ s.high = HighWater
    /\ s.last = disk.last /\ s.command = disk.command
    /\ s.started = disk.started /\ s.effects = disk.effects
    /\ s.view = PendingIn(log, disk.cursor + n)
    /\ \A f \in s.applied : \E i \in 1 .. disk.cursor + n : log[i] = f

\* One more fact of the page is applied: it is new to the adapter, and changes the
\* view as it changed what was pending.
LEMMA FactApplied ==
    ASSUME Types, ViewInv, NEW n \in Nat \ {0}, disk.cursor + n <= Len(log),
           NEW s, ReplayedTo(s, n - 1)
    PROVE  ReplayedTo(Applied(s, disk.cursor + n), n)
  <1> DEFINE i == disk.cursor + n
  <1>1. /\ log \in Seq(Facts) /\ disk.cursor \in Nat /\ Len(log) \in Nat /\ SoundLog(log)
        /\ i \in 1 .. Len(log) /\ i \in Nat /\ disk.cursor + (n - 1) = i - 1
    BY DEF Types, FactTypes, ClientTypes, DiskStates, ViewInv
  <1>2. log[i] \in Facts
    BY <1>1
  <1>3. log[i].enrollment \in Enrollments
    BY <1>2 DEF Facts
  <1>4. \A f \in s.applied : \E j \in 1 .. i - 1 : log[j] = f
    BY <1>1 DEF ReplayedTo
  <1>5. log[i] \notin s.applied
    <2> SUFFICES ASSUME log[i] \in s.applied
                 PROVE  FALSE
      OBVIOUS
    <2>1. PICK j \in 1 .. i - 1 : log[j] = log[i]
      BY <1>4
    <2>2. j \in 1 .. Len(log) /\ j # i
      BY <1>1
    <2> QED
      BY <1>1, <2>1, <2>2 DEF SoundLog
  <1>6. PendingIn(log, i) = IF log[i].kind = "admitted"
                            THEN PendingIn(log, i - 1) \cup {log[i].enrollment}
                            ELSE PendingIn(log, i - 1) \ {log[i].enrollment}
    BY <1>1, PendingStep
  <1>7. s.view = PendingIn(log, i - 1)
    BY <1>1 DEF ReplayedTo
  <1> HIDE DEF i
  <1>8. Applied(s, i) = [s EXCEPT !.cursor = i, !.applied = @ \cup {log[i]},
                                  !.view = IF log[i].kind = "admitted" THEN @ \cup {log[i].enrollment}
                                           ELSE @ \ {log[i].enrollment}]
    BY <1>5 DEF Applied
  <1>9. s \in DiskStates
    BY DEF ReplayedTo
  <1>10. Applied(s, i) \in DiskStates
    <2> DEFINE v == IF log[i].kind = "admitted" THEN s.view \cup {log[i].enrollment}
                                                ELSE s.view \ {log[i].enrollment}
    <2>1. v \subseteq Enrollments /\ s.applied \cup {log[i]} \subseteq Facts
      BY <1>2, <1>3, <1>9 DEF DiskStates
    <2>2. Applied(s, i) = [s EXCEPT !.cursor = i, !.applied = s.applied \cup {log[i]}, !.view = v]
      BY <1>8, <1>9 DEF DiskStates
    <2> HIDE DEF v
    <2> QED
      BY <1>1, <1>9, <2>1, <2>2 DEF DiskStates
  <1>11. Applied(s, i).view = PendingIn(log, i)
    BY <1>6, <1>7, <1>8, <1>9 DEF DiskStates
  <1>12. \A f \in Applied(s, i).applied : \E j \in 1 .. i : log[j] = f
    BY <1>1, <1>4, <1>8, <1>9 DEF DiskStates
  <1>13. /\ Applied(s, i).cursor = i /\ Applied(s, i).high = s.high
         /\ Applied(s, i).last = s.last /\ Applied(s, i).command = s.command
         /\ Applied(s, i).started = s.started /\ Applied(s, i).effects = s.effects
    BY <1>8, <1>9 DEF DiskStates
  <1> QED
    BY <1>10, <1>11, <1>12, <1>13 DEF ReplayedTo, i

\* The page is applied up to any of its facts.
LEMMA PageApplied ==
    ASSUME Types, ViewInv
    PROVE  ReplayedTo(Replayed[PageEnd - disk.cursor], PageEnd - disk.cursor)
  <1> DEFINE S == {n \in Nat : disk.cursor + n <= PageEnd => ReplayedTo(Replayed[n], n)}
  <1>1. /\ disk \in DiskStates /\ disk.cursor \in Nat
        /\ HighWater \in Nat /\ PageEnd \in Nat /\ PageEnd <= Len(log) /\ Len(log) \in Nat
        /\ disk.cursor <= PageEnd
    BY PageBounds DEF Types, FactTypes, ClientTypes, DiskStates
  <1>2. 0 \in S
    <2>1. disk.cursor + 0 = disk.cursor
      BY <1>1
    <2>2. disk.view = PendingIn(log, disk.cursor)
      BY DEF ViewInv
    <2>3. \A f \in disk.applied : \E i \in 1 .. disk.cursor : log[i] = f
      BY DEF ViewInv, AppliedSeen
    <2>4. [disk EXCEPT !.high = HighWater] \in DiskStates
      BY <1>1 DEF DiskStates
    <2>5. ReplayedTo([disk EXCEPT !.high = HighWater], 0)
      BY <1>1, <2>1, <2>2, <2>3, <2>4 DEF ReplayedTo, DiskStates
    <2> QED
      BY <2>5, ReplayedIs
  <1>3. ASSUME NEW n \in Nat \ {0}, n - 1 \in S
        PROVE  n \in S
    <2> SUFFICES ASSUME disk.cursor + n <= PageEnd
                 PROVE  ReplayedTo(Replayed[n], n)
      OBVIOUS
    <2>1. ReplayedTo(Replayed[n - 1], n - 1)
      BY <1>1, <1>3
    <2>2. disk.cursor + n <= Len(log)
      BY <1>1
    <2>3. ReplayedTo(Applied(Replayed[n - 1], disk.cursor + n), n)
      BY <2>1, <2>2, FactApplied
    <2> QED
      BY <2>3, ReplayedIs
  <1> HIDE DEF S
  <1>4. Nat \subseteq S
    BY <1>2, <1>3, AllNumbers
  <1>5. PageEnd - disk.cursor \in Nat /\ disk.cursor + (PageEnd - disk.cursor) <= PageEnd
    BY <1>1
  <1> QED
    BY <1>4, <1>5 DEF S

(***************************************************************************)
(* What a step leaves alone.                                               *)
(***************************************************************************)
\* The doorbell is as sound as it was.
LEMMA BellKept ==
    ASSUME BellInv, UNCHANGED <<scene, log, owed, bells, subscriber, streams>>,
           adapter'.active = adapter.active, adapter'.generation = adapter.generation
    PROVE  BellInv'
  BY DEF BellInv, StreamSound, Heard, MarkedBy, Served, Authorized

\* A fact is committed: there is a notification to come, or nobody listens.
LEMMA BellCommitted ==
    ASSUME Types, BellInv, NEW kind, NEW e, Commit(kind, e),
           UNCHANGED <<scene, bells, subscriber, streams, adapter>>
    PROVE  BellInv'
  <1>1. "bell" \in scene.does => owed' > 0
    BY DEF Commit, Types, FactTypes
  <1> QED
    BY <1>1 DEF BellInv, StreamSound, Heard, MarkedBy, Served, Authorized

\* The view is as true as it was.
LEMMA ViewKept ==
    ASSUME ViewInv, UNCHANGED <<log, pend>>, disk'.view = disk.view,
           disk'.cursor = disk.cursor, disk'.applied = disk.applied
    PROVE  ViewInv'
  BY DEF ViewInv, AppliedSeen

\* Waiting for an answer about a command.
Asking == {"query", "submitted", "dropping"}

\* The commands are as settled as they were.
LEMMA CommandKept ==
    ASSUME CommandInv, UNCHANGED <<receipts, calls, outcome>>, adapter'.last = adapter.last,
           disk'.last = disk.last, disk'.command = disk.command,
           disk'.started = disk.started, disk'.effects = disk.effects,
           pc' = pc \/ (pc \notin Asking /\ pc' \notin Asking)
    PROVE  CommandInv'
  <1>1. OnDisk' /\ OneCall' /\ EffectsTrue' /\ CommandsSettled' /\ StartedIsKnown'
    BY DEF CommandInv, Asking, OnDisk, OneCall, EffectsTrue, CommandsSettled, StartedIsKnown
  <1>2. \A c \in Commands : ReceiptSound(c)'
    BY DEF CommandInv, ReceiptSound
  <1>3. \A k \in calls' : CallSound(k)'
    BY DEF CommandInv, CallSound, Asking
  <1> QED
    BY <1>1, <1>2, <1>3 DEF CommandInv

(***************************************************************************)
(* The server.                                                             *)
(***************************************************************************)
\* What became of a command does not change.
OutcomesKept == \A d \in Commands : outcome[d] # "none" => outcome'[d] = outcome[d]

\* Settled decides commands that were admitted, and no others.
LEMMA SettledSettles ==
    ASSUME Types, CommandInv, NEW e, NEW c \in Commands \cup {None},
           c # None => c \in DOMAIN receipts /\ receipts[c].state = "admitted",
           Settled(e, c), adapter'.last = adapter.last
    PROVE  /\ DOMAIN receipts' = DOMAIN receipts /\ receipts' \in [DOMAIN receipts -> Receipts]
           /\ outcome' \in [Commands -> {"none", "committed", "rejected"}]
           /\ OutcomesKept /\ \A d \in Commands : ReceiptSound(d)'
           /\ c # None => outcome'[c] = "committed"
  <1> DEFINE lost == {d \in DOMAIN receipts :
                 d # c /\ receipts[d].enrollment = e /\ receipts[d].state = "admitted"}
  <1>1. /\ receipts' = [d \in DOMAIN receipts |->
              IF d \in lost THEN [receipts[d] EXCEPT !.state = "rejected"]
              ELSE IF d = c THEN [receipts[d] EXCEPT !.state = "committed"] ELSE receipts[d]]
        /\ outcome' = [d \in Commands |->
              IF d \in lost THEN "rejected" ELSE IF d = c THEN "committed" ELSE outcome[d]]
    BY DEF Settled
  <1>2. \A d \in lost : d \in DOMAIN receipts /\ d # c /\ receipts[d].state = "admitted"
    OBVIOUS
  <1>3. /\ DOMAIN receipts \subseteq Commands /\ receipts \in [DOMAIN receipts -> Receipts]
        /\ outcome \in [Commands -> {"none", "committed", "rejected"}]
    BY DEF Types, CommandTypes
  <1>4. \A d \in Commands : ReceiptSound(d)
    BY DEF CommandInv
  <1> HIDE DEF lost
  <1>5. DOMAIN receipts' = DOMAIN receipts /\ receipts' \in [DOMAIN receipts -> Receipts]
    BY <1>1, <1>3 DEF Receipts
  <1>6. outcome' \in [Commands -> {"none", "committed", "rejected"}]
    BY <1>1, <1>3
  <1>7. \A d \in lost : outcome[d] = "none"
    BY <1>2, <1>3, <1>4 DEF ReceiptSound
  <1>8. c # None => outcome[c] = "none" /\ outcome'[c] = "committed"
    BY <1>1, <1>2, <1>3, <1>4, Numbered DEF ReceiptSound
  <1>9. OutcomesKept
    BY <1>1, <1>7, <1>8, Numbered DEF OutcomesKept
  <1>10. ASSUME NEW d \in Commands
         PROVE  ReceiptSound(d)'
    <2>1. ReceiptSound(d) /\ d \in Nat /\ adapter.last \in Nat
      BY <1>4, Numbered DEF Types, AdapterTypes
    <2>2. CASE d \in lost
      <3>1. d \in DOMAIN receipts
        BY <1>2, <2>2
      <3>2. receipts'[d].state = "rejected" /\ outcome'[d] = "rejected"
        BY <1>1, <1>3, <2>2, <3>1 DEF Receipts
      <3> QED
        BY <1>5, <2>1, <3>1, <3>2 DEF ReceiptSound
    <2>3. CASE d = c
      <3>1. d \in DOMAIN receipts /\ d \notin lost
        BY <1>2, <2>3, Numbered
      <3>2. receipts'[d].state = "committed" /\ outcome'[d] = "committed"
        BY <1>1, <1>3, <2>3, <3>1 DEF Receipts
      <3> QED
        BY <1>5, <2>1, <3>1, <3>2 DEF ReceiptSound
    <2>4. CASE d \notin lost /\ d # c
      <3>1. outcome'[d] = outcome[d] /\ (d \in DOMAIN receipts => receipts'[d] = receipts[d])
        BY <1>1, <2>4
      <3> QED
        BY <1>5, <2>1, <3>1 DEF ReceiptSound
    <2> QED
      BY <2>2, <2>3, <2>4
  <1> QED
    BY <1>5, <1>6, <1>8, <1>9, <1>10

\* The adapter's commands stay settled when others are.
LEMMA SettlingKeeps ==
    ASSUME Types, CommandInv, OutcomesKept, \A c \in Commands : ReceiptSound(c)',
           adapter'.last = adapter.last, UNCHANGED <<disk, pc>>, calls' \subseteq calls
    PROVE  CommandInv'
  <1>1. /\ disk.last \in 0 .. MaxCommands /\ disk.effects \subseteq Commands
        /\ \A c \in 1 .. disk.last : c \in Commands
    BY AdapterFeedConstants DEF Types, ClientTypes, DiskStates, Commands
  <1>2. OnDisk' /\ OneCall' /\ StartedIsKnown'
    BY DEF CommandInv, OnDisk, OneCall, StartedIsKnown
  <1>3. EffectsTrue' /\ CommandsSettled'
    BY <1>1 DEF CommandInv, EffectsTrue, CommandsSettled, OutcomesKept
  <1>4. \A k \in calls' : CallSound(k)'
    BY DEF CommandInv, CallSound
  <1> QED
    BY <1>2, <1>3, <1>4 DEF CommandInv

\* The parts of the invariant.
LEMMA Parts ==
    ASSUME FeedInv
    PROVE  /\ Types /\ FactTypes /\ BellTypes /\ AdapterTypes /\ CommandTypes /\ ClientTypes
           /\ BellInv /\ ViewInv /\ CommandInv
  BY DEF FeedInv, Types

\* An enrollment is admitted, and a prefix of the log is pruned.
LEMMA AdmitKeeps ==
    ASSUME FeedInv, NEW e \in scene.enrollments, Admit(e)
    PROVE  FeedInv'
  <1> DEFINE f == Fact("admitted", e)
  <1>1. Types /\ BellInv /\ ViewInv /\ CommandInv /\ log \in Seq(Facts) /\ owed \in Nat
    BY Parts DEF FactTypes
  <1>2. e \in Enrollments
    BY <1>1, SceneEnrollments
  <1>3. f \in Facts /\ f.kind = "admitted" /\ f.enrollment = e
    BY <1>2 DEF Facts, Fact
  <1>4. log' = Append(log, f) /\ \A i \in 1 .. Len(log) : log[i] # f
    BY <1>1 DEF Admit, Commit, Happened
  <1> HIDE DEF f
  <1>5. log' \in Seq(Facts) /\ Len(log') = Len(log) + 1 /\ Len(log) \in Nat
    BY <1>1, <1>3, <1>4, Appended
  <1>6. FactTypes'
    <2>1. floor' \in 0 .. Len(log')
      BY <1>5, Parts DEF Admit, Prunable, FactTypes
    <2>2. owed' \in Nat
      BY <1>1 DEF Admit, Commit
    <2> QED
      BY <1>2, <1>5, <2>1, <2>2, Parts DEF Admit, FactTypes
  <1>7. BellTypes' /\ AdapterTypes' /\ CommandTypes' /\ ClientTypes'
    BY <1>1, <1>3, <1>4, CommitTyped, Parts
    DEF Admit, doorbell, commands, client, BellTypes, AdapterTypes, CommandTypes, ClientTypes
  <1>8. BellInv'
    BY <1>1, BellCommitted DEF Admit, doorbell
  <1>9. ViewInv'
    BY <1>1, <1>3, <1>4, ViewGrows DEF Admit, client
  <1>10. CommandInv'
    BY <1>1, CommandKept DEF Admit, commands, client
  <1> QED
    BY <1>6, <1>7, <1>8, <1>9, <1>10 DEF FeedInv, Types

\* A fact that settles a pending enrollment was not in the log, and the admission
\* was.
LEMMA PendingFacts ==
    ASSUME Types, ViewInv, NEW e \in pend, NEW kind \in {"expired", "approved"}
    PROVE  /\ e \in Enrollments /\ Fact(kind, e) \in Facts
           /\ \A i \in 1 .. Len(log) : log[i] # Fact(kind, e)
           /\ \E j \in 1 .. Len(log) : log[j] = Fact("admitted", e)
  <1>1. e \in PendingIn(log, Len(log))
    BY DEF ViewInv
  <1>2. /\ e \in Enrollments
        /\ \A i \in 1 .. Len(log) : log[i].enrollment = e => log[i].kind = "admitted"
        /\ \E j \in 1 .. Len(log) : log[j] = Fact("admitted", e)
    BY <1>1 DEF PendingIn
  <1>3. Fact(kind, e) \in Facts /\ Fact(kind, e).enrollment = e /\ Fact(kind, e).kind # "admitted"
    BY <1>2 DEF Fact, Facts
  <1> QED
    BY <1>2, <1>3

\* An enrollment expires, or is approved by somebody else.
LEMMA SettleKeeps ==
    ASSUME FeedInv, NEW e \in pend, NEW kind \in {"expired", "approved"},
           Commit(kind, e), pend' = pend \ {e}, Settled(e, None),
           UNCHANGED <<scene, floor, doorbell, adapter, calls, client, credential>>
    PROVE  FeedInv'
  <1> DEFINE f == Fact(kind, e)
  <1>1. Types /\ BellInv /\ ViewInv /\ CommandInv /\ log \in Seq(Facts) /\ owed \in Nat
    BY Parts DEF FactTypes
  <1>2. /\ f \in Facts /\ f.kind # "admitted" /\ f.enrollment = e
        /\ \A i \in 1 .. Len(log) : log[i] # f
        /\ \E j \in 1 .. Len(log) : log[j] = Fact("admitted", e)
    BY <1>1, PendingFacts DEF Fact
  <1>3. log' = Append(log, f)
    BY DEF Commit
  <1> HIDE DEF f
  <1>4. /\ DOMAIN receipts' = DOMAIN receipts /\ receipts' \in [DOMAIN receipts -> Receipts]
        /\ outcome' \in [Commands -> {"none", "committed", "rejected"}]
        /\ OutcomesKept /\ \A d \in Commands : ReceiptSound(d)'
    BY <1>1, SettledSettles
  <1>5. FactTypes'
    BY <1>1, <1>2, <1>3, CommitTyped, Parts DEF Commit, FactTypes
  <1>6. BellTypes' /\ AdapterTypes' /\ CommandTypes' /\ ClientTypes'
    BY <1>1, <1>2, <1>3, <1>4, CommitTyped, Parts
    DEF doorbell, client, BellTypes, AdapterTypes, CommandTypes, ClientTypes
  <1>7. BellInv'
    BY <1>1, BellCommitted DEF doorbell
  <1>8. ViewInv'
    BY <1>1, <1>2, <1>3, ViewGrows DEF client
  <1>9. CommandInv'
    BY <1>1, <1>4, SettlingKeeps DEF client
  <1> QED
    BY <1>5, <1>6, <1>7, <1>8, <1>9 DEF FeedInv, Types

\* A member is revoked.
LEMMA RevokeKeeps ==
    ASSUME FeedInv, NEW e \in scene.enrollments, Revoke(e)
    PROVE  FeedInv'
  <1> DEFINE f == Fact("revoked", e)
  <1>1. /\ Types /\ BellInv /\ ViewInv /\ CommandInv /\ log \in Seq(Facts) /\ owed \in Nat
        /\ Len(log) \in Nat
    BY Parts DEF FactTypes
  <1>2. e \in Enrollments
    BY <1>1, SceneEnrollments
  <1>3. f \in Facts /\ f.kind # "admitted" /\ f.enrollment = e
    BY <1>2 DEF Facts, Fact
  <1>4. log' = Append(log, f) /\ \A i \in 1 .. Len(log) : log[i] # f
    BY <1>1 DEF Revoke, Commit, Happened
  <1> HIDE DEF f
  <1>5. PICK i \in 1 .. Len(log) : log[i] = Fact("approved", e)
    BY <1>1 DEF Revoke, Happened
  <1>6. \E j \in 1 .. Len(log) : log[j] = Fact("admitted", e)
    <2>1. PICK j \in 1 .. i : log[j] = Fact("admitted", log[i].enrollment)
      BY <1>1 DEF ViewInv, SoundLog
    <2>2. j \in 1 .. Len(log) /\ log[i].enrollment = e
      BY <1>1, <1>5 DEF Fact
    <2> QED
      BY <2>1, <2>2
  <1>7. e \notin pend
    BY <1>1, <1>5 DEF ViewInv, PendingIn, Fact
  <1>8. FactTypes'
    BY <1>1, <1>3, <1>4, CommitTyped, Parts DEF Revoke, Commit, FactTypes
  <1>9. BellTypes' /\ AdapterTypes' /\ CommandTypes' /\ ClientTypes'
    BY <1>1, <1>3, <1>4, CommitTyped, Parts
    DEF Revoke, doorbell, commands, client, BellTypes, AdapterTypes, CommandTypes, ClientTypes
  <1>10. BellInv'
    BY <1>1, BellCommitted DEF Revoke, doorbell
  <1>11. ViewInv'
    BY <1>1, <1>3, <1>4, <1>6, <1>7, ViewGrows DEF Revoke, client
  <1>12. CommandInv'
    BY <1>1, CommandKept DEF Revoke, commands, client
  <1> QED
    BY <1>8, <1>9, <1>10, <1>11, <1>12 DEF FeedInv, Types

\* The server starts again: no stream is served and no call is under way.
LEMMA RestartServerKeeps ==
    ASSUME FeedInv, RestartServer
    PROVE  FeedInv'
  <1>1. Types /\ BellInv /\ ViewInv /\ CommandInv
    BY Parts
  <1>2. FactTypes' /\ AdapterTypes' /\ CommandTypes' /\ ClientTypes'
    BY Parts DEF RestartServer, FactTypes, AdapterTypes, CommandTypes, ClientTypes, PCs
  <1>3. BellTypes'
    <2>1. bells' \in 0 .. NotificationCapacity /\ subscriber' \in Streams \cup {None}
      <3>1. NotificationCapacity \in Nat
        BY AdapterFeedConstants
      <3>2. bells' = 0 /\ subscriber' = None
        BY DEF RestartServer
      <3> QED
        BY <3>1, <3>2
    <2>2. ASSUME NEW s \in Streams
          PROVE  streams'[s] \in StreamStates
      <3>1. streams[s] \in StreamStates
        BY Parts DEF BellTypes
      <3>2. streams'[s] = IF streams[s].state = "none" THEN NoStream
              ELSE [streams[s] EXCEPT !.state = "ended", !.closed = TRUE, !.ring = FALSE]
        BY DEF RestartServer
      <3>3. NoStream \in StreamStates
        BY DEF StreamStates, NoStream
      <3>4. [streams[s] EXCEPT !.state = "ended", !.closed = TRUE, !.ring = FALSE] \in StreamStates
        BY <3>1 DEF StreamStates
      <3> QED
        BY <3>2, <3>3, <3>4
    <2>3. streams' = [s \in Streams |-> streams'[s]]
      BY DEF RestartServer
    <2>4. streams' \in [Streams -> StreamStates]
      BY <2>2, <2>3
    <2> QED
      BY <2>1, <2>4 DEF BellTypes
  <1>4. \A s \in Streams : streams'[s].state \in {"none", "ended"}
    BY Parts DEF RestartServer, BellTypes, StreamStates, NoStream
  <1>5. BellInv'
    BY <1>1, <1>4, Numbered, Parts
    DEF RestartServer, BellInv, StreamSound, Heard, MarkedBy, Served, BellTypes, StreamStates, NoStream
  <1>6. ViewInv'
    BY <1>1, ViewKept DEF RestartServer
  <1>7. OnDisk' /\ OneCall' /\ EffectsTrue' /\ CommandsSettled' /\ StartedIsKnown'
    BY <1>1 DEF RestartServer, CommandInv, OnDisk, OneCall, EffectsTrue, CommandsSettled,
        StartedIsKnown
  <1>8. \A c \in Commands : ReceiptSound(c)'
    BY <1>1 DEF RestartServer, CommandInv, ReceiptSound
  <1>9. CommandInv'
    BY <1>7, <1>8 DEF CommandInv, RestartServer
  <1> QED
    BY <1>2, <1>3, <1>5, <1>6, <1>9 DEF FeedInv, Types

(***************************************************************************)
(* The doorbell and the adapter's credentials.                             *)
(***************************************************************************)
\* A step of the doorbell or of the administration keeps the rest.
LEMMA OnlyBell ==
    ASSUME FeedInv, owed' \in Nat, BellTypes', BellInv', AdapterTypes',
           adapter'.last = adapter.last,
           UNCHANGED <<scene, log, floor, pend, receipts, calls, outcome, disk, pc>>
    PROVE  FeedInv'
  <1>1. FactTypes' /\ CommandTypes' /\ ClientTypes'
    BY Parts DEF FactTypes, CommandTypes, ClientTypes
  <1>2. ViewInv'
    BY Parts, ViewKept
  <1>3. CommandInv'
    BY Parts, CommandKept
  <1> QED
    BY <1>1, <1>2, <1>3 DEF FeedInv, Types

\* A stream becomes r: served only as the subscriber's or when told to end, and
\* not deaf to the facts there are.
LEMMA StreamMoves ==
    ASSUME FeedInv, "bell" \in scene.does, NEW s \in Streams, NEW r \in StreamStates,
           streams' = [streams EXCEPT ![s] = r],
           subscriber' = subscriber \/ (s = subscriber /\ subscriber' = None),
           r.state \in {"open", "writing"} => s = subscriber' \/ r.closed,
           s = subscriber' => r.state \in {"open", "writing"},
           r.state \in {"open", "writing"} /\ Len(log) > r.knows =>
               r.ring \/ r.state = "writing" \/ r.marker \/ r.closed
               \/ owed > 0 \/ bells > 0,
           r.state = "writing" => Authorized(r.generation),
           UNCHANGED <<scene, facts, bells, adapter, commands, client, credential>>
    PROVE  FeedInv'
  <1>1. BellTypes /\ BellInv /\ AdapterTypes
    BY Parts
  <1>2. streams'[s] = r /\ \A t \in Streams : t # s => streams'[t] = streams[t]
    BY <1>1 DEF BellTypes
  <1>3. streams' \in [Streams -> StreamStates]
    BY <1>1 DEF BellTypes
  <1>4. BellTypes' /\ AdapterTypes'
    BY <1>1, <1>3 DEF BellTypes, AdapterTypes
  <1>5. StreamSound(s)' /\ Heard(s)' /\ MarkedBy(s)'
    BY <1>2 DEF StreamSound, Heard, MarkedBy, Served, Authorized, facts
  <1>6. ASSUME NEW t \in Streams, t # s
        PROVE  StreamSound(t)' /\ Heard(t)' /\ MarkedBy(t)'
    <2>1. StreamSound(t) /\ Heard(t) /\ MarkedBy(t) /\ streams'[t] = streams[t] /\ t # None
      BY <1>1, <1>2, <1>6, Numbered DEF BellInv
    <2> QED
      BY <1>6, <2>1 DEF StreamSound, Heard, MarkedBy, Served, Authorized, facts
  <1>7. BellInv'
    BY <1>5, <1>6 DEF BellInv
  <1> QED
    BY <1>4, <1>7, OnlyBell, Parts DEF facts, commands, client, FactTypes

\* The stream of a handler that returns.
LEMMA EndsMoves ==
    ASSUME FeedInv, "bell" \in scene.does, NEW s \in Streams, Ends(s),
           UNCHANGED <<scene, facts, bells, adapter, commands, client, credential>>
    PROVE  FeedInv'
  <1> DEFINE r == [streams[s] EXCEPT !.state = "ended", !.closed = TRUE, !.ring = FALSE]
  <1>1. streams[s] \in StreamStates /\ s # None /\ streams \in [Streams -> StreamStates]
    BY Parts, Numbered DEF BellTypes
  <1>2. r \in StreamStates /\ r.state = "ended"
    BY <1>1 DEF StreamStates
  <1>3. streams' = [streams EXCEPT ![s] = r]
    BY <1>1 DEF Ends, StreamStates
  <1>4. subscriber' = IF subscriber = s THEN None ELSE subscriber
    BY DEF Ends
  <1> HIDE DEF r
  <1> QED
    BY <1>1, <1>2, <1>3, <1>4, StreamMoves

\* What is known of a stream that is served.
LEMMA OneStream ==
    ASSUME FeedInv, NEW s \in Streams
    PROVE  /\ streams[s] \in StreamStates /\ s # None /\ streams \in [Streams -> StreamStates]
           /\ StreamSound(s) /\ Heard(s) /\ MarkedBy(s)
  BY Parts, Numbered DEF BellTypes, BellInv

\* The handler hears a ring, or that its channel is closed.
LEMMA HearRingKeeps ==
    ASSUME FeedInv, "bell" \in scene.does, NEW s \in Streams, HearRing(s)
    PROVE  FeedInv'
  <1>1. CASE streams[s].ring /\ Authorized(streams[s].generation)
             /\ streams' = [streams EXCEPT ![s].ring = FALSE, ![s].state = "writing"]
             /\ UNCHANGED subscriber
    <2> DEFINE r == [streams[s] EXCEPT !.ring = FALSE, !.state = "writing"]
    <2>1. /\ r \in StreamStates /\ r.state = "writing" /\ r.generation = streams[s].generation
          /\ r.closed = streams[s].closed
      BY OneStream DEF StreamStates
    <2>2. streams' = [streams EXCEPT ![s] = r]
      BY <1>1, OneStream DEF StreamStates
    <2>3. streams[s].state = "open" /\ (s = subscriber \/ streams[s].closed)
      BY OneStream DEF HearRing, StreamSound, Served
    <2> HIDE DEF r
    <2> QED
      BY <1>1, <2>1, <2>2, <2>3, StreamMoves DEF HearRing
  <1>2. CASE Ends(s)
    BY <1>2, EndsMoves DEF HearRing
  <1> QED
    BY <1>1, <1>2 DEF HearRing

\* The marker is written, or the handler returns.
LEMMA WriteMarkerKeeps ==
    ASSUME FeedInv, "bell" \in scene.does, NEW s \in Streams, WriteMarker(s)
    PROVE  FeedInv'
  <1>1. CASE streams' = [streams EXCEPT ![s].state = "open", ![s].marker = TRUE]
             /\ UNCHANGED subscriber
    <2> DEFINE r == [streams[s] EXCEPT !.state = "open", !.marker = TRUE]
    <2>1. r \in StreamStates /\ r.state = "open" /\ r.marker /\ r.closed = streams[s].closed
      BY OneStream DEF StreamStates
    <2>2. streams' = [streams EXCEPT ![s] = r]
      BY <1>1, OneStream DEF StreamStates
    <2>3. s = subscriber \/ streams[s].closed
      BY OneStream DEF WriteMarker, StreamSound, Served
    <2> HIDE DEF r
    <2> QED
      BY <1>1, <2>1, <2>2, <2>3, StreamMoves DEF WriteMarker
  <1>2. CASE Ends(s)
    BY <1>2, EndsMoves DEF WriteMarker
  <1> QED
    BY <1>1, <1>2 DEF WriteMarker

\* The adapter reads a marker, and has to look at all facts there are.
LEMMA ReadMarkerKeeps ==
    ASSUME FeedInv, "bell" \in scene.does, NEW s \in Streams, ReadMarker(s)
    PROVE  FeedInv'
  <1> DEFINE r == [streams[s] EXCEPT !.marker = FALSE, !.knows = Len(log)]
  <1>1. Len(log) \in Nat
    BY Parts DEF FactTypes
  <1>2. /\ r \in StreamStates /\ r.state = streams[s].state /\ r.closed = streams[s].closed
        /\ r.generation = streams[s].generation /\ r.knows = Len(log)
    BY <1>1, OneStream DEF StreamStates
  <1>3. streams' = [streams EXCEPT ![s] = r]
    BY OneStream DEF ReadMarker, StreamStates
  <1>4. /\ streams[s].state \in {"open", "writing"} => s = subscriber \/ streams[s].closed
        /\ s = subscriber => streams[s].state \in {"open", "writing"}
        /\ streams[s].state = "writing" => Authorized(streams[s].generation)
    BY OneStream DEF StreamSound, Served, MarkedBy
  <1> HIDE DEF r
  <1>5. ~(Len(log) > r.knows)
    BY <1>1, <1>2
  <1> QED
    BY <1>2, <1>3, <1>4, <1>5, StreamMoves DEF ReadMarker

\* The adapter opens a stream; the one it had is told to end.
LEMMA SubscribeBellKeeps ==
    ASSUME FeedInv, "bell" \in scene.does, NEW s \in Streams, SubscribeBell(s)
    PROVE  FeedInv'
  <1> DEFINE r == [NoStream EXCEPT !.state = "open", !.generation = credential,
                                   !.knows = Len(log)]
  <1>1. Len(log) \in Nat /\ credential \in Nat /\ BellTypes /\ BellInv /\ AdapterTypes
    BY Parts DEF FactTypes, AdapterTypes
  <1>2. r \in StreamStates /\ r.state = "open" /\ r.knows = Len(log)
    BY <1>1 DEF StreamStates, NoStream
  <1> HIDE DEF r
  <1>3. streams' = [t \in Streams |-> IF t = s THEN r
              ELSE IF t = subscriber THEN [streams[t] EXCEPT !.closed = TRUE] ELSE streams[t]]
    BY DEF SubscribeBell, r
  <1>4. streams'[s] = r /\ subscriber' = s
    BY <1>3 DEF SubscribeBell
  <1>5. ASSUME NEW t \in Streams, t # s
        PROVE  streams'[t] \in StreamStates /\ StreamSound(t)' /\ Heard(t)' /\ MarkedBy(t)'
    <2>1. StreamSound(t) /\ Heard(t) /\ MarkedBy(t) /\ streams[t] \in StreamStates
      BY OneStream
    <2>2. CASE t = subscriber
      <3>1. streams'[t] = [streams[t] EXCEPT !.closed = TRUE]
        BY <1>3, <1>5, <2>2
      <3>2. /\ streams'[t] \in StreamStates /\ streams'[t].closed
            /\ streams'[t].state = streams[t].state
            /\ streams'[t].generation = streams[t].generation
        BY <2>1, <3>1 DEF StreamStates
      <3> QED
        BY <1>4, <1>5, <2>1, <3>2 DEF SubscribeBell, StreamSound, Heard, MarkedBy, Served, Authorized
    <2>3. CASE t # subscriber
      <3>1. streams'[t] = streams[t]
        BY <1>3, <1>5, <2>3
      <3> QED
        BY <1>4, <1>5, <2>1, <2>3, <3>1
        DEF SubscribeBell, StreamSound, Heard, MarkedBy, Served, Authorized, facts
    <2> QED
      BY <2>2, <2>3
  <1>6. StreamSound(s)' /\ Heard(s)' /\ MarkedBy(s)'
    BY <1>1, <1>2, <1>4 DEF SubscribeBell, StreamSound, Heard, MarkedBy, Served, Authorized, facts
  <1>7. streams' \in [Streams -> StreamStates]
    <2>1. streams' = [t \in Streams |-> streams'[t]]
      BY <1>3
    <2> QED
      BY <1>2, <1>4, <1>5, <2>1
  <1>8. BellTypes' /\ AdapterTypes'
    BY <1>1, <1>4, <1>7 DEF BellTypes, AdapterTypes, SubscribeBell
  <1>9. BellInv'
    BY <1>5, <1>6 DEF BellInv
  <1> QED
    BY <1>8, <1>9, OnlyBell, Parts DEF SubscribeBell, facts, commands, client, FactTypes

\* A transaction notifies the broker; one notification is enough.
LEMMA NotifyKeeps ==
    ASSUME FeedInv, Notify
    PROVE  FeedInv'
  <1>1. /\ owed \in Nat /\ BellTypes /\ BellInv /\ AdapterTypes
        /\ NotificationCapacity \in Nat \ {0} /\ bells \in Nat
    BY Parts, AdapterFeedConstants DEF FactTypes, BellTypes
  <1>2. owed' \in Nat /\ bells' \in 0 .. NotificationCapacity /\ bells' > 0
    BY <1>1 DEF Notify, BellTypes
  <1>3. BellTypes' /\ AdapterTypes'
    BY <1>1, <1>2 DEF Notify, BellTypes, AdapterTypes
  <1>4. BellInv'
    BY <1>1, <1>2 DEF Notify, BellInv, StreamSound, Heard, MarkedBy, Served, Authorized
  <1> QED
    BY <1>2, <1>3, <1>4, OnlyBell DEF Notify, commands, client

\* The broker rings its subscriber, or drops it.
LEMMA FanoutKeeps ==
    ASSUME FeedInv, "bell" \in scene.does, Fanout
    PROVE  FeedInv'
  <1>1. /\ owed \in Nat /\ BellTypes /\ BellInv /\ AdapterTypes
        /\ streams \in [Streams -> StreamStates] /\ bells \in Nat
    BY Parts, AdapterFeedConstants DEF FactTypes, BellTypes
  <1>2. bells' \in 0 .. NotificationCapacity
    BY <1>1, AdapterFeedConstants DEF Fanout, BellTypes
  <1>3. AdapterTypes' /\ UNCHANGED <<scene, log, owed, adapter>>
    BY <1>1 DEF Fanout, AdapterTypes, facts
  <1> DEFINE Told(s) == streams[s].ring \/ streams[s].closed
  <1>4. /\ BellTypes' /\ \A s \in Streams : StreamSound(s)' /\ MarkedBy(s)'
        /\ \A s \in Streams : Served(s)' => Told(s)' /\ streams'[s].knows = streams[s].knows
    <2>1. \A s \in Streams : s # None /\ StreamSound(s) /\ MarkedBy(s) /\ streams[s] \in StreamStates
      BY OneStream
    <2>2. CASE subscriber = None /\ UNCHANGED <<subscriber, streams>>
      BY <1>1, <1>2, <1>3, <2>1, <2>2 DEF BellTypes, StreamSound, MarkedBy, Served, Authorized
    <2>3. CASE /\ subscriber # None /\ UNCHANGED subscriber
               /\ streams' = [streams EXCEPT ![subscriber].ring = TRUE]
      <3>1. subscriber \in Streams
        BY <1>1, <2>3 DEF BellTypes
      <3>2. \A s \in Streams : /\ streams'[s] \in StreamStates
                               /\ s # subscriber => streams'[s] = streams[s]
        BY <1>1, <2>1, <2>3, <3>1 DEF StreamStates
      <3>3. /\ streams'[subscriber].ring /\ streams'[subscriber].state = streams[subscriber].state
            /\ streams'[subscriber].knows = streams[subscriber].knows
            /\ streams'[subscriber].generation = streams[subscriber].generation
        BY <1>1, <2>1, <2>3, <3>1 DEF StreamStates
      <3>4. BellTypes'
        BY <1>1, <1>2, <2>3, <3>2 DEF BellTypes
      <3> QED
        BY <1>3, <2>1, <2>3, <3>1, <3>2, <3>3, <3>4
        DEF StreamSound, MarkedBy, Served, Authorized
    <2>4. CASE /\ subscriber # None /\ subscriber' = None
               /\ streams' = [streams EXCEPT ![subscriber].closed = TRUE]
      <3>1. subscriber \in Streams
        BY <1>1, <2>4 DEF BellTypes
      <3>2. \A s \in Streams : /\ streams'[s] \in StreamStates
                               /\ s # subscriber => streams'[s] = streams[s]
        BY <1>1, <2>1, <2>4, <3>1 DEF StreamStates
      <3>3. /\ streams'[subscriber].closed /\ streams'[subscriber].state = streams[subscriber].state
            /\ streams'[subscriber].knows = streams[subscriber].knows
            /\ streams'[subscriber].generation = streams[subscriber].generation
        BY <1>1, <2>1, <2>4, <3>1 DEF StreamStates
      <3>4. BellTypes'
        BY <1>1, <1>2, <2>4, <3>2 DEF BellTypes
      <3> QED
        BY <1>3, <2>1, <2>4, <3>1, <3>2, <3>3, <3>4
        DEF StreamSound, MarkedBy, Served, Authorized
    <2> QED
      BY <2>2, <2>3, <2>4 DEF Fanout
  <1>5. BellInv'
    BY <1>4 DEF BellInv, Heard
  <1> QED
    BY <1>1, <1>3, <1>4, <1>5, OnlyBell DEF Fanout, facts, commands, client

\* The broker stops, and its subscriber is told to end.
LEMMA StopBrokerKeeps ==
    ASSUME FeedInv, StopBroker
    PROVE  FeedInv'
  <1>1. owed \in Nat /\ BellTypes /\ BellInv /\ AdapterTypes
    BY Parts DEF FactTypes
  <1>2. ASSUME NEW s \in Streams
        PROVE  streams'[s] \in StreamStates /\ StreamSound(s)' /\ Heard(s)' /\ MarkedBy(s)'
    <2>1. StreamSound(s) /\ Heard(s) /\ MarkedBy(s) /\ streams[s] \in StreamStates /\ s # None
      BY OneStream
    <2>2. CASE s = subscriber
      <3>1. streams'[s] = [streams[s] EXCEPT !.closed = TRUE]
        BY <2>2 DEF StopBroker
      <3>2. /\ streams'[s] \in StreamStates /\ streams'[s].closed
            /\ streams'[s].state = streams[s].state
            /\ streams'[s].generation = streams[s].generation
        BY <2>1, <3>1 DEF StreamStates
      <3> QED
        BY <2>1, <3>2 DEF StopBroker, StreamSound, Heard, MarkedBy, Served, Authorized
    <2>3. CASE s # subscriber
      <3>1. streams'[s] = streams[s]
        BY <2>3 DEF StopBroker
      <3> QED
        BY <2>1, <2>3, <3>1
        DEF StopBroker, StreamSound, Heard, MarkedBy, Served, Authorized, facts
    <2> QED
      BY <2>2, <2>3
  <1>3. BellTypes'
    <2>1. streams' = [s \in Streams |-> streams'[s]]
      BY DEF StopBroker
    <2>2. streams' \in [Streams -> StreamStates]
      BY <1>2, <2>1
    <2> QED
      BY <1>1, <2>2 DEF BellTypes, StopBroker
  <1>4. BellInv' /\ AdapterTypes'
    BY <1>1, <1>2 DEF BellInv, StopBroker, AdapterTypes
  <1> QED
    BY <1>1, <1>3, <1>4, OnlyBell DEF StopBroker, facts, commands, client

\* The adapter is deactivated or activated, or its credential rotated, while no
\* marker is being written; or the new credential is installed.
LEMMA AdministrationKeeps ==
    ASSUME FeedInv, Administration
    PROVE  FeedInv'
  <1>1. owed \in Nat /\ BellTypes /\ BellInv /\ AdapterTypes
    BY Parts DEF FactTypes
  <1>2. CASE InstallCredential
    <2>1. BellTypes' /\ AdapterTypes'
      BY <1>1, <1>2 DEF InstallCredential, BellTypes, AdapterTypes, doorbell
    <2>2. BellInv'
      BY <1>1, <1>2, BellKept DEF InstallCredential, facts, doorbell
    <2> QED
      BY <1>1, <1>2, <2>1, <2>2, OnlyBell DEF InstallCredential, facts, commands, client
  <1>3. ASSUME AuthorityLock, adapter'.last = adapter.last, AdapterTypes',
               UNCHANGED <<scene, facts, doorbell, commands, client, credential>>
        PROVE  FeedInv'
    <2>1. BellTypes'
      BY <1>1, <1>3 DEF BellTypes, doorbell
    <2>2. BellInv'
      BY <1>1, <1>3 DEF AuthorityLock, BellInv, StreamSound, Heard, MarkedBy, Served, facts, doorbell
    <2> QED
      BY <1>1, <1>3, <2>1, <2>2, OnlyBell DEF facts, commands, client
  <1>4. ASSUME NEW a \in BOOLEAN, SetAdapterActive(a)
        PROVE  FeedInv'
    <2>1. adapter'.last = adapter.last /\ AdapterTypes'
      BY <1>1, <1>4 DEF SetAdapterActive, AdapterTypes
    <2> QED
      BY <1>3, <1>4, <2>1 DEF SetAdapterActive
  <1>5. CASE RotateAdapterCredential
    <2>1. adapter'.last = adapter.last /\ AdapterTypes'
      BY <1>1, <1>5 DEF RotateAdapterCredential, AdapterTypes
    <2> QED
      BY <1>3, <1>5, <2>1 DEF RotateAdapterCredential
  <1> QED
    BY <1>2, <1>4, <1>5 DEF Administration

(***************************************************************************)
(* The adapter replays.                                                    *)
(***************************************************************************)
\* A step of the adapter keeps the facts and the doorbell.
LEMMA OnlyClient ==
    ASSUME FeedInv, CommandTypes', ClientTypes', ViewInv', CommandInv',
           UNCHANGED <<scene, facts, doorbell, adapter, credential>>
    PROVE  FeedInv'
  <1>1. FactTypes' /\ BellTypes' /\ AdapterTypes'
    BY Parts DEF facts, doorbell, FactTypes, BellTypes, AdapterTypes
  <1>2. BellInv'
    BY Parts, BellKept DEF facts, doorbell
  <1> QED
    BY <1>1, <1>2 DEF FeedInv, Types

\* A sync begins.
LEMMA StartSyncKeeps ==
    ASSUME FeedInv, StartSync
    PROVE  FeedInv'
  <1>1. CommandTypes' /\ ClientTypes'
    BY Parts DEF StartSync, facts, commands, CommandTypes, ClientTypes, PCs
  <1>2. ViewInv'
    BY Parts, ViewKept DEF StartSync, facts
  <1>3. CommandInv'
    BY Parts, CommandKept DEF StartSync, commands, Asking
  <1> QED
    BY <1>1, <1>2, <1>3, OnlyClient DEF StartSync

\* A page is applied and saved, or the cursor is gone.
LEMMA SyncPageKeeps ==
    ASSUME FeedInv, SyncPage
    PROVE  FeedInv'
  <1>1. Types /\ ViewInv /\ CommandInv /\ CommandTypes /\ ClientTypes
    BY Parts
  <1>2. CASE disk' = Replayed[PageEnd - disk.cursor]
             /\ pc' = IF disk'.cursor = HighWater THEN "finish" ELSE "replay"
    <2>1. /\ HighWater \in Nat /\ PageEnd \in Nat /\ disk.cursor \in Nat /\ Len(log) \in Nat
          /\ disk.cursor <= PageEnd /\ PageEnd <= HighWater /\ HighWater <= Len(log)
      BY <1>1, PageBounds DEF ClientTypes, DiskStates, Types, FactTypes
    <2>2. ReplayedTo(disk', PageEnd - disk.cursor)
      BY <1>1, <1>2, PageApplied
    <2>3. disk.cursor + (PageEnd - disk.cursor) = PageEnd
      BY <2>1
    <2>4. /\ disk' \in DiskStates /\ disk'.cursor = PageEnd /\ disk'.high = HighWater
          /\ disk'.last = disk.last /\ disk'.command = disk.command
          /\ disk'.started = disk.started /\ disk'.effects = disk.effects
          /\ disk'.view = PendingIn(log, PageEnd)
          /\ \A f \in disk'.applied : \E i \in 1 .. PageEnd : log[i] = f
      BY <2>2, <2>3 DEF ReplayedTo
    <2>5. pc = "replay" /\ pc' \in {"finish", "replay"}
      BY <1>2 DEF SyncPage
    <2>6. log' = log /\ pend' = pend
      BY DEF SyncPage, facts
    <2>7. CommandTypes' /\ ClientTypes'
      BY <1>1, <2>1, <2>4, <2>5, <2>6 DEF SyncPage, commands, CommandTypes, ClientTypes, PCs
    <2>8. ViewInv'
      BY <1>1, <2>4, <2>6 DEF ViewInv, AppliedSeen
    <2>9. CommandInv'
      BY <1>1, <2>4, <2>5, CommandKept DEF SyncPage, commands, Asking
    <2> QED
      BY <2>7, <2>8, <2>9, OnlyClient DEF SyncPage
  <1>3. CASE pc' = "snapshot" /\ UNCHANGED disk
    <2>1. CommandTypes' /\ ClientTypes'
      BY <1>1, <1>3 DEF SyncPage, facts, commands, CommandTypes, ClientTypes, PCs
    <2>2. ViewInv'
      BY <1>1, <1>3, ViewKept DEF SyncPage, facts
    <2>3. CommandInv'
      BY <1>1, <1>3, CommandKept DEF SyncPage, commands, Asking
    <2> QED
      BY <2>1, <2>2, <2>3, OnlyClient DEF SyncPage
  <1> QED
    BY <1>2, <1>3 DEF SyncPage

\* The high water of a replay that is complete is forgotten.
LEMMA FinishSyncKeeps ==
    ASSUME FeedInv, FinishSync
    PROVE  FeedInv'
  <1>1. /\ disk' \in DiskStates /\ disk'.high = 0 /\ disk'.cursor = disk.cursor
        /\ disk'.last = disk.last /\ disk'.command = disk.command /\ disk'.started = disk.started
        /\ disk'.effects = disk.effects /\ disk'.view = disk.view /\ disk'.applied = disk.applied
    BY Parts DEF FinishSync, ClientTypes, DiskStates
  <1>2. CommandTypes' /\ ClientTypes'
    BY <1>1, Parts DEF FinishSync, facts, commands, CommandTypes, ClientTypes, PCs
  <1>3. ViewInv'
    BY <1>1, Parts, ViewKept DEF FinishSync, facts
  <1>4. CommandInv'
    BY <1>1, Parts, CommandKept DEF FinishSync, commands, Asking
  <1> QED
    BY <1>2, <1>3, <1>4, OnlyClient DEF FinishSync

\* What is pending replaces the view, and the cursor is the one it was read at.
LEMMA RebuildKeeps ==
    ASSUME FeedInv, Rebuild
    PROVE  FeedInv'
  <1>1. /\ disk \in DiskStates /\ Len(log) \in Nat /\ pend \subseteq Enrollments
        /\ disk.cursor \in Nat /\ disk.cursor <= Len(log)
    BY Parts DEF FactTypes, ClientTypes, DiskStates
  <1>2. /\ disk' \in DiskStates /\ disk'.high = 0 /\ disk'.cursor = Len(log)
        /\ disk'.last = disk.last /\ disk'.command = disk.command /\ disk'.started = disk.started
        /\ disk'.effects = disk.effects /\ disk'.view = pend /\ disk'.applied = disk.applied
    BY <1>1 DEF Rebuild, SnapshotCursor, DiskStates
  <1>3. CommandTypes' /\ ClientTypes'
    BY <1>1, <1>2, Parts DEF Rebuild, facts, commands, CommandTypes, ClientTypes, PCs
  <1>4. ViewInv'
    BY <1>1, <1>2, Parts DEF Rebuild, facts, ViewInv, AppliedSeen
  <1>5. CommandInv'
    BY <1>2, Parts, CommandKept DEF Rebuild, commands, Asking
  <1> QED
    BY <1>3, <1>4, <1>5, OnlyClient DEF Rebuild

\* A run ends, and what it asked of the server goes on without it.
LEMMA AbandonKeeps ==
    ASSUME FeedInv, Abandon
    PROVE  FeedInv'
  <1>1. Types /\ ViewInv /\ CommandInv /\ CommandTypes /\ ClientTypes
    BY Parts
  <1>2. ASSUME NEW k \in calls'
        PROVE  /\ k \in Calls /\ k.how = "orphan" /\ k.command.id <= disk.last
               /\ k.stage = "execute" => k.command.id <= adapter.last
    <2>1. PICK j \in calls : k = [j EXCEPT !.how = "orphan"]
      BY DEF Abandon
    <2>2. j \in Calls /\ CallSound(j)
      BY <1>1 DEF CommandTypes, CommandInv
    <2>3. k \in Calls /\ k.how = "orphan" /\ k.command = j.command /\ k.stage = j.stage
      BY <2>1, <2>2 DEF Calls
    <2> QED
      BY <2>2, <2>3 DEF CallSound
  <1>3. CommandTypes' /\ ClientTypes'
    BY <1>1, <1>2 DEF Abandon, facts, CommandTypes, ClientTypes, PCs
  <1>4. ViewInv'
    BY <1>1, ViewKept DEF Abandon, facts
  <1>5. OnDisk' /\ EffectsTrue' /\ CommandsSettled' /\ StartedIsKnown'
    BY <1>1 DEF Abandon, CommandInv, OnDisk, EffectsTrue, CommandsSettled, StartedIsKnown
  <1>6. OneCall' /\ \A k \in calls' : CallSound(k)'
    BY <1>2 DEF Abandon, OneCall, CallSound
  <1>7. \A c \in Commands : ReceiptSound(c)'
    BY <1>1 DEF Abandon, CommandInv, ReceiptSound
  <1>8. CommandInv'
    BY <1>5, <1>6, <1>7 DEF CommandInv
  <1> QED
    BY <1>3, <1>4, <1>8, OnlyClient DEF Abandon

(***************************************************************************)
(* The adapter sends a command.                                            *)
(***************************************************************************)
\* The state file with a command on it: the one that was there, or a new one.
Owned(d) ==
    /\ d \in DiskStates /\ d.command # NoCommand
    /\ d.cursor = disk.cursor /\ d.high = disk.high /\ d.view = disk.view
    /\ d.applied = disk.applied /\ d.started = disk.started /\ d.effects = disk.effects
    /\ \/ d = disk
       \/ /\ disk.command = NoCommand
          /\ d.last = disk.last + 1 /\ d.command.id = disk.last + 1

\* ownCommand puts a command on disk.
LEMMA CommandOwned ==
    ASSUME Types, NEW e \in Enrollments, disk.last < MaxCommands \/ disk.command # NoCommand
    PROVE  Owned(OwnCommand(e))
  <1>1. disk \in DiskStates /\ disk.last \in Nat /\ MaxCommands \in Nat
    BY AdapterFeedConstants DEF Types, ClientTypes, DiskStates
  <1>2. CASE disk.command # NoCommand
    BY <1>1, <1>2 DEF OwnCommand, Owned
  <1>3. CASE disk.command = NoCommand
    <2> DEFINE c == [id |-> disk.last + 1, enrollment |-> e]
               d == [disk EXCEPT !.last = @ + 1, !.command = c]
    <2>1. disk.last + 1 \in Commands /\ disk.last + 1 # None /\ disk.last + 1 \in 0 .. MaxCommands
      BY <1>1, <1>3 DEF Commands, None
    <2>2. c \in [id : Commands, enrollment : Enrollments] /\ c.id = disk.last + 1 /\ c # NoCommand
      BY <2>1 DEF NoCommand
    <2>3. OwnCommand(e) = d
      BY <1>3 DEF OwnCommand
    <2> HIDE DEF c
    <2>4. d \in DiskStates
      BY <1>1, <2>1, <2>2 DEF DiskStates
    <2>5. /\ d.cursor = disk.cursor /\ d.high = disk.high /\ d.view = disk.view
          /\ d.applied = disk.applied /\ d.started = disk.started /\ d.effects = disk.effects
          /\ d.command = c /\ d.last = disk.last + 1
      BY <1>1 DEF DiskStates
    <2> QED
      BY <1>3, <2>2, <2>3, <2>4, <2>5 DEF Owned
  <1> QED
    BY <1>2, <1>3

\* A command on disk is sent, and the adapter waits for the answer.
LEMMA SubmitKeeps ==
    ASSUME FeedInv, pc \in {"idle", "query"}, NEW how \in {"approve", "drop"}, Owned(disk'),
           pc' = IF how = "approve" THEN "submitted" ELSE "dropping",
           calls' = calls \cup {Call(disk', how)},
           UNCHANGED <<scene, facts, doorbell, adapter, receipts, outcome, credential>>
    PROVE  FeedInv'
  <1> DEFINE new == Call(disk', how)
  <1>1. /\ Types /\ ViewInv /\ CommandInv /\ CommandTypes /\ ClientTypes /\ credential \in Nat
        /\ adapter.last \in Nat
    BY Parts, AdapterFeedConstants DEF AdapterTypes
  <1>2. /\ disk \in DiskStates /\ disk.last \in Nat /\ disk'.last \in Nat
        /\ disk' \in DiskStates /\ disk'.command # NoCommand
        /\ disk'.command \in [id : Commands, enrollment : Enrollments]
    BY <1>1, AdapterFeedConstants DEF ClientTypes, DiskStates, Owned
  <1>3. /\ disk'.command.id = disk'.last /\ disk.last <= disk'.last
        /\ \A c \in 1 .. disk'.last : c # disk'.command.id =>
              c \in 1 .. disk.last /\ c # disk.command.id
    <2>1. CASE disk' = disk
      BY <1>1, <1>2, <2>1 DEF CommandInv, OnDisk
    <2>2. CASE /\ disk.command = NoCommand
               /\ disk'.last = disk.last + 1 /\ disk'.command.id = disk.last + 1
      BY <1>2, <2>2 DEF NoCommand, None
    <2> QED
      BY <2>1, <2>2 DEF Owned
  <1>4. /\ new \in Calls /\ new.command = disk'.command /\ new.stage = "admit" /\ new.how = how
    BY <1>1, <1>2 DEF Call, Calls
  <1> HIDE DEF new
  <1>5. \A k \in calls : k.how = "orphan"
    BY <1>1 DEF CommandInv, CallSound, CommandTypes, Calls
  <1>6. CommandTypes'
    BY <1>1, <1>4 DEF CommandTypes, new
  <1>7. ClientTypes'
    BY <1>1, <1>2 DEF ClientTypes, Owned, PCs, facts
  <1>8. ViewInv'
    BY <1>1, ViewKept DEF Owned, facts
  <1>9. OnDisk'
    BY <1>1, <1>2, <1>3 DEF CommandInv, OnDisk
  <1>10. EffectsTrue' /\ CommandsSettled'
    BY <1>1, <1>3 DEF CommandInv, EffectsTrue, CommandsSettled, Owned
  <1>11. StartedIsKnown'
    BY <1>1 DEF CommandInv, StartedIsKnown, Owned, OnDisk
  <1>12. \A c \in Commands : ReceiptSound(c)'
    BY <1>1 DEF CommandInv, ReceiptSound
  <1>13. calls' = calls \cup {new}
    BY DEF new
  <1>14. OneCall'
    BY <1>4, <1>5, <1>13 DEF OneCall
  <1>15. ASSUME NEW k \in calls'
         PROVE  CallSound(k)'
    <2>1. CASE k = new
      <3>1. k.command.id <= disk'.last
        BY <1>2, <1>3, <1>4, <2>1
      <3> QED
        BY <1>4, <2>1, <3>1 DEF CallSound
    <2>2. CASE k \in calls
      <3>1. CallSound(k) /\ k.how = "orphan" /\ k.command.id \in Nat
        BY <1>1, <1>5, <2>2, Numbered DEF CommandInv, CommandTypes, Calls
      <3>2. k.command.id <= disk'.last
        BY <1>2, <1>3, <3>1 DEF CallSound
      <3> QED
        BY <3>1, <3>2 DEF CallSound
    <2> QED
      BY <1>13, <2>1, <2>2
  <1>16. CommandInv'
    BY <1>9, <1>10, <1>11, <1>12, <1>14, <1>15 DEF CommandInv
  <1> QED
    BY <1>6, <1>7, <1>8, <1>16, OnlyClient

\* approve begins.
LEMMA StartApproveKeeps ==
    ASSUME FeedInv, NEW e \in scene.enrollments, StartApprove(e)
    PROVE  FeedInv'
  <1>1. Types /\ ViewInv /\ CommandInv /\ CommandTypes /\ ClientTypes /\ e \in Enrollments
    BY Parts, SceneEnrollments
  <1>2. Owned(disk')
    BY <1>1, CommandOwned DEF StartApprove
  <1>3. CASE disk.command # NoCommand /\ pc' = "query" /\ UNCHANGED calls
    <2>1. disk' = disk
      BY <1>3 DEF StartApprove, OwnCommand
    <2>2. CommandTypes' /\ ClientTypes'
      BY <1>1, <1>3, <2>1 DEF StartApprove, facts, CommandTypes, ClientTypes, PCs
    <2>3. ViewInv'
      BY <1>1, <2>1, ViewKept DEF StartApprove, facts
    <2>4. OnDisk' /\ OneCall' /\ EffectsTrue' /\ CommandsSettled' /\ StartedIsKnown'
      BY <1>1, <1>3, <2>1 DEF StartApprove, CommandInv, OnDisk, OneCall, EffectsTrue,
          CommandsSettled, StartedIsKnown
    <2>5. \A c \in Commands : ReceiptSound(c)'
      BY <1>1 DEF StartApprove, CommandInv, ReceiptSound
    <2>6. \A k \in calls' : CallSound(k)'
      BY <1>1, <1>3, <2>1 DEF StartApprove, CommandInv, CallSound
    <2>7. CommandInv'
      BY <2>4, <2>5, <2>6 DEF CommandInv
    <2> QED
      BY <2>2, <2>3, <2>7, OnlyClient DEF StartApprove
  <1>4. CASE pc' = "submitted" /\ calls' = calls \cup {Call(disk', "approve")}
    BY <1>2, <1>4, SubmitKeeps DEF StartApprove
  <1> QED
    BY <1>3, <1>4 DEF StartApprove

\* approve-drop begins.
LEMMA StartDropKeeps ==
    ASSUME FeedInv, NEW e \in scene.enrollments, StartDrop(e)
    PROVE  FeedInv'
  <1>1. Types /\ e \in Enrollments
    BY Parts, SceneEnrollments
  <1>2. Owned(disk')
    BY <1>1, CommandOwned DEF StartDrop
  <1> QED
    BY <1>2, SubmitKeeps DEF StartDrop

\* The answers to a command.
Answers == {"error", "committed", "rejected"}

\* Once the adapter has accepted an answer that is true, it agrees with the
\* server on its command.
LEMMA AcceptedSound ==
    ASSUME Types, CommandInv, disk.command # NoCommand, NEW state \in Answers, OutcomesKept,
           state # "error" => outcome'[disk.command.id] = state,
           disk' = Accepted(state)
    PROVE  /\ disk' \in DiskStates /\ disk'.last = disk.last
           /\ disk'.cursor = disk.cursor /\ disk'.high = disk.high /\ disk'.view = disk.view
           /\ disk'.applied = disk.applied
           /\ disk' = disk \/ (disk'.command = NoCommand /\ ~disk'.started)
           /\ EffectsTrue' /\ CommandsSettled'
  <1>1. /\ disk \in DiskStates /\ disk.last \in 0 .. MaxCommands /\ disk.effects \subseteq Commands
        /\ \A c \in 1 .. disk.last : c \in Commands
        /\ disk.command \in [id : Commands, enrollment : Enrollments]
    BY AdapterFeedConstants DEF Types, ClientTypes, DiskStates, Commands
  <1>2. /\ \A c \in disk.effects : outcome[c] = "committed"
        /\ \A c \in 1 .. disk.last : c # disk.command.id =>
              outcome[c] = IF c \in disk.effects THEN "committed" ELSE "rejected"
    BY DEF CommandInv, EffectsTrue, CommandsSettled
  <1>3. /\ \A c \in disk.effects : outcome'[c] = "committed"
        /\ \A c \in 1 .. disk.last : c # disk.command.id =>
              outcome'[c] = IF c \in disk.effects THEN "committed" ELSE "rejected"
    BY <1>1, <1>2 DEF OutcomesKept
  <1>4. CASE state = "error"
    <2>1. disk' = disk
      BY <1>4 DEF Accepted
    <2> QED
      BY <1>1, <1>3, <2>1 DEF EffectsTrue, CommandsSettled
  <1>5. CASE state # "error"
    <2> DEFINE c == disk.command.id
               done == disk.effects \cup (IF state = "committed" THEN {c} ELSE {})
    <2>1. c \in Commands /\ c # None /\ outcome'[c] = state
      BY <1>1, <1>5, Numbered
    <2>2. disk' = [disk EXCEPT !.command = NoCommand, !.started = FALSE, !.effects = done]
      BY <1>1, <1>5 DEF Accepted, DiskStates
    <2>3. done \subseteq Commands
      BY <1>1, <2>1
    <2>4. \A d \in done : outcome'[d] = "committed"
      BY <1>3, <2>1
    <2>5. \A d \in 1 .. disk.last : outcome'[d] = IF d \in done THEN "committed" ELSE "rejected"
      BY <1>3, <1>5, <2>1 DEF Answers
    <2> HIDE DEF c, done
    <2>6. /\ disk' \in DiskStates /\ disk'.command = NoCommand /\ disk'.started = FALSE
          /\ disk'.effects = done /\ disk'.last = disk.last
          /\ disk'.cursor = disk.cursor /\ disk'.high = disk.high /\ disk'.view = disk.view
          /\ disk'.applied = disk.applied
      BY <1>1, <2>2, <2>3 DEF DiskStates
    <2> QED
      BY <2>4, <2>5, <2>6 DEF EffectsTrue, CommandsSettled
  <1> QED
    BY <1>4, <1>5

\* What the server says of a command.
LEMMA ReceiptSays ==
    ASSUME Types, CommandInv, NEW c \in Commands
    PROVE  /\ Receipt(c) = "admitted" => c \in DOMAIN receipts /\ receipts[c].state = "admitted"
           /\ Receipt(c) = "missing" => c \notin DOMAIN receipts /\ c > adapter.last
           /\ Receipt(c) # "missing" => c <= adapter.last
           /\ Receipt(c) \in {"committed", "rejected"} => outcome[c] = Receipt(c)
           /\ Receipt(c) \in {"admitted", "committed", "rejected", "error", "missing"}
           /\ c \in DOMAIN receipts => Receipt(c) = receipts[c].state
  <1>1. c \in Nat /\ adapter.last \in Nat /\ ReceiptSound(c)
    BY Numbered, AdapterFeedConstants DEF Types, AdapterTypes, CommandInv
  <1>2. c \in DOMAIN receipts => receipts[c] \in Receipts
    BY DEF Types, CommandTypes
  <1>3. c \in DOMAIN receipts => receipts[c].state \in {"admitted", "committed", "rejected"}
    BY <1>2 DEF Receipts
  <1> QED
    BY <1>1, <1>3 DEF Receipt, ReceiptSound

\* The server is asked about the command on disk.
LEMMA QueryCommandKeeps ==
    ASSUME FeedInv, QueryCommand
    PROVE  FeedInv'
  <1> DEFINE answer == Receipt(disk.command.id)
  <1>1. Types /\ ViewInv /\ CommandInv /\ CommandTypes /\ ClientTypes /\ disk \in DiskStates
    BY Parts DEF ClientTypes
  <1>2. disk.command # NoCommand /\ pc = "query"
    BY <1>1 DEF QueryCommand, CommandInv, OnDisk
  <1>3. disk.command.id \in Commands
    BY <1>1, <1>2 DEF DiskStates
  <1>4. CASE answer \in Answers /\ disk' = Accepted(answer) /\ pc' = "idle" /\ UNCHANGED calls
    <2>1. OutcomesKept /\ (answer # "error" => outcome'[disk.command.id] = answer)
      BY <1>1, <1>3, <1>4, ReceiptSays DEF QueryCommand, OutcomesKept, Answers
    <2> HIDE DEF answer
    <2>2. /\ disk' \in DiskStates /\ disk'.last = disk.last
          /\ disk'.cursor = disk.cursor /\ disk'.high = disk.high /\ disk'.view = disk.view
          /\ disk'.applied = disk.applied
          /\ disk' = disk \/ (disk'.command = NoCommand /\ ~disk'.started)
          /\ EffectsTrue' /\ CommandsSettled'
      BY <1>1, <1>2, <1>4, <2>1, AcceptedSound
    <2>3. CommandTypes' /\ ClientTypes'
      BY <1>1, <1>4, <2>2 DEF QueryCommand, facts, CommandTypes, ClientTypes, PCs
    <2>4. ViewInv'
      BY <1>1, <2>2, ViewKept DEF QueryCommand, facts
    <2>5. OnDisk' /\ OneCall' /\ StartedIsKnown'
      BY <1>1, <1>4, <2>2 DEF QueryCommand, CommandInv, OnDisk, OneCall, StartedIsKnown
    <2>6. \A c \in Commands : ReceiptSound(c)'
      BY <1>1 DEF QueryCommand, CommandInv, ReceiptSound
    <2>7. \A k \in calls' : CallSound(k)'
      BY <1>1, <1>2, <1>4, <2>2 DEF QueryCommand, CommandInv, CallSound
    <2>8. CommandInv'
      BY <2>2, <2>5, <2>6, <2>7 DEF CommandInv
    <2> QED
      BY <2>3, <2>4, <2>8, OnlyClient DEF QueryCommand
  <1>5. CASE pc' = "submitted" /\ calls' = calls \cup {Call(disk, "approve")} /\ UNCHANGED disk
    <2>1. Owned(disk')
      BY <1>1, <1>2, <1>5 DEF Owned
    <2> QED
      BY <1>2, <1>5, <2>1, SubmitKeeps DEF QueryCommand
  <1> QED
    BY <1>4, <1>5 DEF QueryCommand, Answers

\* The oldest settled receipt is deleted: of none is it forgotten that it was settled.
LEMMA OthersCommandKeeps ==
    ASSUME FeedInv, OthersCommand
    PROVE  FeedInv'
  <1>1. Types /\ ViewInv /\ CommandInv /\ CommandTypes /\ ClientTypes
    BY Parts
  <1>2. /\ DOMAIN receipts' = DOMAIN receipts \ Oldest
        /\ \A c \in DOMAIN receipts' : receipts'[c] = receipts[c]
        /\ receipts' = [c \in DOMAIN receipts' |-> receipts'[c]]
    BY DEF OthersCommand, Kept
  <1>3. \A c \in Oldest : c \in DOMAIN receipts /\ receipts[c].state # "admitted"
    BY DEF Oldest
  <1>4. CommandTypes' /\ ClientTypes'
    <2>1. \A c \in DOMAIN receipts' : receipts'[c] \in Receipts /\ c \in Commands
      BY <1>1, <1>2 DEF CommandTypes
    <2>2. receipts' \in [DOMAIN receipts' -> Receipts] /\ DOMAIN receipts' \subseteq Commands
      BY <1>2, <2>1
    <2> QED
      BY <1>1, <2>2 DEF OthersCommand, facts, client, CommandTypes, ClientTypes
  <1>5. ViewInv'
    BY <1>1, ViewKept DEF OthersCommand, facts, client
  <1>6. ASSUME NEW c \in Commands
        PROVE  ReceiptSound(c)'
    <2>1. ReceiptSound(c) /\ (c \in DOMAIN receipts => receipts[c].state # "none")
      BY <1>1 DEF CommandInv, CommandTypes, Receipts
    <2> QED
      BY <1>2, <1>3, <2>1 DEF OthersCommand, ReceiptSound
  <1>7. CommandInv'
    BY <1>1, <1>6, SettlingKeeps DEF OthersCommand, OutcomesKept, client
  <1> QED
    BY <1>4, <1>5, <1>7, OnlyClient DEF OthersCommand, client

(***************************************************************************)
(* The server answers a command.                                           *)
(***************************************************************************)
\* A call ends with an answer that is true: whoever waits for it may act on it.
LEMMA AnswerKeeps ==
    ASSUME FeedInv, NEW k \in calls, NEW state \in Answers, Answer(k, state),
           calls' = calls \ {k}, OutcomesKept, \A c \in Commands : ReceiptSound(c)',
           adapter' = adapter,
           state # "error" => outcome'[k.command.id] = state /\ k.command.id <= adapter.last
    PROVE  /\ CommandInv' /\ disk' \in DiskStates /\ pc' \in PCs
           /\ disk'.cursor = disk.cursor /\ disk'.high = disk.high /\ disk'.view = disk.view
           /\ disk'.applied = disk.applied
  <1>1. /\ Types /\ CommandInv /\ k \in Calls /\ CallSound(k) /\ disk \in DiskStates /\ pc \in PCs
        /\ adapter.last \in Nat
    BY Parts, AdapterFeedConstants DEF CommandTypes, CommandInv, ClientTypes, AdapterTypes
  <1>2. CASE k.how = "orphan"
    <2>1. disk' = disk /\ pc' = pc
      BY <1>2 DEF Answer
    <2>2. calls' \subseteq calls
      OBVIOUS
    <2> QED
      BY <1>1, <2>1, <2>2, SettlingKeeps
  <1>3. ASSUME k.how # "orphan", disk' \in DiskStates, disk'.last = disk.last,
               disk'.cursor = disk.cursor, disk'.high = disk.high, disk'.view = disk.view,
               disk'.applied = disk.applied, EffectsTrue', CommandsSettled', StartedIsKnown',
               disk'.command = disk.command \/ (disk'.command = NoCommand /\ ~disk'.started)
        PROVE  /\ CommandInv' /\ disk' \in DiskStates /\ pc' \in PCs
               /\ disk'.cursor = disk.cursor /\ disk'.high = disk.high /\ disk'.view = disk.view
               /\ disk'.applied = disk.applied
    <2>1. pc' = "idle" /\ \A l \in calls' : l \in calls /\ l.how = "orphan"
      BY <1>1, <1>3 DEF Answer, CommandInv, OneCall
    <2>2. disk.command # NoCommand
      <3>1. disk.command = k.command /\ k.command.id # None
        BY <1>1, <1>3, Numbered DEF CallSound, Calls
      <3> QED
        BY <3>1 DEF NoCommand
    <2>3. OnDisk' /\ OneCall'
      BY <1>1, <1>3, <2>1, <2>2 DEF CommandInv, OnDisk, OneCall
    <2>4. \A l \in calls' : CallSound(l)'
      BY <1>1, <1>3, <2>1 DEF CommandInv, CallSound
    <2>5. CommandInv'
      BY <1>3, <2>3, <2>4 DEF CommandInv
    <2> QED
      BY <1>3, <2>1, <2>5 DEF PCs
  <1>4. k.how # "orphan" =>
          /\ disk.command = k.command /\ disk.command # NoCommand /\ disk.command.id \in Commands
    BY <1>1, Numbered DEF CallSound, Calls, NoCommand
  <1>5. CASE k.how = "approve"
    <2>1. disk' = Accepted(state)
      BY <1>5 DEF Answer
    <2>2. state # "error" => outcome'[disk.command.id] = state
      BY <1>4, <1>5
    <2>3. /\ disk' \in DiskStates /\ disk'.last = disk.last
          /\ disk'.cursor = disk.cursor /\ disk'.high = disk.high /\ disk'.view = disk.view
          /\ disk'.applied = disk.applied
          /\ disk' = disk \/ (disk'.command = NoCommand /\ ~disk'.started)
          /\ EffectsTrue' /\ CommandsSettled'
      BY <1>1, <1>4, <1>5, <2>1, <2>2, AcceptedSound
    <2>4. StartedIsKnown'
      BY <1>1, <2>3 DEF CommandInv, StartedIsKnown
    <2> QED
      BY <1>3, <1>5, <2>3, <2>4
  <1>6. CASE k.how = "drop"
    <2>1. disk' = [disk EXCEPT !.started = @ \/ state # "error"]
      BY <1>6 DEF Answer, Started
    <2>2. /\ disk' \in DiskStates /\ disk'.last = disk.last /\ disk'.command = disk.command
          /\ disk'.cursor = disk.cursor /\ disk'.high = disk.high /\ disk'.view = disk.view
          /\ disk'.applied = disk.applied /\ disk'.effects = disk.effects
          /\ disk'.started = (disk.started \/ state # "error")
      BY <1>1, <2>1 DEF DiskStates
    <2>3. StartedIsKnown'
      <3>1. state # "error" => disk.command.id \in 1 .. adapter.last
        <4>1. disk.command = k.command /\ disk.command.id \in Nat /\ disk.command.id # 0
          BY <1>4, <1>6, Numbered
        <4>2. state # "error" => disk.command.id <= adapter.last
          BY <4>1
        <4> QED
          BY <1>1, <4>1, <4>2
      <3> QED
        BY <1>1, <2>2, <3>1 DEF CommandInv, StartedIsKnown
    <2>4. EffectsTrue' /\ CommandsSettled'
      <3>1. /\ disk.last \in 0 .. MaxCommands /\ disk.effects \subseteq Commands
            /\ \A c \in 1 .. disk.last : c \in Commands
        BY <1>1, AdapterFeedConstants DEF DiskStates, Commands
      <3> QED
        BY <1>1, <2>2, <3>1 DEF CommandInv, EffectsTrue, CommandsSettled, OutcomesKept
    <2> QED
      BY <1>3, <1>6, <2>2, <2>3, <2>4
  <1> QED
    BY <1>1, <1>2, <1>5, <1>6 DEF Calls

\* An admitted command goes on to be executed.
LEMMA CallMoves ==
    ASSUME FeedInv, NEW k \in calls, UNCHANGED <<disk, pc>>, adapter'.last \in Nat,
           calls' = (calls \ {k}) \cup {[k EXCEPT !.stage = "execute"]},
           k.command.id <= adapter'.last, adapter.last <= adapter'.last
    PROVE  calls' \subseteq Calls /\ OneCall' /\ \A l \in calls' : CallSound(l)'
  <1> DEFINE m == [k EXCEPT !.stage = "execute"]
  <1>1. /\ calls \subseteq Calls /\ OneCall /\ \A l \in calls : CallSound(l)
        /\ adapter.last \in Nat
    BY Parts, AdapterFeedConstants DEF CommandTypes, CommandInv, AdapterTypes
  <1>2. m \in Calls /\ m.command = k.command /\ m.how = k.how /\ m.stage = "execute"
    BY <1>1 DEF Calls
  <1>3. calls' = (calls \ {k}) \cup {m}
    OBVIOUS
  <1> HIDE DEF m
  <1>4. calls' \subseteq Calls
    BY <1>1, <1>2, <1>3
  <1>5. OneCall'
    BY <1>1, <1>2, <1>3 DEF OneCall
  <1>6. CallSound(m)'
    BY <1>1, <1>2 DEF CallSound
  <1>7. ASSUME NEW l \in calls
        PROVE  CallSound(l)'
    <2>1. CallSound(l) /\ l.command.id \in Nat
      BY <1>1, Numbered DEF Calls
    <2> QED
      BY <1>1, <2>1 DEF CallSound
  <1> QED
    BY <1>3, <1>4, <1>5, <1>6, <1>7

\* A command that is not known is admitted: the ones before it have been settled.
LEMMA FreshAdmitted ==
    ASSUME FeedInv, NEW k \in calls, NEW evicted \in {{}, Oldest},
           Receipt(k.command.id) = "missing",
           receipts' = [d \in {k.command.id} \cup (DOMAIN receipts \ evicted) |->
               IF d = k.command.id
               THEN [enrollment |-> k.command.enrollment, state |-> "admitted"]
               ELSE receipts[d]],
           adapter' = [adapter EXCEPT !.last = k.command.id],
           calls' = (calls \ {k}) \cup {[k EXCEPT !.stage = "execute"]},
           UNCHANGED <<scene, facts, doorbell, outcome, disk, pc, credential>>
    PROVE  FeedInv'
  <1> DEFINE c == k.command.id
  <1>1. /\ Types /\ BellInv /\ ViewInv /\ CommandInv /\ CommandTypes /\ ClientTypes /\ AdapterTypes
        /\ disk \in DiskStates /\ adapter.last \in Nat /\ disk.last \in Nat
    BY Parts, AdapterFeedConstants DEF ClientTypes, AdapterTypes, DiskStates
  <1>2. /\ k \in Calls /\ CallSound(k) /\ c \in Commands /\ c \in Nat
        /\ c \in 0 .. MaxCommands /\ c # 0
        /\ k.command.enrollment \in Enrollments
    BY <1>1, Numbered, AdapterFeedConstants DEF CommandTypes, CommandInv, Calls, Commands
  <1>3. c \notin DOMAIN receipts /\ c > adapter.last /\ c <= disk.last
    BY <1>1, <1>2, ReceiptSays DEF CallSound
  <1>4. /\ adapter'.last = c /\ adapter'.active = adapter.active
        /\ adapter'.generation = adapter.generation /\ AdapterTypes'
    BY <1>1, <1>2 DEF AdapterTypes
  <1>5. /\ DOMAIN receipts' = {c} \cup (DOMAIN receipts \ evicted)
        /\ receipts'[c].state = "admitted"
        /\ \A d \in DOMAIN receipts' : d # c => receipts'[d] = receipts[d]
        /\ receipts' = [d \in DOMAIN receipts' |-> receipts'[d]]
    OBVIOUS
  <1>6. receipts'[c] \in Receipts
    <2>1. receipts'[c] = [enrollment |-> k.command.enrollment, state |-> "admitted"]
      OBVIOUS
    <2> QED
      BY <1>2, <2>1 DEF Receipts
  <1>7. \A d \in evicted : d \in DOMAIN receipts /\ receipts[d].state # "admitted"
    BY DEF Oldest
  <1>8. calls' \subseteq Calls /\ OneCall' /\ \A l \in calls' : CallSound(l)'
    <2>1. /\ UNCHANGED <<disk, pc>> /\ adapter'.last \in Nat /\ k.command.id <= adapter'.last
          /\ adapter.last <= adapter'.last
      BY <1>1, <1>2, <1>3, <1>4
    <2> QED
      BY <2>1, CallMoves
  <1> HIDE DEF c
  <1>9. ASSUME NEW d \in Commands, adapter.last < d, d < c
        PROVE  FALSE
    <2>1. d \in Nat /\ d # None
      BY Numbered
    <2>2. outcome[d] = "none"
      BY <1>1, <1>9, <2>1 DEF CommandInv, ReceiptSound
    <2>3. d \in 1 .. disk.last
      BY <1>1, <1>2, <1>3, <1>9, <2>1 DEF None
    <2>4. d # disk.command.id
      <3>1. disk.command.id = disk.last \/ disk.command.id = None
        BY <1>1 DEF CommandInv, OnDisk, NoCommand
      <3> QED
        BY <1>1, <1>2, <1>3, <1>9, <2>1, <3>1
    <2> QED
      BY <1>1, <2>2, <2>3, <2>4 DEF CommandInv, CommandsSettled
  <1>10. ASSUME NEW d \in Commands
         PROVE  ReceiptSound(d)'
    <2>1. ReceiptSound(d) /\ d \in Nat
      BY <1>1, Numbered DEF CommandInv
    <2>2. CASE d = c
      <3>1. outcome[c] = "none"
        BY <1>2, <1>3, <2>1, <2>2 DEF ReceiptSound
      <3> QED
        BY <1>2, <1>4, <1>5, <2>2, <3>1 DEF ReceiptSound
    <2>3. CASE d # c /\ d \in DOMAIN receipts'
      <3>1. d \in DOMAIN receipts /\ receipts'[d] = receipts[d]
        BY <1>5, <2>3
      <3>2. d <= c
        BY <1>1, <1>2, <1>3, <2>1, <3>1 DEF ReceiptSound
      <3> QED
        BY <1>2, <1>4, <2>1, <2>3, <3>1, <3>2 DEF ReceiptSound
    <2>4. CASE d # c /\ d \notin DOMAIN receipts' /\ d <= adapter.last
      <3>1. outcome[d] # "none"
        <4>1. CASE d \in DOMAIN receipts
          <5>1. d \in evicted
            BY <1>5, <2>4, <4>1
          <5>2. receipts[d].state \notin {"none", "admitted"}
            BY <1>1, <1>7, <4>1, <5>1 DEF CommandTypes, Receipts
          <5> QED
            BY <2>1, <4>1, <5>2 DEF ReceiptSound
        <4>2. CASE d \notin DOMAIN receipts
          BY <2>1, <2>4, <4>2 DEF ReceiptSound
        <4> QED
          BY <4>1, <4>2
      <3>2. d <= c
        BY <1>1, <1>2, <1>3, <2>1, <2>4
      <3> QED
        BY <1>2, <1>4, <2>1, <2>4, <3>1, <3>2 DEF ReceiptSound
    <2>5. CASE d # c /\ d \notin DOMAIN receipts' /\ d > adapter.last
      <3>1. d > c
        BY <1>1, <1>2, <1>9, <2>1, <2>5
      <3>2. outcome[d] = "none"
        BY <2>1, <2>5 DEF ReceiptSound
      <3> QED
        BY <1>2, <1>4, <2>1, <2>5, <3>1, <3>2 DEF ReceiptSound
    <2> QED
      BY <1>1, <2>1, <2>2, <2>3, <2>4, <2>5
  <1>11. CommandTypes'
    <2>1. \A d \in DOMAIN receipts' : receipts'[d] \in Receipts /\ d \in Commands
      BY <1>1, <1>2, <1>5, <1>6 DEF CommandTypes, c
    <2>2. receipts' \in [DOMAIN receipts' -> Receipts] /\ DOMAIN receipts' \subseteq Commands
      BY <1>5, <2>1
    <2> QED
      BY <1>1, <1>8, <2>2 DEF CommandTypes
  <1>12. FactTypes' /\ BellTypes' /\ ClientTypes'
    BY Parts DEF facts, doorbell, FactTypes, BellTypes, ClientTypes
  <1>13. BellInv'
    BY <1>1, <1>4, BellKept DEF facts, doorbell
  <1>14. ViewInv'
    BY <1>1, ViewKept DEF facts
  <1>15. OnDisk' /\ EffectsTrue' /\ CommandsSettled'
    BY <1>1, <1>3, <1>4 DEF CommandInv, OnDisk, EffectsTrue, CommandsSettled
  <1>16. StartedIsKnown'
    <2>1. disk.started => disk.command.id \in 1 .. adapter.last
      BY <1>1 DEF CommandInv, StartedIsKnown
    <2>2. \A d \in 1 .. adapter.last : d \in 1 .. c
      BY <1>1, <1>2, <1>3
    <2> QED
      BY <1>4, <2>1, <2>2 DEF StartedIsKnown
  <1>17. CommandInv'
    BY <1>8, <1>10, <1>15, <1>16 DEF CommandInv
  <1> QED
    BY <1>4, <1>11, <1>12, <1>13, <1>14, <1>17 DEF FeedInv, Types

\* A command is refused, answered from its receipt, or admitted.
LEMMA AdmitCommandKeeps ==
    ASSUME FeedInv, NEW k \in calls, AdmitCommand(k)
    PROVE  FeedInv'
  <1> DEFINE c == k.command.id
  <1>1. /\ Types /\ ViewInv /\ CommandInv /\ CommandTypes /\ ClientTypes /\ adapter.last \in Nat
        /\ c \in Commands /\ k \in Calls
    BY Parts, AdapterFeedConstants DEF CommandTypes, Calls, AdapterTypes
  <1>2. UNCHANGED <<scene, facts, doorbell, outcome, credential>>
    BY DEF AdmitCommand
  <1>3. ASSUME NEW state \in Answers, calls' = calls \ {k}, Answer(k, state),
               UNCHANGED <<adapter, receipts>>,
               state # "error" => outcome[c] = state /\ c <= adapter.last
        PROVE  FeedInv'
    <2>1. OutcomesKept /\ \A d \in Commands : ReceiptSound(d)'
      BY <1>1, <1>2, <1>3 DEF OutcomesKept, CommandInv, ReceiptSound
    <2>2. /\ CommandInv' /\ disk' \in DiskStates /\ pc' \in PCs
          /\ disk'.cursor = disk.cursor /\ disk'.high = disk.high /\ disk'.view = disk.view
          /\ disk'.applied = disk.applied
      BY <1>2, <1>3, <2>1, AnswerKeeps
    <2>3. CommandTypes'
      BY <1>1, <1>2, <1>3 DEF CommandTypes
    <2>4. ClientTypes'
      BY <1>1, <1>2, <2>2 DEF ClientTypes, facts
    <2>5. ViewInv'
      BY <1>1, <1>2, <2>2, ViewKept DEF facts
    <2> QED
      BY <1>2, <1>3, <2>2, <2>3, <2>4, <2>5, OnlyClient
  <1>4. CASE /\ c \in DOMAIN receipts /\ receipts[c].state # "admitted" /\ calls' = calls \ {k}
             /\ Answer(k, receipts[c].state) /\ UNCHANGED <<adapter, receipts>>
    <2>1. /\ receipts[c].state \in Answers /\ outcome[c] = receipts[c].state /\ c <= adapter.last
      <3>1. Receipt(c) = receipts[c].state
        BY <1>1, <1>4, ReceiptSays
      <3>2. Receipt(c) \in {"committed", "rejected"}
        BY <1>1, <1>4, <3>1 DEF CommandTypes, Receipts
      <3>3. outcome[c] = Receipt(c) /\ c <= adapter.last
        BY <1>1, <3>2, ReceiptSays
      <3> QED
        BY <3>1, <3>2, <3>3 DEF Answers
    <2> HIDE DEF c
    <2> QED
      BY <1>3, <1>4, <2>1
  <1>5. CASE /\ c \in DOMAIN receipts /\ receipts[c].state = "admitted"
             /\ calls' = (calls \ {k}) \cup {[k EXCEPT !.stage = "execute"]}
             /\ UNCHANGED <<adapter, receipts, disk, pc>>
    <2>1. c <= adapter.last
      BY <1>1, <1>5, ReceiptSays
    <2>2. calls' \subseteq Calls /\ OneCall' /\ \A l \in calls' : CallSound(l)'
      BY <1>1, <1>5, <2>1, CallMoves
    <2>3. CommandTypes' /\ ClientTypes'
      BY <1>1, <1>2, <1>5, <2>2 DEF CommandTypes, ClientTypes, facts
    <2>4. ViewInv'
      BY <1>1, <1>2, <1>5, ViewKept DEF facts
    <2>5. OnDisk' /\ EffectsTrue' /\ CommandsSettled' /\ StartedIsKnown'
      BY <1>1, <1>2, <1>5 DEF CommandInv, OnDisk, EffectsTrue, CommandsSettled, StartedIsKnown
    <2>6. \A d \in Commands : ReceiptSound(d)'
      BY <1>1, <1>2, <1>5 DEF CommandInv, ReceiptSound
    <2>7. CommandInv'
      BY <2>2, <2>5, <2>6 DEF CommandInv
    <2> QED
      BY <1>2, <1>5, <2>3, <2>4, <2>7, OnlyClient
  <1>6. ASSUME Receipt(c) = "missing", NEW evicted \in {{}, Oldest},
               receipts' = [d \in {c} \cup (DOMAIN receipts \ evicted) |->
                   IF d = c THEN [enrollment |-> k.command.enrollment, state |-> "admitted"]
                            ELSE receipts[d]],
               adapter' = [adapter EXCEPT !.last = c],
               calls' = (calls \ {k}) \cup {[k EXCEPT !.stage = "execute"]},
               UNCHANGED <<disk, pc>>
        PROVE  FeedInv'
    BY <1>2, <1>6, FreshAdmitted
  <1>7. CASE calls' = calls \ {k} /\ Answer(k, "error") /\ UNCHANGED <<adapter, receipts>>
    BY <1>3, <1>7 DEF Answers
  <1> QED
    BY <1>4, <1>5, <1>6, <1>7 DEF AdmitCommand

\* A command is executed: its enrollment is approved, or it is rejected.
LEMMA ExecuteCommandKeeps ==
    ASSUME FeedInv, NEW k \in calls, ExecuteCommand(k)
    PROVE  FeedInv'
  <1> DEFINE c == k.command.id
             e == k.command.enrollment
  <1>1. /\ Types /\ BellInv /\ ViewInv /\ CommandInv /\ CommandTypes /\ ClientTypes
        /\ adapter.last \in Nat /\ c \in Commands /\ c \in Nat /\ k \in Calls
        /\ log \in Seq(Facts) /\ owed \in Nat
    BY Parts, Numbered, AdapterFeedConstants DEF CommandTypes, Calls, AdapterTypes, FactTypes
  <1>2. c <= adapter.last
    BY <1>1 DEF ExecuteCommand, CommandInv, CallSound
  <1>3. /\ UNCHANGED <<scene, floor, doorbell, adapter, credential>> /\ calls' = calls \ {k}
        /\ adapter' = adapter
    BY DEF ExecuteCommand
  <1>4. CASE /\ Receipt(c) = "admitted" /\ e \in pend /\ Commit("approved", e)
             /\ pend' = pend \ {e} /\ Settled(e, c) /\ Answer(k, "committed")
    <2> DEFINE f == Fact("approved", e)
    <2>1. /\ f \in Facts /\ f.kind # "admitted" /\ f.enrollment = e
          /\ \A i \in 1 .. Len(log) : log[i] # f
          /\ \E j \in 1 .. Len(log) : log[j] = Fact("admitted", e)
      BY <1>1, <1>4, PendingFacts DEF Fact
    <2>2. log' = Append(log, f) /\ owed' \in Nat
      BY <1>1, <1>4 DEF Commit
    <2> HIDE DEF f, c, e
    <2>3. /\ DOMAIN receipts' = DOMAIN receipts /\ receipts' \in [DOMAIN receipts -> Receipts]
          /\ outcome' \in [Commands -> {"none", "committed", "rejected"}]
          /\ OutcomesKept /\ \A d \in Commands : ReceiptSound(d)'
          /\ outcome'[c] = "committed"
      <3>1. c \in DOMAIN receipts /\ receipts[c].state = "admitted" /\ c # None
        BY <1>1, <1>4, ReceiptSays, Numbered
      <3> QED
        BY <1>1, <1>3, <1>4, <3>1, SettledSettles
    <2>4. /\ CommandInv' /\ disk' \in DiskStates /\ pc' \in PCs
          /\ disk'.cursor = disk.cursor /\ disk'.high = disk.high /\ disk'.view = disk.view
          /\ disk'.applied = disk.applied
      BY <1>2, <1>3, <1>4, <2>3, AnswerKeeps DEF Answers, c
    <2>5. FactTypes'
      BY <1>1, <1>3, <1>4, <2>1, <2>2, CommitTyped, Parts DEF FactTypes
    <2>6. CommandTypes'
      BY <1>1, <1>3, <2>3 DEF CommandTypes
    <2>7. ClientTypes'
      BY <1>1, <2>1, <2>2, <2>4, CommitTyped DEF ClientTypes
    <2>8. BellTypes' /\ AdapterTypes'
      BY <1>3, Parts DEF doorbell, BellTypes, AdapterTypes
    <2>9. BellInv'
      BY <1>1, <1>3, <1>4, BellCommitted DEF doorbell
    <2>10. ViewInv'
      BY <1>1, <1>4, <2>1, <2>2, <2>4, ViewGrows
    <2> QED
      BY <2>4, <2>5, <2>6, <2>7, <2>8, <2>9, <2>10 DEF FeedInv, Types
  <1>5. ASSUME NEW state \in Answers, Answer(k, state), UNCHANGED <<log, owed, pend>>,
               CommandTypes', OutcomesKept, \A d \in Commands : ReceiptSound(d)',
               state # "error" => outcome'[c] = state
        PROVE  FeedInv'
    <2>1. /\ CommandInv' /\ disk' \in DiskStates /\ pc' \in PCs
          /\ disk'.cursor = disk.cursor /\ disk'.high = disk.high /\ disk'.view = disk.view
          /\ disk'.applied = disk.applied
      BY <1>2, <1>3, <1>5, AnswerKeeps
    <2>2. ClientTypes'
      BY <1>1, <1>5, <2>1 DEF ClientTypes
    <2>3. ViewInv'
      BY <1>1, <1>5, <2>1, ViewKept
    <2> QED
      BY <1>3, <1>5, <2>1, <2>2, <2>3, OnlyClient DEF facts
  <1>6. CASE /\ Receipt(c) = "admitted" /\ receipts' = [receipts EXCEPT ![c].state = "rejected"]
             /\ outcome' = [outcome EXCEPT ![c] = "rejected"]
             /\ Answer(k, "rejected") /\ UNCHANGED <<log, owed, pend>>
    <2>1. c \in DOMAIN receipts /\ receipts[c].state = "admitted" /\ receipts[c] \in Receipts
      BY <1>1, <1>6, ReceiptSays DEF CommandTypes
    <2>2. outcome[c] = "none"
      BY <1>1, <2>1 DEF CommandInv, ReceiptSound
    <2> HIDE DEF c
    <2>3. /\ DOMAIN receipts' = DOMAIN receipts
          /\ \A d \in DOMAIN receipts : d # c => receipts'[d] = receipts[d]
          /\ receipts'[c].state = "rejected" /\ receipts' \in [DOMAIN receipts -> Receipts]
      BY <1>1, <1>6, <2>1 DEF CommandTypes, Receipts
    <2>4. /\ outcome' \in [Commands -> {"none", "committed", "rejected"}]
          /\ outcome'[c] = "rejected" /\ \A d \in Commands : d # c => outcome'[d] = outcome[d]
      BY <1>1, <1>6 DEF CommandTypes
    <2>5. CommandTypes'
      BY <1>1, <1>3, <2>3, <2>4 DEF CommandTypes
    <2>6. OutcomesKept
      BY <2>2, <2>4 DEF OutcomesKept
    <2>7. ASSUME NEW d \in Commands
          PROVE  ReceiptSound(d)'
      <3>1. ReceiptSound(d)
        BY <1>1 DEF CommandInv
      <3>2. CASE d = c
        BY <1>1, <1>2, <1>3, <2>1, <2>3, <2>4, <3>2 DEF ReceiptSound
      <3>3. CASE d # c
        BY <1>3, <2>3, <2>4, <3>1, <3>3 DEF ReceiptSound
      <3> QED
        BY <3>2, <3>3
    <2> QED
      BY <1>5, <1>6, <2>4, <2>5, <2>6, <2>7 DEF Answers
  <1>7. CASE /\ Receipt(c) # "admitted" /\ Answer(k, Receipt(c))
             /\ UNCHANGED <<log, owed, pend, receipts, outcome>>
    <2>1. Receipt(c) \in Answers /\ (Receipt(c) # "error" => outcome[c] = Receipt(c))
      BY <1>1, <1>2, <1>7, ReceiptSays DEF Answers
    <2>2. CommandTypes' /\ OutcomesKept /\ \A d \in Commands : ReceiptSound(d)'
      BY <1>1, <1>3, <1>7 DEF CommandTypes, OutcomesKept, CommandInv, ReceiptSound
    <2> HIDE DEF c
    <2> QED
      BY <1>5, <1>7, <2>1, <2>2
  <1> QED
    BY <1>4, <1>6, <1>7 DEF ExecuteCommand

(***************************************************************************)
(* The theorems.                                                           *)
(***************************************************************************)
\* The initial states are sound: an empty log, no stream and no command.
LEMMA InitSound ==
    Init => FeedInv
  <1> SUFFICES ASSUME Init
               PROVE  FeedInv
    OBVIOUS
  <1>1. NotificationCapacity \in Nat /\ MaxCommands \in Nat
    BY AdapterFeedConstants
  <1>2. log \in Seq(Facts) /\ Len(log) = 0 /\ log = <<>>
    BY DEF Init
  <1>3. FactTypes
    BY <1>2 DEF Init, FactTypes
  <1>4. BellTypes
    <2>1. NoStream \in StreamStates
      BY DEF NoStream, StreamStates
    <2>2. bells \in 0 .. NotificationCapacity
      BY <1>1 DEF Init
    <2> QED
      BY <2>1, <2>2 DEF Init, BellTypes
  <1>5. AdapterTypes
    BY <1>1 DEF Init, AdapterTypes
  <1>6. CommandTypes
    BY DEF Init, CommandTypes
  <1>7. disk = EmptyState /\ EmptyState \in DiskStates /\ EmptyState.cursor = 0 /\ EmptyState.high = 0
        /\ EmptyState.view = {} /\ EmptyState.applied = {} /\ EmptyState.last = 0
        /\ EmptyState.command = NoCommand /\ EmptyState.started = FALSE /\ EmptyState.effects = {}
    BY <1>1 DEF Init, EmptyState, DiskStates
  <1>8. ClientTypes
    BY <1>2, <1>7 DEF Init, ClientTypes, PCs
  <1>9. BellInv
    <2>1. \A s \in Streams : streams[s].state = "none" /\ s # subscriber
      BY Numbered DEF Init, NoStream
    <2> QED
      BY <2>1 DEF BellInv, StreamSound, Heard, MarkedBy, Served
  <1>10. ViewInv
    <2>1. PendingIn(log, 0) = {}
      BY DEF PendingIn
    <2> QED
      BY <1>2, <1>7, <2>1 DEF Init, ViewInv, SoundLog, AppliedSeen
  <1>11. OnDisk /\ OneCall /\ EffectsTrue /\ CommandsSettled /\ StartedIsKnown
    BY <1>7 DEF Init, OnDisk, OneCall, EffectsTrue, CommandsSettled, StartedIsKnown
  <1>12. \A c \in Commands : ReceiptSound(c)
    <2>1. DOMAIN receipts = {} /\ adapter.last = 0
      BY DEF Init
    <2> QED
      BY <2>1, Numbered DEF Init, ReceiptSound
  <1>13. CommandInv
    BY <1>11, <1>12 DEF Init, CommandInv
  <1> QED
    BY <1>3, <1>4, <1>5, <1>6, <1>8, <1>9, <1>10, <1>13 DEF FeedInv, Types

\* A step that changes nothing.
LEMMA StutterKeeps ==
    ASSUME FeedInv, UNCHANGED vars
    PROVE  FeedInv'
  <1>1. CommandTypes' /\ ClientTypes'
    BY Parts DEF vars, facts, commands, client, CommandTypes, ClientTypes
  <1>2. ViewInv'
    BY Parts, ViewKept DEF vars, facts, client
  <1>3. CommandInv'
    BY Parts, CommandKept DEF vars, commands, client
  <1> QED
    BY <1>1, <1>2, <1>3, OnlyClient DEF vars

\* Every step keeps the invariant.
LEMMA NextKeeps ==
    FeedInv /\ [Next]_vars => FeedInv'
  <1> SUFFICES ASSUME FeedInv, [Next]_vars
               PROVE  FeedInv'
    OBVIOUS
  <1>1. CASE Server
    <2>1. ASSUME NEW e \in scene.enrollments, Expire(e)
          PROVE  FeedInv'
      BY <2>1, SettleKeeps DEF Expire
    <2>2. ASSUME NEW e \in scene.enrollments, ApproveElsewhere(e)
          PROVE  FeedInv'
      BY <2>2, SettleKeeps DEF ApproveElsewhere
    <2> QED
      BY <1>1, <2>1, <2>2, AdmitKeeps, RevokeKeeps, RestartServerKeeps DEF Server
  <1>2. CASE Doorbell
    <2>1. ASSUME NEW s \in Streams, EndStream(s)
          PROVE  FeedInv'
      BY <1>2, <2>1, EndsMoves DEF Doorbell, EndStream
    <2> QED
      BY <1>2, <2>1, NotifyKeeps, FanoutKeeps, StopBrokerKeeps, SubscribeBellKeeps,
         HearRingKeeps, WriteMarkerKeeps, ReadMarkerKeeps, AdministrationKeeps DEF Doorbell
  <1>3. CASE Sync
    BY <1>3, StartSyncKeeps, SyncPageKeeps, FinishSyncKeeps, RebuildKeeps, AbandonKeeps DEF Sync
  <1>4. CASE Approval
    BY <1>4, StartApproveKeeps, StartDropKeeps, QueryCommandKeeps, AbandonKeeps,
       OthersCommandKeeps, AdmitCommandKeeps, ExecuteCommandKeeps DEF Approval
  <1>5. CASE UNCHANGED vars
    BY <1>5, StutterKeeps
  <1> QED
    BY <1>1, <1>2, <1>3, <1>4, <1>5 DEF Next

\* The log, the doorbell, the adapter's disk and the commands of the server and
\* of the adapter are sound in every reachable state.
THEOREM FeedInvariant == Spec => []FeedInv
  <1>1. Init => FeedInv
    BY InitSound
  <1>2. FeedInv /\ [Next]_vars => FeedInv'
    BY NextKeeps
  <1> QED
    BY <1>1, <1>2, PTL DEF Spec

\* What the adapter holds on disk is what was pending at its cursor, whatever
\* pages, snapshots, prunings, crashes and lost answers there were (main.go
\* syncFacts, facts.go replayFactsRead and currentPendingSnapshotRead).
THEOREM ViewIsTrue == Spec => []ViewTrue
  <1>1. FeedInv => ViewTrue
    BY DEF FeedInv, ViewInv, ViewTrue, PendingAt, PendingIn
  <1> QED
    BY <1>1, FeedInvariant, PTL

\* No fact goes unheard on a stream that the server keeps open, and no marker is
\* written with a credential that was rotated or deactivated before (broker.go
\* fanout, api.go doorbell, adapters.go AuthorizeAdapterMarker).
THEOREM BellIsSound == Spec => []BellSound
  <1>1. FeedInv => TypeOK
    <2> SUFFICES ASSUME FeedInv
                 PROVE  TypeOK
      OBVIOUS
    <2>1. /\ floor \in 0 .. Len(log) /\ pend \subseteq Enrollments /\ Len(log) \in Nat
          /\ bells \in 0 .. NotificationCapacity /\ subscriber \in Streams \cup {None}
          /\ DOMAIN receipts \subseteq Commands
      BY Parts DEF FactTypes, BellTypes, CommandTypes
    <2>2. \A s \in Streams : streams[s].state \in {"none", "open", "writing", "ended"}
      BY Parts DEF BellTypes, StreamStates
    <2>3. /\ disk.cursor \in Nat /\ disk.high \in Nat /\ disk.last \in 0 .. MaxCommands
          /\ disk.cursor <= Len(log) /\ pc \in PCs
          /\ disk.high # 0 => disk.cursor <= disk.high /\ disk.high <= Len(log)
      BY Parts DEF ClientTypes, DiskStates
    <2> QED
      BY <2>1, <2>2, <2>3 DEF TypeOK, PCs
  <1>2. FeedInv => NoLostBell /\ MarkerAuthorized
    BY DEF FeedInv, BellInv, Heard, Served, MarkedBy, NoLostBell, MarkerAuthorized
  <1>3. FeedInv => BellSound
    BY <1>1, <1>2 DEF BellSound
  <1> QED
    BY <1>3, FeedInvariant, PTL

\* The adapter and the server agree on every command that was ever numbered,
\* whatever answers were lost and receipts evicted (main.go approve and
\* approveDrop, adapters.go AdmitApprovalCommand and ApproveAdapterCommand).
THEOREM CommandsAreAgreed == Spec => []CommandsAgreed
  <1>1. FeedInv => CommandsAgreed
    BY DEF FeedInv, CommandInv, CommandsAgreed
  <1> QED
    BY <1>1, FeedInvariant, PTL

==============================================================================

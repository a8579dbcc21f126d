------------------------ MODULE ContextManagerProofs ------------------------
(***************************************************************************)
(* Proofs about ContextManager: what was stopped stays quiet, the          *)
(* configuration stays as operations and transfers found it, keys outlive  *)
(* their row, a refused invite was not redeemed, and an ended membership   *)
(* stays ended.                                                            *)
(*                                                                         *)
(* The inductive invariant Inv relates the row to the call that holds      *)
(* Manager.lifecycle (CallInv: what the call has found stays so until it   *)
(* ends), to the goroutines (WorkerInv: a worker of a context that is      *)
(* disabled or at its end is canceled or only finds that out), and to the  *)
(* operations (OpInv: the counters count them, and what may leave a        *)
(* transfer behind runs on the row there is).                              *)
(***************************************************************************)
EXTENDS ContextManager, FiniteSetTheorems, TLAPS

ServerStates == {"none", "pending", "enrolled"} \cup Terminal

Rows ==
    [exists : BOOLEAN, device : Devices \cup {None}, credential : BOOLEAN, state : States,
     enabled : BOOLEAN, revision : [Roots -> Nat]]

WorkerPcs ==
    {"none", "read", "exit", "expire", "no credential", "poll", "polled", "dial", "connected",
     "serve", "lost", "revoked"}

JoinPcs ==
    {"enroll", "redeem", "redeem again", "check refused", "check lost", "check last", "commit"}

CallPcs ==
    {"idle", "restart", "stop worker", "drain", "halt", "delete", "delete keys"} \cup JoinPcs

Goroutines ==
    [pc : WorkerPcs, canceled : BOOLEAN, saw : ServerStates,
     device : Devices \cup {None}]

Operations ==
    [kind : Kinds \cup {"none"}, device : Devices \cup {None}, revision : [Roots -> Nat]]

Counters == {"total", "offered", "inbox", "put"}

RowType == row \in Rows

DiskType ==
    /\ placed \in Devices \cup {None}
    /\ staged \subseteq Devices
    /\ evidence \subseteq [root : {"offered", "put", "sent"}, revision : Nat, device : Devices]

ServerType ==
    /\ server \in [Devices -> ServerStates]
    /\ invite \in {"open", "gone"} \cup Devices

WorkerType ==
    /\ runtime \in {"down", "started", "active", "stopping"}
    /\ queued \in BOOLEAN
    /\ worker \in [Workers -> Goroutines]
    /\ entry \in Workers \cup {None}
    /\ control \in Workers \cup {None}
    /\ overtaken \in BOOLEAN

CallType ==
    call \in [pc : CallPcs, saw : Rows, worker : Workers \cup {None}, keys : Devices \cup {None},
              change : SUBSET Roots, reply : {"none", "pending", "enrolled"}]

OpType ==
    /\ op \in [Ops -> Operations]
    /\ active \in [Counters -> Nat]

Types == RowType /\ DiskType /\ ServerType /\ WorkerType /\ CallType /\ OpType

\* Nothing is left of a row that was removed.
RowOrNone == row = NoRow \/ (row.exists /\ row.device \in Devices)

\* A device whose row there is, or was while an operation ran, has been known to
\* the server: no fresh identity is the same.
RowIsKnown == row.exists => server[row.device] # "none"

RedeemedIsKnown == invite \in Devices => server[invite] \in {"enrolled", "revoked"}

\* A reply on its way to the row is from a server that knows the device.
ReplyIsKnown == call.pc = "commit" => server[placed] # "none" /\ call.reply # "none"

\* What a call has found and may rely on: nobody else changes it.
JoinHasKeys ==
    call.pc \in JoinPcs => placed \in Devices /\ (row.exists => row.device = placed)

RestartSaw == call.pc \in {"restart", "halt"} => row.exists /\ call.saw.enabled = row.enabled

StoppingIsDisabled ==
    /\ call.pc \in {"stop worker", "drain", "delete"} => row.exists /\ ~row.enabled
    /\ call.pc \in {"stop worker", "drain"} => ~overtaken

\* No worker is started while Remove waits, unless Activate does it.
RemovalIsAlone == call.pc = "halt" /\ ~overtaken => entry = None

DeleteIsQuiet ==
    call.pc = "delete" => placed = None /\ \A o \in Ops : op[o].kind \in {"none", "resolve"}

DeletedHasNoRow == call.pc = "delete keys" => ~row.exists

\* An answer stands while no call is under way.
AnswerIsLast ==
    /\ answer \in {"disabled", "refused"} => call.pc = "idle"
    /\ answer = "disabled" => row.exists /\ ~row.enabled /\ ~overtaken

CallInv ==
    /\ JoinHasKeys
    /\ ReplyIsKnown
    /\ RestartSaw
    /\ StoppingIsDisabled
    /\ RemovalIsAlone
    /\ DeleteIsQuiet
    /\ DeletedHasNoRow
    /\ AnswerIsLast

\* Before Activate there is no worker; without a process there is nothing.
BeforeActivate ==
    /\ runtime \in {"down", "started"} =>
          entry = None /\ \A w \in Workers : worker[w].pc = "none"
    /\ runtime = "down" => call = NoCall /\ \A o \in Ops : op[o] = NoOp

\* The goroutine of a context that was disabled or whose membership has ended
\* only finds that out; one that overtook the removal is not told.
Halts(w) == worker[w].canceled \/ worker[w].pc \in {"none", "read", "exit"}

HaltedWorkers ==
    row.exists /\ ((~row.enabled /\ ~overtaken) \/ row.state \in Terminal) =>
        \A w \in Workers : Halts(w)

\* The operations behind a counter of activeOperations.
Counts(x) == {o \in Ops : op[o].kind # "none" /\ (x = "total" \/ x \in Scope[op[o].kind])}

ActiveCounts == \A x \in Counters : active[x] = Cardinality(Counts(x))

OpOrNone == \A o \in Ops : op[o] = NoOp \/ (op[o].kind # "none" /\ op[o].device \in Devices)

\* An operation that may leave a row behind runs on the row there is; a
\* resolution may outlive its row, but never meets another with its device.
OpsOnRow ==
    \A o \in Ops : op[o] # NoOp =>
        /\ server[op[o].device] # "none"
        /\ op[o].kind # "resolve" => row.exists /\ row.device = op[o].device
        /\ ~row.exists => op[o].device # placed

RowInv ==
    /\ RowOrNone
    /\ RowIsKnown
    /\ RedeemedIsKnown
    /\ KeysOutliveRow
    /\ RefusedIsUnredeemed

WorkerInv ==
    /\ BeforeActivate
    /\ OneWorker
    /\ HaltedWorkers
    /\ DisabledNeverConnected

OpInv ==
    /\ ActiveCounts
    /\ OpOrNone
    /\ OpsOnRow
    /\ DisabledIsQuiet
    /\ OperationKeepsAuthority
    /\ EvidenceKeepsContext

Inv == Types /\ RowInv /\ CallInv /\ WorkerInv /\ OpInv

(***************************************************************************)
(* What the helpers of the actions do.                                     *)
(***************************************************************************)
\* StartWorker: a worker that was idle runs, or nothing changes but the line.
Starts ==
    /\ queued' \in BOOLEAN
    /\ \/ entry' = entry /\ worker' = worker
       \/ /\ runtime = "active"
          /\ entry = None
          /\ entry' \in Workers
          /\ worker' \in [Workers -> Goroutines]
          /\ worker[entry'].pc = "none"
          /\ worker'[entry'].pc = "read"
          /\ \A x \in Workers \ {entry'} : worker'[x] = worker[x]

\* CancelWorker: the worker in the map is canceled and taken out.
Cancels ==
    /\ queued' = queued
    /\ entry' = None
    /\ worker' \in [Workers -> Goroutines]
    /\ \A x \in Workers :
          /\ worker'[x].pc = worker[x].pc
          /\ worker'[x].canceled = (worker[x].canceled \/ x = entry)

\* StartWorker does what Starts says.
LEMMA StartWorkerEffect ==
    ASSUME WorkerType, StartWorker
    PROVE  Starts
  <1>1. PICK w \in (IF runtime = "active" /\ entry = None THEN Idle ELSE {None}) :
          /\ queued' = (queued \/ runtime = "started")
          /\ entry' = IF w = None THEN entry ELSE w
          /\ worker' = [x \in Workers |->
                          IF x = w THEN [NoWorker EXCEPT !.pc = "read"] ELSE worker[x]]
    BY DEF StartWorker
  <1>2. queued' \in BOOLEAN
    BY <1>1
  <1>3. CASE w = None
    <2>1. worker' = worker
      BY <1>1, <1>3, ContextAssumption DEF WorkerType
    <2> QED
      BY <1>1, <1>2, <1>3, <2>1 DEF Starts
  <1>4. CASE w # None
    <2>1. w \in Workers /\ worker[w].pc = "none" /\ runtime = "active" /\ entry = None
      BY <1>1, <1>4 DEF Idle, Running
    <2>2. worker' \in [Workers -> Goroutines]
      BY <1>1, <2>1 DEF WorkerType, NoWorker, WorkerPcs, ServerStates, Goroutines
    <2>3. entry' = w /\ worker'[w].pc = "read" /\ \A x \in Workers \ {w} : worker'[x] = worker[x]
      BY <1>1, <1>4, <2>1 DEF NoWorker
    <2> QED
      BY <1>2, <2>1, <2>2, <2>3 DEF Starts
  <1> QED
    BY <1>3, <1>4

\* CancelWorker does what Cancels says.
LEMMA CancelWorkerEffect ==
    ASSUME WorkerType, CancelWorker
    PROVE  Cancels
  BY ContextAssumption DEF WorkerType, CancelWorker, Cancels, Goroutines

\* The values that stand for no call and no row have the types of calls and rows.
LEMMA NoCallTyped == NoCall \in [pc : CallPcs, saw : Rows, worker : Workers \cup {None},
    keys : Devices \cup {None}, change : SUBSET Roots,
      reply : {"none", "pending", "enrolled"}] /\ NoRow \in Rows /\ NoCall.pc = "idle"
  BY DEF NoCall, NoRow, Rows, CallPcs, JoinPcs, States, Terminal

\* Goto moves one worker and leaves the others, and its cancellation, alone.
LEMMA GotoEffect ==
    ASSUME WorkerType, NEW w \in Workers, NEW pc \in WorkerPcs, Goto(w, pc)
    PROVE  /\ worker' \in [Workers -> Goroutines]
           /\ \A x \in Workers \ {w} : worker'[x] = worker[x]
           /\ worker'[w].canceled = worker[w].canceled
           /\ worker'[w].pc = pc
  BY DEF WorkerType, Goto, Goroutines

\* A step within a call keeps the answer of the last one.
LEMMA StepEffect ==
    ASSUME CallType, NEW next \in CallPcs, Step(next)
    PROVE  CallType' /\ call'.pc = next /\ call'.keys = call.keys /\ answer' = answer
  BY DEF CallType, Step

\* A join that learned that the device is enrolled goes on to its commit.
LEMMA JoinEnrolledEffect ==
    ASSUME CallType, JoinEnrolled
    PROVE  CallType' /\ call'.pc = "commit" /\ call'.reply = "enrolled" /\ answer' = answer
  BY DEF CallType, JoinEnrolled, CallPcs, JoinPcs

\* A call that ends leaves no call.
LEMMA EndsEffect ==
    ASSUME NEW result, Ends(result)
    PROVE  CallType' /\ call' = NoCall /\ call'.pc = "idle" /\ answer' = result
  BY NoCallTyped DEF CallType, Ends

\* Dropped takes back a connection and nothing else.
LEMMA DroppedEffect ==
    ASSUME NEW r \in Rows
    PROVE  /\ Dropped(r) \in Rows
           /\ Dropped(r).exists = r.exists
           /\ Dropped(r).device = r.device
           /\ Dropped(r).enabled = r.enabled
           /\ Dropped(r).revision = r.revision
           /\ Dropped(r).state # "connected"
           /\ Dropped(r).state = r.state
                \/ (r.state = "connected" /\ Dropped(r).state = "disconnected")
  BY DEF Rows, Dropped, States

\* A row that is disabled is otherwise the same.
LEMMA DisabledRowEffect ==
    ASSUME NEW r \in Rows
    PROVE  /\ [r EXCEPT !.enabled = FALSE] \in Rows
           /\ [r EXCEPT !.enabled = FALSE].exists = r.exists
           /\ [r EXCEPT !.enabled = FALSE].device = r.device
           /\ [r EXCEPT !.enabled = FALSE].enabled = FALSE
           /\ [r EXCEPT !.enabled = FALSE].revision = r.revision
           /\ [r EXCEPT !.enabled = FALSE].state = r.state
  BY DEF Rows

\* Reconfigured keeps all but the revisions of the roots that change.
LEMMA ReconfiguredEffect ==
    ASSUME NEW r \in Rows, NEW change \in SUBSET Roots
    PROVE  /\ Reconfigured(r, change) \in Rows
           /\ Reconfigured(r, change).exists = r.exists
           /\ Reconfigured(r, change).device = r.device
           /\ Reconfigured(r, change).enabled = r.enabled
           /\ Reconfigured(r, change).state = r.state
           /\ \A x \in Roots \ change : Reconfigured(r, change).revision[x] = r.revision[x]
  <1>1. [x \in Roots |-> IF x \in change THEN r.revision[x] + 1 ELSE r.revision[x]]
          \in [Roots -> Nat]
    BY DEF Rows
  <1> QED
    BY <1>1 DEF Rows, Reconfigured

\* The row of an enrolled context is a row.
LEMMA EnrolledRow ==
    ASSUME NEW d \in Devices
    PROVE  /\ Enrolled(d) \in Rows
           /\ Enrolled(d).exists
           /\ Enrolled(d).device = d
           /\ Enrolled(d).enabled
           /\ Enrolled(d).state = "enrolled"
  BY DEF Rows, Enrolled, States

\* The fields of the row that is not there.
LEMMA NoRowFacts ==
    /\ NoRow.exists = FALSE
    /\ NoRow.device = None
    /\ NoRow.enabled = FALSE
    /\ NoRow.state = "pending"
  BY DEF NoRow

(***************************************************************************)
(* What each action does, field by field.                                  *)
(***************************************************************************)
\* What JoinBegin(change, invited) does, and what it may rely on.
JoinBeginDoes(change, invited) ==
    /\ call.pc = "idle"
    /\ runtime # "down"
    /\ answer' = "none"
    /\ CallType'
    /\ call'.pc \in {"redeem", "enroll"}
    /\ placed' \in Devices
    /\ Identity(placed')
    /\ UNCHANGED <<row, staged, evidence, server, invite, runtime, queued, worker, entry, control,
         op, active, overtaken>>

LEMMA JoinBeginEffect ==
    ASSUME Inv, NEW change \in SUBSET Roots, NEW invited \in BOOLEAN, JoinBegin(change, invited)
    PROVE  JoinBeginDoes(change, invited)
  <1> USE DEF JoinBeginDoes
  <1>1. PICK d \in Devices :
          /\ Identity(d)
          /\ placed' = d
          /\ call' = [NoCall EXCEPT !.pc = IF invited THEN "redeem" ELSE "enroll",
                                    !.saw = row, !.change = change]
    BY DEF JoinBegin
  <1>2. CallType' /\ call'.pc \in {"redeem", "enroll"}
    BY <1>1, NoCallTyped DEF Inv, Types, RowType, CallType, CallPcs, JoinPcs, NoCall
  <1>3. /\ call.pc = "idle"
        /\ runtime # "down"
        /\ answer' = "none"
        /\ UNCHANGED <<row, staged, evidence, server, invite, runtime, queued, worker, entry,
             control, op, active, overtaken>>
    BY DEF JoinBegin, Begins, Up, disk, rendezvous, workers, caller, operations
  <1> QED
    BY <1>1, <1>2, <1>3

\* What JoinEnroll does, and what it may rely on.
JoinEnrollDoes ==
    /\ call.pc = "enroll"
    /\ CallType'
    /\ ServerType'
    /\ call'.pc \in {"commit", "idle"}
    /\ answer' \in {answer, "failed"}
    /\ call'.pc = "commit" => call'.reply # "none" /\ server'[placed] # "none"
    /\ \A d \in Devices : server'[d] = server[d]
         \/ (server[d] \notin {"enrolled", "revoked"} /\ server'[d] = "pending")
    /\ UNCHANGED <<row, placed, staged, evidence, invite, runtime, queued, worker, entry, control,
         op, active, overtaken>>

LEMMA JoinEnrollEffect ==
    ASSUME Inv, JoinEnroll
    PROVE  JoinEnrollDoes
  <1> USE DEF JoinEnrollDoes
  <1>1. placed \in Devices /\ call.pc = "enroll"
    BY DEF JoinEnroll, Inv, CallInv, JoinHasKeys, JoinPcs
  <1>2. UNCHANGED <<row, placed, staged, evidence, invite, runtime, queued, worker, entry,
          control, op, active, overtaken>>
    BY DEF JoinEnroll, disk, rendezvous, workers, caller, operations
  <1>3. CASE /\ server[placed] # "revoked"
             /\ server' = [server EXCEPT ![placed] = IF @ = "enrolled" THEN @ ELSE "pending"]
             /\ \/ /\ call' = [call EXCEPT !.pc = "commit", !.reply = server'[placed]]
                   /\ UNCHANGED answer
                \/ Ends("failed")
    <2>1. /\ ServerType'
          /\ server'[placed] \in {"pending", "enrolled"}
          /\ \A d \in Devices : server'[d] = server[d] \/
                (server[d] \notin {"enrolled", "revoked"} /\ server'[d] = "pending")
      BY <1>1, <1>2, <1>3 DEF Inv, Types, ServerType, ServerStates, Terminal
    <2>2. CASE Ends("failed")
      BY <1>1, <1>2, <2>1, <2>2, EndsEffect
    <2>3. CASE call' = [call EXCEPT !.pc = "commit", !.reply = server'[placed]]
            /\ UNCHANGED answer
      <3>1. CallType' /\ call'.pc = "commit" /\ call'.reply = server'[placed]
        BY <2>1, <2>3 DEF Inv, Types, CallType, CallPcs, JoinPcs
      <3> QED
        BY <1>1, <1>2, <2>1, <2>3, <3>1
    <2> QED
      BY <1>3, <2>2, <2>3
  <1>4. CASE Ends("failed") /\ UNCHANGED server
    BY <1>1, <1>2, <1>4, EndsEffect DEF Inv, Types, ServerType
  <1> QED
    BY <1>3, <1>4 DEF JoinEnroll

\* What JoinRedeem does, and what it may rely on.
JoinRedeemDoes ==
    /\ call.pc \in {"redeem", "redeem again"}
    /\ CallType'
    /\ ServerType'
    /\ call'.pc \in {"commit", "check lost", "check last", "check refused", "idle"}
    /\ answer' \in {answer, "failed"}
    /\ call'.pc = "commit" => call'.reply # "none" /\ server'[placed] # "none"
    /\ \A d \in Devices : server'[d] = server[d] \/ server'[d] = "enrolled"
    /\ (invite' = invite /\ server' = server)
         \/ (invite' = placed /\ server'[placed] = "enrolled")
    /\ UNCHANGED <<row, placed, staged, evidence, runtime, queued, worker, entry, control, op,
         active, overtaken>>

LEMMA JoinRedeemEffect ==
    ASSUME Inv, JoinRedeem
    PROVE  JoinRedeemDoes
  <1> USE DEF JoinRedeemDoes
  <1>1. placed \in Devices /\ call.pc \in {"redeem", "redeem again"} /\ CallType
    BY DEF JoinRedeem, Inv, Types, CallInv, JoinHasKeys, JoinPcs
  <1>2. UNCHANGED <<row, placed, staged, evidence, runtime, queued, worker, entry, control, op,
          active, overtaken>>
    BY DEF JoinRedeem, disk, rendezvous, workers, caller, operations
  <1> DEFINE next == IF call.pc = "redeem" THEN "check lost" ELSE "check last"
  <1>3. next \in CallPcs /\ "check refused" \in CallPcs
    BY DEF CallPcs, JoinPcs
  <1>4. CASE /\ invite' = placed
             /\ server' = [server EXCEPT ![placed] = "enrolled"]
             /\ JoinEnrolled \/ Step(next)
    <2>1. /\ ServerType'
          /\ server'[placed] = "enrolled"
          /\ \A d \in Devices : server'[d] = server[d] \/ server'[d] = "enrolled"
      BY <1>1, <1>4 DEF Inv, Types, ServerType, ServerStates
    <2>2. CASE JoinEnrolled
      BY <1>1, <1>2, <1>4, <2>1, <2>2, JoinEnrolledEffect
    <2>3. CASE Step(next)
      BY <1>1, <1>2, <1>3, <1>4, <2>1, <2>3, StepEffect
    <2> QED
      BY <1>4, <2>2, <2>3
  <1>5. CASE UNCHANGED <<server, invite>>
          /\ (Step(next) \/ Step("check refused") \/ Ends("failed"))
    <2>1. ServerType'
      BY <1>5 DEF Inv, Types, ServerType
    <2>2. CASE Step(next)
      BY <1>1, <1>2, <1>3, <1>5, <2>1, <2>2, StepEffect
    <2>3. CASE Step("check refused")
      BY <1>1, <1>2, <1>3, <1>5, <2>1, <2>3, StepEffect
    <2>4. CASE Ends("failed")
      BY <1>1, <1>2, <1>5, <2>1, <2>4, EndsEffect
    <2> QED
      BY <1>5, <2>2, <2>3, <2>4
  <1> QED
    BY <1>4, <1>5 DEF JoinRedeem

\* What JoinReconcile does, and what it may rely on.
JoinReconcileDoes ==
    /\ call.pc \in {"check refused", "check lost", "check last"}
    /\ CallType'
    /\ call'.pc \in {"commit", "redeem again", "idle"}
    /\ call'.pc = "commit" => call'.reply # "none" /\ server[placed] # "none"
    /\ answer' \in {answer, "unknown", "refused"}
    /\ answer' = "refused" => answer = "refused"
         \/ (call'.pc = "idle" /\ server[placed] \notin {"enrolled", "revoked"})
    /\ UNCHANGED <<row, placed, staged, evidence, server, invite, runtime, queued, worker, entry,
         control, op, active, overtaken>>

LEMMA JoinReconcileEffect ==
    ASSUME Inv, JoinReconcile
    PROVE  JoinReconcileDoes
  <1> USE DEF JoinReconcileDoes
  <1>1. call.pc \in {"check refused", "check lost", "check last"} /\ CallType
    BY DEF JoinReconcile, Inv, Types
  <1>2. UNCHANGED <<row, placed, staged, evidence, server, invite, runtime, queued, worker, entry,
          control, op, active, overtaken>>
    BY DEF JoinReconcile, disk, rendezvous, workers, caller, operations
  <1>3. CASE server[placed] = "enrolled" /\ JoinEnrolled
    BY <1>1, <1>2, <1>3, JoinEnrolledEffect
  <1>4. CASE Step("redeem again")
    <2>1. "redeem again" \in CallPcs
      BY DEF CallPcs, JoinPcs
    <2> QED
      BY <1>1, <1>2, <1>4, <2>1, StepEffect
  <1>5. CASE Ends("unknown")
    <2>1. CallType' /\ call'.pc = "idle" /\ answer' = "unknown"
      BY <1>5, EndsEffect
    <2> QED
      BY <1>1, <1>2, <2>1
  <1>6. CASE server[placed] \in {"none", "pending", "expired"} /\ Ends("refused")
    BY <1>1, <1>2, <1>6, EndsEffect
  <1> QED
    BY <1>3, <1>4, <1>5, <1>6 DEF JoinReconcile

\* What JoinCommit does, and what it may rely on.
JoinCommitDoes ==
    /\ call.pc = "commit"
    /\ call' = NoCall
    /\ answer' \in {"failed", "joined"}
    /\ RowType'
    /\ row'.exists => row.exists
         \/ (row'.enabled /\ row'.device = placed /\ server[placed] # "none")
    /\ row.exists => row'.exists /\ row'.device = row.device
    /\ row' = row \/
          (row'.exists /\ row'.enabled /\ row'.state \notin Terminal /\ row.state \notin Terminal)
    /\ row.exists => \A r \in Roots : row'.revision[r] = row.revision[r]
         \/ (active[r] = 0 /\ \A e \in evidence : e.root # r)
    /\ Starts
    /\ overtaken' = overtaken \/ (row'.exists /\ row'.enabled /\ overtaken' = FALSE)
    /\ UNCHANGED <<placed, staged, evidence, server, invite, runtime, control, op, active>>

LEMMA JoinCommitEffect ==
    ASSUME Inv, JoinCommit
    PROVE  JoinCommitDoes
  <1> USE DEF JoinCommitDoes
  <1>1. /\ call.pc = "commit" /\ placed \in Devices /\ (row.exists => row.device = placed)
        /\ server[placed] # "none" /\ call.reply \in {"pending", "enrolled"} /\ WorkerType
        /\ row \in Rows /\ call.change \in SUBSET Roots /\ (row.exists \/ row = NoRow)
    BY DEF JoinCommit, Inv, Types, RowType, CallType, RowInv, RowOrNone, CallInv, JoinHasKeys,
           ReplyIsKnown, JoinPcs
  <1>2. UNCHANGED <<placed, staged, evidence, server, invite, runtime, control, op, active>>
    BY DEF JoinCommit, disk, rendezvous, workers, caller, operations
  <1>3. CASE Ends("failed") /\ UNCHANGED <<row, queued, worker, entry, overtaken>>
    <2>1. Starts
      BY <1>1, <1>3 DEF Starts, WorkerType
    <2>2. call' = NoCall /\ answer' = "failed"
      BY <1>3, EndsEffect
    <2> QED
      BY <1>1, <1>2, <1>3, <2>1, <2>2, NoRowFacts DEF RowType
  <1>4. CASE /\ row.state \notin Terminal
             /\ row.exists => ~Blocked(call.change)
             /\ row' = Joined
             /\ StartWorker
             /\ overtaken' = FALSE
             /\ Ends("joined")
    <2> DEFINE old == IF row.exists THEN row ELSE [Enrolled(placed) EXCEPT !.state = "pending"]
               new == Reconfigured(old, call.change)
    <2>1. /\ old \in Rows /\ old.exists /\ old.device = placed
          /\ row.exists => old = row
      BY <1>1, EnrolledRow DEF Rows, States
    <2>2. /\ new \in Rows /\ new.exists /\ new.device = placed
          /\ \A x \in Roots \ call.change : new.revision[x] = old.revision[x]
      <3> HIDE DEF old
      <3> QED
        BY <1>1, <2>1, ReconfiguredEffect
    <2>3. PICK s \in States \ Terminal :
            row' = [new EXCEPT !.credential = call.reply = "enrolled",
                                !.state = s, !.enabled = TRUE]
      <3>1. row' = [new EXCEPT !.credential = call.reply = "enrolled",
                      !.state = IF row.exists /\ new.state = "connected"
                        /\ call.reply = "enrolled"
                                THEN new.state ELSE call.reply,
                      !.enabled = TRUE]
        <4> HIDE DEF new
        <4>1. row' = [new EXCEPT !.credential = call.reply = "enrolled",
                      !.state = IF row.exists /\ @ = "connected" /\ call.reply = "enrolled"
                                THEN @ ELSE call.reply,
                      !.enabled = TRUE]
          BY <1>4 DEF Joined, new
        <4> QED
          BY <2>2, <4>1 DEF Rows
      <3>2. (IF row.exists /\ new.state = "connected" /\ call.reply = "enrolled"
             THEN new.state ELSE call.reply) \in States \ Terminal
        <4> HIDE DEF new
        <4> QED
          BY <1>1 DEF States, Terminal
      <3> HIDE DEF new
      <3> QED
        BY <3>1, <3>2
    <2>4. /\ row' \in Rows /\ row'.exists /\ row'.enabled /\ row'.device = placed
          /\ row'.state \notin Terminal /\ row'.revision = new.revision
      <3> HIDE DEF new
      <3> QED
        BY <2>2, <2>3 DEF Rows
    <2>5. row.exists => \A r \in Roots : row'.revision[r] = row.revision[r] \/
                             (active[r] = 0 /\ \A e \in evidence : e.root # r)
      <3> HIDE DEF new, old
      <3> QED
        BY <1>1, <1>4, <2>1, <2>2, <2>4 DEF Blocked
    <2>6. Starts /\ call' = NoCall /\ answer' = "joined"
      BY <1>1, <1>4, StartWorkerEffect, EndsEffect
    <2> QED
      <3> HIDE DEF new, old
      <3> QED
        BY <1>1, <1>2, <1>4, <2>4, <2>5, <2>6 DEF RowType
  <1> QED
    BY <1>3, <1>4 DEF JoinCommit

\* What Update(change, stun) does, and what it may rely on.
UpdateDoes(change, stun) ==
    /\ call.pc = "idle"
    /\ row.exists
    /\ RowType'
    /\ CallType'
    /\ row'.exists /\ row'.device = row.device /\ row'.enabled = row.enabled
    /\ row'.state = row.state \/ (row.state = "connected" /\ row'.state = "disconnected")
    /\ \A r \in Roots : row'.revision[r] = row.revision[r]
         \/ (active[r] = 0 /\ \A e \in evidence : e.root # r)
    /\ (call'.pc = "idle" /\ answer' = "updated" /\ UNCHANGED <<queued, worker, entry>>)
         \/ (call'.pc = "restart" /\ call'.saw = row /\ answer' = "none" /\ Cancels)
    /\ runtime # "down"
    /\ UNCHANGED <<placed, staged, evidence, server, invite, runtime, control, op, active, overtaken>>

LEMMA UpdateEffect ==
    ASSUME Inv, NEW change \in SUBSET Roots, NEW stun \in BOOLEAN, Update(change, stun)
    PROVE  UpdateDoes(change, stun)
  <1> USE DEF UpdateDoes
  <1>1. /\ call.pc = "idle" /\ runtime # "down" /\ row.exists /\ row \in Rows /\ WorkerType
        /\ ~Blocked(change)
    BY DEF Update, Begins, Up, Inv, Types, RowType
  <1>2. UNCHANGED <<placed, staged, evidence, server, invite, runtime, control, op, active, overtaken>>
    BY DEF Update, disk, rendezvous, workers, caller, operations
  <1> DEFINE new == Reconfigured(row, change)
  <1>3. /\ new \in Rows /\ new.exists /\ new.device = row.device /\ new.enabled = row.enabled
        /\ new.state = row.state
        /\ \A x \in Roots \ change : new.revision[x] = row.revision[x]
    BY <1>1, ReconfiguredEffect
  <1>4. /\ row' \in Rows /\ row'.exists /\ row'.device = row.device /\ row'.enabled = row.enabled
        /\ row'.state = row.state \/ (row.state = "connected" /\ row'.state = "disconnected")
        /\ \A x \in Roots \ change : row'.revision[x] = row.revision[x]
    <2>1. row' = new \/ row' = Dropped(new)
      BY DEF Update
    <2> HIDE DEF new
    <2> QED
      BY <1>3, <2>1, DroppedEffect
  <1>5. \A r \in Roots : row'.revision[r] = row.revision[r] \/
                             (active[r] = 0 /\ \A e \in evidence : e.root # r)
    BY <1>1, <1>4 DEF Blocked
  <1>6. CASE /\ CancelWorker
             /\ call' = [NoCall EXCEPT !.pc = "restart", !.saw = row, !.worker = entry]
             /\ answer' = "none"
    <2>1. CallType' /\ call'.pc = "restart" /\ call'.saw = row
      BY <1>1, <1>6, NoCallTyped DEF CallType, NoCall, CallPcs, WorkerType
    <2>2. Cancels
      BY <1>1, <1>6, CancelWorkerEffect
    <2> HIDE DEF new
    <2> QED
      BY <1>1, <1>2, <1>4, <1>5, <1>6, <2>1, <2>2 DEF RowType
  <1>7. CASE UNCHANGED <<queued, worker, entry>> /\ Ends("updated")
    <2> HIDE DEF new
    <2> QED
      BY <1>1, <1>2, <1>4, <1>5, <1>7, EndsEffect DEF RowType
  <1> QED
    BY <1>6, <1>7 DEF Update

\* What UpdateRestart does, and what it may rely on.
UpdateRestartDoes ==
    /\ call.pc = "restart"
    /\ call' = NoCall
    /\ answer' = "updated"
    /\ Starts
    /\ row.enabled \/ UNCHANGED <<queued, worker, entry>>
    /\ UNCHANGED <<row, placed, staged, evidence, server, invite, runtime, control, op, active, overtaken>>

LEMMA UpdateRestartEffect ==
    ASSUME Inv, UpdateRestart
    PROVE  UpdateRestartDoes
  <1> USE DEF UpdateRestartDoes
  <1>1. /\ call.pc = "restart" /\ WorkerType /\ call.saw.enabled = row.enabled
        /\ Ends("updated")
        /\ IF call.saw.enabled THEN StartWorker ELSE UNCHANGED <<queued, worker, entry>>
    BY DEF UpdateRestart, Inv, Types, CallInv, RestartSaw
  <1>2. UNCHANGED <<row, placed, staged, evidence, server, invite, runtime, control, op, active, overtaken>>
    BY DEF UpdateRestart, disk, rendezvous, workers, caller, operations
  <1>3. CASE call.saw.enabled
    BY <1>1, <1>2, <1>3, StartWorkerEffect, EndsEffect
  <1>4. CASE UNCHANGED <<queued, worker, entry>>
    <2>1. Starts
      BY <1>1, <1>4 DEF Starts, WorkerType
    <2> QED
      BY <1>1, <1>2, <1>4, <2>1, EndsEffect
  <1> QED
    BY <1>1, <1>3, <1>4

\* What Disable does, and what it may rely on.
DisableDoes ==
    /\ call.pc = "idle"
    /\ runtime # "down"
    /\ row.exists
    /\ RowType'
    /\ row'.exists = row.exists /\ row'.device = row.device /\ row'.revision = row.revision
    /\ ~row'.enabled
    /\ row'.state # "connected"
    /\ row'.state = row.state \/ (row.state = "connected" /\ row'.state = "disconnected")
    /\ Cancels
    /\ CallType'
    /\ call'.pc = "stop worker"
    /\ answer' = "none"
    /\ overtaken' = FALSE
    /\ UNCHANGED <<placed, staged, evidence, server, invite, runtime, control, op, active>>

LEMMA DisableEffect ==
    ASSUME Inv, Disable
    PROVE  DisableDoes
  <1> USE DEF DisableDoes
  <1>1. /\ call.pc = "idle" /\ runtime # "down" /\ row.exists /\ answer' = "none"
        /\ row \in Rows /\ WorkerType
    BY DEF Disable, Begins, Up, Inv, Types, RowType
  <1>2. /\ overtaken' = FALSE
        /\ UNCHANGED <<placed, staged, evidence, server, invite, runtime, control, op, active>>
    BY DEF Disable, disk, rendezvous, workers, caller, operations
  <1> DEFINE low == Dropped(row)
  <1>3. RowType' /\ row'.exists = row.exists /\ row'.device = row.device
          /\ row'.revision = row.revision /\ ~row'.enabled /\ row'.state # "connected" /\
        (row'.state = row.state \/ (row.state = "connected" /\ row'.state = "disconnected"))
    <2>1. /\ low \in Rows /\ low.exists = row.exists /\ low.device = row.device
          /\ low.revision = row.revision /\ low.state # "connected"
          /\ low.state = row.state \/ (row.state = "connected" /\ low.state = "disconnected")
      BY <1>1, DroppedEffect
    <2>2. row' = [low EXCEPT !.enabled = FALSE]
      BY DEF Disable
    <2> HIDE DEF low
    <2> QED
      BY <2>1, <2>2, DisabledRowEffect DEF RowType
  <1>4. Cancels
    BY <1>1, CancelWorkerEffect DEF Disable
  <1>5. CallType' /\ call'.pc = "stop worker"
    BY <1>1, NoCallTyped DEF Disable, CallType, NoCall, CallPcs, WorkerType
  <1> QED
    BY <1>1, <1>2, <1>3, <1>4, <1>5

\* What DisableStopped does, and what it may rely on.
DisableStoppedDoes ==
    /\ call.pc = "stop worker"
    /\ CallType'
    /\ (call'.pc = "idle" /\ answer' = "disabled" /\ active.total = 0)
         \/ (call'.pc = "drain" /\ answer' = answer)
    /\ UNCHANGED <<row, placed, staged, evidence, server, invite, runtime, queued, worker, entry,
         control, op, active, overtaken>>

LEMMA DisableStoppedEffect ==
    ASSUME Inv, DisableStopped
    PROVE  DisableStoppedDoes
  <1> USE DEF DisableStoppedDoes
  <1>1. call.pc = "stop worker" /\ CallType /\ "drain" \in CallPcs
    BY DEF DisableStopped, Inv, Types, CallPcs
  <1>2. UNCHANGED <<row, placed, staged, evidence, server, invite, runtime, queued, worker, entry,
          control, op, active, overtaken>>
    BY DEF DisableStopped, disk, rendezvous, workers, caller, operations
  <1>3. CASE active.total = 0 /\ Ends("disabled")
    BY <1>1, <1>2, <1>3, EndsEffect
  <1>4. CASE Step("drain")
    BY <1>1, <1>2, <1>4, StepEffect
  <1> QED
    BY <1>3, <1>4 DEF DisableStopped

\* What DisableGiveUp does, and what it may rely on.
DisableGiveUpDoes ==
    /\ call.pc \in {"stop worker", "drain"}
    /\ call' = NoCall
    /\ answer' = "failed"
    /\ UNCHANGED <<row, placed, staged, evidence, server, invite, runtime, queued, worker, entry,
         control, op, active, overtaken>>

LEMMA DisableGiveUpEffect ==
    ASSUME Inv, DisableGiveUp
    PROVE  DisableGiveUpDoes
  BY ContextAssumption, EndsEffect DEF DisableGiveUpDoes, Inv, Types, ServerType, WorkerType,
    ServerStates, Terminal, WorkerPcs, DisableGiveUp, disk, rendezvous, workers, operations,
    caller

\* What Enable does, and what it may rely on.
EnableDoes ==
    /\ call.pc = "idle"
    /\ runtime # "down"
    /\ row.exists
    /\ row.state \notin Terminal
    /\ RowType'
    /\ row'.exists = row.exists /\ row'.device = row.device /\ row'.revision = row.revision
    /\ row'.enabled /\ row'.state = row.state
    /\ Starts
    /\ call' = NoCall
    /\ answer' = "enabled"
    /\ overtaken' = FALSE
    /\ UNCHANGED <<placed, staged, evidence, server, invite, runtime, control, op, active>>

LEMMA EnableEffect ==
    ASSUME Inv, Enable
    PROVE  EnableDoes
  <1> USE DEF EnableDoes
  <1>1. /\ call.pc = "idle" /\ runtime # "down" /\ row.exists /\ row.state \notin Terminal
        /\ row \in Rows /\ WorkerType /\ row' = [row EXCEPT !.enabled = TRUE]
    BY DEF Enable, Begins, Up, Inv, Types, RowType
  <1>2. /\ overtaken' = FALSE
        /\ UNCHANGED <<placed, staged, evidence, server, invite, runtime, control, op, active>>
    BY DEF Enable, disk, rendezvous, workers, caller, operations
  <1>3. RowType' /\ row'.exists = row.exists /\ row'.device = row.device
          /\ row'.revision = row.revision /\ row'.enabled /\ row'.state = row.state
    BY <1>1 DEF RowType, Rows
  <1>4. Starts /\ call' = NoCall /\ answer' = "enabled"
    BY <1>1, StartWorkerEffect, EndsEffect DEF Enable
  <1> QED
    BY <1>1, <1>2, <1>3, <1>4

\* What Remove does, and what it may rely on.
RemoveDoes ==
    /\ call.pc = "idle"
    /\ runtime # "down"
    /\ row.exists
    /\ Cancels
    /\ CallType'
    /\ call'.pc = "halt"
    /\ call'.saw = row
    /\ answer' = "none"
    /\ UNCHANGED <<row, placed, staged, evidence, server, invite, runtime, control, op, active, overtaken>>

LEMMA RemoveEffect ==
    ASSUME Inv, Remove
    PROVE  RemoveDoes
  <1> USE DEF RemoveDoes
  <1>1. /\ call.pc = "idle" /\ runtime # "down" /\ row.exists
        /\ answer' = "none" /\ row \in Rows /\ WorkerType
    BY DEF Remove, Begins, Up, Inv, Types, RowType
  <1>2. UNCHANGED <<row, placed, staged, evidence, server, invite, runtime, control, op, active, overtaken>>
    BY DEF Remove, disk, rendezvous, workers, caller, operations
  <1>3. Cancels
    BY <1>1, CancelWorkerEffect DEF Remove
  <1>4. CallType' /\ call'.pc = "halt" /\ call'.saw = row
    BY <1>1, NoCallTyped DEF Remove, CallType, NoCall, CallPcs, WorkerType
  <1> QED
    BY <1>1, <1>2, <1>3, <1>4

\* What RemoveGiveUp does, and what it may rely on.
RemoveGiveUpDoes ==
    /\ call.pc = "halt"
    /\ call' = NoCall
    /\ answer' = "failed"
    /\ UNCHANGED <<row, placed, staged, evidence, server, invite, runtime, queued, worker, entry,
         control, op, active, overtaken>>

LEMMA RemoveGiveUpEffect ==
    ASSUME Inv, RemoveGiveUp
    PROVE  RemoveGiveUpDoes
  BY ContextAssumption, EndsEffect DEF RemoveGiveUpDoes, Inv, Types, ServerType, WorkerType,
    ServerStates, Terminal, WorkerPcs, RemoveGiveUp, Idle, Running, disk, rendezvous, workers,
    operations, caller

\* What RemoveStage does, and what it may rely on.
RemoveStageDoes ==
    /\ call.pc = "halt"
    /\ \/ call' = NoCall /\ answer' = "failed" /\ Starts
         /\ (row.enabled \/ UNCHANGED <<queued, worker, entry>>) /\ UNCHANGED <<row, placed,
              staged>>
       \/ RowType' /\ CallType' /\ row'.exists = row.exists /\ row'.device = row.device
            /\ row'.revision = row.revision
          /\ ~row'.enabled /\ row'.state # "connected"
               /\ (row'.state = row.state \/ (row.state = "connected" /\ row'.state = "disconnected"))
          /\ staged' = staged \cup ({placed} \ {None}) /\ placed' = None /\ call'.pc = "delete"
               /\ call'.keys = placed
          /\ active.total = 0 /\ evidence = {} /\ UNCHANGED <<queued, worker, entry, answer>>
    /\ UNCHANGED <<evidence, server, invite, runtime, control, op, active, overtaken>>

LEMMA RemoveStageEffect ==
    ASSUME Inv, RemoveStage
    PROVE  RemoveStageDoes
  <1> USE DEF RemoveStageDoes
  <1>1. /\ call.pc = "halt" /\ WorkerType /\ CallType /\ row \in Rows
        /\ call.saw.enabled = row.enabled /\ placed \in Devices \cup {None}
    BY DEF RemoveStage, Inv, Types, RowType, DiskType, CallInv, RestartSaw
  <1>2. UNCHANGED <<evidence, server, invite, runtime, control, op, active, overtaken>>
    BY DEF RemoveStage, disk, rendezvous, workers, caller, operations
  <1>3. CASE /\ IF call.saw.enabled THEN StartWorker ELSE UNCHANGED <<queued, worker, entry>>
             /\ Ends("failed")
             /\ UNCHANGED <<row, placed, staged>>
    <2>1. Starts /\ (row.enabled \/ UNCHANGED <<queued, worker, entry>>)
      <3>1. CASE call.saw.enabled
        BY <1>1, <1>3, <3>1, StartWorkerEffect
      <3>2. CASE UNCHANGED <<queued, worker, entry>>
        BY <1>1, <3>2 DEF Starts, WorkerType
      <3> QED
        BY <1>3, <3>1, <3>2
    <2> QED
      BY <1>1, <1>2, <1>3, <2>1, EndsEffect
  <1>4. CASE /\ Removable
             /\ row' = [Dropped(row) EXCEPT !.enabled = FALSE]
             /\ staged' = staged \cup ({placed} \ {None})
             /\ placed' = None
             /\ call' = [call EXCEPT !.pc = "delete", !.keys = placed]
             /\ UNCHANGED <<queued, worker, entry, answer>>
    <2> DEFINE low == Dropped(row)
    <2>1. RowType' /\ row'.exists = row.exists /\ row'.device = row.device
            /\ row'.revision = row.revision /\ ~row'.enabled /\ row'.state # "connected" /\
          (row'.state = row.state \/ (row.state = "connected" /\ row'.state = "disconnected"))
      <3>1. /\ low \in Rows /\ low.exists = row.exists /\ low.device = row.device
            /\ low.revision = row.revision /\ low.state # "connected"
            /\ low.state = row.state \/ (row.state = "connected" /\ low.state = "disconnected")
        BY <1>1, DroppedEffect
      <3>2. row' = [low EXCEPT !.enabled = FALSE]
        BY <1>4
      <3> HIDE DEF low
      <3> QED
        BY <3>1, <3>2, DisabledRowEffect DEF RowType
    <2>2. CallType' /\ call'.pc = "delete" /\ call'.keys = placed
      BY <1>1, <1>4 DEF CallType, CallPcs
    <2> QED
      BY <1>1, <1>2, <1>4, <2>1, <2>2 DEF Removable
  <1> QED
    BY <1>3, <1>4 DEF RemoveStage

\* What RemoveDelete does, and what it may rely on.
RemoveDeleteDoes ==
    /\ call.pc = "delete"
    /\ \/ evidence = {} /\ row' = NoRow /\ CallType' /\ call'.pc = "delete keys"
         /\ UNCHANGED <<placed, staged, answer>>
       \/ call' = NoCall /\ answer' = "failed" /\ placed' = call.keys
            /\ staged' = staged \ {call.keys} /\ UNCHANGED row
    /\ UNCHANGED <<evidence, server, invite, runtime, queued, worker, entry, control, op, active, overtaken>>

LEMMA RemoveDeleteEffect ==
    ASSUME Inv, RemoveDelete
    PROVE  RemoveDeleteDoes
  <1> USE DEF RemoveDeleteDoes
  <1>1. call.pc = "delete" /\ CallType /\ "delete keys" \in CallPcs
    BY DEF RemoveDelete, Inv, Types, CallPcs
  <1>2. UNCHANGED <<evidence, server, invite, runtime, queued, worker, entry, control, op,
          active, overtaken>>
    BY DEF RemoveDelete, disk, rendezvous, workers, caller, operations
  <1>3. CASE evidence = {} /\ row' = NoRow /\ Step("delete keys") /\ UNCHANGED <<placed, staged>>
    BY <1>1, <1>2, <1>3, StepEffect
  <1>4. CASE /\ Ends("failed")
             /\ placed' = call.keys
             /\ staged' = staged \ {call.keys}
             /\ UNCHANGED row
    BY <1>1, <1>2, <1>4, EndsEffect
  <1> QED
    BY <1>3, <1>4 DEF RemoveDelete

\* What RemoveKeys does, and what it may rely on.
RemoveKeysDoes ==
    /\ call.pc = "delete keys"
    /\ staged' \subseteq staged
    /\ call' = NoCall
    /\ answer' = "removed"
    /\ UNCHANGED <<row, placed, evidence, server, invite, runtime, queued, worker, entry, control,
         op, active, overtaken>>

LEMMA RemoveKeysEffect ==
    ASSUME Inv, RemoveKeys
    PROVE  RemoveKeysDoes
  BY ContextAssumption, EndsEffect DEF RemoveKeysDoes, Inv, Types, ServerType, WorkerType,
    ServerStates, Terminal, WorkerPcs, RemoveKeys, rendezvous, workers, operations, disk, caller

\* What WorkerRead(w) does, and what it may rely on.
WorkerReadDoes(w) ==
    /\ worker[w].pc = "read"
    /\ WorkerType'
    /\ \A x \in Workers \ {w} : worker'[x] = worker[x]
    /\ worker'[w].canceled = worker[w].canceled
    /\ worker'[w].pc \in {"exit"}
         \/ (row.exists /\ row.enabled /\ row.state \notin Terminal /\ worker'[w].pc # "none")
    /\ UNCHANGED <<row, placed, staged, evidence, server, invite, runtime, queued, entry, control,
         call, answer, op, active, overtaken>>

LEMMA WorkerReadEffect ==
    ASSUME Inv, NEW w \in Workers, WorkerRead(w)
    PROVE  WorkerReadDoes(w)
  <1> USE DEF WorkerReadDoes
  <1>1. worker[w].pc = "read" /\ WorkerType
    BY DEF WorkerRead, Inv, Types
  <1>2. UNCHANGED <<row, placed, staged, evidence, server, invite, runtime, queued, entry,
          control, call, answer, op, active, overtaken>>
    BY DEF WorkerRead, disk, rendezvous, workers, caller, operations
  <1>3. PICK pc \in WorkerPcs :
          /\ worker' = [worker EXCEPT ![w].pc = pc, ![w].device = row.device]
          /\ pc = "exit"
               \/ (row.exists /\ row.enabled /\ row.state \notin Terminal /\ pc # "none")
    BY DEF WorkerRead, WorkerPcs
  <1>4. row.device \in Devices \cup {None}
    BY DEF Inv, Types, RowType, Rows
  <1>5. /\ worker' \in [Workers -> Goroutines]
        /\ \A x \in Workers \ {w} : worker'[x] = worker[x]
        /\ worker'[w].canceled = worker[w].canceled
        /\ worker'[w].pc = pc
    BY <1>1, <1>3, <1>4 DEF WorkerType, Goroutines
  <1> QED
    BY <1>1, <1>2, <1>3, <1>5 DEF WorkerType

\* What WorkerGivesUp(w) does, and what it may rely on.
WorkerGivesUpDoes(w) ==
    /\ worker[w].pc \in {"expire", "no credential"}
    /\ WorkerType'
    /\ \A x \in Workers \ {w} : worker'[x] = worker[x]
    /\ worker'[w].canceled = worker[w].canceled
    /\ worker'[w].pc = "exit"
    /\ RowType'
    /\ row'.exists = row.exists /\ row'.device = row.device /\ row'.revision = row.revision
    /\ row'.enabled = row.enabled
    /\ row' = row \/ (row.exists /\ ~worker[w].canceled /\ row'.state # "connected")
    /\ UNCHANGED <<placed, staged, evidence, server, invite, runtime, queued, entry, control,
         call, answer, op, active, overtaken>>

LEMMA WorkerGivesUpEffect ==
    ASSUME Inv, NEW w \in Workers, WorkerGivesUp(w)
    PROVE  WorkerGivesUpDoes(w)
  <1> USE DEF WorkerGivesUpDoes
  <1>1. worker[w].pc \in {"expire", "no credential"} /\ WorkerType /\ row \in Rows
    BY DEF WorkerGivesUp, Inv, Types, RowType
  <1>2. UNCHANGED <<placed, staged, evidence, server, invite, runtime, queued, entry, control,
          call, answer, op, active, overtaken>>
    BY DEF WorkerGivesUp, disk, rendezvous, workers, caller, operations
  <1>3. PICK pc \in WorkerPcs : Goto(w, pc) /\ pc = "exit"
    BY DEF WorkerGivesUp, WorkerPcs
  <1>4. /\ RowType'
        /\ row'.exists = row.exists /\ row'.device = row.device /\ row'.revision = row.revision
        /\ row'.enabled = row.enabled
        /\ row' = row \/ (row.exists /\ ~worker[w].canceled /\ row'.state # "connected")
    BY <1>1 DEF WorkerGivesUp, Write, RowType, Rows, States, Terminal
  <1> QED
    BY <1>1, <1>2, <1>3, <1>4, GotoEffect DEF WorkerType

\* What WorkerPoll(w) does, and what it may rely on.
WorkerPollDoes(w) ==
    /\ worker[w].pc = "poll"
    /\ WorkerType'
    /\ \A x \in Workers \ {w} : worker'[x] = worker[x]
    /\ worker'[w].canceled = worker[w].canceled
    /\ worker'[w].pc \in {"polled", "read"}
    /\ UNCHANGED <<row, placed, staged, evidence, server, invite, runtime, queued, entry, control,
         call, answer, op, active, overtaken>>

LEMMA WorkerPollEffect ==
    ASSUME Inv, NEW w \in Workers, WorkerPoll(w)
    PROVE  WorkerPollDoes(w)
  <1> USE DEF WorkerPollDoes
  <1>1. worker[w].pc = "poll" /\ WorkerType /\ server \in [Devices -> ServerStates]
        /\ placed \in Devices \cup {None}
    BY DEF WorkerPoll, Inv, Types, ServerType, DiskType
  <1>2. UNCHANGED <<row, placed, staged, evidence, server, invite, runtime, queued, entry,
          control, call, answer, op, active, overtaken>>
    BY DEF WorkerPoll, disk, rendezvous, workers, caller, operations
  <1>3. CASE /\ placed # None
             /\ \E saw \in {"pending", server[placed]} :
                  worker' = [worker EXCEPT ![w].pc = "polled", ![w].saw = saw]
    <2>1. PICK saw \in {"pending", server[placed]} :
            worker' = [worker EXCEPT ![w].pc = "polled", ![w].saw = saw]
      BY <1>3
    <2>2. saw \in ServerStates
      BY <1>1, <1>3 DEF ServerStates
    <2> QED
      BY <1>1, <1>2, <2>1, <2>2 DEF WorkerType, WorkerPcs, Goroutines
  <1>4. CASE Goto(w, "read")
    <2>1. "read" \in WorkerPcs
      BY DEF WorkerPcs
    <2> QED
      BY <1>1, <1>2, <1>4, <2>1, GotoEffect DEF WorkerType
  <1> QED
    BY <1>3, <1>4 DEF WorkerPoll

\* What WorkerPolled(w) does, and what it may rely on.
WorkerPolledDoes(w) ==
    /\ worker[w].pc = "polled"
    /\ WorkerType'
    /\ \A x \in Workers \ {w} : worker'[x] = worker[x]
    /\ worker'[w].canceled = worker[w].canceled
    /\ worker'[w].pc = "read"
    /\ RowType'
    /\ row'.exists = row.exists /\ row'.device = row.device /\ row'.revision = row.revision
    /\ row'.enabled = row.enabled
    /\ row' = row \/
            (row.exists /\ ~worker[w].canceled /\ (row'.state # "connected" \/ row'.state = row.state))
    /\ UNCHANGED <<placed, staged, evidence, server, invite, runtime, queued, entry, control,
         call, answer, op, active, overtaken>>

LEMMA WorkerPolledEffect ==
    ASSUME Inv, NEW w \in Workers, WorkerPolled(w)
    PROVE  WorkerPolledDoes(w)
  <1> USE DEF WorkerPolledDoes
  <1>1. worker[w].pc = "polled" /\ WorkerType /\ row \in Rows
    BY DEF WorkerPolled, Inv, Types, RowType
  <1>2. UNCHANGED <<placed, staged, evidence, server, invite, runtime, queued, entry, control,
          call, answer, op, active, overtaken>>
    BY DEF WorkerPolled, disk, rendezvous, workers, caller, operations
  <1>3. /\ WorkerType'
        /\ \A x \in Workers \ {w} : worker'[x] = worker[x]
        /\ worker'[w].canceled = worker[w].canceled
        /\ worker'[w].pc = "read"
    BY <1>1, <1>2 DEF WorkerPolled, WorkerType, WorkerPcs, ServerStates, Goroutines
  <1>4. /\ RowType'
        /\ row'.exists = row.exists /\ row'.device = row.device /\ row'.revision = row.revision
        /\ row'.enabled = row.enabled
        /\ row' = row \/
            (row.exists /\ ~worker[w].canceled /\ (row'.state # "connected" \/ row'.state = row.state))
    BY <1>1 DEF WorkerPolled, Write, RowType, Rows, States, Terminal
  <1> QED
    BY <1>1, <1>2, <1>3, <1>4

\* What WorkerDial(w) does, and what it may rely on.
WorkerDialDoes(w) ==
    /\ worker[w].pc = "dial"
    /\ WorkerType'
    /\ \A x \in Workers \ {w} : worker'[x] = worker[x]
    /\ worker'[w].canceled = worker[w].canceled
    /\ worker'[w].pc \in {"connected", "lost", "exit"}
    /\ UNCHANGED <<row, placed, staged, evidence, server, invite, runtime, queued, entry, call,
         answer, op, active, overtaken>>

LEMMA WorkerDialEffect ==
    ASSUME Inv, NEW w \in Workers, WorkerDial(w)
    PROVE  WorkerDialDoes(w)
  <1> USE DEF WorkerDialDoes
  <1>1. worker[w].pc = "dial" /\ WorkerType
    BY DEF WorkerDial, Inv, Types
  <1>2. UNCHANGED <<row, placed, staged, evidence, server, invite, runtime, queued, entry, call,
          answer, op, active, overtaken>>
    BY DEF WorkerDial, disk, rendezvous, workers, caller, operations
  <1>3. PICK pc \in WorkerPcs : Goto(w, pc) /\ pc \in {"connected", "lost", "exit"}
    BY DEF WorkerDial, WorkerPcs
  <1>4. control' \in Workers \cup {None}
    BY <1>1 DEF WorkerDial, WorkerType
  <1> QED
    BY <1>1, <1>2, <1>3, <1>4, GotoEffect DEF WorkerType

\* What WorkerConnected(w) does, and what it may rely on.
WorkerConnectedDoes(w) ==
    /\ worker[w].pc = "connected"
    /\ WorkerType'
    /\ \A x \in Workers \ {w} : worker'[x] = worker[x]
    /\ worker'[w].canceled = worker[w].canceled
    /\ worker'[w].pc = "serve"
    /\ RowType'
    /\ row'.exists = row.exists /\ row'.device = row.device /\ row'.revision = row.revision
    /\ row'.enabled = row.enabled
    /\ row' = row \/ (row.exists /\ ~worker[w].canceled /\ row'.state = "connected")
    /\ UNCHANGED <<placed, staged, evidence, server, invite, runtime, queued, entry, control,
         call, answer, op, active, overtaken>>

LEMMA WorkerConnectedEffect ==
    ASSUME Inv, NEW w \in Workers, WorkerConnected(w)
    PROVE  WorkerConnectedDoes(w)
  <1> USE DEF WorkerConnectedDoes
  <1>1. worker[w].pc = "connected" /\ WorkerType /\ row \in Rows
    BY DEF WorkerConnected, Inv, Types, RowType
  <1>2. UNCHANGED <<placed, staged, evidence, server, invite, runtime, queued, entry, control,
          call, answer, op, active, overtaken>>
    BY DEF WorkerConnected, disk, rendezvous, workers, caller, operations
  <1>3. PICK pc \in WorkerPcs : Goto(w, pc) /\ pc = "serve"
    BY DEF WorkerConnected, WorkerPcs
  <1>4. /\ RowType'
        /\ row'.exists = row.exists /\ row'.device = row.device /\ row'.revision = row.revision
        /\ row'.enabled = row.enabled
        /\ row' = row \/ (row.exists /\ ~worker[w].canceled /\ row'.state = "connected")
    BY <1>1 DEF WorkerConnected, Write, RowType, Rows, States, Terminal
  <1> QED
    BY <1>1, <1>2, <1>3, <1>4, GotoEffect DEF WorkerType

\* What WorkerServe(w) does, and what it may rely on.
WorkerServeDoes(w) ==
    /\ worker[w].pc = "serve"
    /\ WorkerType'
    /\ \A x \in Workers \ {w} : worker'[x] = worker[x]
    /\ worker'[w].canceled = worker[w].canceled
    /\ worker'[w].pc \in {"exit", "lost", "revoked"}
    /\ UNCHANGED <<row, placed, staged, evidence, server, invite, runtime, queued, entry, call,
         answer, op, active, overtaken>>

LEMMA WorkerServeEffect ==
    ASSUME Inv, NEW w \in Workers, WorkerServe(w)
    PROVE  WorkerServeDoes(w)
  <1> USE DEF WorkerServeDoes
  <1>1. worker[w].pc = "serve" /\ WorkerType
    BY DEF WorkerServe, Inv, Types
  <1>2. UNCHANGED <<row, placed, staged, evidence, server, invite, runtime, queued, entry, call,
          answer, op, active, overtaken>>
    BY DEF WorkerServe, disk, rendezvous, workers, caller, operations
  <1>3. PICK pc \in WorkerPcs : Goto(w, pc) /\ pc \in {"exit", "lost", "revoked"}
    BY DEF WorkerServe, WorkerPcs
  <1>4. control' \in Workers \cup {None}
    BY <1>1 DEF WorkerServe, WorkerType
  <1> QED
    BY <1>1, <1>2, <1>3, <1>4, GotoEffect DEF WorkerType

\* What WorkerLost(w) does, and what it may rely on.
WorkerLostDoes(w) ==
    /\ worker[w].pc \in {"lost", "revoked"}
    /\ WorkerType'
    /\ \A x \in Workers \ {w} : worker'[x] = worker[x]
    /\ worker'[w].canceled = worker[w].canceled
    /\ worker'[w].pc \in {"exit", "read"}
    /\ RowType'
    /\ row'.exists = row.exists /\ row'.device = row.device /\ row'.revision = row.revision
    /\ row'.enabled = row.enabled
    /\ row' = row \/ (row.exists /\ ~worker[w].canceled /\ row'.state # "connected")
    /\ UNCHANGED <<placed, staged, evidence, server, invite, runtime, queued, entry, control,
         call, answer, op, active, overtaken>>

LEMMA WorkerLostEffect ==
    ASSUME Inv, NEW w \in Workers, WorkerLost(w)
    PROVE  WorkerLostDoes(w)
  <1> USE DEF WorkerLostDoes
  <1>1. worker[w].pc \in {"lost", "revoked"} /\ WorkerType /\ row \in Rows
    BY DEF WorkerLost, Inv, Types, RowType
  <1>2. UNCHANGED <<placed, staged, evidence, server, invite, runtime, queued, entry, control,
          call, answer, op, active, overtaken>>
    BY DEF WorkerLost, disk, rendezvous, workers, caller, operations
  <1>3. PICK pc \in WorkerPcs : Goto(w, pc) /\ pc \in {"exit", "read"}
    BY DEF WorkerLost, WorkerPcs
  <1>4. /\ RowType'
        /\ row'.exists = row.exists /\ row'.device = row.device /\ row'.revision = row.revision
        /\ row'.enabled = row.enabled
        /\ row' = row \/ (row.exists /\ ~worker[w].canceled /\ row'.state # "connected")
    BY <1>1 DEF WorkerLost, Write, RowType, Rows, States, Terminal
  <1> QED
    BY <1>1, <1>2, <1>3, <1>4, GotoEffect DEF WorkerType

\* What WorkerExit(w) does, and what it may rely on.
WorkerExitDoes(w) ==
    /\ WorkerType'
    /\ \A x \in Workers \ {w} : worker'[x] = worker[x]
    /\ worker'[w] = NoWorker
    /\ entry' = IF entry = w THEN None ELSE entry
    /\ UNCHANGED <<row, placed, staged, evidence, server, invite, runtime, queued, control, call,
         answer, op, active, overtaken>>

LEMMA WorkerExitEffect ==
    ASSUME Inv, NEW w \in Workers, WorkerExit(w)
    PROVE  WorkerExitDoes(w)
  BY ContextAssumption, EndsEffect DEF WorkerExitDoes, Inv, Types, ServerType, WorkerType,
    ServerStates, Terminal, WorkerPcs, WorkerExit, NoWorker, disk, rendezvous, caller,
    operations, workers, Goroutines

\* What BeginOperation(o, kind) does, and what it may rely on.
BeginOperationDoes(o, kind) ==
    /\ runtime # "down"
    /\ op[o] = NoOp
    /\ row.exists
    /\ kind # "resolve" => row.enabled
    /\ OpType'
    /\ op'[o] = [kind |-> kind, device |-> row.device, revision |-> row.revision]
    /\ \A x \in Ops \ {o} : op'[x] = op[x]
    /\ \A x \in Counters : active'[x] = IF x = "total" \/ x \in Scope[kind] THEN active[x] + 1
         ELSE active[x]
    /\ UNCHANGED <<row, placed, staged, evidence, server, invite, runtime, queued, worker, entry,
         control, call, answer, overtaken>>

LEMMA BeginOperationEffect ==
    ASSUME Inv, NEW o \in Ops, NEW kind \in Kinds, BeginOperation(o, kind)
    PROVE  BeginOperationDoes(o, kind)
  <1> USE DEF BeginOperationDoes
  <1>1. /\ runtime # "down" /\ op[o] = NoOp /\ row.exists /\ (kind # "resolve" => row.enabled)
        /\ row \in Rows /\ OpType
    BY DEF BeginOperation, Up, MayBegin, Inv, Types, RowType
  <1>2. UNCHANGED <<row, placed, staged, evidence, server, invite, runtime, queued, worker, entry,
          control, call, answer, overtaken>>
    BY DEF BeginOperation, disk, rendezvous, workers, caller, operations
  <1>3. \A x \in Counters :
          active'[x] = IF x = "total" \/ x \in Scope[kind] THEN active[x] + 1 ELSE active[x]
    BY <1>1 DEF BeginOperation, Counted, OpType
  <1>4. active' \in [Counters -> Nat]
    <2>1. active' = [x \in Counters |->
                      IF x = "total" \/ x \in Scope[kind] THEN active[x] + 1 ELSE active[x]]
      BY <1>1 DEF BeginOperation, Counted, OpType
    <2> QED
      BY <1>1, <2>1 DEF OpType
  <1>5. /\ op'[o] = [kind |-> kind, device |-> row.device, revision |-> row.revision]
        /\ \A x \in Ops \ {o} : op'[x] = op[x]
        /\ op' \in [Ops -> Operations]
    BY <1>1 DEF BeginOperation, OpType, Rows, Operations
  <1> QED
    BY <1>1, <1>2, <1>3, <1>4, <1>5 DEF OpType

\* What Persist(o) does, and what it may rely on.
PersistDoes(o) ==
    /\ op[o].kind \in {"receive", "put", "outgoing"}
    /\ evidence \subseteq evidence'
    /\ \A e \in evidence' \ evidence :
          /\ e.device = op[o].device
          /\ e \in [root : {"offered", "put", "sent"}, revision : Nat, device : Devices \cup {None}]
          /\ e.root \in Roots => e.root \in Scope[op[o].kind]
               /\ e.revision = op[o].revision[e.root]
    /\ UNCHANGED <<row, placed, staged, server, invite, runtime, queued, worker, entry, control,
         call, answer, op, active, overtaken>>

LEMMA PersistEffect ==
    ASSUME Inv, NEW o \in Ops, Persist(o)
    PROVE  PersistDoes(o)
  <1> USE DEF PersistDoes
  <1>1. /\ op[o].kind \in {"receive", "put", "outgoing"}
        /\ op[o] \in Operations
    BY DEF Persist, Evidence, Inv, Types, OpType
  <1>2. UNCHANGED <<row, placed, staged, server, invite, runtime, queued, worker, entry, control,
          call, answer, op, active, overtaken>>
    BY DEF Persist, disk, rendezvous, workers, caller, operations
  <1>3. PICK r \in {"offered", "put", "sent"} :
          /\ r \in Roots => r \in Scope[op[o].kind]
          /\ evidence' = evidence \cup
               {[root |-> r, device |-> op[o].device,
                 revision |-> IF r = "sent" THEN 0 ELSE op[o].revision[r]]}
    BY <1>1 DEF Persist, Evidence, Scope, Roots
  <1>4. r # "sent" => r \in Roots
    BY DEF Roots
  <1>5. (IF r = "sent" THEN 0 ELSE op[o].revision[r]) \in Nat
    BY <1>1, <1>4 DEF Operations
  <1>6. "sent" \notin Roots
    BY DEF Roots
  <1> QED
    BY <1>1, <1>2, <1>3, <1>4, <1>5, <1>6 DEF Operations

\* What EndOperation(o) does, and what it may rely on.
EndOperationDoes(o) ==
    /\ op[o] # NoOp
    /\ op'[o] = NoOp
    /\ \A x \in Ops \ {o} : op'[x] = op[x]
    /\ op' \in [Ops -> Operations]
    /\ active' \in [Counters -> Int]
    /\ \A x \in Counters : active'[x] = IF x = "total" \/ x \in Scope[op[o].kind]
         THEN active[x] - 1 ELSE active[x]
    /\ (call.pc = "drain" /\ active'.total = 0 /\ call' = NoCall /\ answer' = "disabled")
         \/ UNCHANGED <<call, answer>>
    /\ UNCHANGED <<row, placed, staged, evidence, server, invite, runtime, queued, worker, entry,
         control, overtaken>>

LEMMA EndOperationEffect ==
    ASSUME Inv, NEW o \in Ops, EndOperation(o)
    PROVE  EndOperationDoes(o)
  <1> USE DEF EndOperationDoes
  <1>1. op[o] # NoOp /\ OpType
    BY DEF EndOperation, Inv, Types
  <1>2. UNCHANGED <<row, placed, staged, evidence, server, invite, runtime, queued, worker, entry,
          control, overtaken>>
    BY DEF EndOperation, disk, rendezvous, workers, caller, operations
  <1>3. active' = [x \in Counters |->
                     IF x = "total" \/ x \in Scope[op[o].kind] THEN active[x] - 1 ELSE active[x]]
    BY <1>1 DEF EndOperation, Counted, OpType
  <1>4. active' \in [Counters -> Int]
    BY <1>1, <1>3 DEF OpType
  <1>5. NoOp \in Operations
    BY DEF NoOp, NoRow, Operations
  <1>6. /\ op'[o] = NoOp
        /\ \A x \in Ops \ {o} : op'[x] = op[x]
        /\ op' \in [Ops -> Operations]
    BY <1>1, <1>5 DEF EndOperation, OpType
  <1>7. (call.pc = "drain" /\ active'.total = 0 /\ call' = NoCall /\ answer' = "disabled")
          \/ UNCHANGED <<call, answer>>
    BY EndsEffect DEF EndOperation
  <1> QED
    BY <1>1, <1>2, <1>3, <1>4, <1>6, <1>7

\* What Settle does, and what it may rely on.
SettleDoes ==
    /\ evidence' \subseteq evidence
    /\ UNCHANGED <<row, placed, staged, server, invite, runtime, queued, worker, entry, control,
         call, answer, op, active, overtaken>>

LEMMA SettleEffect ==
    ASSUME Inv, Settle
    PROVE  SettleDoes
  BY ContextAssumption, EndsEffect DEF SettleDoes, Inv, Types, ServerType, WorkerType,
    ServerStates, Terminal, WorkerPcs, Settle, Up, rendezvous, workers, caller, operations, disk

\* What ServerMoves does, and what it may rely on.
ServerMovesDoes ==
    /\ ServerType'
    /\ \A d \in Devices : server'[d] = server[d]
         \/ (server[d] = "pending" /\ server'[d] # "none")
              \/ (server[d] = "enrolled" /\ server'[d] = "revoked")
    /\ invite' = invite \/ invite' = "gone"
    /\ UNCHANGED <<row, placed, staged, evidence, runtime, queued, worker, entry, control, call,
         answer, op, active, overtaken>>

LEMMA ServerMovesEffect ==
    ASSUME Inv, ServerMoves
    PROVE  ServerMovesDoes
  BY ContextAssumption, EndsEffect DEF ServerMovesDoes, Inv, Types, ServerType, WorkerType,
    ServerStates, Terminal, WorkerPcs, ServerMoves, disk, workers, caller, operations,
    rendezvous

\* What Start does, and what it may rely on.
StartDoes ==
    /\ runtime = "down"
    /\ runtime' = "started"
    /\ queued' \in BOOLEAN
    /\ UNCHANGED <<row, placed, staged, evidence, server, invite, worker, entry, control, call,
         answer, op, active, overtaken>>

LEMMA StartEffect ==
    ASSUME Inv, Start
    PROVE  StartDoes
  BY ContextAssumption, EndsEffect DEF StartDoes, Inv, Types, ServerType, WorkerType,
    ServerStates, Terminal, WorkerPcs, Start, Terminal, disk, rendezvous, caller, operations,
    workers

\* What Activate does, and what it may rely on.
ActivateDoes ==
    /\ runtime = "started"
    /\ runtime' = "active"
    /\ queued' = FALSE
    /\ WorkerType'
    /\ \/ UNCHANGED <<worker, entry>>
       \/ entry' \in Workers
            /\ worker'[entry'] = [pc |-> "read", canceled |-> FALSE, saw |-> "none",
                                     device |-> None]
          /\ \A x \in Workers \ {entry'} : worker'[x] = worker[x]
    /\ overtaken => overtaken'
    /\ overtaken' => overtaken \/ call.pc = "halt"
    /\ call.pc = "halt" => overtaken' \/ entry' = entry
    /\ UNCHANGED <<row, placed, staged, evidence, server, invite, control, call, answer, op,
         active>>

LEMMA ActivateEffect ==
    ASSUME Inv, Activate
    PROVE  ActivateDoes
  <1> USE DEF ActivateDoes
  <1>1. runtime = "started" /\ runtime' = "active" /\ queued' = FALSE /\ WorkerType
    BY DEF Activate, Inv, Types
  <1>2. UNCHANGED <<row, placed, staged, evidence, server, invite, control, call, answer, op,
          active>>
    BY DEF Activate, disk, rendezvous, workers, caller, operations
  <1>3. overtaken' = (overtaken \/ (queued /\ call.pc = "halt"))
    BY DEF Activate
  <1>4. CASE ~queued /\ UNCHANGED <<worker, entry>>
    BY <1>1, <1>2, <1>4, <1>3 DEF WorkerType
  <1>5. CASE queued /\ \E w \in Idle :
               /\ worker' = [worker EXCEPT ![w] = [NoWorker EXCEPT !.pc = "read"]]
               /\ entry' = w
    <2>1. PICK w \in Workers :
            /\ worker' = [worker EXCEPT ![w] = [pc |-> "read", canceled |-> FALSE, saw |-> "none",
                                     device |-> None]]
            /\ entry' = w
      BY <1>5 DEF Idle, NoWorker
    <2> QED
      BY <1>1, <1>2, <1>5, <1>3, <2>1 DEF WorkerType, WorkerPcs, ServerStates, Goroutines
  <1> QED
    BY <1>4, <1>5 DEF Activate

\* What Stop does, and what it may rely on.
StopDoes ==
    /\ runtime \in {"started", "active"}
    /\ runtime' = "stopping"
    /\ WorkerType'
    /\ \A w \in Workers : worker'[w].pc = worker[w].pc
         /\ worker'[w].canceled = (worker[w].pc # "none")
    /\ UNCHANGED <<row, placed, staged, evidence, server, invite, queued, entry, control, call,
         answer, op, active, overtaken>>

LEMMA StopEffect ==
    ASSUME Inv, Stop
    PROVE  StopDoes
  <1> USE DEF StopDoes
  <1>1. runtime \in {"started", "active"} /\ runtime' = "stopping" /\ WorkerType
    BY DEF Stop, Inv, Types
  <1>2. UNCHANGED <<row, placed, staged, evidence, server, invite, queued, entry, control, call,
          answer, op, active, overtaken>>
    BY DEF Stop, disk, rendezvous, workers, caller, operations
  <1>3. worker' = [w \in Workers |-> [worker[w] EXCEPT !.canceled = (worker[w].pc # "none")]]
    BY DEF Stop, Running
  <1>4. \A w \in Workers :
          /\ worker'[w] \in Goroutines
          /\ worker'[w].pc = worker[w].pc
          /\ worker'[w].canceled = (worker[w].pc # "none")
    BY <1>1, <1>3 DEF WorkerType, Goroutines
  <1>5. worker' \in [Workers -> Goroutines]
    BY <1>3, <1>4
  <1> QED
    BY <1>1, <1>2, <1>4, <1>5 DEF WorkerType

\* What Stopped does, and what it may rely on.
StoppedDoes ==
    /\ runtime # "down"
    /\ Down
    /\ UNCHANGED <<row, placed, staged, evidence, server, invite, overtaken>>

LEMMA StoppedEffect ==
    ASSUME Inv, Stopped
    PROVE  StoppedDoes
  BY ContextAssumption, EndsEffect DEF StoppedDoes, Inv, Types, ServerType, WorkerType,
    ServerStates, Terminal, WorkerPcs, Stopped, Running, Incoming, disk, rendezvous, workers,
    caller, operations

\* What Crash does, and what it may rely on.
CrashDoes ==
    /\ runtime # "down"
    /\ Down
    /\ UNCHANGED <<row, placed, staged, evidence, server, invite, overtaken>>

LEMMA CrashEffect ==
    ASSUME Inv, Crash
    PROVE  CrashDoes
  BY ContextAssumption, EndsEffect DEF CrashDoes, Inv, Types, ServerType, WorkerType,
    ServerStates, Terminal, WorkerPcs, Crash, disk, rendezvous, workers, caller, operations

(***************************************************************************)
(* The counters of activeOperations.                                       *)
(***************************************************************************)
\* The operation that is not there is of no kind.
LEMMA OpFacts ==
    /\ NoOp.kind = "none"
    /\ "none" \notin Kinds
    /\ NoOp \in Operations
  BY DEF NoOp, NoRow, Kinds, Scope, Operations

\* The operations behind a counter are finitely many.
LEMMA CountsFinite ==
    ASSUME NEW x
    PROVE  /\ IsFiniteSet(Counts(x))
           /\ Cardinality(Counts(x)) \in 0 .. Cardinality(Ops)
  <1>1. Counts(x) \subseteq Ops /\ IsFiniteSet(Ops)
    BY ContextAssumption DEF Counts
  <1>2. IsFiniteSet(Counts(x)) /\ Cardinality(Counts(x)) <= Cardinality(Ops)
    BY <1>1, FS_Subset
  <1> QED
    BY <1>1, <1>2, FS_CardinalityType

\* A counter at zero has no operation behind it.
LEMMA NothingCounted ==
    ASSUME ActiveCounts, NEW x \in Counters, active[x] = 0
    PROVE  Counts(x) = {}
  BY CountsFinite, FS_EmptySet DEF ActiveCounts

\* A total of zero means that no operation runs.
LEMMA NoneActive ==
    ASSUME ActiveCounts, OpOrNone, active.total = 0
    PROVE  \A o \in Ops : op[o] = NoOp
  <1>1. Counts("total") = {}
    BY NothingCounted DEF Counters
  <1> QED
    BY <1>1 DEF Counts, OpOrNone

\* A counter of a root at zero means that no operation works on it.
LEMMA RootUnused ==
    ASSUME ActiveCounts, OpOrNone, NEW r \in Roots, active[r] = 0
    PROVE  \A o \in Ops : op[o] # NoOp => r \notin Scope[op[o].kind]
  <1>1. Counts(r) = {}
    BY NothingCounted DEF Counters, Roots
  <1> QED
    BY <1>1 DEF Counts, OpOrNone

\* An operation that begins is counted once in each counter of its scope.
LEMMA BeginCounts ==
    ASSUME Inv, NEW o \in Ops, NEW kind \in Kinds, BeginOperation(o, kind)
    PROVE  ActiveCounts'
  <1>1. SUFFICES ASSUME NEW x \in Counters
                 PROVE  active'[x] = Cardinality(Counts(x)')
    BY DEF ActiveCounts
  <1>2. /\ op[o] = NoOp
        /\ op'[o] = [kind |-> kind, device |-> row.device, revision |-> row.revision]
        /\ \A y \in Ops \ {o} : op'[y] = op[y]
        /\ \A y \in Counters :
              active'[y] = IF y = "total" \/ y \in Scope[kind] THEN active[y] + 1 ELSE active[y]
    BY BeginOperationEffect DEF BeginOperationDoes
  <1>3. /\ op[o].kind = "none" /\ op'[o].kind = kind /\ kind # "none"
        /\ \A y \in Ops \ {o} : op'[y] = op[y]
        /\ active'[x] = IF x = "total" \/ x \in Scope[kind] THEN active[x] + 1 ELSE active[x]
        /\ active[x] = Cardinality(Counts(x))
    BY <1>2, OpFacts DEF Inv, OpInv, ActiveCounts
  <1>4. CASE x = "total" \/ x \in Scope[kind]
    <2>1. o \notin Counts(x) /\ Counts(x)' = Counts(x) \cup {o}
      BY <1>3, <1>4 DEF Counts
    <2>2. Cardinality(Counts(x) \cup {o}) = Cardinality(Counts(x)) + 1
      BY <2>1, CountsFinite, FS_AddElement
    <2> QED
      BY <1>3, <1>4, <2>1, <2>2
  <1>5. CASE ~(x = "total" \/ x \in Scope[kind])
    <2>1. Counts(x)' = Counts(x)
      BY <1>3, <1>5 DEF Counts
    <2> QED
      BY <1>3, <1>5, <2>1
  <1> QED
    BY <1>4, <1>5

\* An operation that ends is taken off every counter it was in, and none goes below zero.
LEMMA EndCounts ==
    ASSUME Inv, NEW o \in Ops, EndOperation(o)
    PROVE  ActiveCounts' /\ OpType'
  <1>1. ASSUME NEW x \in Counters
        PROVE  active'[x] = Cardinality(Counts(x)')
    <2>1. EndOperationDoes(o)
      BY EndOperationEffect
    <2>2. /\ op[o].kind # "none" /\ op'[o].kind = "none"
          /\ \A y \in Ops \ {o} : op'[y] = op[y]
          /\ active'[x] = IF x = "total" \/ x \in Scope[op[o].kind] THEN active[x] - 1
               ELSE active[x]
          /\ active[x] = Cardinality(Counts(x))
      BY <2>1, OpFacts DEF EndOperationDoes, Inv, OpInv, ActiveCounts, OpOrNone
    <2>3. CASE x = "total" \/ x \in Scope[op[o].kind]
      <3>1. o \in Counts(x) /\ Counts(x)' = Counts(x) \ {o}
        BY <2>2, <2>3 DEF Counts
      <3>2. Cardinality(Counts(x) \ {o}) = Cardinality(Counts(x)) - 1
        BY <3>1, CountsFinite, FS_RemoveElement
      <3> QED
        BY <2>2, <2>3, <3>1, <3>2
    <2>4. CASE ~(x = "total" \/ x \in Scope[op[o].kind])
      <3>1. Counts(x)' = Counts(x)
        BY <2>2, <2>4 DEF Counts
      <3> QED
        BY <2>2, <2>4, <3>1
    <2> QED
      BY <2>3, <2>4
  <1>2. ActiveCounts'
    BY <1>1 DEF ActiveCounts
  <1>3. \A x \in Counters : Cardinality(Counts(x)') \in Nat
    <2> SUFFICES ASSUME NEW x \in Counters PROVE Cardinality(Counts(x)') \in Nat
      OBVIOUS
    <2>1. Counts(x)' \subseteq Ops
      BY DEF Counts
    <2> QED
      BY <2>1, ContextAssumption, FS_Subset, FS_CardinalityType
  <1> QED
    BY <1>1, <1>2, <1>3, EndOperationEffect DEF EndOperationDoes, OpType

\* The counters of a scope are those of roots.
LEMMA ScopeRoots == \A k \in Kinds : Scope[k] \subseteq Roots
  BY DEF Kinds, Scope, Roots

\* NoneActive after a step.
LEMMA NoneActiveNext ==
    ASSUME ActiveCounts', OpOrNone', active'.total = 0
    PROVE  \A o \in Ops : op'[o] = NoOp
  <1>1. Counts("total")' \subseteq Ops /\ IsFiniteSet(Ops)
    BY ContextAssumption DEF Counts
  <1>2. IsFiniteSet(Counts("total")')
    BY <1>1, FS_Subset
  <1>3. Counts("total")' = {}
    BY <1>2, FS_EmptySet DEF ActiveCounts, Counters
  <1> QED
    BY <1>3 DEF Counts, OpOrNone

(***************************************************************************)
(* Every action keeps the invariant: one lemma for each action, with one   *)
(* step for each group of conjuncts that it hardly touches and one for     *)
(* each conjunct that it disturbs.                                         *)
(***************************************************************************)
\* RemoveStage: the operations are counted after the worker has ended, and the keys are renamed.
LEMMA RemoveStageKeeps ==
    ASSUME Inv, RemoveStageDoes
    PROVE  KeysOutliveRow' /\ DeleteIsQuiet' /\ HaltedWorkers'
  <1>1. CASE call' = NoCall /\ Starts /\ (row.enabled \/ UNCHANGED <<queued, worker, entry>>)
              /\ UNCHANGED <<row, placed, staged>>
    <2>1. KeysOutliveRow' /\ DeleteIsQuiet'
      BY <1>1, NoCallTyped DEF RemoveStageDoes, Inv, RowInv, KeysOutliveRow, DeleteIsQuiet
    <2>2. HaltedWorkers'
      BY <1>1 DEF RemoveStageDoes, Inv, WorkerInv, HaltedWorkers, Halts, Starts
    <2> QED
      BY <2>1, <2>2
  <1>2. CASE /\ row'.exists = row.exists /\ row'.device = row.device
             /\ staged' = staged \cup ({placed} \ {None}) /\ placed' = None
             /\ active.total = 0 /\ UNCHANGED <<queued, worker, entry, answer>>
    <2>1. KeysOutliveRow'
      <3>1. row'.exists => row.device \in Devices
        BY <1>2, NoRowFacts DEF Inv, RowInv, RowOrNone
      <3>2. row'.exists => row.device = placed \/ row.device \in staged
        BY <1>2 DEF Inv, RowInv, KeysOutliveRow
      <3> QED
        BY <1>2, <3>1, <3>2, ContextAssumption DEF KeysOutliveRow
    <2>2. DeleteIsQuiet'
      <3>1. \A o \in Ops : op[o] = NoOp
        BY <1>2, NoneActive DEF Inv, OpInv
      <3> QED
        BY <1>2, <3>1, OpFacts DEF RemoveStageDoes, DeleteIsQuiet
    <2>3. HaltedWorkers'
      <3>1. CASE ~overtaken
        <4>1. \A w \in Workers : ~Running(w) \/ worker[w].canceled
          BY <3>1, ContextAssumption DEF RemoveStageDoes, Inv, CallInv, RemovalIsAlone,
             WorkerInv, OneWorker
        <4> QED
          BY <1>2, <4>1 DEF HaltedWorkers, Halts, Running
      <3>2. CASE overtaken
        <4>1. overtaken' = overtaken /\ (row'.state \in Terminal => row.state \in Terminal)
          BY DEF RemoveStageDoes, Terminal
        <4>2. row.exists /\ row.state \in Terminal => \A w \in Workers : Halts(w)
          BY DEF Inv, WorkerInv, HaltedWorkers
        <4> QED
          BY <1>2, <3>2, <4>1, <4>2 DEF HaltedWorkers, Halts
      <3> QED
        BY <3>1, <3>2
    <2> QED
      BY <2>1, <2>2, <2>3
  <1> QED
    BY <1>1, <1>2 DEF RemoveStageDoes

\* A polled answer is written to the row there is, or not at all.
LEMMA WorkerPolledKeeps ==
    ASSUME Inv, NEW w \in Workers, WorkerPolledDoes(w)
    PROVE  RowOrNone'
  <1>1. CASE row' = row
    BY <1>1 DEF Inv, RowInv, RowOrNone
  <1>2. CASE row.exists
    BY <1>2, NoRowFacts DEF WorkerPolledDoes, Inv, RowInv, RowOrNone
  <1> QED
    BY <1>1, <1>2 DEF WorkerPolledDoes

\* The process is gone, and with it everything but the disk and the server.
LEMMA DownKeepsInv ==
    ASSUME Inv, Down,
           UNCHANGED <<row, placed, staged, evidence, server, invite, overtaken>>
    PROVE  Inv'
  <1>1. /\ runtime' = "down" /\ entry' = None /\ control' = None /\ call' = NoCall
        /\ answer' = "none" \/ (answer' = answer /\ call.pc = "idle")
    BY DEF Down
  <1>2. /\ \A w \in Workers : worker'[w] = NoWorker
        /\ \A o \in Ops : op'[o] = NoOp
    BY DEF Down
  <1>3. NoWorker.pc = "none" /\ NoCall.pc = "idle"
    BY DEF NoWorker, NoCall
  <1>4. WorkerType'
    BY DEF Inv, Types, Down, WorkerType, NoWorker, WorkerPcs, ServerStates, Goroutines
  <1>5. CallType'
    BY <1>1, NoCallTyped DEF CallType
  <1>6. OpType'
    <2>1. active' \in [Counters -> Nat]
      BY DEF Down, NoActive, Counters
    <2> QED
      BY <2>1, OpFacts DEF Down, OpType
  <1>7. RowType' /\ DiskType' /\ ServerType' /\ RowOrNone' /\ RowIsKnown' /\ RedeemedIsKnown'
        /\ KeysOutliveRow' /\ DisabledNeverConnected' /\ EvidenceKeepsContext'
    BY DEF Inv, Types, RowInv, WorkerInv, OpInv, RowType, DiskType, ServerType, RowOrNone,
         RowIsKnown,
           RedeemedIsKnown, KeysOutliveRow, DisabledNeverConnected, EvidenceKeepsContext
  <1>8. RefusedIsUnredeemed' /\ AnswerIsLast'
    BY <1>1, <1>3 DEF Inv, RowInv, CallInv, RefusedIsUnredeemed, AnswerIsLast
  <1>9. /\ JoinHasKeys' /\ ReplyIsKnown' /\ RestartSaw' /\ StoppingIsDisabled' /\ RemovalIsAlone'
        /\ DeleteIsQuiet' /\ DeletedHasNoRow'
    BY <1>1, <1>3 DEF JoinHasKeys, JoinPcs, ReplyIsKnown, RestartSaw, StoppingIsDisabled,
         RemovalIsAlone,
       DeleteIsQuiet, DeletedHasNoRow
  <1>10. BeforeActivate' /\ OneWorker' /\ HaltedWorkers'
    BY <1>1, <1>2, <1>3 DEF BeforeActivate, OneWorker, Running, HaltedWorkers, Halts
  <1>11. OpOrNone' /\ OpsOnRow' /\ DisabledIsQuiet' /\ OperationKeepsAuthority'
    BY <1>2, <1>3, OpFacts DEF OpOrNone, OpsOnRow, DisabledIsQuiet, OperationKeepsAuthority
  <1>12. ActiveCounts'
    <2>1. ASSUME NEW x \in Counters
          PROVE  active'[x] = Cardinality(Counts(x)')
      <3>1. Counts(x)' = {}
        BY <1>2, OpFacts DEF Counts
      <3>2. active'[x] = 0
        BY DEF Down, NoActive, Counters
      <3> QED
        BY <3>1, <3>2, FS_EmptySet
    <2> QED
      BY <2>1 DEF ActiveCounts
  <1> QED
    BY <1>4, <1>5, <1>6, <1>7, <1>8, <1>9, <1>10, <1>11, <1>12
      DEF Inv, Types, RowInv, CallInv, WorkerInv, OpInv

LEMMA JoinBeginKeepsInv ==
    ASSUME Inv, NEW change \in SUBSET Roots, NEW invited \in BOOLEAN, JoinBegin(change, invited)
    PROVE  Inv'
  <1>1. JoinBeginDoes(change, invited)
    BY JoinBeginEffect
  <1>2. RowType' /\ DiskType' /\ ServerType' /\ WorkerType' /\ CallType' /\ OpType'
    BY <1>1 DEF JoinBeginDoes, Inv, Types, RowType, DiskType, ServerType, WorkerType, CallType,
      OpType
  <1>3. RowOrNone' /\ RowIsKnown' /\ RedeemedIsKnown' /\ RefusedIsUnredeemed'
    BY <1>1 DEF JoinBeginDoes, Inv, RowInv, RowOrNone, RowIsKnown, RedeemedIsKnown,
      RefusedIsUnredeemed
  <1>4. ReplyIsKnown' /\ RestartSaw' /\ StoppingIsDisabled' /\ RemovalIsAlone' /\ DeleteIsQuiet'
        /\ DeletedHasNoRow' /\ AnswerIsLast'
    BY <1>1 DEF JoinBeginDoes, Inv, CallInv, ReplyIsKnown, RestartSaw, StoppingIsDisabled,
      RemovalIsAlone, DeleteIsQuiet, DeletedHasNoRow, AnswerIsLast
  <1>5. BeforeActivate' /\ OneWorker' /\ HaltedWorkers' /\ DisabledNeverConnected'
    BY <1>1 DEF JoinBeginDoes, Inv, WorkerInv, BeforeActivate, OneWorker, HaltedWorkers,
      DisabledNeverConnected, Running, Halts
  <1>6. ActiveCounts' /\ OpOrNone' /\ DisabledIsQuiet' /\ OperationKeepsAuthority' /\
        EvidenceKeepsContext'
    BY <1>1 DEF JoinBeginDoes, Inv, OpInv, ActiveCounts, OpOrNone, DisabledIsQuiet,
      OperationKeepsAuthority, EvidenceKeepsContext, Counts
  <1>7. KeysOutliveRow'
    BY <1>1 DEF JoinBeginDoes, Inv, RowInv, KeysOutliveRow, Identity
  <1>8. JoinHasKeys'
    BY <1>1 DEF JoinBeginDoes, Inv, CallInv, JoinHasKeys, Identity
  <1>9. OpsOnRow'
    BY <1>1 DEF JoinBeginDoes, Inv, OpInv, OpsOnRow, Identity
  <1> QED
    BY <1>2, <1>3, <1>4, <1>5, <1>6, <1>7, <1>8, <1>9 DEF Inv, Types, RowInv, CallInv,
      WorkerInv, OpInv

LEMMA JoinEnrollKeepsInv ==
    ASSUME Inv, JoinEnroll
    PROVE  Inv'
  <1>1. JoinEnrollDoes
    BY JoinEnrollEffect
  <1>2. RowType' /\ DiskType' /\ ServerType' /\ WorkerType' /\ CallType' /\ OpType'
    BY <1>1 DEF JoinEnrollDoes, Inv, Types, RowType, DiskType, ServerType, WorkerType, CallType,
      OpType
  <1>3. RowOrNone' /\ RedeemedIsKnown' /\ KeysOutliveRow' /\ RefusedIsUnredeemed'
    BY <1>1 DEF JoinEnrollDoes, Inv, RowInv, RowOrNone, RedeemedIsKnown, KeysOutliveRow,
      RefusedIsUnredeemed
  <1>4. ReplyIsKnown' /\ RestartSaw' /\ StoppingIsDisabled' /\ RemovalIsAlone' /\ DeleteIsQuiet'
        /\ DeletedHasNoRow' /\ AnswerIsLast'
    BY <1>1 DEF JoinEnrollDoes, Inv, CallInv, ReplyIsKnown, RestartSaw, StoppingIsDisabled,
      RemovalIsAlone, DeleteIsQuiet, DeletedHasNoRow, AnswerIsLast
  <1>5. OneWorker' /\ HaltedWorkers' /\ DisabledNeverConnected'
    BY <1>1 DEF JoinEnrollDoes, Inv, WorkerInv, OneWorker, HaltedWorkers,
      DisabledNeverConnected, Running, Halts
  <1>6. ActiveCounts' /\ OpOrNone' /\ DisabledIsQuiet' /\ OperationKeepsAuthority' /\
        EvidenceKeepsContext'
    BY <1>1 DEF JoinEnrollDoes, Inv, OpInv, ActiveCounts, OpOrNone, DisabledIsQuiet,
      OperationKeepsAuthority, EvidenceKeepsContext, Counts
  <1>7. RowIsKnown'
    BY <1>1, NoRowFacts DEF JoinEnrollDoes, Inv, RowInv, RowIsKnown, RowOrNone
  <1>8. JoinHasKeys'
    BY <1>1 DEF JoinEnrollDoes, Inv, CallInv, JoinHasKeys, JoinPcs
  <1>9. BeforeActivate'
    BY <1>1 DEF JoinEnrollDoes, Inv, WorkerInv, BeforeActivate, NoCall
  <1>10. OpsOnRow'
    BY <1>1 DEF JoinEnrollDoes, Inv, OpInv, OpsOnRow, OpOrNone
  <1> QED
    BY <1>2, <1>3, <1>4, <1>5, <1>6, <1>7, <1>8, <1>9, <1>10 DEF Inv, Types, RowInv, CallInv,
      WorkerInv, OpInv

LEMMA JoinRedeemKeepsInv ==
    ASSUME Inv, JoinRedeem
    PROVE  Inv'
  <1>1. JoinRedeemDoes
    BY JoinRedeemEffect
  <1>2. RowType' /\ DiskType' /\ ServerType' /\ WorkerType' /\ CallType' /\ OpType'
    BY <1>1 DEF JoinRedeemDoes, Inv, Types, RowType, DiskType, ServerType, WorkerType, CallType,
      OpType
  <1>3. RowOrNone' /\ RedeemedIsKnown' /\ KeysOutliveRow'
    BY <1>1 DEF JoinRedeemDoes, Inv, RowInv, RowOrNone, RedeemedIsKnown, KeysOutliveRow
  <1>4. ReplyIsKnown' /\ RestartSaw' /\ StoppingIsDisabled' /\ RemovalIsAlone' /\ DeleteIsQuiet'
        /\ DeletedHasNoRow' /\ AnswerIsLast'
    BY <1>1 DEF JoinRedeemDoes, Inv, CallInv, ReplyIsKnown, RestartSaw, StoppingIsDisabled,
      RemovalIsAlone, DeleteIsQuiet, DeletedHasNoRow, AnswerIsLast
  <1>5. RowIsKnown'
    BY <1>1, NoRowFacts DEF JoinRedeemDoes, Inv, RowInv, RowIsKnown, RowOrNone
  <1>6. RefusedIsUnredeemed'
    BY <1>1 DEF JoinRedeemDoes, Inv, RowInv, RefusedIsUnredeemed, CallInv, AnswerIsLast
  <1>7. JoinHasKeys'
    BY <1>1 DEF JoinRedeemDoes, Inv, CallInv, JoinHasKeys, JoinPcs
  <1>8. BeforeActivate'
    BY <1>1, NoCallTyped DEF JoinRedeemDoes, Inv, WorkerInv, BeforeActivate
  <1>9. OneWorker'
    BY <1>1 DEF JoinRedeemDoes, Inv, WorkerInv, OneWorker, Running
  <1>10. HaltedWorkers'
    BY <1>1 DEF JoinRedeemDoes, Inv, WorkerInv, HaltedWorkers, Halts
  <1>11. DisabledNeverConnected'
    BY <1>1 DEF JoinRedeemDoes, Inv, WorkerInv, DisabledNeverConnected
  <1>12. ActiveCounts'
    BY <1>1 DEF JoinRedeemDoes, Inv, OpInv, ActiveCounts, Counts
  <1>13. OpOrNone'
    BY <1>1 DEF JoinRedeemDoes, Inv, OpInv, OpOrNone
  <1>14. OpsOnRow'
    BY <1>1 DEF JoinRedeemDoes, Inv, OpInv, OpsOnRow, OpOrNone
  <1>15. DisabledIsQuiet'
    BY <1>1 DEF JoinRedeemDoes, Inv, OpInv, DisabledIsQuiet
  <1>16. OperationKeepsAuthority'
    BY <1>1 DEF JoinRedeemDoes, Inv, OpInv, OperationKeepsAuthority
  <1>17. EvidenceKeepsContext'
    BY <1>1 DEF JoinRedeemDoes, Inv, OpInv, EvidenceKeepsContext
  <1> QED
    BY <1>2, <1>3, <1>4, <1>5, <1>6, <1>7, <1>8, <1>9, <1>10, <1>11, <1>12, <1>13, <1>14, <1>15,
      <1>16, <1>17 DEF Inv, Types, RowInv, CallInv, WorkerInv, OpInv

LEMMA JoinReconcileKeepsInv ==
    ASSUME Inv, JoinReconcile
    PROVE  Inv'
  <1>1. JoinReconcileDoes
    BY JoinReconcileEffect
  <1>2. RowType' /\ DiskType' /\ ServerType' /\ WorkerType' /\ CallType' /\ OpType'
    BY <1>1 DEF JoinReconcileDoes, Inv, Types, RowType, DiskType, ServerType, WorkerType,
      CallType, OpType
  <1>3. RowOrNone' /\ RowIsKnown' /\ RedeemedIsKnown' /\ KeysOutliveRow'
    BY <1>1 DEF JoinReconcileDoes, Inv, RowInv, RowOrNone, RowIsKnown, RedeemedIsKnown,
      KeysOutliveRow
  <1>4. ReplyIsKnown' /\ RestartSaw' /\ StoppingIsDisabled' /\ RemovalIsAlone' /\ DeleteIsQuiet'
        /\ DeletedHasNoRow' /\ AnswerIsLast'
    BY <1>1 DEF JoinReconcileDoes, Inv, CallInv, ReplyIsKnown, RestartSaw, StoppingIsDisabled,
      RemovalIsAlone, DeleteIsQuiet, DeletedHasNoRow, AnswerIsLast
  <1>5. OneWorker' /\ HaltedWorkers' /\ DisabledNeverConnected'
    BY <1>1 DEF JoinReconcileDoes, Inv, WorkerInv, OneWorker, HaltedWorkers,
      DisabledNeverConnected, Running, Halts
  <1>6. ActiveCounts' /\ OpOrNone' /\ OpsOnRow' /\ DisabledIsQuiet' /\ OperationKeepsAuthority'
        /\ EvidenceKeepsContext'
    BY <1>1 DEF JoinReconcileDoes, Inv, OpInv, ActiveCounts, OpOrNone, OpsOnRow,
      DisabledIsQuiet, OperationKeepsAuthority, EvidenceKeepsContext, Counts
  <1>7. RefusedIsUnredeemed'
    BY <1>1 DEF JoinReconcileDoes, Inv, RowInv, RefusedIsUnredeemed, CallInv, RedeemedIsKnown,
      JoinHasKeys, JoinPcs
  <1>8. JoinHasKeys'
    BY <1>1 DEF JoinReconcileDoes, Inv, CallInv, JoinHasKeys, JoinPcs
  <1>9. BeforeActivate'
    BY <1>1, NoCallTyped DEF JoinReconcileDoes, Inv, WorkerInv, BeforeActivate
  <1> QED
    BY <1>2, <1>3, <1>4, <1>5, <1>6, <1>7, <1>8, <1>9 DEF Inv, Types, RowInv, CallInv,
      WorkerInv, OpInv

LEMMA JoinCommitKeepsInv ==
    ASSUME Inv, JoinCommit
    PROVE  Inv'
  <1>1. JoinCommitDoes
    BY JoinCommitEffect
  <1>2. /\ RowType' /\ DiskType' /\ ServerType' /\ CallType' /\ OpType'
        /\ RowIsKnown' /\ RedeemedIsKnown' /\ KeysOutliveRow' /\ RefusedIsUnredeemed'
    BY <1>1, NoCallTyped DEF JoinCommitDoes, Inv, Types, RowInv, RowType, DiskType, ServerType,
      CallType, OpType, RowIsKnown, RedeemedIsKnown, KeysOutliveRow, RefusedIsUnredeemed
  <1>8. WorkerType'
    BY <1>1 DEF JoinCommitDoes, Inv, Types, WorkerType, Starts
  <1>9. ReplyIsKnown' /\ RestartSaw' /\ StoppingIsDisabled' /\ RemovalIsAlone' /\ DeleteIsQuiet'
        /\ DeletedHasNoRow' /\ AnswerIsLast'
    BY <1>1, NoCallTyped DEF JoinCommitDoes, ReplyIsKnown, RestartSaw, StoppingIsDisabled,
      RemovalIsAlone, DeleteIsQuiet, DeletedHasNoRow, AnswerIsLast
  <1>10. BeforeActivate' /\ DisabledNeverConnected'
    BY <1>1, NoCallTyped DEF JoinCommitDoes, Inv, WorkerInv, BeforeActivate,
      DisabledNeverConnected, Starts
  <1>11. ActiveCounts' /\ OpOrNone' /\ OpsOnRow' /\ DisabledIsQuiet' /\ EvidenceKeepsContext'
    BY <1>1 DEF JoinCommitDoes, Inv, OpInv, ActiveCounts, OpOrNone, OpsOnRow, DisabledIsQuiet,
      EvidenceKeepsContext, Counts
  <1>3. RowOrNone'
    BY <1>1 DEF JoinCommitDoes, Inv, RowInv, RowOrNone, CallInv, JoinHasKeys, JoinPcs
  <1>4. JoinHasKeys'
    BY <1>1 DEF JoinCommitDoes, Inv, CallInv, JoinHasKeys, JoinPcs
  <1>5. OneWorker'
    BY <1>1, ContextAssumption DEF JoinCommitDoes, Inv, WorkerInv, OneWorker, Running, Starts
  <1>6. HaltedWorkers'
    BY <1>1 DEF JoinCommitDoes, Inv, WorkerInv, HaltedWorkers, Halts, Starts
  <1>7. OperationKeepsAuthority'
    BY <1>1, RootUnused, ScopeRoots DEF JoinCommitDoes, Inv, OpInv, OperationKeepsAuthority,
      OpOrNone, OpsOnRow, Types, OpType, Operations
  <1> QED
    BY <1>2, <1>3, <1>4, <1>5, <1>6, <1>7, <1>8, <1>9, <1>10, <1>11
      DEF Inv, Types, RowInv, CallInv, WorkerInv, OpInv

LEMMA UpdateKeepsInv ==
    ASSUME Inv, NEW change \in SUBSET Roots, NEW stun \in BOOLEAN, Update(change, stun)
    PROVE  Inv'
  <1>1. UpdateDoes(change, stun)
    BY UpdateEffect
  <1>2. RowType' /\ DiskType' /\ ServerType' /\ OpType'
    BY <1>1 DEF UpdateDoes, Inv, Types, RowType, DiskType, ServerType, OpType, Cancels
  <1>3. RowIsKnown' /\ RedeemedIsKnown' /\ KeysOutliveRow' /\ RefusedIsUnredeemed'
    BY <1>1 DEF UpdateDoes, Inv, RowInv, RowIsKnown, RedeemedIsKnown, KeysOutliveRow,
      RefusedIsUnredeemed, Cancels
  <1>4. ReplyIsKnown' /\ RestartSaw' /\ StoppingIsDisabled' /\ RemovalIsAlone' /\ DeleteIsQuiet'
        /\ DeletedHasNoRow' /\ AnswerIsLast'
    BY <1>1 DEF UpdateDoes, Inv, CallInv, ReplyIsKnown, RestartSaw, StoppingIsDisabled,
      RemovalIsAlone, DeleteIsQuiet, DeletedHasNoRow, AnswerIsLast, Cancels
  <1>5. BeforeActivate' /\ DisabledNeverConnected'
    BY <1>1 DEF UpdateDoes, Inv, WorkerInv, BeforeActivate, DisabledNeverConnected, Cancels
  <1>6. ActiveCounts' /\ OpOrNone' /\ OpsOnRow' /\ DisabledIsQuiet' /\ EvidenceKeepsContext'
    BY <1>1 DEF UpdateDoes, Inv, OpInv, ActiveCounts, OpOrNone, OpsOnRow, DisabledIsQuiet,
      EvidenceKeepsContext, Cancels, Counts
  <1>7. WorkerType'
    BY <1>1 DEF UpdateDoes, Inv, Types, WorkerType, Cancels
  <1>8. CallType'
    BY <1>1 DEF UpdateDoes, Inv, Types, CallType
  <1>9. RowOrNone'
    BY <1>1, NoRowFacts DEF UpdateDoes, Inv, RowInv, RowOrNone
  <1>10. JoinHasKeys'
    BY <1>1 DEF UpdateDoes, Inv, CallInv, JoinHasKeys, JoinPcs
  <1>11. OneWorker'
    BY <1>1 DEF UpdateDoes, Inv, WorkerInv, OneWorker, Running, Cancels
  <1>12. HaltedWorkers'
    BY <1>1 DEF UpdateDoes, Inv, WorkerInv, HaltedWorkers, Cancels, Halts, Terminal
  <1>13. OperationKeepsAuthority'
    BY <1>1, RootUnused, ScopeRoots DEF UpdateDoes, Inv, OpInv, OperationKeepsAuthority,
      OpOrNone, Types, OpType, Operations
  <1> QED
    BY <1>2, <1>3, <1>4, <1>5, <1>6, <1>7, <1>8, <1>9, <1>10, <1>11, <1>12, <1>13 DEF Inv,
      Types, RowInv, CallInv, WorkerInv, OpInv

LEMMA UpdateRestartKeepsInv ==
    ASSUME Inv, UpdateRestart
    PROVE  Inv'
  <1>1. UpdateRestartDoes
    BY UpdateRestartEffect
  <1>2. RowType' /\ DiskType' /\ ServerType' /\ WorkerType' /\ CallType' /\ OpType' /\
        RowOrNone' /\ RowIsKnown' /\ RedeemedIsKnown' /\ KeysOutliveRow' /\ RefusedIsUnredeemed'
        /\ ReplyIsKnown' /\ RestartSaw' /\ StoppingIsDisabled' /\ RemovalIsAlone' /\
        DeleteIsQuiet' /\ DeletedHasNoRow' /\ AnswerIsLast' /\ BeforeActivate' /\
        DisabledNeverConnected' /\ ActiveCounts' /\ OpOrNone' /\ OpsOnRow' /\ DisabledIsQuiet'
        /\ OperationKeepsAuthority' /\ EvidenceKeepsContext'
    BY <1>1, NoCallTyped DEF UpdateRestartDoes, Inv, Types, RowInv, CallInv, WorkerInv, OpInv,
      RowType, DiskType, ServerType, WorkerType, CallType, OpType, RowOrNone, RowIsKnown,
      RedeemedIsKnown, KeysOutliveRow, RefusedIsUnredeemed, ReplyIsKnown, RestartSaw,
      StoppingIsDisabled, RemovalIsAlone, DeleteIsQuiet, DeletedHasNoRow, AnswerIsLast,
      BeforeActivate, DisabledNeverConnected, ActiveCounts, OpOrNone, OpsOnRow, DisabledIsQuiet,
      OperationKeepsAuthority, EvidenceKeepsContext, Starts, Counts
  <1>3. JoinHasKeys'
    BY <1>1 DEF UpdateRestartDoes, Inv, CallInv, JoinHasKeys, JoinPcs, NoCall
  <1>4. OneWorker'
    BY <1>1, ContextAssumption DEF UpdateRestartDoes, Inv, WorkerInv, OneWorker, Running, Starts
  <1>5. HaltedWorkers'
    BY <1>1 DEF UpdateRestartDoes, Inv, WorkerInv, HaltedWorkers, Halts, Starts
  <1> QED
    BY <1>2, <1>3, <1>4, <1>5 DEF Inv, Types, RowInv, CallInv, WorkerInv, OpInv

LEMMA DisableKeepsInv ==
    ASSUME Inv, Disable
    PROVE  Inv'
  <1>1. DisableDoes
    BY DisableEffect
  <1>2. RowType' /\ DiskType' /\ ServerType' /\ WorkerType' /\ CallType' /\ OpType'
    BY <1>1 DEF DisableDoes, Inv, Types, RowType, DiskType, ServerType, WorkerType, CallType,
      OpType, Cancels
  <1>3. RowIsKnown' /\ RedeemedIsKnown' /\ KeysOutliveRow' /\ RefusedIsUnredeemed'
    BY <1>1 DEF DisableDoes, Inv, RowInv, RowIsKnown, RedeemedIsKnown, KeysOutliveRow,
      RefusedIsUnredeemed, Cancels
  <1>4. ReplyIsKnown' /\ RestartSaw' /\ StoppingIsDisabled' /\ RemovalIsAlone' /\ DeleteIsQuiet'
        /\ DeletedHasNoRow' /\ AnswerIsLast'
    BY <1>1 DEF DisableDoes, Inv, CallInv, ReplyIsKnown, RestartSaw, StoppingIsDisabled,
      RemovalIsAlone, DeleteIsQuiet, DeletedHasNoRow, AnswerIsLast, Cancels
  <1>5. RowOrNone'
    BY <1>1, NoRowFacts DEF DisableDoes, Inv, RowInv, RowOrNone
  <1>6. JoinHasKeys'
    BY <1>1 DEF DisableDoes, Inv, CallInv, JoinHasKeys, JoinPcs
  <1>7. BeforeActivate'
    BY <1>1 DEF DisableDoes, Inv, WorkerInv, BeforeActivate, Cancels
  <1>8. OneWorker'
    BY <1>1 DEF DisableDoes, Inv, WorkerInv, OneWorker, Running, Cancels
  <1>9. HaltedWorkers'
    BY <1>1 DEF DisableDoes, Inv, WorkerInv, HaltedWorkers, OneWorker, Cancels, Running, Halts
  <1>10. DisabledNeverConnected'
    BY <1>1 DEF DisableDoes, Inv, WorkerInv, DisabledNeverConnected
  <1>11. ActiveCounts'
    BY <1>1 DEF DisableDoes, Inv, OpInv, ActiveCounts, Counts
  <1>12. OpOrNone'
    BY <1>1 DEF DisableDoes, Inv, OpInv, OpOrNone
  <1>13. OpsOnRow'
    BY <1>1 DEF DisableDoes, Inv, OpInv, OpsOnRow
  <1>14. DisabledIsQuiet'
    BY <1>1 DEF DisableDoes, Inv, OpInv, DisabledIsQuiet
  <1>15. OperationKeepsAuthority'
    BY <1>1 DEF DisableDoes, Inv, OpInv, OperationKeepsAuthority
  <1>16. EvidenceKeepsContext'
    BY <1>1 DEF DisableDoes, Inv, OpInv, EvidenceKeepsContext
  <1> QED
    BY <1>2, <1>3, <1>4, <1>5, <1>6, <1>7, <1>8, <1>9, <1>10, <1>11, <1>12, <1>13, <1>14, <1>15,
      <1>16 DEF Inv, Types, RowInv, CallInv, WorkerInv, OpInv

LEMMA DisableStoppedKeepsInv ==
    ASSUME Inv, DisableStopped
    PROVE  Inv'
  <1>1. DisableStoppedDoes
    BY DisableStoppedEffect
  <1>2. RowType' /\ DiskType' /\ ServerType' /\ WorkerType' /\ CallType' /\ OpType'
    BY <1>1 DEF DisableStoppedDoes, Inv, Types, RowType, DiskType, ServerType, WorkerType,
      CallType, OpType
  <1>3. RowOrNone' /\ RowIsKnown' /\ RedeemedIsKnown' /\ KeysOutliveRow' /\ RefusedIsUnredeemed'
    BY <1>1 DEF DisableStoppedDoes, Inv, RowInv, RowOrNone, RowIsKnown, RedeemedIsKnown,
      KeysOutliveRow, RefusedIsUnredeemed
  <1>4. ReplyIsKnown' /\ RestartSaw' /\ StoppingIsDisabled' /\ RemovalIsAlone' /\ DeleteIsQuiet'
        /\ DeletedHasNoRow'
    BY <1>1 DEF DisableStoppedDoes, Inv, CallInv, ReplyIsKnown, RestartSaw, StoppingIsDisabled,
      RemovalIsAlone, DeleteIsQuiet, DeletedHasNoRow
  <1>5. OneWorker' /\ HaltedWorkers' /\ DisabledNeverConnected'
    BY <1>1 DEF DisableStoppedDoes, Inv, WorkerInv, OneWorker, HaltedWorkers,
      DisabledNeverConnected, Running, Halts
  <1>6. ActiveCounts' /\ OpOrNone' /\ OpsOnRow' /\ OperationKeepsAuthority' /\
        EvidenceKeepsContext'
    BY <1>1 DEF DisableStoppedDoes, Inv, OpInv, ActiveCounts, OpOrNone, OpsOnRow,
      OperationKeepsAuthority, EvidenceKeepsContext, Counts
  <1>7. JoinHasKeys'
    BY <1>1 DEF DisableStoppedDoes, Inv, CallInv, JoinHasKeys, JoinPcs
  <1>8. AnswerIsLast'
    BY <1>1 DEF DisableStoppedDoes, Inv, CallInv, AnswerIsLast, StoppingIsDisabled
  <1>9. BeforeActivate'
    BY <1>1, NoCallTyped DEF DisableStoppedDoes, Inv, WorkerInv, BeforeActivate
  <1>10. DisabledIsQuiet'
    BY <1>1, NoneActive, OpFacts DEF DisableStoppedDoes, Inv, OpInv, DisabledIsQuiet, CallInv,
      StoppingIsDisabled, WorkerInv, HaltedWorkers, Halts
  <1> QED
    BY <1>2, <1>3, <1>4, <1>5, <1>6, <1>7, <1>8, <1>9, <1>10 DEF Inv, Types, RowInv, CallInv,
      WorkerInv, OpInv

LEMMA DisableGiveUpKeepsInv ==
    ASSUME Inv, DisableGiveUp
    PROVE  Inv'
  <1>1. DisableGiveUpDoes
    BY DisableGiveUpEffect
  <1>2. RowOrNone' /\ RowIsKnown' /\ RedeemedIsKnown' /\ KeysOutliveRow' /\ RefusedIsUnredeemed'
    BY <1>1, NoCallTyped DEF DisableGiveUpDoes, Inv, RowInv, RowOrNone, RowIsKnown,
      RedeemedIsKnown, KeysOutliveRow, RefusedIsUnredeemed
  <1>3. ReplyIsKnown' /\ RestartSaw' /\ StoppingIsDisabled' /\ RemovalIsAlone' /\ DeleteIsQuiet'
        /\ DeletedHasNoRow' /\ AnswerIsLast'
    BY <1>1, NoCallTyped DEF DisableGiveUpDoes, Inv, CallInv, ReplyIsKnown, RestartSaw,
      StoppingIsDisabled, RemovalIsAlone, DeleteIsQuiet, DeletedHasNoRow, AnswerIsLast
  <1>4. BeforeActivate' /\ OneWorker' /\ HaltedWorkers' /\ DisabledNeverConnected'
    BY <1>1, NoCallTyped DEF DisableGiveUpDoes, Inv, WorkerInv, BeforeActivate, OneWorker,
      HaltedWorkers, DisabledNeverConnected, Running, Halts
  <1>5. RowType'
    BY <1>1 DEF DisableGiveUpDoes, Inv, Types, RowType
  <1>6. DiskType'
    BY <1>1 DEF DisableGiveUpDoes, Inv, Types, DiskType
  <1>7. ServerType'
    BY <1>1 DEF DisableGiveUpDoes, Inv, Types, ServerType
  <1>8. WorkerType'
    BY <1>1 DEF DisableGiveUpDoes, Inv, Types, WorkerType
  <1>9. CallType'
    BY <1>1, NoCallTyped DEF DisableGiveUpDoes, Inv, Types, CallType
  <1>10. OpType'
    BY <1>1 DEF DisableGiveUpDoes, Inv, Types, OpType
  <1>11. JoinHasKeys'
    BY <1>1 DEF DisableGiveUpDoes, Inv, CallInv, JoinHasKeys, JoinPcs, NoCall
  <1>12. ActiveCounts'
    BY <1>1 DEF DisableGiveUpDoes, Inv, OpInv, ActiveCounts, Counts
  <1>13. OpOrNone'
    BY <1>1 DEF DisableGiveUpDoes, Inv, OpInv, OpOrNone
  <1>14. OpsOnRow'
    BY <1>1 DEF DisableGiveUpDoes, Inv, OpInv, OpsOnRow
  <1>15. DisabledIsQuiet'
    BY <1>1 DEF DisableGiveUpDoes, Inv, OpInv, DisabledIsQuiet
  <1>16. OperationKeepsAuthority'
    BY <1>1 DEF DisableGiveUpDoes, Inv, OpInv, OperationKeepsAuthority
  <1>17. EvidenceKeepsContext'
    BY <1>1 DEF DisableGiveUpDoes, Inv, OpInv, EvidenceKeepsContext
  <1> QED
    BY <1>2, <1>3, <1>4, <1>5, <1>6, <1>7, <1>8, <1>9, <1>10, <1>11, <1>12, <1>13, <1>14, <1>15,
      <1>16, <1>17 DEF Inv, Types, RowInv, CallInv, WorkerInv, OpInv

LEMMA EnableKeepsInv ==
    ASSUME Inv, Enable
    PROVE  Inv'
  <1>1. EnableDoes
    BY EnableEffect
  <1>2. /\ RowType' /\ DiskType' /\ ServerType' /\ CallType' /\ OpType'
        /\ RowIsKnown' /\ RedeemedIsKnown' /\ KeysOutliveRow' /\ RefusedIsUnredeemed'
    BY <1>1, NoCallTyped DEF EnableDoes, Inv, Types, RowInv, RowType, DiskType, ServerType,
      CallType, OpType, RowIsKnown, RedeemedIsKnown, KeysOutliveRow, RefusedIsUnredeemed
  <1>3. WorkerType'
    BY <1>1 DEF EnableDoes, Inv, Types, WorkerType, Starts
  <1>4. RowOrNone'
    BY <1>1, NoRowFacts DEF EnableDoes, Inv, RowInv, RowOrNone
  <1>5. JoinHasKeys' /\ ReplyIsKnown' /\ RestartSaw' /\ StoppingIsDisabled' /\ RemovalIsAlone'
        /\ DeleteIsQuiet' /\ DeletedHasNoRow' /\ AnswerIsLast'
    BY <1>1, NoCallTyped DEF EnableDoes, JoinHasKeys, JoinPcs, ReplyIsKnown, RestartSaw,
      StoppingIsDisabled, RemovalIsAlone, DeleteIsQuiet, DeletedHasNoRow, AnswerIsLast
  <1>6. BeforeActivate' /\ HaltedWorkers' /\ DisabledNeverConnected'
    BY <1>1, NoCallTyped DEF EnableDoes, Inv, WorkerInv, BeforeActivate, HaltedWorkers,
      DisabledNeverConnected, Starts
  <1>7. OneWorker'
    BY <1>1, ContextAssumption DEF EnableDoes, Inv, WorkerInv, OneWorker, Running, Starts
  <1>8. ActiveCounts' /\ OpOrNone' /\ OpsOnRow' /\ DisabledIsQuiet' /\ OperationKeepsAuthority'
        /\ EvidenceKeepsContext'
    BY <1>1 DEF EnableDoes, Inv, OpInv, ActiveCounts, OpOrNone, OpsOnRow, DisabledIsQuiet,
      OperationKeepsAuthority, EvidenceKeepsContext, Counts
  <1> QED
    BY <1>2, <1>3, <1>4, <1>5, <1>6, <1>7, <1>8 DEF Inv, Types, RowInv, CallInv, WorkerInv, OpInv

LEMMA RemoveKeepsInv ==
    ASSUME Inv, Remove
    PROVE  Inv'
  <1>1. RemoveDoes
    BY RemoveEffect
  <1>2. RowType' /\ DiskType' /\ ServerType' /\ WorkerType' /\ CallType' /\ OpType' /\
        RowOrNone' /\ RowIsKnown' /\ RedeemedIsKnown' /\ KeysOutliveRow' /\ RefusedIsUnredeemed'
        /\ ReplyIsKnown' /\ RestartSaw' /\ StoppingIsDisabled' /\ RemovalIsAlone' /\
        DeleteIsQuiet' /\ DeletedHasNoRow' /\ AnswerIsLast' /\ BeforeActivate' /\
        DisabledNeverConnected' /\ ActiveCounts' /\ OpOrNone' /\ OpsOnRow' /\ DisabledIsQuiet'
        /\ OperationKeepsAuthority' /\ EvidenceKeepsContext'
    BY <1>1 DEF RemoveDoes, Inv, Types, RowInv, CallInv, WorkerInv, OpInv, RowType, DiskType,
      ServerType, WorkerType, CallType, OpType, RowOrNone, RowIsKnown, RedeemedIsKnown,
      KeysOutliveRow, RefusedIsUnredeemed, ReplyIsKnown, RestartSaw, StoppingIsDisabled,
      RemovalIsAlone, DeleteIsQuiet, DeletedHasNoRow, AnswerIsLast, BeforeActivate,
      DisabledNeverConnected, ActiveCounts, OpOrNone, OpsOnRow, DisabledIsQuiet,
      OperationKeepsAuthority, EvidenceKeepsContext, Cancels, Counts
  <1>3. JoinHasKeys'
    BY <1>1 DEF RemoveDoes, Inv, CallInv, JoinHasKeys, JoinPcs
  <1>4. OneWorker'
    BY <1>1 DEF RemoveDoes, Inv, WorkerInv, OneWorker, Running, Cancels
  <1>5. HaltedWorkers'
    BY <1>1 DEF RemoveDoes, Inv, WorkerInv, HaltedWorkers, Halts, Cancels
  <1> QED
    BY <1>2, <1>3, <1>4, <1>5 DEF Inv, Types, RowInv, CallInv, WorkerInv, OpInv

LEMMA RemoveGiveUpKeepsInv ==
    ASSUME Inv, RemoveGiveUp
    PROVE  Inv'
  <1>1. RemoveGiveUpDoes
    BY RemoveGiveUpEffect
  <1>2. RowType' /\ DiskType' /\ ServerType' /\ WorkerType' /\ CallType' /\ OpType' /\
        RowOrNone' /\ RowIsKnown' /\ RedeemedIsKnown' /\ KeysOutliveRow' /\ RefusedIsUnredeemed'
        /\ ReplyIsKnown' /\ RestartSaw' /\ StoppingIsDisabled' /\ RemovalIsAlone' /\
        DeleteIsQuiet' /\ DeletedHasNoRow' /\ AnswerIsLast' /\ BeforeActivate' /\ OneWorker' /\
        HaltedWorkers' /\ DisabledNeverConnected' /\ ActiveCounts' /\ OpOrNone' /\ OpsOnRow' /\
        DisabledIsQuiet' /\ OperationKeepsAuthority' /\ EvidenceKeepsContext'
    BY <1>1, NoCallTyped DEF RemoveGiveUpDoes, Inv, Types, RowInv, CallInv, WorkerInv, OpInv,
      RowType, DiskType, ServerType, WorkerType, CallType, OpType, RowOrNone, RowIsKnown,
      RedeemedIsKnown, KeysOutliveRow, RefusedIsUnredeemed, ReplyIsKnown, RestartSaw,
      StoppingIsDisabled, RemovalIsAlone, DeleteIsQuiet, DeletedHasNoRow, AnswerIsLast,
      BeforeActivate, OneWorker, HaltedWorkers, DisabledNeverConnected, ActiveCounts, OpOrNone,
      OpsOnRow, DisabledIsQuiet, OperationKeepsAuthority, EvidenceKeepsContext, Running, Halts,
      Counts
  <1>3. JoinHasKeys'
    BY <1>1 DEF RemoveGiveUpDoes, Inv, CallInv, JoinHasKeys, JoinPcs, NoCall
  <1> QED
    BY <1>2, <1>3 DEF Inv, Types, RowInv, CallInv, WorkerInv, OpInv

LEMMA RemoveStageKeepsInv ==
    ASSUME Inv, RemoveStage
    PROVE  Inv'
  <1>1. RemoveStageDoes
    BY RemoveStageEffect
  <1>2. RowType' /\ DiskType' /\ ServerType' /\ WorkerType' /\ CallType' /\ OpType'
    BY <1>1, NoCallTyped DEF RemoveStageDoes, Inv, Types, RowType, DiskType, ServerType,
      WorkerType, CallType, OpType, Starts
  <1>3. RowIsKnown' /\ RedeemedIsKnown'
    BY <1>1, NoCallTyped DEF RemoveStageDoes, Inv, RowInv, RowIsKnown, RedeemedIsKnown, Starts
  <1>4. ReplyIsKnown' /\ RestartSaw' /\ RemovalIsAlone' /\ DeletedHasNoRow' /\ AnswerIsLast'
    BY <1>1, NoCallTyped DEF RemoveStageDoes, Inv, CallInv, ReplyIsKnown, RestartSaw,
      RemovalIsAlone, DeletedHasNoRow, AnswerIsLast, Starts
  <1>5. BeforeActivate' /\ DisabledNeverConnected'
    BY <1>1, NoCallTyped DEF RemoveStageDoes, Inv, WorkerInv, BeforeActivate,
      DisabledNeverConnected, Starts
  <1>6. ActiveCounts' /\ OpOrNone' /\ DisabledIsQuiet' /\ OperationKeepsAuthority' /\
        EvidenceKeepsContext'
    BY <1>1, NoCallTyped DEF RemoveStageDoes, Inv, OpInv, ActiveCounts, OpOrNone,
      DisabledIsQuiet, OperationKeepsAuthority, EvidenceKeepsContext, Starts, Counts
  <1>7. RowOrNone'
    BY <1>1, ContextAssumption, NoRowFacts DEF RemoveStageDoes, Inv, RowInv, RowOrNone, CallInv,
      RestartSaw
  <1>8. RefusedIsUnredeemed'
    BY <1>1, ContextAssumption DEF RemoveStageDoes, Inv, RowInv, RefusedIsUnredeemed, Types,
      ServerType
  <1>9. JoinHasKeys'
    BY <1>1, NoCallTyped DEF RemoveStageDoes, Inv, CallInv, JoinHasKeys, JoinPcs
  <1>10. StoppingIsDisabled'
    BY <1>1, NoCallTyped DEF RemoveStageDoes, Inv, CallInv, StoppingIsDisabled, RestartSaw
  <1>11. OneWorker'
    BY <1>1, ContextAssumption DEF RemoveStageDoes, Inv, WorkerInv, OneWorker, Running, Starts
  <1>12. OpsOnRow'
    BY <1>1, ContextAssumption DEF RemoveStageDoes, Inv, OpInv, OpsOnRow, OpOrNone
  <1>13. KeysOutliveRow' /\ DeleteIsQuiet' /\ HaltedWorkers'
    BY <1>1, RemoveStageKeeps
  <1> QED
    BY <1>2, <1>3, <1>4, <1>5, <1>6, <1>7, <1>8, <1>9, <1>10, <1>11, <1>12, <1>13 DEF Inv,
      Types, RowInv, CallInv, WorkerInv, OpInv

LEMMA RemoveDeleteKeepsInv ==
    ASSUME Inv, RemoveDelete
    PROVE  Inv'
  <1>1. RemoveDeleteDoes
    BY RemoveDeleteEffect
  <1>2. RowType' /\ ServerType' /\ WorkerType' /\ CallType' /\ OpType'
    BY <1>1, NoCallTyped DEF RemoveDeleteDoes, Inv, Types, RowType, ServerType, WorkerType,
      CallType, OpType
  <1>3. RowOrNone' /\ RedeemedIsKnown' /\ RefusedIsUnredeemed'
    BY <1>1, NoCallTyped DEF RemoveDeleteDoes, Inv, RowInv, RowOrNone, RedeemedIsKnown,
      RefusedIsUnredeemed
  <1>4. ReplyIsKnown' /\ RestartSaw' /\ StoppingIsDisabled' /\ RemovalIsAlone' /\ DeleteIsQuiet'
        /\ AnswerIsLast'
    BY <1>1, NoCallTyped DEF RemoveDeleteDoes, Inv, CallInv, ReplyIsKnown, RestartSaw,
      StoppingIsDisabled, RemovalIsAlone, DeleteIsQuiet, AnswerIsLast
  <1>5. BeforeActivate' /\ OneWorker'
    BY <1>1, NoCallTyped DEF RemoveDeleteDoes, Inv, WorkerInv, BeforeActivate, OneWorker,
      Running
  <1>6. DiskType'
    BY <1>1 DEF RemoveDeleteDoes, Inv, Types, DiskType, CallType
  <1>7. RowIsKnown'
    BY <1>1, NoRowFacts DEF RemoveDeleteDoes, Inv, RowInv, RowIsKnown
  <1>8. KeysOutliveRow'
    BY <1>1, NoRowFacts, ContextAssumption DEF RemoveDeleteDoes, Inv, RowInv, KeysOutliveRow,
      CallInv, DeleteIsQuiet, RowOrNone
  <1>9. JoinHasKeys'
    BY <1>1, NoCallTyped DEF RemoveDeleteDoes, Inv, CallInv, JoinHasKeys, JoinPcs
  <1>10. DeletedHasNoRow'
    BY <1>1, NoCallTyped, NoRowFacts DEF RemoveDeleteDoes, Inv, CallInv, DeletedHasNoRow
  <1>11. HaltedWorkers'
    BY <1>1, NoRowFacts DEF RemoveDeleteDoes, Inv, WorkerInv, HaltedWorkers, Halts
  <1>12. DisabledNeverConnected'
    BY <1>1, NoRowFacts DEF RemoveDeleteDoes, Inv, WorkerInv, DisabledNeverConnected
  <1>13. ActiveCounts'
    BY <1>1 DEF RemoveDeleteDoes, Inv, OpInv, ActiveCounts, Counts
  <1>14. OpOrNone'
    BY <1>1 DEF RemoveDeleteDoes, Inv, OpInv, OpOrNone
  <1>15. OpsOnRow'
    BY <1>1, NoRowFacts, ContextAssumption DEF RemoveDeleteDoes, Inv, OpInv, OpsOnRow, CallInv,
      DeleteIsQuiet, OpOrNone, StoppingIsDisabled
  <1>16. DisabledIsQuiet'
    BY <1>1 DEF RemoveDeleteDoes, Inv, OpInv, DisabledIsQuiet
  <1>17. OperationKeepsAuthority'
    BY <1>1, NoRowFacts, ContextAssumption DEF RemoveDeleteDoes, Inv, OpInv,
      OperationKeepsAuthority, OpOrNone
  <1>18. EvidenceKeepsContext'
    BY <1>1 DEF RemoveDeleteDoes, Inv, OpInv, EvidenceKeepsContext
  <1> QED
    BY <1>2, <1>3, <1>4, <1>5, <1>6, <1>7, <1>8, <1>9, <1>10, <1>11, <1>12, <1>13, <1>14, <1>15,
      <1>16, <1>17, <1>18 DEF Inv, Types, RowInv, CallInv, WorkerInv, OpInv

LEMMA RemoveKeysKeepsInv ==
    ASSUME Inv, RemoveKeys
    PROVE  Inv'
  <1>1. RemoveKeysDoes
    BY RemoveKeysEffect
  <1>2. RowOrNone' /\ RowIsKnown' /\ RedeemedIsKnown' /\ RefusedIsUnredeemed'
    BY <1>1, NoCallTyped DEF RemoveKeysDoes, Inv, RowInv, RowOrNone, RowIsKnown,
      RedeemedIsKnown, RefusedIsUnredeemed
  <1>3. ReplyIsKnown' /\ RestartSaw' /\ StoppingIsDisabled' /\ RemovalIsAlone' /\ DeleteIsQuiet'
        /\ DeletedHasNoRow' /\ AnswerIsLast'
    BY <1>1, NoCallTyped DEF RemoveKeysDoes, Inv, CallInv, ReplyIsKnown, RestartSaw,
      StoppingIsDisabled, RemovalIsAlone, DeleteIsQuiet, DeletedHasNoRow, AnswerIsLast
  <1>4. BeforeActivate' /\ OneWorker' /\ HaltedWorkers' /\ DisabledNeverConnected'
    BY <1>1, NoCallTyped DEF RemoveKeysDoes, Inv, WorkerInv, BeforeActivate, OneWorker,
      HaltedWorkers, DisabledNeverConnected, Running, Halts
  <1>5. RowType'
    BY <1>1 DEF RemoveKeysDoes, Inv, Types, RowType
  <1>6. DiskType'
    BY <1>1 DEF RemoveKeysDoes, Inv, Types, DiskType
  <1>7. ServerType'
    BY <1>1 DEF RemoveKeysDoes, Inv, Types, ServerType
  <1>8. WorkerType'
    BY <1>1 DEF RemoveKeysDoes, Inv, Types, WorkerType
  <1>9. CallType'
    BY <1>1, NoCallTyped DEF RemoveKeysDoes, Inv, Types, CallType
  <1>10. OpType'
    BY <1>1 DEF RemoveKeysDoes, Inv, Types, OpType
  <1>11. KeysOutliveRow'
    BY <1>1 DEF RemoveKeysDoes, Inv, RowInv, KeysOutliveRow, CallInv, DeletedHasNoRow
  <1>12. JoinHasKeys'
    BY <1>1 DEF RemoveKeysDoes, Inv, CallInv, JoinHasKeys, JoinPcs, NoCall
  <1>13. ActiveCounts'
    BY <1>1 DEF RemoveKeysDoes, Inv, OpInv, ActiveCounts, Counts
  <1>14. OpOrNone'
    BY <1>1 DEF RemoveKeysDoes, Inv, OpInv, OpOrNone
  <1>15. OpsOnRow'
    BY <1>1 DEF RemoveKeysDoes, Inv, OpInv, OpsOnRow
  <1>16. DisabledIsQuiet'
    BY <1>1 DEF RemoveKeysDoes, Inv, OpInv, DisabledIsQuiet
  <1>17. OperationKeepsAuthority'
    BY <1>1 DEF RemoveKeysDoes, Inv, OpInv, OperationKeepsAuthority
  <1>18. EvidenceKeepsContext'
    BY <1>1 DEF RemoveKeysDoes, Inv, OpInv, EvidenceKeepsContext
  <1> QED
    BY <1>2, <1>3, <1>4, <1>5, <1>6, <1>7, <1>8, <1>9, <1>10, <1>11, <1>12, <1>13, <1>14, <1>15,
      <1>16, <1>17, <1>18 DEF Inv, Types, RowInv, CallInv, WorkerInv, OpInv

LEMMA WorkerReadKeepsInv ==
    ASSUME Inv, NEW w \in Workers, WorkerRead(w)
    PROVE  Inv'
  <1>1. WorkerReadDoes(w)
    BY WorkerReadEffect
  <1>2. RowType' /\ DiskType' /\ ServerType' /\ WorkerType' /\ CallType' /\ OpType'
    BY <1>1 DEF WorkerReadDoes, Inv, Types, RowType, DiskType, ServerType, WorkerType, CallType,
      OpType
  <1>3. RowOrNone' /\ RowIsKnown' /\ RedeemedIsKnown' /\ KeysOutliveRow' /\ RefusedIsUnredeemed'
    BY <1>1 DEF WorkerReadDoes, Inv, RowInv, RowOrNone, RowIsKnown, RedeemedIsKnown,
      KeysOutliveRow, RefusedIsUnredeemed
  <1>4. JoinHasKeys' /\ ReplyIsKnown' /\ RestartSaw' /\ StoppingIsDisabled' /\ RemovalIsAlone'
        /\ DeleteIsQuiet' /\ DeletedHasNoRow' /\ AnswerIsLast'
    BY <1>1 DEF WorkerReadDoes, Inv, CallInv, JoinHasKeys, ReplyIsKnown, RestartSaw,
      StoppingIsDisabled, RemovalIsAlone, DeleteIsQuiet, DeletedHasNoRow, AnswerIsLast
  <1>5. BeforeActivate' /\ DisabledNeverConnected'
    BY <1>1 DEF WorkerReadDoes, Inv, WorkerInv, BeforeActivate, DisabledNeverConnected
  <1>6. ActiveCounts' /\ OpOrNone' /\ OpsOnRow' /\ OperationKeepsAuthority' /\
        EvidenceKeepsContext'
    BY <1>1 DEF WorkerReadDoes, Inv, OpInv, ActiveCounts, OpOrNone, OpsOnRow,
      OperationKeepsAuthority, EvidenceKeepsContext, Counts
  <1>7. OneWorker'
    BY <1>1 DEF WorkerReadDoes, Inv, WorkerInv, OneWorker, Running
  <1>8. HaltedWorkers'
    BY <1>1 DEF WorkerReadDoes, Inv, WorkerInv, HaltedWorkers, Halts
  <1>9. DisabledIsQuiet'
    BY <1>1 DEF WorkerReadDoes, Inv, OpInv, DisabledIsQuiet, CallInv, AnswerIsLast
  <1> QED
    BY <1>2, <1>3, <1>4, <1>5, <1>6, <1>7, <1>8, <1>9 DEF Inv, Types, RowInv, CallInv,
      WorkerInv, OpInv

LEMMA WorkerGivesUpKeepsInv ==
    ASSUME Inv, NEW w \in Workers, WorkerGivesUp(w)
    PROVE  Inv'
  <1>1. WorkerGivesUpDoes(w)
    BY WorkerGivesUpEffect
  <1>2. RowType' /\ DiskType' /\ ServerType' /\ WorkerType' /\ CallType' /\ OpType'
    BY <1>1 DEF WorkerGivesUpDoes, Inv, Types, RowType, DiskType, ServerType, WorkerType,
      CallType, OpType
  <1>3. RowIsKnown' /\ RedeemedIsKnown' /\ KeysOutliveRow' /\ RefusedIsUnredeemed'
    BY <1>1 DEF WorkerGivesUpDoes, Inv, RowInv, RowIsKnown, RedeemedIsKnown, KeysOutliveRow,
      RefusedIsUnredeemed
  <1>4. JoinHasKeys' /\ ReplyIsKnown' /\ RestartSaw' /\ StoppingIsDisabled' /\ RemovalIsAlone'
        /\ DeleteIsQuiet' /\ DeletedHasNoRow' /\ AnswerIsLast'
    BY <1>1 DEF WorkerGivesUpDoes, Inv, CallInv, JoinHasKeys, ReplyIsKnown, RestartSaw,
      StoppingIsDisabled, RemovalIsAlone, DeleteIsQuiet, DeletedHasNoRow, AnswerIsLast
  <1>5. BeforeActivate' /\ DisabledNeverConnected'
    BY <1>1 DEF WorkerGivesUpDoes, Inv, WorkerInv, BeforeActivate, DisabledNeverConnected
  <1>6. ActiveCounts' /\ OpOrNone' /\ OpsOnRow' /\ DisabledIsQuiet' /\ OperationKeepsAuthority'
        /\ EvidenceKeepsContext'
    BY <1>1 DEF WorkerGivesUpDoes, Inv, OpInv, ActiveCounts, OpOrNone, OpsOnRow,
      DisabledIsQuiet, OperationKeepsAuthority, EvidenceKeepsContext, Counts
  <1>7. RowOrNone'
    BY <1>1, NoRowFacts DEF WorkerGivesUpDoes, Inv, RowInv, RowOrNone
  <1>8. OneWorker'
    BY <1>1 DEF WorkerGivesUpDoes, Inv, WorkerInv, OneWorker, Running
  <1>9. HaltedWorkers'
    BY <1>1 DEF WorkerGivesUpDoes, Inv, WorkerInv, HaltedWorkers, OneWorker, Running, Halts
  <1> QED
    BY <1>2, <1>3, <1>4, <1>5, <1>6, <1>7, <1>8, <1>9 DEF Inv, Types, RowInv, CallInv,
      WorkerInv, OpInv

LEMMA WorkerPollKeepsInv ==
    ASSUME Inv, NEW w \in Workers, WorkerPoll(w)
    PROVE  Inv'
  <1>1. WorkerPollDoes(w)
    BY WorkerPollEffect
  <1>2. RowType' /\ DiskType' /\ ServerType' /\ WorkerType' /\ CallType' /\ OpType'
    BY <1>1 DEF WorkerPollDoes, Inv, Types, RowType, DiskType, ServerType, WorkerType, CallType,
      OpType
  <1>3. RowOrNone' /\ RowIsKnown' /\ RedeemedIsKnown' /\ KeysOutliveRow' /\ RefusedIsUnredeemed'
    BY <1>1 DEF WorkerPollDoes, Inv, RowInv, RowOrNone, RowIsKnown, RedeemedIsKnown,
      KeysOutliveRow, RefusedIsUnredeemed
  <1>4. JoinHasKeys' /\ ReplyIsKnown' /\ RestartSaw' /\ StoppingIsDisabled' /\ RemovalIsAlone'
        /\ DeleteIsQuiet' /\ DeletedHasNoRow' /\ AnswerIsLast'
    BY <1>1 DEF WorkerPollDoes, Inv, CallInv, JoinHasKeys, ReplyIsKnown, RestartSaw,
      StoppingIsDisabled, RemovalIsAlone, DeleteIsQuiet, DeletedHasNoRow, AnswerIsLast
  <1>5. BeforeActivate' /\ DisabledNeverConnected'
    BY <1>1 DEF WorkerPollDoes, Inv, WorkerInv, BeforeActivate, DisabledNeverConnected
  <1>6. ActiveCounts' /\ OpOrNone' /\ OpsOnRow' /\ DisabledIsQuiet' /\ OperationKeepsAuthority'
        /\ EvidenceKeepsContext'
    BY <1>1 DEF WorkerPollDoes, Inv, OpInv, ActiveCounts, OpOrNone, OpsOnRow, DisabledIsQuiet,
      OperationKeepsAuthority, EvidenceKeepsContext, Counts
  <1>7. OneWorker'
    BY <1>1 DEF WorkerPollDoes, Inv, WorkerInv, OneWorker, Running
  <1>8. HaltedWorkers'
    BY <1>1 DEF WorkerPollDoes, Inv, WorkerInv, HaltedWorkers, Halts
  <1> QED
    BY <1>2, <1>3, <1>4, <1>5, <1>6, <1>7, <1>8 DEF Inv, Types, RowInv, CallInv, WorkerInv,
      OpInv

LEMMA WorkerPolledKeepsInv ==
    ASSUME Inv, NEW w \in Workers, WorkerPolled(w)
    PROVE  Inv'
  <1>1. WorkerPolledDoes(w)
    BY WorkerPolledEffect
  <1>2. RowType' /\ DiskType' /\ ServerType' /\ WorkerType' /\ CallType' /\ OpType'
    BY <1>1 DEF WorkerPolledDoes, Inv, Types, RowType, DiskType, ServerType, WorkerType,
      CallType, OpType
  <1>3. RowIsKnown' /\ RedeemedIsKnown' /\ KeysOutliveRow' /\ RefusedIsUnredeemed'
    BY <1>1 DEF WorkerPolledDoes, Inv, RowInv, RowIsKnown, RedeemedIsKnown, KeysOutliveRow,
      RefusedIsUnredeemed
  <1>4. JoinHasKeys' /\ ReplyIsKnown' /\ RestartSaw' /\ StoppingIsDisabled' /\ RemovalIsAlone'
        /\ DeleteIsQuiet' /\ DeletedHasNoRow' /\ AnswerIsLast'
    BY <1>1 DEF WorkerPolledDoes, Inv, CallInv, JoinHasKeys, ReplyIsKnown, RestartSaw,
      StoppingIsDisabled, RemovalIsAlone, DeleteIsQuiet, DeletedHasNoRow, AnswerIsLast
  <1>5. BeforeActivate' /\ DisabledNeverConnected'
    BY <1>1 DEF WorkerPolledDoes, Inv, WorkerInv, BeforeActivate, DisabledNeverConnected
  <1>6. ActiveCounts' /\ OpOrNone' /\ OpsOnRow' /\ DisabledIsQuiet' /\ OperationKeepsAuthority'
        /\ EvidenceKeepsContext'
    BY <1>1 DEF WorkerPolledDoes, Inv, OpInv, ActiveCounts, OpOrNone, OpsOnRow, DisabledIsQuiet,
      OperationKeepsAuthority, EvidenceKeepsContext, Counts
  <1>7. OneWorker'
    BY <1>1 DEF WorkerPolledDoes, Inv, WorkerInv, OneWorker, Running
  <1>8. HaltedWorkers'
    BY <1>1 DEF WorkerPolledDoes, Inv, WorkerInv, HaltedWorkers, OneWorker, Running, Halts
  <1>9. RowOrNone'
    BY <1>1, WorkerPolledKeeps
  <1> QED
    BY <1>2, <1>3, <1>4, <1>5, <1>6, <1>7, <1>8, <1>9 DEF Inv, Types, RowInv, CallInv,
      WorkerInv, OpInv

LEMMA WorkerDialKeepsInv ==
    ASSUME Inv, NEW w \in Workers, WorkerDial(w)
    PROVE  Inv'
  <1>1. WorkerDialDoes(w)
    BY WorkerDialEffect
  <1>2. RowType' /\ DiskType' /\ ServerType' /\ WorkerType' /\ CallType' /\ OpType'
    BY <1>1 DEF WorkerDialDoes, Inv, Types, RowType, DiskType, ServerType, WorkerType, CallType,
      OpType
  <1>3. RowOrNone' /\ RowIsKnown' /\ RedeemedIsKnown' /\ KeysOutliveRow' /\ RefusedIsUnredeemed'
    BY <1>1 DEF WorkerDialDoes, Inv, RowInv, RowOrNone, RowIsKnown, RedeemedIsKnown,
      KeysOutliveRow, RefusedIsUnredeemed
  <1>4. JoinHasKeys' /\ ReplyIsKnown' /\ RestartSaw' /\ StoppingIsDisabled' /\ RemovalIsAlone'
        /\ DeleteIsQuiet' /\ DeletedHasNoRow' /\ AnswerIsLast'
    BY <1>1 DEF WorkerDialDoes, Inv, CallInv, JoinHasKeys, ReplyIsKnown, RestartSaw,
      StoppingIsDisabled, RemovalIsAlone, DeleteIsQuiet, DeletedHasNoRow, AnswerIsLast
  <1>5. BeforeActivate' /\ DisabledNeverConnected'
    BY <1>1 DEF WorkerDialDoes, Inv, WorkerInv, BeforeActivate, DisabledNeverConnected
  <1>6. ActiveCounts' /\ OpOrNone' /\ OpsOnRow' /\ DisabledIsQuiet' /\ OperationKeepsAuthority'
        /\ EvidenceKeepsContext'
    BY <1>1 DEF WorkerDialDoes, Inv, OpInv, ActiveCounts, OpOrNone, OpsOnRow, DisabledIsQuiet,
      OperationKeepsAuthority, EvidenceKeepsContext, Counts
  <1>7. OneWorker'
    BY <1>1 DEF WorkerDialDoes, Inv, WorkerInv, OneWorker, Running
  <1>8. HaltedWorkers'
    BY <1>1 DEF WorkerDialDoes, Inv, WorkerInv, HaltedWorkers, Halts
  <1> QED
    BY <1>2, <1>3, <1>4, <1>5, <1>6, <1>7, <1>8 DEF Inv, Types, RowInv, CallInv, WorkerInv,
      OpInv

LEMMA WorkerConnectedKeepsInv ==
    ASSUME Inv, NEW w \in Workers, WorkerConnected(w)
    PROVE  Inv'
  <1>1. WorkerConnectedDoes(w)
    BY WorkerConnectedEffect
  <1>2. RowType' /\ DiskType' /\ ServerType' /\ WorkerType' /\ CallType' /\ OpType'
    BY <1>1 DEF WorkerConnectedDoes, Inv, Types, RowType, DiskType, ServerType, WorkerType,
      CallType, OpType
  <1>3. RowIsKnown' /\ RedeemedIsKnown' /\ KeysOutliveRow' /\ RefusedIsUnredeemed'
    BY <1>1 DEF WorkerConnectedDoes, Inv, RowInv, RowIsKnown, RedeemedIsKnown, KeysOutliveRow,
      RefusedIsUnredeemed
  <1>4. JoinHasKeys' /\ ReplyIsKnown' /\ RestartSaw' /\ StoppingIsDisabled' /\ RemovalIsAlone'
        /\ DeleteIsQuiet' /\ DeletedHasNoRow' /\ AnswerIsLast'
    BY <1>1 DEF WorkerConnectedDoes, Inv, CallInv, JoinHasKeys, ReplyIsKnown, RestartSaw,
      StoppingIsDisabled, RemovalIsAlone, DeleteIsQuiet, DeletedHasNoRow, AnswerIsLast
  <1>5. ActiveCounts' /\ OpOrNone' /\ OpsOnRow' /\ DisabledIsQuiet' /\ OperationKeepsAuthority'
        /\ EvidenceKeepsContext'
    BY <1>1 DEF WorkerConnectedDoes, Inv, OpInv, ActiveCounts, OpOrNone, OpsOnRow,
      DisabledIsQuiet, OperationKeepsAuthority, EvidenceKeepsContext, Counts
  <1>6. RowOrNone'
    BY <1>1, NoRowFacts DEF WorkerConnectedDoes, Inv, RowInv, RowOrNone
  <1>7. BeforeActivate'
    BY <1>1 DEF WorkerConnectedDoes, Inv, WorkerInv, BeforeActivate
  <1>8. OneWorker'
    BY <1>1 DEF WorkerConnectedDoes, Inv, WorkerInv, OneWorker, Running
  <1>9. HaltedWorkers'
    BY <1>1 DEF WorkerConnectedDoes, Inv, WorkerInv, HaltedWorkers, Terminal, Halts
  <1>10. DisabledNeverConnected'
    BY <1>1 DEF WorkerConnectedDoes, Inv, WorkerInv, DisabledNeverConnected, HaltedWorkers,
      Halts
  <1> QED
    BY <1>2, <1>3, <1>4, <1>5, <1>6, <1>7, <1>8, <1>9, <1>10 DEF Inv, Types, RowInv, CallInv,
      WorkerInv, OpInv

LEMMA WorkerServeKeepsInv ==
    ASSUME Inv, NEW w \in Workers, WorkerServe(w)
    PROVE  Inv'
  <1>1. WorkerServeDoes(w)
    BY WorkerServeEffect
  <1>2. RowType' /\ DiskType' /\ ServerType' /\ WorkerType' /\ CallType' /\ OpType'
    BY <1>1 DEF WorkerServeDoes, Inv, Types, RowType, DiskType, ServerType, WorkerType,
      CallType, OpType
  <1>3. RowOrNone' /\ RowIsKnown' /\ RedeemedIsKnown' /\ KeysOutliveRow' /\ RefusedIsUnredeemed'
    BY <1>1 DEF WorkerServeDoes, Inv, RowInv, RowOrNone, RowIsKnown, RedeemedIsKnown,
      KeysOutliveRow, RefusedIsUnredeemed
  <1>4. JoinHasKeys' /\ ReplyIsKnown' /\ RestartSaw' /\ StoppingIsDisabled' /\ RemovalIsAlone'
        /\ DeleteIsQuiet' /\ DeletedHasNoRow' /\ AnswerIsLast'
    BY <1>1 DEF WorkerServeDoes, Inv, CallInv, JoinHasKeys, ReplyIsKnown, RestartSaw,
      StoppingIsDisabled, RemovalIsAlone, DeleteIsQuiet, DeletedHasNoRow, AnswerIsLast
  <1>5. BeforeActivate' /\ DisabledNeverConnected'
    BY <1>1 DEF WorkerServeDoes, Inv, WorkerInv, BeforeActivate, DisabledNeverConnected
  <1>6. ActiveCounts' /\ OpOrNone' /\ OpsOnRow' /\ DisabledIsQuiet' /\ OperationKeepsAuthority'
        /\ EvidenceKeepsContext'
    BY <1>1 DEF WorkerServeDoes, Inv, OpInv, ActiveCounts, OpOrNone, OpsOnRow, DisabledIsQuiet,
      OperationKeepsAuthority, EvidenceKeepsContext, Counts
  <1>7. OneWorker'
    BY <1>1 DEF WorkerServeDoes, Inv, WorkerInv, OneWorker, Running
  <1>8. HaltedWorkers'
    BY <1>1 DEF WorkerServeDoes, Inv, WorkerInv, HaltedWorkers, Halts
  <1> QED
    BY <1>2, <1>3, <1>4, <1>5, <1>6, <1>7, <1>8 DEF Inv, Types, RowInv, CallInv, WorkerInv,
      OpInv

LEMMA WorkerLostKeepsInv ==
    ASSUME Inv, NEW w \in Workers, WorkerLost(w)
    PROVE  Inv'
  <1>1. WorkerLostDoes(w)
    BY WorkerLostEffect
  <1>2. RowType' /\ DiskType' /\ ServerType' /\ WorkerType' /\ CallType' /\ OpType'
    BY <1>1 DEF WorkerLostDoes, Inv, Types, RowType, DiskType, ServerType, WorkerType, CallType,
      OpType
  <1>3. RowIsKnown' /\ RedeemedIsKnown' /\ KeysOutliveRow' /\ RefusedIsUnredeemed'
    BY <1>1 DEF WorkerLostDoes, Inv, RowInv, RowIsKnown, RedeemedIsKnown, KeysOutliveRow,
      RefusedIsUnredeemed
  <1>4. JoinHasKeys' /\ ReplyIsKnown' /\ RestartSaw' /\ StoppingIsDisabled' /\ RemovalIsAlone'
        /\ DeleteIsQuiet' /\ DeletedHasNoRow' /\ AnswerIsLast'
    BY <1>1 DEF WorkerLostDoes, Inv, CallInv, JoinHasKeys, ReplyIsKnown, RestartSaw,
      StoppingIsDisabled, RemovalIsAlone, DeleteIsQuiet, DeletedHasNoRow, AnswerIsLast
  <1>5. BeforeActivate' /\ DisabledNeverConnected'
    BY <1>1 DEF WorkerLostDoes, Inv, WorkerInv, BeforeActivate, DisabledNeverConnected
  <1>6. ActiveCounts' /\ OpOrNone' /\ OpsOnRow' /\ DisabledIsQuiet' /\ OperationKeepsAuthority'
        /\ EvidenceKeepsContext'
    BY <1>1 DEF WorkerLostDoes, Inv, OpInv, ActiveCounts, OpOrNone, OpsOnRow, DisabledIsQuiet,
      OperationKeepsAuthority, EvidenceKeepsContext, Counts
  <1>7. RowOrNone'
    BY <1>1, NoRowFacts DEF WorkerLostDoes, Inv, RowInv, RowOrNone
  <1>8. OneWorker'
    BY <1>1 DEF WorkerLostDoes, Inv, WorkerInv, OneWorker, Running
  <1>9. HaltedWorkers'
    BY <1>1 DEF WorkerLostDoes, Inv, WorkerInv, HaltedWorkers, OneWorker, Running, Halts
  <1> QED
    BY <1>2, <1>3, <1>4, <1>5, <1>6, <1>7, <1>8, <1>9 DEF Inv, Types, RowInv, CallInv,
      WorkerInv, OpInv

LEMMA WorkerExitKeepsInv ==
    ASSUME Inv, NEW w \in Workers, WorkerExit(w)
    PROVE  Inv'
  <1>1. WorkerExitDoes(w)
    BY WorkerExitEffect
  <1>2. RowType' /\ DiskType' /\ ServerType' /\ WorkerType' /\ CallType' /\ OpType'
    BY <1>1 DEF WorkerExitDoes, Inv, Types, RowType, DiskType, ServerType, WorkerType, CallType,
      OpType
  <1>3. RowOrNone' /\ RowIsKnown' /\ RedeemedIsKnown' /\ KeysOutliveRow' /\ RefusedIsUnredeemed'
    BY <1>1 DEF WorkerExitDoes, Inv, RowInv, RowOrNone, RowIsKnown, RedeemedIsKnown,
      KeysOutliveRow, RefusedIsUnredeemed
  <1>4. JoinHasKeys' /\ ReplyIsKnown' /\ RestartSaw' /\ StoppingIsDisabled' /\ RemovalIsAlone'
        /\ DeleteIsQuiet' /\ DeletedHasNoRow' /\ AnswerIsLast'
    BY <1>1 DEF WorkerExitDoes, Inv, CallInv, JoinHasKeys, ReplyIsKnown, RestartSaw,
      StoppingIsDisabled, RemovalIsAlone, DeleteIsQuiet, DeletedHasNoRow, AnswerIsLast
  <1>5. DisabledNeverConnected'
    BY <1>1 DEF WorkerExitDoes, Inv, WorkerInv, DisabledNeverConnected
  <1>6. ActiveCounts' /\ OpOrNone' /\ OpsOnRow' /\ OperationKeepsAuthority' /\
        EvidenceKeepsContext'
    BY <1>1 DEF WorkerExitDoes, Inv, OpInv, ActiveCounts, OpOrNone, OpsOnRow,
      OperationKeepsAuthority, EvidenceKeepsContext, Counts
  <1>7. BeforeActivate'
    BY <1>1 DEF WorkerExitDoes, Inv, WorkerInv, BeforeActivate, NoWorker
  <1>8. OneWorker'
    BY <1>1 DEF WorkerExitDoes, Inv, WorkerInv, OneWorker, NoWorker, Running
  <1>9. HaltedWorkers'
    BY <1>1 DEF WorkerExitDoes, Inv, WorkerInv, HaltedWorkers, NoWorker, Halts
  <1>10. DisabledIsQuiet'
    BY <1>1 DEF WorkerExitDoes, Inv, OpInv, DisabledIsQuiet, NoWorker
  <1> QED
    BY <1>2, <1>3, <1>4, <1>5, <1>6, <1>7, <1>8, <1>9, <1>10 DEF Inv, Types, RowInv, CallInv,
      WorkerInv, OpInv

LEMMA BeginOperationKeepsInv ==
    ASSUME Inv, NEW o \in Ops, NEW kind \in Kinds, BeginOperation(o, kind)
    PROVE  Inv'
  <1>1. BeginOperationDoes(o, kind)
    BY BeginOperationEffect
  <1>2. RowType' /\ DiskType' /\ ServerType' /\ WorkerType' /\ CallType'
    BY <1>1 DEF BeginOperationDoes, Inv, Types, RowType, DiskType, ServerType, WorkerType,
      CallType
  <1>3. RowOrNone' /\ RowIsKnown' /\ RedeemedIsKnown' /\ KeysOutliveRow' /\ RefusedIsUnredeemed'
    BY <1>1 DEF BeginOperationDoes, Inv, RowInv, RowOrNone, RowIsKnown, RedeemedIsKnown,
      KeysOutliveRow, RefusedIsUnredeemed
  <1>4. JoinHasKeys' /\ ReplyIsKnown' /\ RestartSaw' /\ StoppingIsDisabled' /\ RemovalIsAlone'
        /\ DeletedHasNoRow' /\ AnswerIsLast'
    BY <1>1 DEF BeginOperationDoes, Inv, CallInv, JoinHasKeys, ReplyIsKnown, RestartSaw,
      StoppingIsDisabled, RemovalIsAlone, DeletedHasNoRow, AnswerIsLast
  <1>5. BeforeActivate' /\ OneWorker' /\ HaltedWorkers' /\ DisabledNeverConnected'
    BY <1>1 DEF BeginOperationDoes, Inv, WorkerInv, BeforeActivate, OneWorker, HaltedWorkers,
      DisabledNeverConnected, Running, Halts
  <1>6. OperationKeepsAuthority' /\ EvidenceKeepsContext'
    BY <1>1 DEF BeginOperationDoes, Inv, OpInv, OperationKeepsAuthority, EvidenceKeepsContext
  <1>7. DeleteIsQuiet'
    BY <1>1 DEF BeginOperationDoes, Inv, CallInv, DeleteIsQuiet, StoppingIsDisabled
  <1>8. OpOrNone'
    BY <1>1, OpFacts, NoRowFacts DEF BeginOperationDoes, Inv, OpInv, OpOrNone, RowInv, RowOrNone
  <1>9. OpsOnRow'
    BY <1>1 DEF BeginOperationDoes, Inv, OpInv, OpsOnRow, RowInv, RowIsKnown
  <1>10. DisabledIsQuiet'
    BY <1>1 DEF BeginOperationDoes, Inv, OpInv, DisabledIsQuiet, CallInv, AnswerIsLast
  <1>11. ActiveCounts'
    BY BeginCounts
  <1>12. OpType'
    BY <1>1 DEF BeginOperationDoes
  <1> QED
    BY <1>2, <1>3, <1>4, <1>5, <1>6, <1>7, <1>8, <1>9, <1>10, <1>11, <1>12 DEF Inv, Types,
      RowInv, CallInv, WorkerInv, OpInv

LEMMA PersistKeepsInv ==
    ASSUME Inv, NEW o \in Ops, Persist(o)
    PROVE  Inv'
  <1>1. PersistDoes(o)
    BY PersistEffect
  <1>2. RowType' /\ ServerType' /\ WorkerType' /\ CallType' /\ OpType'
    BY <1>1 DEF PersistDoes, Inv, Types, RowType, ServerType, WorkerType, CallType, OpType
  <1>3. RowOrNone' /\ RowIsKnown' /\ RedeemedIsKnown' /\ KeysOutliveRow' /\ RefusedIsUnredeemed'
    BY <1>1 DEF PersistDoes, Inv, RowInv, RowOrNone, RowIsKnown, RedeemedIsKnown,
      KeysOutliveRow, RefusedIsUnredeemed
  <1>4. JoinHasKeys' /\ ReplyIsKnown' /\ RestartSaw' /\ StoppingIsDisabled' /\ RemovalIsAlone'
        /\ DeleteIsQuiet' /\ DeletedHasNoRow' /\ AnswerIsLast'
    BY <1>1 DEF PersistDoes, Inv, CallInv, JoinHasKeys, ReplyIsKnown, RestartSaw,
      StoppingIsDisabled, RemovalIsAlone, DeleteIsQuiet, DeletedHasNoRow, AnswerIsLast
  <1>5. BeforeActivate' /\ OneWorker' /\ HaltedWorkers' /\ DisabledNeverConnected'
    BY <1>1 DEF PersistDoes, Inv, WorkerInv, BeforeActivate, OneWorker, HaltedWorkers,
      DisabledNeverConnected, NoCall, Running, Halts
  <1>6. ActiveCounts' /\ OpOrNone' /\ OpsOnRow' /\ DisabledIsQuiet' /\ OperationKeepsAuthority'
    BY <1>1 DEF PersistDoes, Inv, OpInv, ActiveCounts, OpOrNone, OpsOnRow, DisabledIsQuiet,
      OperationKeepsAuthority, Counts
  <1>7. DiskType'
    BY <1>1, OpFacts DEF PersistDoes, Inv, Types, DiskType, OpInv, OpOrNone
  <1>8. EvidenceKeepsContext'
    BY <1>1 DEF PersistDoes, Inv, OpInv, EvidenceKeepsContext, NoOp, OpsOnRow,
      OperationKeepsAuthority
  <1> QED
    BY <1>2, <1>3, <1>4, <1>5, <1>6, <1>7, <1>8 DEF Inv, Types, RowInv, CallInv, WorkerInv,
      OpInv

LEMMA EndOperationKeepsInv ==
    ASSUME Inv, NEW o \in Ops, EndOperation(o)
    PROVE  Inv'
  <1>1. EndOperationDoes(o)
    BY EndOperationEffect
  <1>2. RowType' /\ DiskType' /\ ServerType' /\ WorkerType' /\ CallType'
    BY <1>1, NoCallTyped DEF EndOperationDoes, Inv, Types, RowType, DiskType, ServerType,
      WorkerType, CallType
  <1>3. RowOrNone' /\ RowIsKnown' /\ RedeemedIsKnown' /\ KeysOutliveRow' /\ RefusedIsUnredeemed'
    BY <1>1, NoCallTyped DEF EndOperationDoes, Inv, RowInv, RowOrNone, RowIsKnown,
      RedeemedIsKnown, KeysOutliveRow, RefusedIsUnredeemed
  <1>4. ReplyIsKnown' /\ RestartSaw' /\ StoppingIsDisabled' /\ RemovalIsAlone' /\
        DeletedHasNoRow'
    BY <1>1, NoCallTyped DEF EndOperationDoes, Inv, CallInv, ReplyIsKnown, RestartSaw,
      StoppingIsDisabled, RemovalIsAlone, DeletedHasNoRow
  <1>5. BeforeActivate' /\ OneWorker' /\ HaltedWorkers' /\ DisabledNeverConnected'
    BY <1>1, NoCallTyped DEF EndOperationDoes, Inv, WorkerInv, BeforeActivate, OneWorker,
      HaltedWorkers, DisabledNeverConnected, Running, Halts
  <1>6. JoinHasKeys'
    BY <1>1, NoCallTyped DEF EndOperationDoes, Inv, CallInv, JoinHasKeys, JoinPcs
  <1>7. DeleteIsQuiet'
    BY <1>1, OpFacts DEF EndOperationDoes, Inv, CallInv, DeleteIsQuiet, NoCall
  <1>8. AnswerIsLast'
    BY <1>1, NoCallTyped DEF EndOperationDoes, Inv, CallInv, AnswerIsLast, StoppingIsDisabled
  <1>9. OpOrNone'
    BY <1>1 DEF EndOperationDoes, Inv, OpInv, OpOrNone
  <1>10. OpsOnRow'
    BY <1>1 DEF EndOperationDoes, Inv, OpInv, OpsOnRow
  <1>11. OperationKeepsAuthority'
    BY <1>1 DEF EndOperationDoes, Inv, OpInv, OperationKeepsAuthority
  <1>12. EvidenceKeepsContext'
    BY <1>1 DEF EndOperationDoes, Inv, OpInv, EvidenceKeepsContext
  <1>13. ActiveCounts' /\ OpType'
    BY EndCounts
  <1>14. DisabledIsQuiet'
    <2>1. CASE answer' = "disabled" /\ call.pc = "drain" /\ active'.total = 0
      <3>1. \A x \in Ops : op'[x] = NoOp
        BY <1>13, <1>9, <2>1, NoneActiveNext
      <3>2. \A x \in Workers : Halts(x)'
        BY <1>1, <2>1 DEF EndOperationDoes, Inv, CallInv, WorkerInv, StoppingIsDisabled,
             HaltedWorkers, Halts
      <3> QED
        BY <3>1, <3>2, OpFacts DEF DisabledIsQuiet, Halts
    <2>2. CASE UNCHANGED <<call, answer>>
      BY <1>1, <2>2, OpFacts DEF EndOperationDoes, Inv, OpInv, DisabledIsQuiet
    <2> QED
      BY <1>1, <2>1, <2>2 DEF EndOperationDoes
  <1> QED
    BY <1>2, <1>3, <1>4, <1>5, <1>6, <1>7, <1>8, <1>9, <1>10, <1>11, <1>12, <1>13, <1>14 DEF
      Inv, Types, RowInv, CallInv, WorkerInv, OpInv

LEMMA SettleKeepsInv ==
    ASSUME Inv, Settle
    PROVE  Inv'
  <1>1. SettleDoes
    BY SettleEffect
  <1>2. RowType' /\ DiskType' /\ ServerType' /\ WorkerType' /\ CallType' /\ OpType'
    BY <1>1 DEF SettleDoes, Inv, Types, RowType, DiskType, ServerType, WorkerType, CallType,
      OpType
  <1>3. RowOrNone' /\ RowIsKnown' /\ RedeemedIsKnown' /\ KeysOutliveRow' /\ RefusedIsUnredeemed'
    BY <1>1 DEF SettleDoes, Inv, RowInv, RowOrNone, RowIsKnown, RedeemedIsKnown, KeysOutliveRow,
      RefusedIsUnredeemed
  <1>4. JoinHasKeys' /\ ReplyIsKnown' /\ RestartSaw' /\ StoppingIsDisabled' /\ RemovalIsAlone'
        /\ DeleteIsQuiet' /\ DeletedHasNoRow' /\ AnswerIsLast'
    BY <1>1 DEF SettleDoes, Inv, CallInv, JoinHasKeys, ReplyIsKnown, RestartSaw,
      StoppingIsDisabled, RemovalIsAlone, DeleteIsQuiet, DeletedHasNoRow, AnswerIsLast
  <1>5. BeforeActivate' /\ OneWorker' /\ HaltedWorkers' /\ DisabledNeverConnected'
    BY <1>1 DEF SettleDoes, Inv, WorkerInv, BeforeActivate, OneWorker, HaltedWorkers,
      DisabledNeverConnected, NoCall, Running, Halts
  <1>6. ActiveCounts' /\ OpOrNone' /\ OpsOnRow' /\ DisabledIsQuiet' /\ OperationKeepsAuthority'
        /\ EvidenceKeepsContext'
    BY <1>1 DEF SettleDoes, Inv, OpInv, ActiveCounts, OpOrNone, OpsOnRow, DisabledIsQuiet,
      OperationKeepsAuthority, EvidenceKeepsContext, Counts
  <1> QED
    BY <1>2, <1>3, <1>4, <1>5, <1>6 DEF Inv, Types, RowInv, CallInv, WorkerInv, OpInv

LEMMA ServerMovesKeepsInv ==
    ASSUME Inv, ServerMoves
    PROVE  Inv'
  <1>1. ServerMovesDoes
    BY ServerMovesEffect
  <1>2. RowType' /\ DiskType' /\ ServerType' /\ WorkerType' /\ CallType' /\ OpType'
    BY <1>1 DEF ServerMovesDoes, Inv, Types, RowType, DiskType, ServerType, WorkerType,
      CallType, OpType
  <1>3. RowOrNone' /\ KeysOutliveRow'
    BY <1>1 DEF ServerMovesDoes, Inv, RowInv, RowOrNone, KeysOutliveRow
  <1>4. JoinHasKeys' /\ RestartSaw' /\ StoppingIsDisabled' /\ RemovalIsAlone' /\ DeleteIsQuiet'
        /\ DeletedHasNoRow' /\ AnswerIsLast'
    BY <1>1 DEF ServerMovesDoes, Inv, CallInv, JoinHasKeys, RestartSaw, StoppingIsDisabled,
      RemovalIsAlone, DeleteIsQuiet, DeletedHasNoRow, AnswerIsLast
  <1>5. BeforeActivate' /\ OneWorker' /\ HaltedWorkers' /\ DisabledNeverConnected'
    BY <1>1 DEF ServerMovesDoes, Inv, WorkerInv, BeforeActivate, OneWorker, HaltedWorkers,
      DisabledNeverConnected, NoCall, Running, Halts
  <1>6. ActiveCounts' /\ OpOrNone' /\ DisabledIsQuiet' /\ OperationKeepsAuthority' /\
        EvidenceKeepsContext'
    BY <1>1 DEF ServerMovesDoes, Inv, OpInv, ActiveCounts, OpOrNone, DisabledIsQuiet,
      OperationKeepsAuthority, EvidenceKeepsContext, Counts
  <1>7. RowIsKnown'
    BY <1>1, NoRowFacts DEF ServerMovesDoes, Inv, RowInv, RowIsKnown, RowOrNone
  <1>8. RedeemedIsKnown'
    BY <1>1, ContextAssumption DEF ServerMovesDoes, Inv, RowInv, RedeemedIsKnown
  <1>9. RefusedIsUnredeemed'
    BY <1>1, ContextAssumption DEF ServerMovesDoes, Inv, RowInv, RefusedIsUnredeemed, Types,
      DiskType
  <1>10. ReplyIsKnown'
    BY <1>1 DEF ServerMovesDoes, Inv, CallInv, ReplyIsKnown, JoinHasKeys, JoinPcs
  <1>11. OpsOnRow'
    BY <1>1 DEF ServerMovesDoes, Inv, OpInv, OpsOnRow, OpOrNone
  <1> QED
    BY <1>2, <1>3, <1>4, <1>5, <1>6, <1>7, <1>8, <1>9, <1>10, <1>11 DEF Inv, Types, RowInv,
      CallInv, WorkerInv, OpInv

LEMMA StartKeepsInv ==
    ASSUME Inv, Start
    PROVE  Inv'
  <1>1. StartDoes
    BY StartEffect
  <1>2. RowType' /\ DiskType' /\ ServerType' /\ WorkerType' /\ CallType' /\ OpType'
    BY <1>1 DEF StartDoes, Inv, Types, RowType, DiskType, ServerType, WorkerType, CallType,
      OpType
  <1>3. RowOrNone' /\ RowIsKnown' /\ RedeemedIsKnown' /\ KeysOutliveRow' /\ RefusedIsUnredeemed'
    BY <1>1 DEF StartDoes, Inv, RowInv, RowOrNone, RowIsKnown, RedeemedIsKnown, KeysOutliveRow,
      RefusedIsUnredeemed
  <1>4. JoinHasKeys' /\ ReplyIsKnown' /\ RestartSaw' /\ StoppingIsDisabled' /\ RemovalIsAlone'
        /\ DeleteIsQuiet' /\ DeletedHasNoRow' /\ AnswerIsLast'
    BY <1>1 DEF StartDoes, Inv, CallInv, JoinHasKeys, ReplyIsKnown, RestartSaw,
      StoppingIsDisabled, RemovalIsAlone, DeleteIsQuiet, DeletedHasNoRow, AnswerIsLast
  <1>5. BeforeActivate' /\ OneWorker' /\ HaltedWorkers' /\ DisabledNeverConnected'
    BY <1>1 DEF StartDoes, Inv, WorkerInv, BeforeActivate, OneWorker, HaltedWorkers,
      DisabledNeverConnected, Running, Halts
  <1>6. ActiveCounts' /\ OpOrNone' /\ OpsOnRow' /\ DisabledIsQuiet' /\ OperationKeepsAuthority'
        /\ EvidenceKeepsContext'
    BY <1>1 DEF StartDoes, Inv, OpInv, ActiveCounts, OpOrNone, OpsOnRow, DisabledIsQuiet,
      OperationKeepsAuthority, EvidenceKeepsContext, Counts
  <1> QED
    BY <1>2, <1>3, <1>4, <1>5, <1>6 DEF Inv, Types, RowInv, CallInv, WorkerInv, OpInv

LEMMA ActivateKeepsInv ==
    ASSUME Inv, Activate
    PROVE  Inv'
  <1>1. ActivateDoes
    BY ActivateEffect
  <1>2. RowType' /\ DiskType' /\ ServerType' /\ WorkerType' /\ CallType' /\ OpType'
    BY <1>1 DEF ActivateDoes, Inv, Types, RowType, DiskType, ServerType, WorkerType, CallType,
      OpType
  <1>3. RowOrNone' /\ RowIsKnown' /\ RedeemedIsKnown' /\ KeysOutliveRow' /\ RefusedIsUnredeemed'
    BY <1>1 DEF ActivateDoes, Inv, RowInv, RowOrNone, RowIsKnown, RedeemedIsKnown,
      KeysOutliveRow, RefusedIsUnredeemed
  <1>4. JoinHasKeys' /\ ReplyIsKnown' /\ RestartSaw' /\ StoppingIsDisabled' /\ RemovalIsAlone'
        /\ DeleteIsQuiet' /\ DeletedHasNoRow' /\ AnswerIsLast'
    BY <1>1 DEF ActivateDoes, Inv, CallInv, JoinHasKeys, ReplyIsKnown, RestartSaw,
      StoppingIsDisabled, RemovalIsAlone, DeleteIsQuiet, DeletedHasNoRow, AnswerIsLast
  <1>5. BeforeActivate' /\ DisabledNeverConnected'
    BY <1>1 DEF ActivateDoes, Inv, WorkerInv, BeforeActivate, DisabledNeverConnected
  <1>6. ActiveCounts' /\ OpOrNone' /\ OpsOnRow' /\ OperationKeepsAuthority' /\
        EvidenceKeepsContext'
    BY <1>1 DEF ActivateDoes, Inv, OpInv, ActiveCounts, OpOrNone, OpsOnRow,
      OperationKeepsAuthority, EvidenceKeepsContext, Counts
  <1>7. OneWorker'
    BY <1>1 DEF ActivateDoes, Inv, WorkerInv, OneWorker, Running, BeforeActivate
  <1>8. HaltedWorkers'
    BY <1>1 DEF ActivateDoes, Inv, WorkerInv, HaltedWorkers, Halts
  <1>9. DisabledIsQuiet'
    BY <1>1 DEF ActivateDoes, Inv, OpInv, DisabledIsQuiet
  <1> QED
    BY <1>2, <1>3, <1>4, <1>5, <1>6, <1>7, <1>8, <1>9 DEF Inv, Types, RowInv, CallInv,
      WorkerInv, OpInv

LEMMA StopKeepsInv ==
    ASSUME Inv, Stop
    PROVE  Inv'
  <1>1. StopDoes
    BY StopEffect
  <1>2. RowType' /\ DiskType' /\ ServerType' /\ WorkerType' /\ CallType' /\ OpType'
    BY <1>1 DEF StopDoes, Inv, Types, RowType, DiskType, ServerType, WorkerType, CallType,
      OpType
  <1>3. RowOrNone' /\ RowIsKnown' /\ RedeemedIsKnown' /\ KeysOutliveRow' /\ RefusedIsUnredeemed'
    BY <1>1 DEF StopDoes, Inv, RowInv, RowOrNone, RowIsKnown, RedeemedIsKnown, KeysOutliveRow,
      RefusedIsUnredeemed
  <1>4. JoinHasKeys' /\ ReplyIsKnown' /\ RestartSaw' /\ StoppingIsDisabled' /\ RemovalIsAlone'
        /\ DeleteIsQuiet' /\ DeletedHasNoRow' /\ AnswerIsLast'
    BY <1>1 DEF StopDoes, Inv, CallInv, JoinHasKeys, ReplyIsKnown, RestartSaw,
      StoppingIsDisabled, RemovalIsAlone, DeleteIsQuiet, DeletedHasNoRow, AnswerIsLast
  <1>5. BeforeActivate' /\ DisabledNeverConnected'
    BY <1>1 DEF StopDoes, Inv, WorkerInv, BeforeActivate, DisabledNeverConnected
  <1>6. ActiveCounts' /\ OpOrNone' /\ OpsOnRow' /\ DisabledIsQuiet' /\ OperationKeepsAuthority'
        /\ EvidenceKeepsContext'
    BY <1>1 DEF StopDoes, Inv, OpInv, ActiveCounts, OpOrNone, OpsOnRow, DisabledIsQuiet,
      OperationKeepsAuthority, EvidenceKeepsContext, Counts
  <1>7. OneWorker'
    BY <1>1 DEF StopDoes, Inv, WorkerInv, OneWorker, Running
  <1>8. HaltedWorkers'
    BY <1>1 DEF StopDoes, Inv, WorkerInv, HaltedWorkers, Halts
  <1> QED
    BY <1>2, <1>3, <1>4, <1>5, <1>6, <1>7, <1>8 DEF Inv, Types, RowInv, CallInv, WorkerInv,
      OpInv

LEMMA StoppedKeepsInv ==
    ASSUME Inv, Stopped
    PROVE  Inv'
  BY StoppedEffect, DownKeepsInv DEF StoppedDoes

LEMMA CrashKeepsInv ==
    ASSUME Inv, Crash
    PROVE  Inv'
  BY CrashEffect, DownKeepsInv DEF CrashDoes

(***************************************************************************)
(* The invariant.                                                          *)
(***************************************************************************)
\* A new context, or an enrolled one, in a process that has not started.
LEMMA InitInv ==
    ASSUME Init
    PROVE  Inv
  <1> DEFINE d == CHOOSE x \in Devices : TRUE
  <1>1. d \in Devices
    BY ContextAssumption
  <1>2. /\ row \in Rows /\ placed \in Devices \cup {None}
        /\ server \in [Devices -> ServerStates] /\ invite \in {"open", "gone"}
        /\ row = NoRow
             \/ (row.exists /\ row.device \in Devices /\ row.device = placed /\ row.enabled
                           /\ row.state = "enrolled" /\ server[row.device] # "none")
    <2>1. CASE /\ row = NoRow
               /\ placed = None
               /\ server = [x \in Devices |-> "none"]
               /\ invite \in {"open", "gone"}
      BY <2>1, NoCallTyped DEF ServerStates
    <2>2. CASE /\ row = Enrolled(d)
               /\ placed = d
               /\ server = [x \in Devices |-> IF x = d THEN "enrolled" ELSE "none"]
               /\ invite = "gone"
      <3> HIDE DEF d
      <3>1. server \in [Devices -> ServerStates] /\ server[d] = "enrolled"
        BY <1>1, <2>2 DEF ServerStates
      <3> QED
        BY <1>1, <2>2, <3>1, EnrolledRow
    <2> QED
      BY <2>1, <2>2 DEF Init
  <1> HIDE DEF d
  <1>3. /\ staged = {} /\ evidence = {} /\ runtime = "down" /\ queued = FALSE /\ entry = None
        /\ control = None /\ call = NoCall /\ answer = "none"
        /\ \A w \in Workers : worker[w] = NoWorker
        /\ \A o \in Ops : op[o] = NoOp
        /\ overtaken = FALSE
    BY DEF Init
  <1>4. NoWorker.pc = "none" /\ NoCall.pc = "idle"
    BY DEF NoWorker, NoCall
  <1>5. RowType /\ DiskType /\ ServerType
    BY <1>2, <1>3 DEF RowType, DiskType, ServerType
  <1>6. WorkerType
    BY DEF Init, WorkerType, NoWorker, WorkerPcs, ServerStates, Goroutines
  <1>7. CallType
    BY <1>3, NoCallTyped DEF CallType
  <1>8. OpType
    <2>1. active \in [Counters -> Nat]
      BY DEF Init, NoActive, Counters
    <2> QED
      BY <2>1, OpFacts DEF Init, OpType
  <1>9. RowOrNone /\ RowIsKnown /\ KeysOutliveRow /\ DisabledNeverConnected
    BY <1>2, NoRowFacts DEF RowOrNone, RowIsKnown, KeysOutliveRow, DisabledNeverConnected
  <1>10. RedeemedIsKnown /\ RefusedIsUnredeemed /\ AnswerIsLast
    BY <1>2, <1>3, ContextAssumption DEF RedeemedIsKnown, RefusedIsUnredeemed, AnswerIsLast
  <1>11. /\ JoinHasKeys /\ ReplyIsKnown /\ RestartSaw /\ StoppingIsDisabled /\ RemovalIsAlone
         /\ DeleteIsQuiet /\ DeletedHasNoRow
    BY <1>3, <1>4 DEF JoinHasKeys, JoinPcs, ReplyIsKnown, RestartSaw, StoppingIsDisabled,
       RemovalIsAlone, DeleteIsQuiet, DeletedHasNoRow
  <1>12. BeforeActivate /\ OneWorker /\ HaltedWorkers
    BY <1>3, <1>4 DEF BeforeActivate, OneWorker, Running, HaltedWorkers, Halts
  <1>13. OpOrNone /\ OpsOnRow /\ DisabledIsQuiet /\ OperationKeepsAuthority
           /\ EvidenceKeepsContext
    BY <1>3, <1>4, OpFacts DEF OpOrNone, OpsOnRow, DisabledIsQuiet, OperationKeepsAuthority,
       EvidenceKeepsContext
  <1>14. ActiveCounts
    <2>1. ASSUME NEW x \in Counters PROVE active[x] = Cardinality(Counts(x))
      <3>1. Counts(x) = {}
        BY <1>3, OpFacts DEF Counts
      <3>2. active[x] = 0
        BY DEF Init, NoActive, Counters
      <3> QED
        BY <3>1, <3>2, FS_EmptySet
    <2> QED
      BY <2>1 DEF ActiveCounts
  <1> QED
    BY <1>5, <1>6, <1>7, <1>8, <1>9, <1>10, <1>11, <1>12, <1>13, <1>14
      DEF Inv, Types, RowInv, CallInv, WorkerInv, OpInv

\* A step that changes nothing.
LEMMA StutterInv ==
    ASSUME Inv, UNCHANGED vars
    PROVE  Inv'
  <1> USE DEF Inv, vars
  <1>1. Types'
    BY DEF Types, RowType, DiskType, ServerType, WorkerType, CallType, OpType
  <1>2. RowInv'
    BY DEF RowInv, RowOrNone, RowIsKnown, RedeemedIsKnown, KeysOutliveRow, RefusedIsUnredeemed
  <1>3. CallInv'
    BY DEF CallInv, JoinHasKeys, ReplyIsKnown, RestartSaw, StoppingIsDisabled, RemovalIsAlone,
           DeleteIsQuiet, DeletedHasNoRow, AnswerIsLast
  <1>4. WorkerInv'
    BY DEF WorkerInv, BeforeActivate, OneWorker, Running, HaltedWorkers, Halts,
           DisabledNeverConnected
  <1>5. ActiveCounts'
    BY DEF OpInv, ActiveCounts, Counts
  <1>6. OpInv'
    BY <1>5 DEF OpInv, OpOrNone, OpsOnRow, DisabledIsQuiet, OperationKeepsAuthority,
           EvidenceKeepsContext
  <1> QED
    BY <1>1, <1>2, <1>3, <1>4, <1>6

\* Every step keeps the invariant.
LEMMA NextInv ==
    ASSUME Inv, [Next]_vars
    PROVE  Inv'
  <1>1. CASE Join
    BY <1>1, JoinBeginKeepsInv, JoinEnrollKeepsInv, JoinRedeemKeepsInv, JoinReconcileKeepsInv,
       JoinCommitKeepsInv
       DEF Join
  <1>2. CASE Configure
    BY <1>2, UpdateKeepsInv, UpdateRestartKeepsInv, DisableKeepsInv, DisableStoppedKeepsInv,
       DisableGiveUpKeepsInv, EnableKeepsInv
       DEF Configure
  <1>3. CASE Removal
    BY <1>3, RemoveKeepsInv, RemoveGiveUpKeepsInv, RemoveStageKeepsInv, RemoveDeleteKeepsInv,
       RemoveKeysKeepsInv
       DEF Removal
  <1>4. ASSUME NEW w \in Workers, Work(w)
        PROVE  Inv'
    BY <1>4, WorkerReadKeepsInv, WorkerGivesUpKeepsInv, WorkerPollKeepsInv, WorkerPolledKeepsInv,
       WorkerDialKeepsInv, WorkerConnectedKeepsInv, WorkerServeKeepsInv, WorkerLostKeepsInv,
       WorkerExitKeepsInv
       DEF Work
  <1>5. ASSUME NEW o \in Ops, Operate(o)
        PROVE  Inv'
    BY <1>5, BeginOperationKeepsInv, PersistKeepsInv, EndOperationKeepsInv DEF Operate
  <1>6. CASE Process
    BY <1>6, StartKeepsInv, ActivateKeepsInv, StopKeepsInv, StoppedKeepsInv, CrashKeepsInv
       DEF Process
  <1> QED
    BY <1>1, <1>2, <1>3, <1>4, <1>5, <1>6, SettleKeepsInv, ServerMovesKeepsInv,
         StutterInv DEF Next

\* The invariant holds in every reachable state.
LEMMA Invariance == Spec => []Inv
  BY InitInv, NextInv, PTL DEF Spec

(***************************************************************************)
(* The properties.                                                         *)
(***************************************************************************)
\* The counters are the numbers of operations under way; everything else in
\* TypeOK is in the types.
LEMMA InvTypeOK ==
    ASSUME Inv
    PROVE  TypeOK
  <1>1. \A x \in DOMAIN active : active[x] \in 0 .. Cardinality(Ops)
    BY CountsFinite DEF Inv, Types, OpType, OpInv, ActiveCounts
  <1> QED
    BY <1>1 DEF TypeOK, Inv, Types, RowType, Rows, DiskType, ServerType, ServerStates, WorkerType,
       CallType, OpType, Goroutines, Operations

\* A row that is gone has no operation but a resolution; the rest is in the invariant.
LEMMA InvStopped ==
    ASSUME Inv
    PROVE  StoppedIsQuiet
  <1>1. RemovedHasNoOperation
    <2> SUFFICES ASSUME ~row.exists, NEW o \in Ops
                 PROVE  op[o].kind \in {"none", "resolve"}
      BY DEF RemovedHasNoOperation
    <2> QED
      BY OpFacts DEF Inv, OpInv, OpOrNone, OpsOnRow
  <1> QED
    BY <1>1, InvTypeOK DEF Inv, StoppedIsQuiet, WorkerInv, OpInv

\* What a step may do to a row in a terminal state.
EndStays == row.exists /\ row.state \in Terminal /\ row'.exists => row'.state = row.state

\* The row is written by Join, which reads it again, by Enable, which refuses,
\* by Update, Disable and Remove, which take back a connection only, and by a
\* worker, which has nothing to write once it has recorded the end.
LEMMA NextEndStays ==
    ASSUME Inv, [Next]_vars
    PROVE  EndStays
  <1> USE DEF EndStays
  <1>1. CASE Join
    <2>1. CASE JoinCommit
      BY <2>1, JoinCommitEffect DEF JoinCommitDoes
    <2> QED
      BY <1>1, <2>1 DEF Join, JoinBegin, JoinEnroll, JoinRedeem, JoinReconcile, disk
  <1>2. CASE Configure
    <2>1. ASSUME NEW change \in SUBSET Roots, NEW stun \in BOOLEAN, Update(change, stun)
          PROVE  EndStays
      <3>1. UpdateDoes(change, stun)
        BY <2>1, UpdateEffect
      <3> QED
        BY <3>1 DEF UpdateDoes, Terminal
    <2>2. CASE Disable
      <3>1. DisableDoes
        BY <2>2, DisableEffect
      <3> QED
        BY <3>1 DEF DisableDoes, Terminal
    <2>3. CASE Enable
      <3>1. EnableDoes
        BY <2>3, EnableEffect
      <3> QED
        BY <3>1 DEF EnableDoes
    <2> QED
      BY <1>2, <2>1, <2>2, <2>3 DEF Configure, UpdateRestart, DisableStopped, DisableGiveUp, disk
  <1>3. CASE Removal
    <2>1. CASE RemoveStage
      <3>1. RemoveStageDoes
        BY <2>1, RemoveStageEffect
      <3> QED
        BY <3>1 DEF RemoveStageDoes, Terminal
    <2>2. CASE RemoveDelete
      <3>1. RemoveDeleteDoes
        BY <2>2, RemoveDeleteEffect
      <3> QED
        BY <3>1, NoRowFacts DEF RemoveDeleteDoes
    <2> QED
      BY <1>3, <2>1, <2>2 DEF Removal, Remove, RemoveGiveUp, RemoveKeys, disk
  <1>4. ASSUME NEW w \in Workers, Work(w)
        PROVE  EndStays
    <2>1. row.exists /\ row.state \in Terminal => Halts(w)
      BY DEF Inv, WorkerInv, HaltedWorkers
    <2>2. CASE WorkerGivesUp(w)
      <3>1. WorkerGivesUpDoes(w)
        BY <2>2, WorkerGivesUpEffect
      <3> QED
        BY <2>1, <3>1 DEF WorkerGivesUpDoes, Halts
    <2>3. CASE WorkerPolled(w)
      <3>1. WorkerPolledDoes(w)
        BY <2>3, WorkerPolledEffect
      <3> QED
        BY <2>1, <3>1 DEF WorkerPolledDoes, Halts
    <2>4. CASE WorkerConnected(w)
      <3>1. WorkerConnectedDoes(w)
        BY <2>4, WorkerConnectedEffect
      <3> QED
        BY <2>1, <3>1 DEF WorkerConnectedDoes, Halts
    <2>5. CASE WorkerLost(w)
      <3>1. WorkerLostDoes(w)
        BY <2>5, WorkerLostEffect
      <3> QED
        BY <2>1, <3>1 DEF WorkerLostDoes, Halts
    <2> QED
      BY <1>4, <2>2, <2>3, <2>4, <2>5
        DEF Work, WorkerRead, WorkerPoll, WorkerDial, WorkerServe, WorkerExit, disk
  <1>5. CASE UNCHANGED row
    BY <1>5
  <1>6. CASE \E o \in Ops : Operate(o)
    BY <1>6 DEF Operate, BeginOperation, Persist, EndOperation, disk
  <1>7. CASE Settle \/ ServerMoves \/ Process
    BY <1>7 DEF Settle, ServerMoves, Process, Start, Activate, Stop, Stopped, Crash, disk
  <1> QED
    BY <1>1, <1>2, <1>3, <1>4, <1>5, <1>6, <1>7 DEF Next, vars

\* What Disable or Remove has stopped stays stopped, whatever the worker and
\* the operations were doing (Manager.Disable, Manager.Remove, runContext); a
\* removal that Activate overtakes is the exception DisabledNeverConnected names.
THEOREM Quiet == Spec => []StoppedIsQuiet
  BY Invariance, InvStopped, PTL

\* Roots and policies stay as an operation or an unresolved transfer found them
\* (the checks of activeOperations and of blocking rows in Update, Join and
\* Remove).
THEOREM Authority == Spec => []AuthorityKept
  <1>1. Inv => AuthorityKept
    BY DEF Inv, OpInv, AuthorityKept
  <1> QED
    BY Invariance, <1>1, PTL

\* As long as there is a row, its key files are on disk, in place or under a
\* .removing- name, whenever the process dies (stageContextKeys).  That a crash
\* leaves them usable is not said: nothing looks for the second name again.
THEOREM Keys == Spec => []KeysOutliveRow
  <1>1. Inv => KeysOutliveRow
    BY DEF Inv, RowInv
  <1> QED
    BY Invariance, <1>1, PTL

\* A join that says that the invite was refused has not redeemed it
\* (redeemInvite, reconciledEnrollmentStatus).
THEOREM Refusals == Spec => []RefusedIsUnredeemed
  <1>1. Inv => RefusedIsUnredeemed
    BY DEF Inv, RowInv
  <1> QED
    BY Invariance, <1>1, PTL

\* A membership that ended stays ended until the context is removed.
THEOREM Endings == Spec => TerminalStays
  <1>1. Inv /\ [Next]_vars => [row.exists /\ row.state \in Terminal /\ row'.exists
                                 => row'.state = row.state]_vars
    BY NextEndStays DEF EndStays
  <1> QED
    BY Invariance, <1>1, PTL DEF Spec, TerminalStays

=============================================================================

------------------------- MODULE PutTransferProofs -------------------------
(***************************************************************************)
(* Theorems about PutTransfer, for any puts, attempts, names, user files   *)
(* and scenes that satisfy PutAssumption and NoMessage.                    *)
(*                                                                         *)
(* The argument has two halves.  Whoever settles or works on a record has  *)
(* its lease, and whoever may make one has the lock of the directory, so   *)
(* a copy of a record stays true while it is used, but for what the        *)
(* operator and the expiry may do to a record nobody has claimed           *)
(* (LoadedCopyOf, WorkingCopyOf, SettledCopyOf).  And what was published   *)
(* is on record as perhaps published until the record lapses               *)
(* (PastRecordedOf), so no attempt publishes again, no answer says         *)
(* "committed" of what was not published (CommitKnownBy), and a final      *)
(* failure is told of a put that is over: not published, without a record, *)
(* and without a receive that could still make one (Over).                 *)
(*                                                                         *)
(* A step is first reduced to one of 72 moves, which say field by field    *)
(* what changes.  A move of m spares what others hold (Spares); so each    *)
(* move has to be checked only for m itself, for the record it writes and  *)
(* for the whole (AllKept).                                                *)
(***************************************************************************)
EXTENDS PutTransfer, TLAPS

(***************************************************************************)
(* The inductive invariant.                                                *)
(***************************************************************************)

\* TypeOK, in parts.
SenderTypes ==
    /\ sRow \in [Puts -> {"unsent", "none", "transferring", "committed"}]
    /\ sLease \in [Puts -> Attempts \cup {None}]
    /\ aged \subseteq Puts
    /\ spc \in [Attempts -> SendPCs]
LinkTypes == link \in [Attempts -> Links]
RowTypes == row \in [Puts -> Rows]
DiskTypes ==
    /\ files \subseteq Attempts /\ dest \in [Names -> Identities \cup {None}]
    /\ parent \in BOOLEAN /\ stale \subseteq Puts
LockTypes == lock \in Attempts \cup {None}
WorkerTypes == wk \in [Workers -> WorkerStates]
HistTypes == hist \in Histories

\* Where a receive holds the lock of its directory.
LockedPCs == {"loaded", "await_start", "admit", "open", "attach", "select", "reap",
              "await_data", "intent", "publish", "rename", "check", "reconcile", "commit",
              "abort", "unlink", "mark", "drop"}

\* Where a worker settles the record wk[w].put.
SettlePCs == {"reconcile", "commit", "abort", "unlink", "mark", "drop"}

\* Where it works on the attempt's own record.
WorkPCs == {"open", "attach", "select", "reap", "await_data", "intent", "publish", "rename",
            "check"}

\* Where Send waits for the receiver.
Active == {"await_prepared", "await_ready", "await_result"}

\* The attempt has the lease of its own record.
Working(a) == wk[a].pc \in WorkPCs \/ (wk[a].pc \in SettlePCs /\ wk[a].plan = "quit")

\* The operator answers nobody.
OperatorQuits == wk[Operator].plan = "quit"

\* A receive keeps the lock of its directory until it has its result.
LockHeldBy(a) == wk[a].pc \in LockedPCs => lock = a

\* What a record says of its stage.
RowSound(t) ==
    /\ row[t].state = "none" => row[t].stage = None /\ row[t].lease = None
    /\ row[t].stage # None => row[t].stage \in Attempts /\ PutOf[row[t].stage] = t
    /\ row[t].stage = None => row[t].state \in {"none", "committed", "resolved_accept_current"}
    /\ row[t].state = "resolved_accept_current" => row[t].stage = None
    /\ row[t].cleaned =>
          row[t].state \in {"committed", "cleanup_not_attempted", "accept_current_intent"}

\* The copy of its record that a receive loaded, and what may have become of
\* the record before it is claimed: only the operator and the expiry touch it.
LoadedCopyOf(a) ==
    LET r == row[PutOf[a]]
        own == wk[a].own IN
    wk[a].pc \in {"loaded", "await_start"} =>
        /\ own.state = "none" => r.state = "none"
        /\ own.state = "committed" => r.state \in {"committed", "none"}
        /\ own.state \in {"stage_intent", "transferring", "publication_intent",
                          "cleanup_not_attempted"}
              => r.state \in {own.state, "cleanup_not_attempted", "none"}
        /\ own.state = "outcome_unknown"
              => r.state \in {"outcome_unknown", "accept_current_intent",
                              "resolved_accept_current", "cleanup_not_attempted", "none"}
        /\ r.state \notin {"none", "resolved_accept_current"}
              /\ own.state # "resolved_accept_current" => r.stage = own.stage

\* The copy it works from once it has claimed the record.
WorkingCopyOf(a) ==
    LET r == row[PutOf[a]]
        own == wk[a].own IN
    /\ wk[a].pc = "admit" /\ own.state = "none" => r.state = "none"
    /\ Working(a) \/ (wk[a].pc = "admit" /\ own.state # "none") =>
          /\ r.lease = a
          /\ r.stage = own.stage /\ own.stage # None
          /\ \/ r.state = own.state
             \/ r.state = "cleanup_not_attempted" /\ PutOf[a] \in hist.overtaken
          /\ own.state \in {"stage_intent", "transferring", "publication_intent"}
          /\ own.state = "publication_intent" =>
                r.state = own.state /\ wk[a].pc \in {"publish", "rename", "check"}
          /\ wk[a].pc \in {"publish", "rename", "check"} => own.state = "publication_intent"
          /\ wk[a].pc = "attach" => own.state = "stage_intent"

\* The record a worker settles, and the copy it settles it from.
SettledCopyOf(w) ==
    LET t == wk[w].put
        r == row[t]
        rec == wk[w].rec IN
    /\ wk[w].pc = "preflight" =>
          /\ r.lease = w /\ r.stage # None
          /\ r.state \in {"outcome_unknown", "accept_current_intent"}
    /\ wk[w].pc \in SettlePCs =>
          /\ r.lease = w
          /\ r.stage = rec.stage /\ rec.stage # None
          /\ wk[w].plan = "quit" <=> w = Operator \/ t # PutOf[w]
    /\ wk[w].pc \in {"unlink", "mark", "drop"} =>
          /\ r.state = rec.state
          /\ rec.state \in {"committed", "cleanup_not_attempted", "accept_current_intent"}
          /\ w = Operator => rec.state # "committed"
    /\ wk[w].pc \in {"mark", "drop"} => rec.stage \notin files

\* What a settlement is run for.
PlanOf(w) ==
    LET plan == wk[w].plan
        t == wk[w].put IN
    /\ wk[w].pc = "reconcile" => plan \in {"reject", "afresh", "quit"}
    /\ wk[w].pc = "commit" => plan \in {"commit", "late_commit", "quit"} /\ hist.pubs[t] # 0
    /\ wk[w].pc = "abort" =>
          /\ plan \in {"reject", "silent", "afresh", "quit"}
          /\ \/ hist.pubs[t] = 0 \/ t \in hist.lapsed
             \/ row[t].state \notin {"stage_intent", "transferring", "publication_intent",
                                     "outcome_unknown"}
    /\ wk[w].pc \in {"unlink", "mark", "drop"} =>
          /\ plan \in {"commit", "late_commit"} => hist.pubs[t] # 0
          /\ plan \in {"reject", "fresh", "afresh"} =>
                wk[w].rec.state = "cleanup_not_attempted"

\* A file of an attempt gets its name by publication only.
DestPublished == \A n \in Names : dest[n] \in Attempts => hist.pubs[PutOf[dest[n]]] # 0

\* While its record lasts, a published put is on record as one that may have been.
PastRecordedOf(t) ==
    hist.pubs[t] # 0 /\ t \notin hist.lapsed =>
        /\ row[t].state \in {"publication_intent", "committed", "outcome_unknown",
                             "accept_current_intent", "resolved_accept_current"}
        /\ t \in Replace /\ row[t].state \in {"publication_intent", "outcome_unknown"} =>
              row[t].stage \notin files

\* An attempt about to publish is the first.
NotYetPublishedBy(a) ==
    wk[a].pc \in {"publish", "rename"} => hist.pubs[PutOf[a]] = 0 \/ PutOf[a] \in hist.lapsed

\* A result "committed" under way.
CommitKnownBy(a) ==
    hist.pubs[PutOf[a]] = 0 =>
        /\ wk[a].pc \in {"loaded", "await_start"} => wk[a].own.state # "committed"
        /\ wk[a].pc \in {"deliver", "await_ack"} => wk[a].out # "committed"
        /\ link[a].toS # "committed"

\* A commit on record, on either side.
CommitRecordedOf(t) == hist.pubs[t] = 0 => row[t].state # "committed" /\ sRow[t] # "committed"

\* A cleaned record has no stage.
CleanedSoundOf(t) ==
    row[t].state \in {"cleanup_not_attempted", "committed"} /\ row[t].cleaned =>
        t \in hist.overtaken \/ row[t].stage \notin files

\* At most one attempt of a put is being sent: the one with the lease of the
\* send row or, before there is one, the first.
SenderAlone(a) ==
    spc[a] \in Active =>
        \/ sLease[PutOf[a]] = a
        \/ /\ sRow[PutOf[a]] = "none" /\ sLease[PutOf[a]] = None
           /\ \A b \in Attempts \ {a} : PutOf[b] = PutOf[a] => spc[b] = "off"
SenderLeased(t) == sLease[t] # None => PutOf[sLease[t]] = t /\ spc[sLease[t]] \in Active
UnsentOff(a) == sRow[PutOf[a]] = "unsent" => spc[a] = "off"
OneSender ==
    /\ \A t \in Puts : SenderLeased(t)
    /\ \A a \in Attempts : SenderAlone(a) /\ UnsentOff(a)

\* A session that has not begun, and one whose sender has finished, which is
\* good for an acknowledgement only.
SessionOf(a) ==
    /\ spc[a] = "off" => wk[a].pc = "off" /\ link[a].toS = None
    /\ link[a].up /\ spc[a] \notin Active => wk[a].pc \in {"off", "await_ack", "end"}
    /\ link[a].toS \in Terminals => wk[a].pc \in {"await_ack", "end"}

\* A final failure is under way to a sender that waits for it, or has arrived.
Failing(a) ==
    /\ spc[a] \in Active
    /\ link[a].toS = "error" \/ (wk[a].pc = "deliver" /\ wk[a].out = "error")

\* A receive that will not admit its put any more.
Harmless(b) == wk[b].pc \in LockedPCs => wk[b].pc = "loaded" /\ wk[b].own.state = "none"

\* A put that was refused before its record was looked for, whose record has lapsed,
\* or that was not published and will not be: there is no record and no receive that
\* could make one.
Over(t) ==
    \/ t \in hist.unfound \cup hist.lapsed
    \/ /\ hist.pubs[t] = 0 /\ row[t].state = "none"
       /\ \A b \in Attempts : PutOf[b] = t => Harmless(b)

\* A final failure is reported of a put that is over, and was.
FailureIsClean == \A a \in Attempts : Failing(a) => Over(PutOf[a])
RejectionIsOver == \A t \in hist.rejected : Over(t)

\* A put that was rejected is not sent again.
RejectedIsFinal ==
    \A t \in hist.rejected :
        /\ sRow[t] = "none"
        /\ \A a \in Attempts : PutOf[a] = t => spc[a] \notin Active

\* The destination a rename replaces.
RenamesInspected ==
    \A a \in Attempts : wk[a].pc = "rename" =>
        LET f == dest[DestOf[PutOf[a]]] IN f = wk[a].own.old \/ f \notin Attempts

\* A put is published once while its record lasts.
PublishedOnceOf(t) == hist.pubs[t] > 1 => t \in hist.lapsed

\* The parts of the invariant: types, what is said of each attempt, of each worker
\* and of each put, and what is said of the whole.
Types ==
    /\ SenderTypes /\ LinkTypes /\ RowTypes /\ DiskTypes /\ LockTypes /\ WorkerTypes /\ HistTypes

AttemptSound(a) ==
    /\ LockHeldBy(a) /\ LoadedCopyOf(a) /\ WorkingCopyOf(a) /\ NotYetPublishedBy(a)
    /\ CommitKnownBy(a) /\ SessionOf(a) /\ PutOf[a] \notin wk[a].todo
WorkerSound(w) == SettledCopyOf(w) /\ PlanOf(w)
PutSound(t) ==
    /\ RowSound(t) /\ PastRecordedOf(t) /\ CommitRecordedOf(t) /\ CleanedSoundOf(t)
    /\ PublishedOnceOf(t)

Sound ==
    /\ OperatorQuits
    /\ \A a \in Attempts : AttemptSound(a)
    /\ \A w \in Workers : WorkerSound(w)
    /\ \A t \in Puts : PutSound(t)
    /\ DestPublished /\ RenamesInspected /\ StagesOnRecord
    /\ OneSender /\ RejectedIsFinal
    /\ FailureIsClean /\ RejectionIsOver

\* The inductive invariant.
PutInv == Types /\ Sound

(***************************************************************************)
(* Moves: what a step does to the state, field by field, as far as the     *)
(* invariant is concerned.                                                 *)
(***************************************************************************)
AnyPut == CHOOSE t \in Puts : TRUE

\* Worker w moves: its fields after the step; the others stay as they are.
Moves(w, pc, own, put, rec, plan, out, todo) ==
    /\ wk'[w].pc = pc /\ wk'[w].own = own /\ wk'[w].put = put /\ wk'[w].rec = rec
    /\ wk'[w].plan = plan /\ wk'[w].out = out /\ wk'[w].todo = todo
    /\ \A v \in Workers : v # w => wk'[v] = wk[v]

Steps(w, pc) ==
    Moves(w, pc, wk[w].own, wk[w].put, wk[w].rec, wk[w].plan, wk[w].out, wk[w].todo)
Settles(a, pc, plan) ==
    Moves(a, pc, wk[a].own, PutOf[a], wk[a].own, plan, wk[a].out, wk[a].todo)
Replies(a, m) == Moves(a, "deliver", NoRow, AnyPut, NoRow, "quit", m, {})
Ends(a) == Moves(a, "end", NoRow, AnyPut, NoRow, "quit", "error", {})
Idles(w) ==
    Moves(w, IF w = Operator THEN "off" ELSE "reap", IF w = Operator THEN NoRow ELSE wk[w].own,
          AnyPut, NoRow, "quit", "error", IF w = Operator THEN {} ELSE wk[w].todo)

\* The record of t after the step; the others stay as they are.
RowIs(t, state, stage, cleaned, lease) ==
    /\ row'[t].state = state /\ row'[t].stage = stage
    /\ row'[t].cleaned = cleaned /\ row'[t].lease = lease
    /\ \A u \in Puts : u # t => row'[u] = row[u]
Claims(w, t) == RowIs(t, row[t].state, row[t].stage, row[t].cleaned, w)
Marks(t, state) == RowIs(t, state, row[t].stage, row[t].cleaned, row[t].lease)
Frees(t) == RowIs(t, row[t].state, row[t].stage, row[t].cleaned, None)

\* The session of a after the step, and all sessions as they were.
LinkIs(a, up, toS) ==
    /\ link'[a].up = up /\ link'[a].toS = toS
    /\ \A b \in Attempts : b # a => link'[b] = link[b]
LinksSame == \A b \in Attempts : link'[b].up = link[b].up /\ link'[b].toS = link[b].toS

\* The history after the step; overtaken grows.
HistIs(pubs, rejected, unfound, lapsed) ==
    /\ hist'.pubs = pubs /\ hist'.rejected = rejected /\ hist'.unfound = unfound
    /\ hist'.lapsed = lapsed /\ hist.overtaken \subseteq hist'.overtaken
HistSame == HistIs(hist.pubs, hist.rejected, hist.unfound, hist.lapsed)

Returns(a) ==
    /\ Ends(a)
    /\ lock' = IF lock = a THEN None ELSE lock
    /\ LinkIs(a, FALSE, link[a].toS)

\* w keeps none of its leases.
Leaves(w) ==
    \A u \in Puts :
        /\ row'[u].state = row[u].state /\ row'[u].stage = row[u].stage
        /\ row'[u].cleaned = row[u].cleaned
        /\ row'[u].lease = IF row[u].lease = w THEN None ELSE row[u].lease

\* The record w has cleaned up is deleted, detached or resolved.
Dropped(w) ==
    LET t == wk[w].put IN
    /\ row'[t].stage = None /\ ~row'[t].cleaned
    /\ \/ row[t].state = "cleanup_not_attempted" /\ row'[t].state = "none" /\ row'[t].lease = None
       \/ row[t].state = "committed" /\ row'[t].state = "committed"
       \/ row[t].state = "accept_current_intent" /\ row'[t].state = "resolved_accept_current"
Drops(w) ==
    /\ wk[w].pc = "drop" /\ Dropped(w)
    /\ row'[wk[w].put].lease \in {row[wk[w].put].lease, None}
    /\ \A u \in Puts : u # wk[w].put => row'[u] = row[u]

\* A new put is offered for the first time.
Submits(a) ==
    /\ sRow[PutOf[a]] = "unsent" /\ spc[a] = "off"
    /\ sRow' = [sRow EXCEPT ![PutOf[a]] = "none"]
    /\ spc' = [spc EXCEPT ![a] = "await_prepared"]
    /\ LinkIs(a, TRUE, link[a].toS) /\ Steps(a, "await_offer")
    /\ UNCHANGED <<sLease, row, files, dest, lock, hist>>

\* A put is offered again, by the attempt that takes the lease of its send
\* row.
Retries(a) ==
    /\ sRow[PutOf[a]] = "transferring" /\ sLease[PutOf[a]] = None /\ spc[a] = "off"
    /\ sLease' = [sLease EXCEPT ![PutOf[a]] = a]
    /\ spc' = [spc EXCEPT ![a] = "await_prepared"]
    /\ LinkIs(a, TRUE, link[a].toS) /\ Steps(a, "await_offer")
    /\ UNCHANGED <<sRow, row, files, dest, lock, hist>>

\* A session breaks.
Breaks(a) ==
    /\ LinkIs(a, FALSE, link[a].toS)
    /\ UNCHANGED <<sRow, sLease, spc, row, files, dest, lock, wk, hist>>

\* The sender has its row and says "start".
Starts(a) ==
    /\ spc[a] = "await_prepared" /\ link[a].toS = "prepared"
    /\ LinkIs(a, link[a].up, None)
    /\ sRow' = [sRow EXCEPT ![PutOf[a]] = "transferring"]
    /\ sLease' = [sLease EXCEPT ![PutOf[a]] = a]
    /\ spc' = [spc EXCEPT ![a] = "await_ready"]
    /\ UNCHANGED <<row, files, dest, lock, wk, hist>>

\* The sender has sent the payload.
Sends(a) ==
    /\ spc[a] = "await_ready"
    /\ LinkIs(a, link[a].up, None) /\ spc' = [spc EXCEPT ![a] = "await_result"]
    /\ UNCHANGED <<sRow, sLease, row, files, dest, lock, wk, hist>>

\* Send returns without a result.
StopsSending(a) ==
    /\ spc[a] \in Active
    /\ LinkIs(a, FALSE, None) /\ spc' = [spc EXCEPT ![a] = "end"] /\ ReleaseSend(a)
    /\ UNCHANGED <<sRow, row, files, dest, lock, wk, hist>>

\* The sender is told that the put is committed.
ToldCommitted(a) ==
    /\ spc[a] \in Active /\ link[a].toS = "committed"
    /\ sRow' = [sRow EXCEPT ![PutOf[a]] = "committed"]
    /\ HistIs(hist.pubs, hist.rejected, hist.unfound, hist.lapsed)
    /\ LinkIs(a, link[a].up, None) /\ spc' = [spc EXCEPT ![a] = "end"] /\ ReleaseSend(a)
    /\ UNCHANGED <<row, files, dest, lock, wk>>

\* The sender is told that the put has failed for good.
ToldFailed(a) ==
    /\ spc[a] \in Active /\ link[a].toS = "error"
    /\ sRow' = [sRow EXCEPT ![PutOf[a]] = "none"]
    /\ HistIs(hist.pubs, hist.rejected \cup {PutOf[a]}, hist.unfound, hist.lapsed)
    /\ LinkIs(a, link[a].up, None) /\ spc' = [spc EXCEPT ![a] = "end"] /\ ReleaseSend(a)
    /\ UNCHANGED <<row, files, dest, lock, wk>>

\* The sender is told to try again.
ToldToRetry(a) ==
    /\ spc[a] \in Active /\ link[a].toS = "retryable_error"
    /\ sRow' = sRow
    /\ HistIs(hist.pubs, hist.rejected, hist.unfound, hist.lapsed)
    /\ LinkIs(a, link[a].up, None) /\ spc' = [spc EXCEPT ![a] = "end"] /\ ReleaseSend(a)
    /\ UNCHANGED <<row, files, dest, lock, wk>>

\* A send row is abandoned or expires.
ForgetsSend(t) ==
    /\ sLease[t] = None /\ sRow[t] \in {"transferring", "committed"}
    /\ sRow' = [sRow EXCEPT ![t] = "none"]
    /\ UNCHANGED <<sLease, spc, link, row, files, dest, lock, wk, hist>>

\* The sending agent stops.
SenderCrashes ==
    /\ spc' = [a \in Attempts |-> IF spc[a] = "off" THEN "off" ELSE "end"]
    /\ sLease' = [t \in Puts |-> None]
    /\ \A a \in Attempts : link'[a].up = FALSE /\ link'[a].toS = None
    /\ UNCHANGED <<sRow, row, files, dest, lock, wk, hist>>

\* A receive takes the offer.
TakesOffer(a) ==
    /\ wk[a].pc = "await_offer"
    /\ LinksSame /\ Steps(a, "locking")
    /\ UNCHANGED <<sRow, sLease, spc, row, files, dest, lock, hist>>

\* A receive refuses the offer: the directory is away or the put root has changed.
RefusesOffer(a) ==
    /\ wk[a].pc = "await_offer"
    /\ HistIs(hist.pubs, hist.rejected, hist.unfound \cup {PutOf[a]}, hist.lapsed)
    /\ LinksSame /\ Replies(a, "error")
    /\ UNCHANGED <<sRow, sLease, spc, row, files, dest, lock>>

\* A receive gets the lock of the directory and loads its record.
TakesLock(a) ==
    /\ wk[a].pc = "locking"
    /\ lock = None /\ lock' = a
    /\ Moves(a, "loaded", row[PutOf[a]], wk[a].put, wk[a].rec, wk[a].plan, wk[a].out, wk[a].todo)
    /\ UNCHANGED <<sRow, sLease, spc, link, row, files, dest, hist>>

\* A receive finds that its record is not its own to settle, and says so.
Defers(a) ==
    /\ wk[a].pc \in {"loaded", "await_start"}
    /\ LinksSame /\ HistSame /\ Replies(a, "retryable_error")
    /\ UNCHANGED <<sRow, sLease, spc, row, files, dest, lock>>

\* A receive finds its record committed.
Confirms(a) ==
    /\ wk[a].pc = "loaded" /\ wk[a].own.state = "committed"
    /\ Replies(a, "committed")
    /\ UNCHANGED <<sRow, sLease, spc, link, row, files, dest, lock, hist>>

\* A receive takes up the cleanup of its committed record.
ResumesCommitted(a) ==
    /\ wk[a].pc = "loaded" /\ wk[a].own.state = "committed"
    /\ Claimable(row[PutOf[a]]) /\ Claims(a, PutOf[a]) /\ Settles(a, "unlink", "commit")
    /\ UNCHANGED <<sRow, sLease, spc, link, files, dest, lock, hist>>

\* A receive takes up its record of unknown outcome.
ResumesUnknown(a) ==
    /\ wk[a].pc = "loaded" /\ wk[a].own.state = "outcome_unknown"
    /\ Claimable(row[PutOf[a]]) /\ Claims(a, PutOf[a]) /\ Settles(a, "reconcile", "afresh")
    /\ UNCHANGED <<sRow, sLease, spc, link, files, dest, lock, hist>>

\* A receive says "prepared".
Prepares(a) ==
    /\ wk[a].pc = "loaded" /\ link[a].up
    /\ wk[a].own.state \notin {"committed", "outcome_unknown"}
    /\ LinkIs(a, link[a].up, "prepared") /\ Steps(a, "await_start")
    /\ UNCHANGED <<sRow, sLease, spc, row, files, dest, lock, hist>>

\* A receive starts a put that is not on record.
StartsNew(a) ==
    /\ wk[a].pc = "await_start" /\ wk[a].own.state = "none"
    /\ LinksSame /\ HistSame /\ Steps(a, "admit")
    /\ UNCHANGED <<sRow, sLease, spc, row, files, dest, lock>>

\* A receive claims its record and goes on with the transfer.
ResumesTransfer(a) ==
    /\ wk[a].pc = "await_start" /\ wk[a].own.state \in {"stage_intent", "transferring"}
    /\ Claimable(row[PutOf[a]]) /\ Claims(a, PutOf[a]) /\ Steps(a, "admit")
    /\ row[PutOf[a]].state # wk[a].own.state => PutOf[a] \in hist'.overtaken
    /\ LinksSame /\ HistSame
    /\ UNCHANGED <<sRow, sLease, spc, files, dest, lock>>

\* A receive claims its record to clean it up and begin again.
ResumesCleanup(a) ==
    /\ wk[a].pc = "await_start" /\ wk[a].own.state = "cleanup_not_attempted"
    /\ Claimable(row[PutOf[a]]) /\ Claims(a, PutOf[a]) /\ Settles(a, "unlink", "fresh")
    /\ LinksSame /\ HistSame
    /\ UNCHANGED <<sRow, sLease, spc, files, dest, lock>>

\* A receive claims its record to find out whether it was published.
ResumesPublication(a) ==
    /\ wk[a].pc = "await_start" /\ wk[a].own.state = "publication_intent"
    /\ Claimable(row[PutOf[a]]) /\ Claims(a, PutOf[a]) /\ Settles(a, "reconcile", "reject")
    /\ LinksSame /\ HistSame
    /\ UNCHANGED <<sRow, sLease, spc, files, dest, lock>>

\* A receive goes on to open the stage of its record.
Continues(a) ==
    /\ wk[a].pc = "admit" /\ wk[a].own.state # "none" /\ Steps(a, "open")
    /\ UNCHANGED <<sRow, sLease, spc, link, row, files, dest, lock, hist>>

\* A receive makes a new record.
Reserves(a) ==
    /\ wk[a].pc = "admit" /\ wk[a].own.state = "none"
    /\ RowIs(PutOf[a], "stage_intent", a, FALSE, a)
    /\ Moves(a, "open", row'[PutOf[a]], wk[a].put, wk[a].rec, wk[a].plan, wk[a].out, wk[a].todo)
    /\ UNCHANGED <<sRow, sLease, spc, link, files, dest, lock, hist>>

\* A receive refuses a put that is not on record.
Refuses(a) ==
    /\ wk[a].pc = "admit" /\ wk[a].own.state = "none" /\ Replies(a, "error")
    /\ UNCHANGED <<sRow, sLease, spc, link, row, files, dest, lock, hist>>

\* A receive gives up, with its record to be cleaned up.
Aborts(a) ==
    /\ wk[a].pc \in {"admit", "open", "attach", "await_data", "publish", "check"}
    /\ wk[a].pc = "admit" => wk[a].own.state # "none"
    /\ wk[a].pc = "check" => PutOf[a] \in Replace /\ wk[a].own.stage \in files
    /\ wk'[a].plan \in {"reject", "silent"} /\ Settles(a, "abort", wk'[a].plan)
    /\ LinksSame
    /\ UNCHANGED <<sRow, sLease, spc, row, files, dest, lock, hist>>

\* A receive creates its stage and gives up all the same.
FailsToOpen(a) ==
    /\ wk[a].pc = "open" /\ wk[a].own.state = "stage_intent"
    /\ files' = files \cup {wk[a].own.stage} /\ Settles(a, "abort", "reject")
    /\ UNCHANGED <<sRow, sLease, spc, link, row, dest, lock, hist>>

\* A receive creates its stage.
Creates(a) ==
    /\ wk[a].pc = "open" /\ wk[a].own.state = "stage_intent"
    /\ files' = files \cup {wk[a].own.stage} /\ Steps(a, "attach")
    /\ UNCHANGED <<sRow, sLease, spc, link, row, dest, lock, hist>>

\* A receive opens the stage it had.
Opens(a) ==
    /\ wk[a].pc = "open" /\ wk[a].own.state # "stage_intent" /\ Steps(a, "select")
    /\ UNCHANGED <<sRow, sLease, spc, link, row, files, dest, lock, hist>>

\* A receive notes that its stage exists.
Attaches(a) ==
    /\ wk[a].pc = "attach"
    /\ row[PutOf[a]].state = "stage_intent" /\ Marks(PutOf[a], "transferring")
    /\ wk'[a].own.state = "transferring" /\ wk'[a].own.stage = wk[a].own.stage
    /\ Moves(a, "select", wk'[a].own, wk[a].put, wk[a].rec, wk[a].plan, wk[a].out, wk[a].todo)
    /\ UNCHANGED <<sRow, sLease, spc, link, files, dest, lock, hist>>

\* A receive selects other records to settle.
Selects(a) ==
    /\ wk[a].pc = "select"
    /\ PutOf[a] \notin wk'[a].todo
    /\ Moves(a, "reap", wk[a].own, wk[a].put, wk[a].rec, wk[a].plan, wk[a].out, wk'[a].todo)
    /\ UNCHANGED <<sRow, sLease, spc, link, row, files, dest, lock, hist>>

\* A receive claims another record, of unknown outcome.
ReapsUnknown(a, t) ==
    /\ wk[a].pc = "reap" /\ t \in wk[a].todo
    /\ row[t].state \in {"publication_intent", "outcome_unknown"}
    /\ row[t].lease = None /\ Claims(a, t)
    /\ Moves(a, "reconcile", wk[a].own, t, row[t], "quit", wk[a].out, wk[a].todo \ {t})
    /\ UNCHANGED <<sRow, sLease, spc, link, files, dest, lock, hist>>

\* A receive claims another record, to remove its stage.
ReapsStage(a, t) ==
    /\ wk[a].pc = "reap" /\ t \in wk[a].todo
    /\ row[t].state = "cleanup_not_attempted"
         \/ (row[t].state = "committed" /\ row[t].stage # None)
    /\ row[t].lease = None /\ Claims(a, t)
    /\ Moves(a, "unlink", wk[a].own, t, row[t], "quit", wk[a].out, wk[a].todo \ {t})
    /\ UNCHANGED <<sRow, sLease, spc, link, files, dest, lock, hist>>

\* A receive claims another record, to give it up.
ReapsUnfinished(a, t) ==
    /\ wk[a].pc = "reap" /\ t \in wk[a].todo
    /\ row[t].state \in {"stage_intent", "transferring"}
    /\ row[t].lease = None /\ Claims(a, t)
    /\ Moves(a, "abort", wk[a].own, t, row[t], "quit", wk[a].out, wk[a].todo \ {t})
    /\ UNCHANGED <<sRow, sLease, spc, link, files, dest, lock, hist>>

\* A receive leaves a selected record as it is.
Skips(a, t) ==
    /\ wk[a].pc = "reap"
    /\ Moves(a, "reap", wk[a].own, wk[a].put, wk[a].rec, wk[a].plan, wk[a].out, wk[a].todo \ {t})
    /\ UNCHANGED <<sRow, sLease, spc, link, row, files, dest, lock, hist>>

\* A receive says "ready".
FinishesReaping(a) ==
    /\ wk[a].pc = "reap"
    /\ LinkIs(a, link[a].up, "ready") /\ Steps(a, "await_data")
    /\ UNCHANGED <<sRow, sLease, spc, row, files, dest, lock, hist>>

\* A receive has the payload.
Receives(a) ==
    /\ wk[a].pc = "await_data" /\ LinksSame /\ Steps(a, "intent")
    /\ UNCHANGED <<sRow, sLease, spc, row, files, dest, lock, hist>>

\* A receive notes that it is about to publish.
Intends(a) ==
    /\ wk[a].pc = "intent"
    /\ row[PutOf[a]].state = "transferring" /\ Marks(PutOf[a], "publication_intent")
    /\ wk'[a].own.state = "publication_intent" /\ wk'[a].own.stage = wk[a].own.stage
    /\ Moves(a, "publish", wk'[a].own, wk[a].put, wk[a].rec, wk[a].plan, wk[a].out, wk[a].todo)
    /\ UNCHANGED <<sRow, sLease, spc, link, files, dest, lock, hist>>

\* A receive links its stage to the destination.
LinksStage(a) ==
    /\ wk[a].pc = "publish" /\ PutOf[a] \notin Replace
    /\ dest' = [dest EXCEPT ![DestOf[PutOf[a]]] = wk[a].own.stage]
    /\ HistIs([hist.pubs EXCEPT ![PutOf[a]] = @ + 1], hist.rejected, hist.unfound, hist.lapsed)
    /\ Steps(a, "check")
    /\ UNCHANGED <<sRow, sLease, spc, link, row, files, lock>>

\* A receive finds the destination as it was inspected.
Validates(a) ==
    /\ wk[a].pc = "publish" /\ PutOf[a] \in Replace
    /\ dest[DestOf[PutOf[a]]] = wk[a].own.old /\ Steps(a, "rename")
    /\ UNCHANGED <<sRow, sLease, spc, link, row, files, dest, lock, hist>>

\* A receive renames its stage over the destination.
Renames(a) ==
    /\ wk[a].pc = "rename"
    /\ dest' = [dest EXCEPT ![DestOf[PutOf[a]]] = wk[a].own.stage]
    /\ files' = files \ {wk[a].own.stage}
    /\ HistIs([hist.pubs EXCEPT ![PutOf[a]] = @ + 1], hist.rejected, hist.unfound, hist.lapsed)
    /\ Steps(a, "check")
    /\ UNCHANGED <<sRow, sLease, spc, link, row, lock>>

\* The rename fails.
FailsToRename(a) ==
    /\ wk[a].pc = "rename" /\ Steps(a, "check")
    /\ UNCHANGED <<sRow, sLease, spc, link, row, files, dest, lock, hist>>

\* A receive finds its stage at the destination after publishing it.
FindsItPublished(a) ==
    /\ wk[a].pc = "check"
    /\ dest[DestOf[PutOf[a]]] = wk[a].own.stage /\ Settles(a, "commit", "commit")
    /\ UNCHANGED <<sRow, sLease, spc, link, row, files, dest, lock, hist>>

\* A receive cannot tell whether it has published.
LosesTrack(a) ==
    /\ wk[a].pc = "check"
    /\ Marks(PutOf[a], "outcome_unknown") /\ Replies(a, "retryable_error")
    /\ UNCHANGED <<sRow, sLease, spc, link, files, dest, lock, hist>>

\* A receive finds the stage of the record it settles at the destination.
Proves(a) ==
    /\ wk[a].pc = "reconcile"
    /\ dest[DestOf[wk[a].put]] = wk[a].rec.stage
    /\ \/ wk[a].plan = "reject" /\ wk'[a].plan = "commit"
       \/ wk[a].plan = "afresh" /\ wk'[a].plan = "late_commit"
       \/ wk[a].plan \notin {"reject", "afresh"} /\ wk'[a].plan = wk[a].plan
    /\ Moves(a, "commit", wk[a].own, wk[a].put, wk[a].rec, wk'[a].plan, wk[a].out, wk[a].todo)
    /\ UNCHANGED <<sRow, sLease, spc, link, row, files, dest, lock, hist>>

\* A receive finds the stage unpublished.
Disproves(a) ==
    /\ wk[a].pc = "reconcile"
    /\ wk[a].put \in Replace /\ wk[a].rec.stage \in files
    /\ Steps(a, "abort")
    /\ UNCHANGED <<sRow, sLease, spc, link, row, files, dest, lock, hist>>

\* A receive leaves another record as one of unknown outcome.
LeavesOther(a) ==
    /\ wk[a].pc = "reconcile" /\ wk[a].plan = "quit" /\ Idles(a)
    /\ RowIs(wk[a].put, row'[wk[a].put].state, row[wk[a].put].stage, row[wk[a].put].cleaned, None)
    /\ \/ row'[wk[a].put].state = row[wk[a].put].state
       \/ row[wk[a].put].state = "publication_intent" /\ row'[wk[a].put].state = "outcome_unknown"
    /\ UNCHANGED <<sRow, sLease, spc, link, files, dest, lock, hist>>

\* A receive leaves its record of unknown outcome as it is.
LeavesAfresh(a) ==
    /\ wk[a].pc = "reconcile" /\ wk[a].plan = "afresh"
    /\ Frees(wk[a].put) /\ Replies(a, "retryable_error")
    /\ UNCHANGED <<sRow, sLease, spc, link, files, dest, lock, hist>>

\* A receive leaves its own record as one of unknown outcome.
LeavesOwn(a) ==
    /\ wk[a].pc = "reconcile" /\ wk[a].plan = "reject" /\ Replies(a, "retryable_error")
    /\ Marks(wk[a].put, row'[wk[a].put].state)
    /\ \/ row'[wk[a].put].state = row[wk[a].put].state
       \/ row[wk[a].put].state = "publication_intent" /\ row'[wk[a].put].state = "outcome_unknown"
    /\ UNCHANGED <<sRow, sLease, spc, link, files, dest, lock, hist>>

\* A receive notes that the record it settles was published.
Commits(a) ==
    /\ wk[a].pc = "commit"
    /\ row[wk[a].put].state \in {"publication_intent", "outcome_unknown", "committed"}
    /\ Marks(wk[a].put, "committed")
    /\ wk'[a].rec.state = "committed" /\ wk'[a].rec.stage = wk[a].rec.stage
    /\ Moves(a, "unlink", wk[a].own, wk[a].put, wk'[a].rec, wk[a].plan, wk[a].out, wk[a].todo)
    /\ UNCHANGED <<sRow, sLease, spc, link, files, dest, lock, hist>>

\* A worker notes that the record it settles is to be cleaned up.
BeginsCleanup(w) ==
    /\ wk[w].pc = "abort"
    /\ row[wk[w].put].state \in {"stage_intent", "transferring", "publication_intent",
                                 "outcome_unknown"}
    /\ Marks(wk[w].put, "cleanup_not_attempted")
    /\ wk'[w].rec.state = "cleanup_not_attempted" /\ wk'[w].rec.stage = row[wk[w].put].stage
    /\ Moves(w, "unlink", wk[w].own, wk[w].put, wk'[w].rec, wk[w].plan, wk[w].out, wk[w].todo)
    /\ UNCHANGED <<sRow, sLease, spc, link, files, dest, lock, hist>>

\* A worker removes the stage of the record it settles.
Unlinks(w) ==
    /\ wk[w].pc = "unlink"
    /\ files' = files \ {wk[w].rec.stage} /\ Steps(w, "mark")
    /\ UNCHANGED <<sRow, sLease, spc, link, row, dest, lock, hist>>

\* A worker notes that the stage is gone.
MarksCleaned(w) ==
    /\ wk[w].pc = "mark" /\ row[wk[w].put].state = wk[w].rec.state
    /\ RowIs(wk[w].put, row[wk[w].put].state, row[wk[w].put].stage, TRUE, row[wk[w].put].lease)
    /\ Steps(w, "drop")
    /\ UNCHANGED <<sRow, sLease, spc, link, files, dest, lock, hist>>

\* A receive answers with its record not cleaned up.
ReportsUnclean(w) ==
    /\ wk[w].pc \in {"abort", "unlink", "mark", "drop"}
    /\ wk[w].plan \in {"reject", "commit", "fresh", "afresh"}
    /\ Replies(w, IF wk[w].plan = "commit" THEN "committed" ELSE "retryable_error")
    /\ row'[wk[w].put].lease \in {row[wk[w].put].lease, None}
    /\ RowIs(wk[w].put, row[wk[w].put].state, row[wk[w].put].stage, row[wk[w].put].cleaned,
             row'[wk[w].put].lease)
    /\ UNCHANGED <<sRow, sLease, spc, link, files, dest, lock, hist>>

\* A worker gives up a record that is not its own put.
StopsSettling(w) ==
    /\ wk[w].pc \in {"commit", "preflight", "abort", "unlink", "mark", "drop"}
    /\ wk[w].pc = "preflight" => w = Operator
    /\ wk[w].plan = "quit" /\ Idles(w) /\ Frees(wk[w].put)
    /\ UNCHANGED <<sRow, sLease, spc, link, files, dest, lock, hist>>

\* A receive drops its record and reports the failure.
ReportsFailure(w) ==
    /\ wk[w].plan = "reject" /\ Drops(w) /\ Replies(w, "error")
    /\ UNCHANGED <<sRow, sLease, spc, link, files, dest, lock, hist>>

\* A receive detaches the stage and reports the commit.
ReportsCommit(w) ==
    /\ wk[w].plan \in {"commit", "late_commit"} /\ Drops(w) /\ Replies(w, "committed")
    /\ UNCHANGED <<sRow, sLease, spc, link, files, dest, lock, hist>>

\* A receive drops the record of an earlier attempt and begins again.
StartsAfresh(w) ==
    /\ Drops(w)
    /\ \/ wk[w].plan = "fresh" /\ wk'[w].pc = "admit"
       \/ wk[w].plan = "afresh" /\ wk'[w].pc = "loaded"
    /\ Moves(w, wk'[w].pc, NoRow, wk[w].put, wk[w].rec, wk[w].plan, wk[w].out, wk[w].todo)
    /\ UNCHANGED <<sRow, sLease, spc, link, files, dest, lock, hist>>

\* A receive drops its record and returns without an answer.
ReturnsSilently(a) ==
    /\ wk[a].pc = "drop" /\ wk[a].plan = "silent" /\ Dropped(a)
    /\ \A u \in Puts : u # wk[a].put =>
           /\ row'[u].state = row[u].state /\ row'[u].stage = row[u].stage
           /\ row'[u].cleaned = row[u].cleaned
           /\ row'[u].lease = IF row[u].lease = a THEN None ELSE row[u].lease
    /\ row'[wk[a].put].lease \in {row[wk[a].put].lease, None}
    /\ Returns(a)
    /\ UNCHANGED <<sRow, sLease, spc, files, dest, hist>>

\* A worker is done with a record that is not its own put.
FinishesOther(w) ==
    /\ wk[w].plan = "quit" /\ Drops(w) /\ row'[wk[w].put].lease = None /\ Idles(w)
    /\ UNCHANGED <<sRow, sLease, spc, link, files, dest, lock, hist>>

\* A receive sends its result.
Delivers(a) ==
    /\ wk[a].pc = "deliver" /\ link[a].up
    /\ LinkIs(a, link[a].up, wk[a].out) /\ Steps(a, "await_ack")
    /\ UNCHANGED <<sRow, sLease, spc, row, files, dest, lock, hist>>

\* A receive returns, with its lease, lock and session released.
Quits(a) ==
    /\ wk[a].pc \notin {"off", "end"}
    /\ Returns(a) /\ Leaves(a)
    /\ UNCHANGED <<sRow, sLease, spc, files, dest, hist>>

\* The operator looks at a record to abandon.
LooksAtRecord(t) ==
    /\ wk[Operator].pc = "off"
    /\ Moves(Operator, "abandon", wk[Operator].own, t, wk[Operator].rec, "quit", wk[Operator].out,
             wk[Operator].todo)
    /\ UNCHANGED <<sRow, sLease, spc, link, row, files, dest, lock, hist>>

\* The operator claims a record to remove its stage.
AbandonsStage ==
    /\ wk[Operator].pc = "abandon"
    /\ row[wk[Operator].put].state = "cleanup_not_attempted"
    /\ Claimable(row[wk[Operator].put]) /\ Claims(Operator, wk[Operator].put)
    /\ Moves(Operator, "unlink", wk[Operator].own, wk[Operator].put, row[wk[Operator].put],
             wk[Operator].plan, wk[Operator].out, wk[Operator].todo)
    /\ HistIs(hist.pubs, hist.rejected, hist.unfound,
              IF hist.pubs[wk[Operator].put] > 0 THEN hist.lapsed \cup {wk[Operator].put}
              ELSE hist.lapsed)
    /\ UNCHANGED <<sRow, sLease, spc, link, files, dest, lock>>

\* The operator claims a record to give it up.
AbandonsTransfer ==
    /\ wk[Operator].pc = "abandon"
    /\ row[wk[Operator].put].state # "cleanup_not_attempted"
    /\ Claimable(row[wk[Operator].put]) /\ Claims(Operator, wk[Operator].put)
    /\ Moves(Operator, "abort", wk[Operator].own, wk[Operator].put, row[wk[Operator].put],
             wk[Operator].plan, wk[Operator].out, wk[Operator].todo)
    /\ HistIs(hist.pubs, hist.rejected, hist.unfound,
              IF hist.pubs[wk[Operator].put] > 0 THEN hist.lapsed \cup {wk[Operator].put}
              ELSE hist.lapsed)
    /\ UNCHANGED <<sRow, sLease, spc, link, files, dest, lock>>

\* The operator finds the record taken.
AbandonsNothing ==
    /\ wk[Operator].pc = "abandon" /\ Idles(Operator)
    /\ UNCHANGED <<sRow, sLease, spc, link, row, files, dest, lock, hist>>

\* The operator claims a record to accept the file at its destination.
ClaimsToResolve(t) ==
    /\ wk[Operator].pc = "off"
    /\ row[t].state \in {"outcome_unknown", "accept_current_intent"} /\ row[t].lease = None
    /\ Claims(Operator, t)
    /\ Moves(Operator, "preflight", wk[Operator].own, t, wk[Operator].rec, "quit", wk[Operator].out,
             wk[Operator].todo)
    /\ UNCHANGED <<sRow, sLease, spc, link, files, dest, lock, hist>>

\* The operator notes the file it accepts.
Accepts ==
    /\ wk[Operator].pc = "preflight"
    /\ Marks(wk[Operator].put, "accept_current_intent")
    /\ wk'[Operator].rec.state = "accept_current_intent"
    /\ wk'[Operator].rec.stage = row[wk[Operator].put].stage
    /\ Moves(Operator, "unlink", wk[Operator].own, wk[Operator].put, wk'[Operator].rec,
             wk[Operator].plan, wk[Operator].out, wk[Operator].todo)
    /\ UNCHANGED <<sRow, sLease, spc, link, files, dest, lock, hist>>

\* A settled record expires.
Expires(t) ==
    /\ row[t].lease = None
    /\ \/ row[t].state = "committed" /\ row[t].stage = None
       \/ row[t].state = "resolved_accept_current"
       \/ row[t].state = "cleanup_not_attempted" /\ row[t].cleaned
    /\ RowIs(t, "none", None, FALSE, None)
    /\ HistIs(hist.pubs, hist.rejected, hist.unfound,
              IF hist.pubs[t] > 0 THEN hist.lapsed \cup {t} ELSE hist.lapsed)
    /\ UNCHANGED <<sRow, sLease, spc, link, files, dest, lock, wk>>

\* The receiving agent stops.
ReceiverCrashes ==
    /\ \A u \in Puts : /\ row'[u].state = row[u].state /\ row'[u].stage = row[u].stage
                       /\ row'[u].cleaned = row[u].cleaned /\ row'[u].lease = None
    /\ lock' = None
    /\ \A w \in Workers :
           /\ wk'[w].pc = IF wk[w].pc = "off" \/ w = Operator THEN "off" ELSE "end"
           /\ wk'[w].plan = "quit" /\ wk'[w].todo = {}
    /\ \A a \in Attempts : link'[a].up = FALSE /\ link'[a].toS = link[a].toS
    /\ UNCHANGED <<sRow, sLease, spc, files, dest, hist>>

\* The user changes the file at a destination.
UserActs(n) ==
    /\ \E f \in UserFiles \cup {None} : dest' = [dest EXCEPT ![n] = f]
    /\ UNCHANGED <<sRow, sLease, spc, link, row, files, lock, wk, hist>>

\* A step of m, by an attempt's or the operator's leave, spares what others hold.
Spares(m) ==
    /\ \A v \in Workers : v # m => wk'[v] = wk[v]
    /\ lock' # lock => lock \in {m, None}
    /\ hist.unfound \subseteq hist'.unfound /\ hist.lapsed \subseteq hist'.lapsed
    /\ hist.overtaken \subseteq hist'.overtaken
    /\ \A f \in files' \ files :
          m \in Attempts /\ PutOf[f] = PutOf[m] /\ row[PutOf[m]].lease = m
    /\ \A u \in Puts :
          /\ row[u].lease \notin {m, None} =>
                /\ row'[u].state = row[u].state /\ row'[u].stage = row[u].stage
                /\ row'[u].lease = row[u].lease
          /\ hist'.pubs[u] # hist.pubs[u] =>
                /\ m \in Attempts /\ u = PutOf[m] /\ row[u].lease = m /\ hist'.pubs[u] # 0
                /\ wk[m].pc \in {"publish", "rename"}
          /\ row[u].state = "none" /\ row'[u].state # "none" =>
                m \in Attempts /\ u = PutOf[m] /\ wk[m].pc = "admit"
          /\ \/ row'[u].state = row[u].state /\ row'[u].stage = row[u].stage
             \/ m \in Attempts /\ wk[m].pc \in LockedPCs
             \/ row'[u].state = "none"
             \/ row[u].state = "accept_current_intent"
                  /\ row'[u].state = "resolved_accept_current"
             \/ /\ row[u].state \in {"stage_intent", "transferring", "publication_intent",
                                     "outcome_unknown"}
                /\ row'[u].state = "cleanup_not_attempted" /\ row'[u].stage = row[u].stage
             \/ /\ row[u].state \in {"outcome_unknown", "accept_current_intent"}
                /\ row'[u].state = "accept_current_intent" /\ row'[u].stage = row[u].stage

\* A step of m leaves the other sessions alone.
SparesSessions(m) ==
    \A x \in Attempts : x # m =>
        link'[x].up = link[x].up /\ link'[x].toS = link[x].toS /\ spc'[x] = spc[x]

\* What is known of a worker that moves.
KnownOf(w) ==
    /\ w \in Workers /\ wk[w].put \in Puts /\ WorkerSound(w)
    /\ w \in Attempts => PutOf[w] \in Puts /\ AttemptSound(w)
    /\ OperatorQuits /\ HistTypes /\ DestPublished /\ \A t \in Puts : PutSound(t)

\* What is known of the sender and of the records.
SenderKnown ==
    SenderTypes /\ HistTypes /\ OneSender /\ RejectedIsFinal /\ \A t \in Puts : PutSound(t)

\* A record that keeps its state and its stage.
PutKept(u) ==
    /\ row'[u].state = row[u].state /\ row'[u].stage = row[u].stage
    /\ row'[u].cleaned = row[u].cleaned
    /\ row[u].state = "none" => row'[u].lease = None
    /\ row[u].stage \in files' => row[u].stage \in files
    /\ hist'.pubs[u] = hist.pubs[u]
    /\ sRow'[u] = "committed" => sRow[u] = "committed"

(***************************************************************************)
(* How the operators of the specification move a worker, a record or a     *)
(* session.                                                                *)
(***************************************************************************)

\* An attempt is a worker, and so is the operator.
LEMMA AreWorkers ==
    /\ Attempts \subseteq Workers /\ Operator \in Workers /\ Operator \notin Attempts
    /\ None \notin Workers
  BY PutAssumption DEF Workers

\* Goto moves the program counter and nothing else.
LEMMA GotoSteps ==
    ASSUME WorkerTypes, NEW w \in Workers, NEW pc, Goto(w, pc)
    PROVE  Steps(w, pc)
  BY DEF WorkerTypes, WorkerStates, Goto, Steps, Moves

\* Settle, field by field: the attempt's own record is to be settled.
LEMMA SettleSettles ==
    ASSUME WorkerTypes, NEW a \in Attempts, NEW pc, NEW plan, Settle(a, pc, plan)
    PROVE  Settles(a, pc, plan)
  BY AreWorkers DEF WorkerTypes, WorkerStates, Settle, Settles, Moves, Own

\* Reply, field by field: the receive has a result and no copy of a record.
LEMMA ReplyReplies ==
    ASSUME WorkerTypes, NEW w \in Workers, NEW m, Reply(w, m)
    PROVE  Replies(w, m)
  BY DEF WorkerTypes, Reply, Replies, Moves, Blank, AnyPut

\* Idle, field by field: the worker has no record to settle.
LEMMA IdleIdles ==
    ASSUME WorkerTypes, NEW w \in Workers, Idle(w)
    PROVE  Idles(w)
  BY DEF WorkerTypes, Idle, Idles, Moves, Blank, AnyPut

\* ClaimReceiver changes the lease and nothing else of the record.
LEMMA ClaimClaims ==
    ASSUME RowTypes, NEW w, NEW t \in Puts, Claim(w, t)
    PROVE  Claims(w, t)
  BY DEF RowTypes, Rows, Claim, Claims, RowIs

\* MarkUnknown changes the state and nothing else of the record.
LEMMA MarkUnknownMarks ==
    ASSUME RowTypes, NEW t \in Puts, MarkUnknown(t)
    PROVE  Marks(t, "outcome_unknown")
  BY DEF RowTypes, Rows, MarkUnknown, Marks, RowIs

\* ReleaseReceiver of one record changes its lease and nothing else.
LEMMA FreedFrees ==
    ASSUME RowTypes, NEW w \in Workers, wk[w].put \in Puts, row' = Freed(row, w)
    PROVE  Frees(wk[w].put)
  BY DEF RowTypes, Rows, Freed, Frees, RowIs

\* Receive returns: the worker has ended, its lock and its session are
\* released.
LEMMA ReturnEnds ==
    ASSUME WorkerTypes, LinkTypes, NEW a \in Attempts, NEW rows, RReturn(a, rows)
    PROVE  Returns(a)
  <1>1. Ends(a)
    BY AreWorkers DEF WorkerTypes, RReturn, Ends, Moves, Blank, AnyPut
  <1>2. LinkIs(a, FALSE, link[a].toS)
    BY DEF LinkTypes, Links, RReturn, LinkIs
  <1> QED
    BY <1>1, <1>2 DEF RReturn, Returns

\* Receive returns: it has no lease any more, and the records are as they
\* were.
LEMMA ReturnLeaves ==
    ASSUME RowTypes, NEW a \in Attempts, RReturn(a, row)
    PROVE  Leaves(a)
  BY DEF RowTypes, Rows, RReturn, Released, Leaves

\* No message is not a result.
LEMMA NoTerminal == None \notin Terminals /\ None \notin {"committed", "error"}
  BY NoMessage DEF ToSender, Terminals

\* A receive that takes a message leaves what goes to the sender as it was.
LEMMA TakenSame ==
    ASSUME LinkTypes, NEW a \in Attempts, link' = [link EXCEPT ![a].toR = None]
    PROVE  LinksSame
  BY DEF LinkTypes, Links, LinksSame

\* Send returns early.
LEMMA StoppedSending ==
    ASSUME LinkTypes, NEW a \in Attempts, spc[a] \in Active, SReturn(a),
           UNCHANGED <<sRow, row, files, dest, lock, wk, hist>>
    PROVE  StopsSending(a)
  BY DEF LinkTypes, Links, SReturn, StopsSending, LinkIs

\* Receive returns early.
LEMMA Quitting ==
    ASSUME WorkerTypes, LinkTypes, RowTypes, NEW a \in Attempts, RReturn(a, row),
           wk[a].pc \notin {"off", "end"}, UNCHANGED <<sRow, sLease, spc, files, dest, hist>>
    PROVE  Quits(a)
  BY ReturnEnds, ReturnLeaves DEF Quits

\* A receive gives up before its publication, and settles its record.
LEMMA Aborting ==
    ASSUME WorkerTypes, NEW a \in Attempts, NEW plan \in {"reject", "silent"},
           Settle(a, "abort", plan),
           wk[a].pc \in {"admit", "open", "attach", "await_data", "publish", "check"},
           wk[a].pc = "admit" => wk[a].own.state # "none",
           wk[a].pc = "check" => PutOf[a] \in Replace /\ wk[a].own.stage \in files,
           LinksSame, UNCHANGED <<sRow, sLease, spc, row, files, dest, lock, hist>>
    PROVE  Aborts(a)
  <1>1. Settles(a, "abort", plan)
    BY SettleSettles
  <1> QED
    BY <1>1 DEF Settles, Moves, Aborts

\* A settlement that ends badly.
LEMMA ConcludeFails ==
    ASSUME WorkerTypes, RowTypes, LinkTypes, OperatorQuits, NEW w \in Workers,
           wk[w].pc \in {"abort", "unlink", "mark", "drop"}
             \/ (wk[w].pc = "preflight" /\ w = Operator),
           Conclude(w, FALSE, row), UNCHANGED <<sRow, sLease, spc, files, dest>>
    PROVE  ReportsUnclean(w) \/ StopsSettling(w) \/ (w \in Attempts /\ Quits(w))
  <1> DEFINE t == wk[w].put
             plan == wk[w].plan
  <1>1. t \in Puts /\ plan \in Plans
    BY DEF WorkerTypes, WorkerStates
  <1>2. hist' = hist
    BY DEF Conclude
  <1>3. row' = Freed(row, w) => Frees(t)
    BY <1>1, FreedFrees
  <1>4. CASE plan \in {"reject", "commit"}
    <2>1. Replies(w, IF plan = "commit" THEN "committed" ELSE "retryable_error")
      BY <1>4, ReplyReplies DEF Conclude
    <2>2. row' = row /\ lock' = lock /\ link' = link
      BY <1>4 DEF Conclude
    <2>3. wk[w].pc \in {"abort", "unlink", "mark", "drop"}
      BY <1>4 DEF OperatorQuits
    <2> QED
      BY <1>2, <1>4, <2>1, <2>2, <2>3 DEF ReportsUnclean, RowIs
  <1>5. CASE plan \in {"fresh", "afresh"}
    <2>1. Replies(w, "retryable_error")
      BY <1>5, ReplyReplies DEF Conclude
    <2>2. (row' = row \/ row' = Freed(row, w)) /\ lock' = lock /\ link' = link
      BY <1>5 DEF Conclude
    <2>3. wk[w].pc \in {"abort", "unlink", "mark", "drop"}
      BY <1>5 DEF OperatorQuits
    <2> QED
      BY <1>2, <1>3, <1>5, <2>1, <2>2, <2>3 DEF ReportsUnclean, Frees, RowIs
  <1>6. CASE plan = "quit"
    <2>1. Idles(w)
      BY <1>6, IdleIdles DEF Conclude
    <2>2. row' = Freed(row, w) /\ lock' = lock /\ link' = link
      BY <1>6 DEF Conclude
    <2> QED
      BY <1>2, <1>3, <1>6, <2>1, <2>2 DEF StopsSettling
  <1>7. CASE plan \in {"silent", "late_commit"}
    <2>1. w \in Attempts
      BY <1>7 DEF OperatorQuits, Workers
    <2>2. RReturn(w, row)
      BY <1>7 DEF Conclude
    <2> QED
      BY <1>2, <2>1, <2>2, Quitting
  <1> QED
    BY <1>1, <1>4, <1>5, <1>6, <1>7 DEF Plans

\* A settlement that ends well, with r as the record it leaves.
LEMMA ConcludeDrops ==
    ASSUME WorkerTypes, RowTypes, LinkTypes, OperatorQuits, NEW w \in Workers,
           wk[w].pc = "drop", NEW r \in Rows, r.stage = None, r.cleaned = FALSE,
           r.lease \in {row[wk[w].put].lease, None},
           \/ row[wk[w].put].state = "cleanup_not_attempted" /\ r.state = "none" /\ r.lease = None
           \/ row[wk[w].put].state = "committed" /\ r.state = "committed"
           \/ /\ row[wk[w].put].state = "accept_current_intent"
              /\ r.state = "resolved_accept_current",
           Conclude(w, TRUE, [row EXCEPT ![wk[w].put] = r]),
           UNCHANGED <<sRow, sLease, spc, files, dest>>
    PROVE  \/ ReportsFailure(w) \/ ReportsCommit(w) \/ StartsAfresh(w) \/ FinishesOther(w)
           \/ w \in Attempts /\ ReturnsSilently(w)
  <1> DEFINE t == wk[w].put
             plan == wk[w].plan
             rows == [row EXCEPT ![t] = r]
  <1>1. t \in Puts /\ plan \in Plans
    BY DEF WorkerTypes, WorkerStates
  <1>2. hist' = hist
    BY DEF Conclude
  <1>3. rows[t] = r /\ rows \in [Puts -> Rows] /\ \A u \in Puts : u # t => rows[u] = row[u]
    BY <1>1 DEF RowTypes
  <1> HIDE DEF rows
  <1>4. Conclude(w, TRUE, rows)
    BY DEF rows
  <1>5. ASSUME row' = rows \/ row' = Freed(rows, w)
        PROVE  Drops(w) /\ (row' = Freed(rows, w) => row'[t].lease = None)
    <2>1. /\ row'[t].state = r.state /\ row'[t].stage = r.stage /\ row'[t].cleaned = r.cleaned
          /\ row'[t].lease \in {r.lease, None}
          /\ row' = Freed(rows, w) => row'[t].lease = None
          /\ \A u \in Puts : u # t => row'[u] = row[u]
      BY <1>1, <1>3, <1>5 DEF Freed, Rows
    <2> QED
      BY <2>1 DEF Drops, Dropped
  <1>6. CASE plan \in {"reject", "commit", "late_commit"}
    <2>1. Replies(w, IF plan = "reject" THEN "error" ELSE "committed")
      BY <1>4, <1>6, ReplyReplies DEF Conclude
    <2>2. (row' = rows \/ row' = Freed(rows, w)) /\ lock' = lock /\ link' = link
      BY <1>4, <1>6 DEF Conclude
    <2>3. Drops(w)
      BY <1>5, <2>2
    <2> QED
      BY <1>2, <1>6, <2>1, <2>2, <2>3 DEF ReportsFailure, ReportsCommit
  <1>7. CASE plan \in {"fresh", "afresh"}
    <2>1. wk' = [wk EXCEPT ![w].pc = IF plan = "fresh" THEN "admit" ELSE "loaded",
                           ![w].own = NoRow]
      BY <1>4, <1>7 DEF Conclude
    <2>2. Moves(w, IF plan = "fresh" THEN "admit" ELSE "loaded", NoRow, t, wk[w].rec, plan,
                wk[w].out, wk[w].todo)
      BY <2>1 DEF WorkerTypes, WorkerStates, Moves
    <2>3. row' = rows /\ lock' = lock /\ link' = link
      BY <1>4, <1>7 DEF Conclude
    <2>4. Drops(w)
      BY <1>5, <2>3
    <2> QED
      BY <1>2, <1>7, <2>2, <2>3, <2>4 DEF StartsAfresh, Moves
  <1>8. CASE plan = "quit"
    <2>1. Idles(w)
      BY <1>4, <1>8, IdleIdles DEF Conclude
    <2>2. row' = Freed(rows, w) /\ lock' = lock /\ link' = link
      BY <1>4, <1>8 DEF Conclude
    <2>3. Drops(w) /\ row'[t].lease = None
      BY <1>5, <2>2
    <2> QED
      BY <1>2, <1>8, <2>1, <2>2, <2>3 DEF FinishesOther
  <1>9. CASE plan = "silent"
    <2>1. w \in Attempts
      BY <1>9 DEF OperatorQuits, Workers
    <2>2. RReturn(w, rows)
      BY <1>4, <1>9 DEF Conclude
    <2>3. Returns(w)
      BY <2>1, <2>2, ReturnEnds
    <2>4. row' = Released(rows, w)
      BY <2>2 DEF RReturn
    <2>5. \A u \in Puts :
              /\ row'[u].state = rows[u].state /\ row'[u].stage = rows[u].stage
              /\ row'[u].cleaned = rows[u].cleaned
              /\ row'[u].lease = IF rows[u].lease = w THEN None ELSE rows[u].lease
      BY <1>3, <2>4 DEF Released, Rows
    <2>6. Dropped(w)
      BY <1>1, <1>3, <2>5, AreWorkers DEF Dropped
    <2> QED
      BY <1>1, <1>2, <1>3, <1>9, <2>1, <2>3, <2>5, <2>6 DEF ReturnsSilently
  <1> QED
    BY <1>1, <1>6, <1>7, <1>8, <1>9 DEF Plans

(***************************************************************************)
(* What a step spares.                                                     *)
(***************************************************************************)

\* A step of m leaves the lock of another receive alone.
LEMMA LockSpared ==
    ASSUME NEW m, NEW x \in Attempts, x # m, Spares(m), LockHeldBy(x)
    PROVE  LockHeldBy(x)'
  BY PutAssumption, AreWorkers DEF Spares, LockHeldBy, LockedPCs

\* What another receive has loaded stays a copy of its record, up to what the
\* operator and the expiry may do to it.
LEMMA LoadedSpared ==
    ASSUME NEW m, NEW x \in Attempts, x # m, Spares(m), m \in Attempts => LockHeldBy(m),
           LockHeldBy(x), LoadedCopyOf(x)
    PROVE  LoadedCopyOf(x)'
  BY PutAssumption, AreWorkers DEF Spares, LockHeldBy, LoadedCopyOf, LockedPCs

\* The record another receive works on stays its own.
LEMMA WorkingSpared ==
    ASSUME NEW m, NEW x \in Attempts, x # m, Spares(m), m \in Attempts => LockHeldBy(m),
           LockHeldBy(x), WorkingCopyOf(x)
    PROVE  WorkingCopyOf(x)'
  BY PutAssumption, AreWorkers
  DEF Spares, LockHeldBy, WorkingCopyOf, LockedPCs, Working, WorkPCs, SettlePCs

\* The record another worker settles stays its own.
LEMMA SettledSpared ==
    ASSUME NEW m, NEW x \in Workers, x # m, Spares(m), \A t \in Puts : RowSound(t),
           wk[x].put \in Puts, SettledCopyOf(x)
    PROVE  SettledCopyOf(x)'
  BY PutAssumption, AreWorkers DEF Spares, RowSound, SettledCopyOf, LockedPCs, SettlePCs

\* What another worker's settlement rests on stays true.
LEMMA PlanSpared ==
    ASSUME NEW m, NEW x \in Workers, x # m, Spares(m), wk[x].put \in Puts, SettledCopyOf(x),
           PlanOf(x)
    PROVE  PlanOf(x)'
  BY PutAssumption, AreWorkers DEF Spares, SettledCopyOf, PlanOf, LockedPCs, SettlePCs

\* Another receive that is about to publish is still the first.
LEMMA FirstSpared ==
    ASSUME NEW m, NEW x \in Attempts, x # m, Spares(m), WorkingCopyOf(x), NotYetPublishedBy(x)
    PROVE  NotYetPublishedBy(x)'
  BY PutAssumption, AreWorkers
  DEF Spares, WorkingCopyOf, NotYetPublishedBy, LockedPCs, Working, WorkPCs, SettlePCs

\* Another attempt's commit stays published.
LEMMA KnownSpared ==
    ASSUME NEW m, NEW x \in Attempts, x # m, Spares(m), SparesSessions(m), CommitKnownBy(x)
    PROVE  CommitKnownBy(x)'
  BY PutAssumption, AreWorkers DEF Spares, SparesSessions, CommitKnownBy, LockedPCs

\* The session of another attempt is left alone.
LEMMA SessionSpared ==
    ASSUME NEW m, NEW x \in Attempts, x # m, Spares(m), SparesSessions(m), SessionOf(x)
    PROVE  SessionOf(x)'
  BY PutAssumption, AreWorkers DEF Spares, SparesSessions, SessionOf, LockedPCs, Active, Terminals

\* A put that is over stays over, unless m comes back to it.
LEMMA OverSpared ==
    ASSUME NEW m, Spares(m), NEW u \in Puts, Over(u),
           m \in Attempts /\ PutOf[m] = u /\ Harmless(m) /\ row[u].state = "none" => Harmless(m)'
    PROVE  Over(u)'
  BY PutAssumption, AreWorkers DEF Spares, Over, Harmless, LockedPCs

\* What the invariant says of a worker, and of an attempt.
LEMMA WorkerKnown ==
    ASSUME PutInv, NEW w \in Workers
    PROVE  KnownOf(w)
  BY PutAssumption DEF PutInv, Types, Sound, WorkerTypes, WorkerStates, KnownOf

\* What the invariant says of an attempt.
LEMMA AttemptKnown ==
    ASSUME PutInv, NEW a \in Attempts
    PROVE  KnownOf(a)
  BY WorkerKnown, AreWorkers

\* What the invariant says of the sending side and of the records.
LEMMA SenderIsKnown ==
    ASSUME PutInv
    PROVE  SenderKnown
  BY DEF PutInv, Types, Sound, SenderKnown

\* A receive that holds nothing.
LEMMA AtRest ==
    ASSUME NEW x \in Attempts,
           wk'[x].pc \in {"off", "await_offer", "locking", "deliver", "await_ack", "end"}
    PROVE  /\ LockHeldBy(x)' /\ LoadedCopyOf(x)' /\ WorkingCopyOf(x)' /\ NotYetPublishedBy(x)'
           /\ WorkerSound(x)'
  BY DEF LockHeldBy, LockedPCs, LoadedCopyOf, WorkingCopyOf, Working, WorkPCs, NotYetPublishedBy,
      WorkerSound, SettledCopyOf, SettlePCs, PlanOf

\* A worker that settles nothing.
LEMMA NotSettling ==
    ASSUME NEW x \in Workers, wk'[x].pc \notin SettlePCs \cup {"preflight"}
    PROVE  WorkerSound(x)'
  BY DEF WorkerSound, SettledCopyOf, SettlePCs, PlanOf

\* A receive that settles its own record.
LEMMA Settling ==
    ASSUME NEW x \in Attempts, wk'[x].pc \in SettlePCs, wk'[x].plan # "quit"
    PROVE  LoadedCopyOf(x)' /\ WorkingCopyOf(x)' /\ NotYetPublishedBy(x)'
  BY DEF SettlePCs, LoadedCopyOf, WorkingCopyOf, Working, WorkPCs, NotYetPublishedBy

\* The sessions of the others, when they are left alone.
LEMMA SessionsSpared ==
    ASSUME PutInv, NEW m, Spares(m), SparesSessions(m)
    PROVE  \A x \in Attempts : x # m => SessionOf(x)' /\ CommitKnownBy(x)'
  <1>1. ASSUME NEW x \in Attempts, x # m
        PROVE  SessionOf(x)' /\ CommitKnownBy(x)'
    <2>1. SessionOf(x) /\ CommitKnownBy(x)
      BY DEF PutInv, Sound, AttemptSound
    <2> QED
      BY <1>1, <2>1, SessionSpared, KnownSpared
  <1> QED
    BY <1>1

\* The receives other than the one that moves.
LEMMA OthersSpared ==
    ASSUME PutInv, NEW m, Spares(m), NEW x \in Attempts, x # m,
           SessionOf(x)' /\ CommitKnownBy(x)'
    PROVE  AttemptSound(x)'
  <1>1. AttemptSound(x) /\ (m \in Attempts => AttemptSound(m))
    BY DEF PutInv, Sound
  <1>2. LockHeldBy(x)'
    BY <1>1, LockSpared DEF AttemptSound
  <1>3. LoadedCopyOf(x)'
    BY <1>1, LoadedSpared DEF AttemptSound
  <1>4. WorkingCopyOf(x)'
    BY <1>1, WorkingSpared DEF AttemptSound
  <1>5. NotYetPublishedBy(x)'
    BY <1>1, FirstSpared DEF AttemptSound
  <1>6. PutOf[x] \notin wk'[x].todo
    BY <1>1, AreWorkers DEF AttemptSound, Spares
  <1> QED
    BY <1>2, <1>3, <1>4, <1>5, <1>6 DEF AttemptSound

\* The settlements of the others.
LEMMA SettlementsSpared ==
    ASSUME PutInv, NEW m, Spares(m), NEW x \in Workers, x # m
    PROVE  WorkerSound(x)'
  <1>1. wk[x].put \in Puts /\ WorkerSound(x) /\ \A t \in Puts : RowSound(t)
    BY WorkerKnown DEF KnownOf, PutInv, Sound, PutSound
  <1>2. SettledCopyOf(x)'
    BY <1>1, SettledSpared DEF WorkerSound
  <1>3. PlanOf(x)'
    BY <1>1, PlanSpared DEF WorkerSound
  <1> QED
    BY <1>2, <1>3 DEF WorkerSound

\* The invariant after a step of m: what m holds and what the rest of the
\* state says is shown for each move, what others hold is spared.
LEMMA AllKept ==
    ASSUME PutInv, NEW m, Spares(m),
           \A x \in Attempts : x # m => SessionOf(x)' /\ CommitKnownBy(x)',
           m \in Attempts => AttemptSound(m)',
           m \in Workers => WorkerSound(m)',
           m = Operator => OperatorQuits',
           \A t \in Puts : PutSound(t)',
           DestPublished' /\ RenamesInspected' /\ StagesOnRecord',
           OneSender' /\ RejectedIsFinal', FailureIsClean' /\ RejectionIsOver'
    PROVE  Sound'
  <1>1. \A x \in Attempts : AttemptSound(x)'
    BY OthersSpared
  <1>2. \A x \in Workers : WorkerSound(x)'
    BY SettlementsSpared
  <1>3. OperatorQuits'
    BY AreWorkers DEF PutInv, Sound, OperatorQuits, Spares
  <1> QED
    BY <1>1, <1>2, <1>3 DEF Sound

\* A step that changes no record, no stage and no publication.
LEMMA PutsKept ==
    ASSUME PutInv, UNCHANGED <<sRow, row, files>>, HistSame
    PROVE  (\A t \in Puts : PutSound(t)') /\ StagesOnRecord'
  <1>1. \A t \in Puts : PutSound(t)'
    BY DEF PutInv, Sound, PutSound, RowSound, PastRecordedOf, CommitRecordedOf, CleanedSoundOf,
        PublishedOnceOf, HistSame, HistIs
  <1>2. StagesOnRecord'
    BY DEF PutInv, Sound, StagesOnRecord, HistSame, HistIs
  <1> QED
    BY <1>1, <1>2

\* A step that changes no destination, and in which m does not get to the rename.
LEMMA DestKept ==
    ASSUME PutInv, NEW m, Spares(m), dest' = dest, hist'.pubs = hist.pubs,
           m \in Attempts => wk'[m].pc # "rename"
    PROVE  DestPublished' /\ RenamesInspected'
  BY AreWorkers DEF PutInv, Sound, DestPublished, RenamesInspected, Spares

\* A step of the receiving agent, for the sender's rows.
LEMMA SenderKept ==
    ASSUME PutInv, UNCHANGED <<sRow, sLease, spc>>, hist'.rejected = hist.rejected
    PROVE  OneSender' /\ RejectedIsFinal'
  BY DEF PutInv, Sound, OneSender, SenderLeased, SenderAlone, UnsentOff, RejectedIsFinal

\* A step that begins no final failure, of an m that does not come back to
\* a put that is over.
LEMMA ResultsKept ==
    ASSUME PutInv, NEW m, Spares(m), hist'.rejected = hist.rejected,
           \A x \in Attempts : Failing(x)' => Failing(x),
           m \in Attempts /\ Harmless(m) /\ row[PutOf[m]].state = "none" => Harmless(m)'
    PROVE  FailureIsClean' /\ RejectionIsOver'
  <1>1. ASSUME NEW u \in Puts, Over(u)
        PROVE  Over(u)'
    BY <1>1, OverSpared
  <1>2. FailureIsClean'
    BY <1>1, PutAssumption DEF PutInv, Sound, FailureIsClean
  <1>3. RejectionIsOver'
    BY <1>1 DEF PutInv, Types, HistTypes, Histories, Sound, RejectionIsOver
  <1> QED
    BY <1>2, <1>3

\* A step that makes no stage, and changes the stage of a record only when
\* it is gone.
LEMMA StagesKept ==
    ASSUME PutInv, files' \subseteq files, hist.overtaken \subseteq hist'.overtaken,
           \A u \in Puts : \/ row'[u].stage = row[u].stage
                           \/ row[u].stage \notin files \/ u \in hist.overtaken
    PROVE  StagesOnRecord'
  <1>1. files \subseteq Attempts /\ StagesOnRecord
    BY DEF PutInv, Types, DiskTypes, Sound
  <1>2. \A f \in Attempts : PutOf[f] \in Puts
    BY PutAssumption
  <1> QED
    BY <1>1, <1>2 DEF StagesOnRecord

\* A record that keeps its state and its stage stays sound.
LEMMA PutSpared ==
    ASSUME NEW u \in Puts, PutSound(u), PutKept(u), hist.lapsed \subseteq hist'.lapsed,
           hist.overtaken \subseteq hist'.overtaken
    PROVE  PutSound(u)'
  BY DEF PutKept, PutSound, RowSound, PastRecordedOf, CommitRecordedOf, CleanedSoundOf,
      PublishedOnceOf

\* The records that keep their state and their stage stay sound.
LEMMA PutsSpared ==
    ASSUME PutInv, NEW m, Spares(m), \A u \in Puts : PutKept(u) \/ PutSound(u)'
    PROVE  \A u \in Puts : PutSound(u)'
  BY PutSpared DEF PutInv, Sound, Spares

\* The attempt that was being sent is not any more.
LEMMA SendEnds ==
    ASSUME OneSender, SenderTypes, NEW a \in Attempts, spc[a] \in Active,
           spc' = [spc EXCEPT ![a] = "end"], ReleaseSend(a),
           NEW s, s # "unsent", sRow' = sRow \/ sRow' = [sRow EXCEPT ![PutOf[a]] = s]
    PROVE  OneSender'
  <1>1. ASSUME NEW t \in Puts
        PROVE  SenderLeased(t)'
    BY <1>1, PutAssumption DEF OneSender, SenderLeased, SenderTypes, ReleaseSend, Active
  <1>2. ASSUME NEW x \in Attempts
        PROVE  SenderAlone(x)'
    <2>1. SUFFICES ASSUME spc'[x] \in Active
                   PROVE  SenderAlone(x)'
      BY DEF SenderAlone
    <2>2. x # a /\ spc[x] = spc'[x] /\ PutOf[x] \in Puts
      BY <1>2, <2>1, PutAssumption DEF SenderTypes, Active
    <2>3. CASE sLease[PutOf[x]] = x
      BY <2>2, <2>3 DEF SenderAlone, ReleaseSend
    <2>4. CASE sLease[PutOf[x]] # x
      <3>1. /\ sRow[PutOf[x]] = "none" /\ sLease[PutOf[x]] = None
            /\ \A b \in Attempts \ {x} : PutOf[b] = PutOf[x] => spc[b] = "off"
        BY <2>1, <2>2, <2>4 DEF OneSender, SenderAlone
      <3>2. PutOf[a] # PutOf[x]
        BY <2>2, <3>1 DEF Active
      <3>3. sRow'[PutOf[x]] = "none" /\ sLease'[PutOf[x]] = None
        BY <2>2, <3>1, <3>2 DEF ReleaseSend, SenderTypes
      <3>4. \A b \in Attempts \ {x} : PutOf[b] = PutOf[x] => spc'[b] = "off"
        BY <3>1, <3>2
      <3> QED
        BY <3>3, <3>4 DEF SenderAlone
    <2> QED
      BY <2>3, <2>4
  <1>3. ASSUME NEW x \in Attempts
        PROVE  UnsentOff(x)'
    BY <1>3, PutAssumption DEF OneSender, UnsentOff, SenderTypes, Active
  <1> QED
    BY <1>1, <1>2, <1>3 DEF OneSender

\* The lock of the directory has one holder.
LEMMA LockIsExclusive ==
    ASSUME PutInv, NEW a \in Attempts, wk[a].pc \in LockedPCs
    PROVE  \A x \in Attempts : x # a => wk[x].pc \notin LockedPCs
  BY DEF PutInv, Sound, AttemptSound, LockHeldBy

(***************************************************************************)
(* Results: a final failure is reported of a put that is over.             *)
(***************************************************************************)

\* The results when m begins a final failure of a put that is over.
LEMMA FailuresKept ==
    ASSUME PutInv, NEW m, Spares(m), hist'.rejected = hist.rejected,
           \A x \in Attempts : Failing(x)' => Failing(x) \/ Over(PutOf[x])',
           m \in Attempts /\ Harmless(m) /\ row[PutOf[m]].state = "none" => Harmless(m)'
    PROVE  FailureIsClean' /\ RejectionIsOver'
  <1>1. ASSUME NEW u \in Puts, Over(u)
        PROVE  Over(u)'
    BY <1>1, OverSpared
  <1>2. FailureIsClean'
    BY <1>1, PutAssumption DEF PutInv, Sound, FailureIsClean
  <1>3. RejectionIsOver'
    BY <1>1 DEF PutInv, Types, HistTypes, Histories, Sound, RejectionIsOver
  <1> QED
    BY <1>2, <1>3

\* The put of a receive that reports a failure with the lock still held.
LEMMA OverNow ==
    ASSUME PutInv, NEW a \in Attempts, Spares(a), wk[a].pc \in LockedPCs,
           wk'[a].pc = "deliver", row'[PutOf[a]].state = "none", hist'.pubs = hist.pubs,
           row[PutOf[a]].state \in {"none", "cleanup_not_attempted"}
    PROVE  Over(PutOf[a])'
  <1>1. hist.pubs[PutOf[a]] = 0 \/ PutOf[a] \in hist.lapsed
    BY PutAssumption DEF PutInv, Sound, PutSound, PastRecordedOf
  <1>2. \A b \in Attempts : Harmless(b)'
    BY LockIsExclusive, AreWorkers DEF Spares, Harmless, LockedPCs
  <1> QED
    BY <1>1, <1>2 DEF Over, Spares

\* A receive that refuses the offer reports a put that is over: it is in
\* unfound.
LEMMA RefusesOfferFails ==
    ASSUME PutInv, NEW a \in Attempts, RefusesOffer(a), Spares(a)
    PROVE  FailureIsClean' /\ RejectionIsOver'
  <1>1. Over(PutOf[a])'
    BY DEF RefusesOffer, HistIs, Over
  <1>2. \A x \in Attempts : Failing(x)' => Failing(x) \/ x = a
    BY AreWorkers DEF RefusesOffer, LinksSame, Replies, Moves, Failing
  <1>3. Harmless(a)'
    BY DEF RefusesOffer, Replies, Moves, Harmless, LockedPCs
  <1>4. hist'.rejected = hist.rejected
    BY DEF RefusesOffer, HistIs
  <1> QED
    BY <1>1, <1>2, <1>3, <1>4, FailuresKept

\* A receive that refuses to admit a put reports one that is over: it has no
\* record, and the lock keeps every other attempt from making one.
LEMMA RefusesFails ==
    ASSUME PutInv, NEW a \in Attempts, Refuses(a), Spares(a), KnownOf(a)
    PROVE  FailureIsClean' /\ RejectionIsOver'
  <1>1. wk[a].pc \in LockedPCs /\ wk'[a].pc = "deliver"
    BY DEF Refuses, Replies, Moves, LockedPCs
  <1>2. row[PutOf[a]].state = "none"
    BY DEF KnownOf, AttemptSound, WorkingCopyOf, Refuses
  <1>3. Over(PutOf[a])'
    BY <1>1, <1>2, OverNow DEF Refuses
  <1>4. \A x \in Attempts : Failing(x)' => Failing(x) \/ x = a
    BY AreWorkers DEF Refuses, Replies, Moves, Failing
  <1>5. Harmless(a)'
    BY DEF Refuses, Replies, Moves, Harmless, LockedPCs
  <1> QED
    BY <1>3, <1>4, <1>5, FailuresKept DEF Refuses

\* A receive that has dropped the record of its put reports one that is over.
LEMMA ReportsFailureFails ==
    ASSUME PutInv, NEW w \in Workers, ReportsFailure(w), Spares(w), KnownOf(w)
    PROVE  FailureIsClean' /\ RejectionIsOver'
  <1>1. w \in Attempts
    BY DEF Workers, KnownOf, OperatorQuits, ReportsFailure
  <1>2. wk[w].pc \in LockedPCs /\ wk'[w].pc = "deliver"
    BY DEF ReportsFailure, Drops, Replies, Moves, LockedPCs
  <1>3. wk[w].put = PutOf[w] /\ row[PutOf[w]].state = "cleanup_not_attempted"
    BY DEF KnownOf, WorkerSound, SettledCopyOf, SettlePCs, PlanOf, ReportsFailure, Drops
  <1>4. row'[PutOf[w]].state = "none"
    BY <1>3 DEF ReportsFailure, Drops, Dropped
  <1>5. Over(PutOf[w])'
    BY <1>1, <1>2, <1>3, <1>4, OverNow DEF ReportsFailure
  <1>6. \A x \in Attempts : Failing(x)' => Failing(x) \/ x = w
    BY AreWorkers DEF ReportsFailure, Replies, Moves, Failing
  <1>7. Harmless(w)'
    BY DEF ReportsFailure, Replies, Moves, Harmless, LockedPCs
  <1> QED
    BY <1>1, <1>5, <1>6, <1>7, FailuresKept DEF ReportsFailure

\* A put that is being prepared has no other attempt that fails, and was not
\* rejected: its session is up, so its sender is active, and it is the only one.
LEMMA PreparesClean ==
    ASSUME PutInv, NEW a \in Attempts, Prepares(a), Spares(a), KnownOf(a)
    PROVE  FailureIsClean' /\ RejectionIsOver'
  <1>1. OneSender /\ RejectedIsFinal /\ HistTypes
    BY SenderIsKnown DEF SenderKnown
  <1>2. spc[a] \in Active
    BY DEF KnownOf, AttemptSound, SessionOf, Prepares
  <1>3. ASSUME NEW x \in Attempts, Failing(x)'
        PROVE  Failing(x) /\ PutOf[x] # PutOf[a]
    <2>1. x # a
      BY <1>3 DEF Prepares, Steps, Moves, LinkIs, Failing
    <2>2. Failing(x)
      BY <1>3, <2>1, AreWorkers DEF Prepares, Steps, Moves, LinkIs, Failing
    <2> QED
      BY <1>1, <1>2, <2>1, <2>2 DEF OneSender, SenderAlone, Failing, Active
  <1>4. PutOf[a] \notin hist.rejected
    BY <1>1, <1>2 DEF RejectedIsFinal
  <1>5. ASSUME NEW u \in Puts, Over(u), u # PutOf[a]
        PROVE  Over(u)'
    BY <1>5, OverSpared
  <1>6. FailureIsClean'
    BY <1>3, <1>5, PutAssumption DEF PutInv, Sound, FailureIsClean
  <1>7. RejectionIsOver'
    BY <1>1, <1>4, <1>5 DEF PutInv, Sound, RejectionIsOver, Prepares, HistTypes, Histories
  <1> QED
    BY <1>6, <1>7

\* The sender learns of a failure that was under way.
LEMMA ToldFailedRejects ==
    ASSUME PutInv, NEW a \in Attempts, ToldFailed(a), Spares(None)
    PROVE  FailureIsClean' /\ RejectionIsOver'
  <1>1. ASSUME NEW u \in Puts, Over(u)
        PROVE  Over(u)'
    BY <1>1, OverSpared, AreWorkers
  <1>2. ASSUME NEW x \in Attempts, Failing(x)'
        PROVE  Failing(x)
    BY <1>2, NoTerminal DEF ToldFailed, LinkIs, Failing, Active, PutInv, Types, SenderTypes
  <1>3. FailureIsClean'
    BY <1>1, <1>2, PutAssumption DEF PutInv, Sound, FailureIsClean
  <1>4. Over(PutOf[a])
    BY DEF PutInv, Sound, FailureIsClean, Failing, ToldFailed
  <1>5. RejectionIsOver'
    BY <1>1, <1>4, PutAssumption
    DEF PutInv, Types, HistTypes, Histories, Sound, RejectionIsOver, ToldFailed, HistIs
  <1> QED
    BY <1>3, <1>5

\* The receiving agent stops: nobody holds anything, and the records stay.
LEMMA ReceiverCrashesKeeps ==
    ASSUME PutInv, ReceiverCrashes
    PROVE  Sound'
  <1>1. ASSUME NEW a \in Attempts
        PROVE  AttemptSound(a)'
    <2>1. KnownOf(a)
      BY <1>1, AttemptKnown
    <2>2. wk'[a].pc = (IF wk[a].pc = "off" THEN "off" ELSE "end") /\ wk'[a].todo = {}
      BY <1>1, AreWorkers DEF ReceiverCrashes
    <2>3. LockHeldBy(a)' /\ LoadedCopyOf(a)' /\ WorkingCopyOf(a)' /\ NotYetPublishedBy(a)'
      BY <1>1, <2>2, AtRest
    <2>4. CommitKnownBy(a)' /\ SessionOf(a)'
      BY <1>1, <2>1, <2>2
      DEF KnownOf, AttemptSound, CommitKnownBy, SessionOf, ReceiverCrashes
    <2> QED
      BY <2>2, <2>3, <2>4 DEF AttemptSound
  <1>2. ASSUME NEW w \in Workers
        PROVE  WorkerSound(w)'
    BY <1>2, NotSettling DEF ReceiverCrashes, SettlePCs
  <1>3. OperatorQuits'
    BY AreWorkers DEF ReceiverCrashes, OperatorQuits
  <1>4. ASSUME NEW u \in Puts
        PROVE  PutSound(u)'
    BY <1>4, SenderIsKnown, PutSpared
    DEF SenderKnown, PutKept, ReceiverCrashes
  <1>5. DestPublished' /\ RenamesInspected'
    BY AreWorkers DEF PutInv, Sound, DestPublished, RenamesInspected, ReceiverCrashes
  <1>6. StagesOnRecord'
    BY StagesKept DEF ReceiverCrashes
  <1>7. OneSender' /\ RejectedIsFinal'
    BY SenderKept DEF ReceiverCrashes
  <1>8. ASSUME NEW u \in Puts, Over(u)
        PROVE  Over(u)'
    BY <1>8, AreWorkers DEF Over, Harmless, LockedPCs, ReceiverCrashes
  <1>9. \A x \in Attempts : Failing(x)' => Failing(x)
    BY AreWorkers DEF Failing, ReceiverCrashes
  <1>10. FailureIsClean' /\ RejectionIsOver'
    BY <1>8, <1>9, PutAssumption
    DEF PutInv, Types, HistTypes, Histories, Sound, FailureIsClean, RejectionIsOver,
      ReceiverCrashes
  <1> QED
    BY <1>1, <1>2, <1>3, <1>4, <1>5, <1>6, <1>7, <1>10 DEF Sound

(***************************************************************************)
(* Every move keeps what the invariant says.                               *)
(***************************************************************************)

\* A new put is offered for the first time: the invariant is kept.
LEMMA SubmitsKeeps ==
    ASSUME PutInv, NEW a \in Attempts, Submits(a)
    PROVE  Sound'
  <1>1. KnownOf(a)
    BY AttemptKnown
  <1>2. SenderKnown
    BY SenderIsKnown
  <1>3. Spares(a) /\ SparesSessions(a)
    BY <1>1 DEF Submits, Spares, LinkIs, Steps, Moves, SparesSessions
  <1>4. \A x \in Attempts : x # a => SessionOf(x)' /\ CommitKnownBy(x)'
    BY <1>3, SessionsSpared
  <1>5. WorkerSound(a)'
    BY <1>1, NotSettling DEF Submits, Steps, Moves, SettlePCs, KnownOf
  <1>6. AttemptSound(a)'
    BY <1>1, AtRest
    DEF Submits, LinkIs, Steps, Moves, KnownOf, AttemptSound, CommitKnownBy, SessionOf, Active,
        PutInv, Types, SenderTypes
  <1>7. \A u \in Puts : PutSound(u)'
    BY <1>1, <1>3, PutAssumption, AreWorkers, PutsSpared
    DEF Submits, LinkIs, Moves, PutKept, KnownOf, PutSound, RowSound, WorkerSound, SettlePCs,
        Working, WorkPCs, Claimable, HistTypes, Histories
  <1>8. StagesOnRecord'
    BY <1>1, PutAssumption, AreWorkers, NoTerminal
    DEF Submits, StagesOnRecord, LinkIs, Steps, Moves, PutInv, Sound, Types, KnownOf,
        AttemptSound, WorkerSound, PutSound, HistTypes, Histories, NoRow, Workers, RowSound,
        SettledCopyOf, SettlePCs, WorkingCopyOf, Working, WorkPCs, CleanedSoundOf, OperatorQuits,
        DiskTypes, RowTypes, Rows, Identities
  <1>9. DestPublished' /\ RenamesInspected'
    BY <1>1, <1>3, DestKept DEF Submits, Steps, Moves
  <1>10. OneSender' /\ RejectedIsFinal'
    BY <1>1, <1>2, PutAssumption
    DEF Submits, SenderKnown, RejectedIsFinal, OneSender, SenderTypes, Active, SenderLeased,
        SenderAlone, UnsentOff
  <1>11. FailureIsClean' /\ RejectionIsOver'
    BY <1>1, <1>3, NoTerminal, ResultsKept
    DEF Submits, Failing, LinkIs, Steps, Moves, KnownOf, AttemptSound, PutSound, Workers,
        SessionOf, SenderTypes, Harmless, LockedPCs
  <1> QED
    BY <1>3, <1>4, <1>5, <1>6, <1>7, <1>8, <1>9, <1>10, <1>11, AreWorkers, AllKept

\* A put is offered again, by the attempt that takes the lease of its send
\* row: the invariant is kept.
LEMMA RetriesKeeps ==
    ASSUME PutInv, NEW a \in Attempts, Retries(a)
    PROVE  Sound'
  <1>1. KnownOf(a)
    BY AttemptKnown
  <1>2. SenderKnown
    BY SenderIsKnown
  <1>3. Spares(a) /\ SparesSessions(a)
    BY <1>1 DEF Retries, Spares, LinkIs, Steps, Moves, SparesSessions
  <1>4. \A x \in Attempts : x # a => SessionOf(x)' /\ CommitKnownBy(x)'
    BY <1>3, SessionsSpared
  <1>5. WorkerSound(a)'
    BY <1>1, NotSettling DEF Retries, Steps, Moves, SettlePCs, KnownOf
  <1>6. AttemptSound(a)'
    BY <1>1, AtRest
    DEF Retries, LinkIs, Steps, Moves, KnownOf, AttemptSound, CommitKnownBy, SessionOf, Active,
        PutInv, Types, SenderTypes
  <1>7. (\A u \in Puts : PutSound(u)') /\ StagesOnRecord' /\ DestPublished' /\ RenamesInspected'
    BY <1>1, <1>3, PutsKept, DestKept DEF Retries, HistSame, HistIs, Steps, Moves
  <1>8. OneSender' /\ RejectedIsFinal'
    BY <1>1, <1>2, PutAssumption
    DEF Retries, SenderKnown, RejectedIsFinal, OneSender, SenderTypes, Active, SenderLeased,
        SenderAlone, UnsentOff
  <1>9. FailureIsClean' /\ RejectionIsOver'
    BY <1>1, <1>3, ResultsKept
    DEF Retries, Failing, LinkIs, Steps, Moves, KnownOf, AttemptSound, WorkerSound, PutSound,
        Workers, SessionOf, Terminals, Harmless, LockedPCs
  <1> QED
    BY <1>3, <1>4, <1>5, <1>6, <1>7, <1>8, <1>9, AreWorkers, AllKept

\* A session breaks: the invariant is kept.
LEMMA BreaksKeeps ==
    ASSUME PutInv, NEW a \in Attempts, Breaks(a)
    PROVE  Sound'
  <1>1. SenderKnown
    BY SenderIsKnown
  <1>2. Spares(None)
    BY <1>1 DEF Breaks, Spares
  <1>3. \A x \in Attempts : SessionOf(x)' /\ CommitKnownBy(x)'
    BY <1>1 DEF Breaks, SessionOf, CommitKnownBy, LinkIs, PutInv, Sound, AttemptSound
  <1>4. /\ (\A u \in Puts : PutSound(u)') /\ StagesOnRecord' /\ DestPublished'
        /\ RenamesInspected' /\ OneSender' /\ RejectedIsFinal'
    BY <1>1, <1>2, PutsKept, DestKept, PutAssumption, SenderKept DEF Breaks, HistSame, HistIs
  <1>5. FailureIsClean' /\ RejectionIsOver'
    BY <1>1, <1>2, AreWorkers, ResultsKept DEF Breaks, Failing, LinkIs
  <1> QED
    BY <1>2, <1>3, <1>4, <1>5, AreWorkers, AllKept

\* The sender has its row and says "start": the invariant is kept.
LEMMA StartsKeeps ==
    ASSUME PutInv, NEW a \in Attempts, Starts(a)
    PROVE  Sound'
  <1>1. SenderKnown
    BY SenderIsKnown
  <1>2. Spares(None)
    BY <1>1 DEF Starts, Spares
  <1>3. \A x \in Attempts : SessionOf(x)' /\ CommitKnownBy(x)'
    BY <1>1, NoTerminal
    DEF Starts, SessionOf, CommitKnownBy, LinkIs, Active, PutInv, Sound, AttemptSound
  <1>4. \A u \in Puts : PutSound(u)'
    BY <1>1, <1>2, PutsSpared DEF Starts, PutKept, PutSound, RowSound, SenderKnown
  <1>5. StagesOnRecord'
    BY <1>1 DEF Starts, StagesOnRecord, PutInv, Sound
  <1>6. DestPublished' /\ RenamesInspected'
    BY <1>2, <1>1, DestKept, PutAssumption DEF Starts, LinkIs
  <1>7. OneSender' /\ RejectedIsFinal'
    BY <1>1
    DEF Starts, SenderKnown, RejectedIsFinal, OneSender, SenderTypes, Active, SenderLeased,
        SenderAlone, UnsentOff
  <1>8. FailureIsClean' /\ RejectionIsOver'
    BY <1>1, <1>2, AreWorkers, NoTerminal, ResultsKept DEF Starts, Failing, LinkIs, Active
  <1> QED
    BY <1>2, <1>3, <1>4, <1>5, <1>6, <1>7, <1>8, AreWorkers, AllKept

\* The sender has sent the payload: the invariant is kept.
LEMMA SendsKeeps ==
    ASSUME PutInv, NEW a \in Attempts, Sends(a)
    PROVE  Sound'
  <1>1. SenderKnown
    BY SenderIsKnown
  <1>2. Spares(None)
    BY <1>1 DEF Sends, Spares
  <1>3. \A x \in Attempts : SessionOf(x)' /\ CommitKnownBy(x)'
    BY <1>1, NoTerminal
    DEF Sends, SessionOf, CommitKnownBy, LinkIs, Active, PutInv, Sound, AttemptSound
  <1>4. (\A u \in Puts : PutSound(u)') /\ StagesOnRecord' /\ DestPublished' /\ RenamesInspected'
    BY <1>1, <1>2, PutsKept, DestKept, PutAssumption DEF Sends, HistSame, HistIs
  <1>5. OneSender' /\ RejectedIsFinal'
    BY <1>1
    DEF Sends, SenderKnown, RejectedIsFinal, OneSender, Active, SenderLeased, SenderAlone,
        UnsentOff
  <1>6. FailureIsClean' /\ RejectionIsOver'
    BY <1>1, <1>2, AreWorkers, NoTerminal, ResultsKept DEF Sends, Failing, LinkIs, Active
  <1> QED
    BY <1>2, <1>3, <1>4, <1>5, <1>6, AreWorkers, AllKept

\* Send returns without a result: the invariant is kept.
LEMMA StopsSendingKeeps ==
    ASSUME PutInv, NEW a \in Attempts, StopsSending(a)
    PROVE  Sound'
  <1>1. SenderKnown
    BY SenderIsKnown
  <1>2. Spares(None)
    BY <1>1 DEF StopsSending, Spares
  <1>3. \A x \in Attempts : SessionOf(x)' /\ CommitKnownBy(x)'
    BY <1>1, NoTerminal
    DEF StopsSending, SessionOf, CommitKnownBy, LinkIs, PutInv, Sound, AttemptSound
  <1>4. (\A u \in Puts : PutSound(u)') /\ StagesOnRecord' /\ DestPublished' /\ RenamesInspected'
    BY <1>1, <1>2, PutsKept, DestKept, AreWorkers DEF StopsSending, HistSame, HistIs
  <1>5. OneSender' /\ RejectedIsFinal'
    <2>1. OneSender'
      BY <1>1, PutAssumption, SendEnds
      DEF SenderKnown, StopsSending, RejectedIsFinal, HistTypes, Histories, HistIs, SenderTypes,
          Active, OneSender, SenderAlone, UnsentOff
    <2>2. RejectedIsFinal'
      BY <1>1, PutAssumption, SendEnds DEF SenderKnown, StopsSending, RejectedIsFinal
    <2> QED
      BY <2>1, <2>2
  <1>6. FailureIsClean' /\ RejectionIsOver'
    BY <1>1, <1>2, AreWorkers, NoTerminal, ResultsKept DEF StopsSending, Failing, LinkIs
  <1> QED
    BY <1>2, <1>3, <1>4, <1>5, <1>6, AreWorkers, AllKept

\* The sender is told that the put is committed: the invariant is kept.
LEMMA ToldCommittedKeeps ==
    ASSUME PutInv, NEW a \in Attempts, ToldCommitted(a)
    PROVE  Sound'
  <1>1. SenderKnown
    BY SenderIsKnown
  <1>2. CommitKnownBy(a)
    BY DEF PutInv, Sound, AttemptSound
  <1>3. Spares(None)
    BY <1>1, <1>2 DEF ToldCommitted, Spares, HistIs
  <1>4. \A x \in Attempts : SessionOf(x)' /\ CommitKnownBy(x)'
    BY <1>1
    DEF ToldCommitted, SessionOf, CommitKnownBy, HistIs, LinkIs, Terminals, PutInv, Sound,
        AttemptSound
  <1>5. \A u \in Puts : PutSound(u)'
    BY <1>1, <1>2, <1>3
    DEF ToldCommitted, HistIs, PutSound, RowSound, SenderKnown, PastRecordedOf, CommitRecordedOf,
        CleanedSoundOf, PublishedOnceOf, CommitKnownBy
  <1>6. StagesOnRecord'
    BY <1>1, PutAssumption, AreWorkers, NoTerminal
    DEF ToldCommitted, StagesOnRecord, Active, HistIs, LinkIs, ReleaseSend, PutInv, Sound,
        KnownOf, HistTypes, Histories, NoRow, Workers, SettlePCs, Working, WorkPCs,
        CleanedSoundOf, DiskTypes, RowTypes, Rows
  <1>7. DestPublished' /\ RenamesInspected'
    BY <1>3, <1>1, DestKept, AreWorkers DEF ToldCommitted, HistIs
  <1>8. OneSender' /\ RejectedIsFinal'
    <2>1. OneSender'
      BY <1>1, PutAssumption, SendEnds
      DEF SenderKnown, ToldCommitted, RejectedIsFinal, HistTypes, Histories, HistIs, SenderTypes,
          Active, OneSender, SenderAlone, UnsentOff
    <2>2. RejectedIsFinal'
      BY <1>1 DEF SenderKnown, ToldCommitted, RejectedIsFinal, HistIs
    <2> QED
      BY <2>1, <2>2
  <1>9. FailureIsClean' /\ RejectionIsOver'
    BY <1>1, <1>3, AreWorkers, NoTerminal, ResultsKept DEF ToldCommitted, Failing, HistIs, LinkIs
  <1> QED
    BY <1>3, <1>4, <1>5, <1>6, <1>7, <1>8, <1>9, AreWorkers, AllKept

\* The sender is told that the put has failed for good: the invariant is kept.
LEMMA ToldFailedKeeps ==
    ASSUME PutInv, NEW a \in Attempts, ToldFailed(a)
    PROVE  Sound'
  <1>1. SenderKnown
    BY SenderIsKnown
  <1>2. Spares(None)
    BY <1>1 DEF ToldFailed, Spares, HistIs
  <1>3. \A x \in Attempts : SessionOf(x)' /\ CommitKnownBy(x)'
    BY <1>1, NoTerminal
    DEF ToldFailed, SessionOf, CommitKnownBy, HistIs, LinkIs, Terminals, PutInv, Sound,
        AttemptSound
  <1>4. \A u \in Puts : PutSound(u)'
    BY <1>1, <1>2, PutsSpared DEF ToldFailed, HistIs, PutKept, PutSound, RowSound, SenderKnown
  <1>5. StagesOnRecord'
    BY <1>1, PutAssumption, AreWorkers, NoTerminal
    DEF ToldFailed, StagesOnRecord, Active, HistIs, LinkIs, ReleaseSend, PutInv, Sound, Types,
        KnownOf, PutSound, HistTypes, Histories, NoRow, Workers, RowSound, SettlePCs,
        WorkingCopyOf, Working, WorkPCs, CleanedSoundOf, OperatorQuits, DiskTypes, RowTypes, Rows,
        Identities, SenderKnown
  <1>6. DestPublished' /\ RenamesInspected'
    BY <1>2, <1>1, DestKept, AreWorkers DEF ToldFailed, HistIs
  <1>7. OneSender' /\ RejectedIsFinal'
    <2>1. OneSender'
      BY <1>1, PutAssumption, SendEnds
      DEF SenderKnown, ToldFailed, RejectedIsFinal, HistTypes, Histories, HistIs, SenderTypes,
          Active, OneSender, SenderAlone, UnsentOff
    <2>2. RejectedIsFinal'
      BY <1>1, PutAssumption
      DEF SenderKnown, ToldFailed, RejectedIsFinal, HistIs, SenderTypes, Active, OneSender,
          SenderAlone
    <2> QED
      BY <2>1, <2>2
  <1>8. FailureIsClean' /\ RejectionIsOver'
    BY <1>2, ToldFailedRejects
  <1> QED
    BY <1>2, <1>3, <1>4, <1>5, <1>6, <1>7, <1>8, AreWorkers, AllKept

\* The sender is told to try again: the invariant is kept.
LEMMA ToldToRetryKeeps ==
    ASSUME PutInv, NEW a \in Attempts, ToldToRetry(a)
    PROVE  Sound'
  <1>1. SenderKnown
    BY SenderIsKnown
  <1>2. Spares(None)
    BY <1>1 DEF ToldToRetry, Spares, HistIs
  <1>3. \A x \in Attempts : SessionOf(x)' /\ CommitKnownBy(x)'
    BY <1>1, NoTerminal
    DEF ToldToRetry, SessionOf, CommitKnownBy, HistIs, LinkIs, Terminals, PutInv, Sound,
        AttemptSound
  <1>4. \A u \in Puts : PutSound(u)'
    BY <1>1, <1>2, PutsSpared DEF ToldToRetry, HistIs, PutKept, PutSound, RowSound, SenderKnown
  <1>5. StagesOnRecord'
    BY <1>1 DEF ToldToRetry, StagesOnRecord, HistIs, PutInv, Sound
  <1>6. DestPublished' /\ RenamesInspected'
    BY <1>2, <1>1, DestKept, AreWorkers DEF ToldToRetry, HistIs
  <1>7. OneSender' /\ RejectedIsFinal'
    <2>1. OneSender'
      BY <1>1, PutAssumption, SendEnds
      DEF SenderKnown, ToldToRetry, RejectedIsFinal, HistTypes, Histories, HistIs, SenderTypes,
          Active, OneSender, SenderAlone, UnsentOff
    <2>2. RejectedIsFinal'
      BY <1>1 DEF SenderKnown, ToldToRetry, RejectedIsFinal, HistIs
    <2> QED
      BY <2>1, <2>2
  <1>8. FailureIsClean' /\ RejectionIsOver'
    BY <1>1, <1>2, AreWorkers, NoTerminal, ResultsKept DEF ToldToRetry, Failing, HistIs, LinkIs
  <1> QED
    BY <1>2, <1>3, <1>4, <1>5, <1>6, <1>7, <1>8, AreWorkers, AllKept

\* A send row is abandoned or expires: the invariant is kept.
LEMMA ForgetsSendKeeps ==
    ASSUME PutInv, NEW t \in Puts, ForgetsSend(t)
    PROVE  Sound'
  <1>1. SenderKnown
    BY SenderIsKnown
  <1>2. Spares(None) /\ SparesSessions(None)
    BY <1>1 DEF ForgetsSend, Spares, SparesSessions
  <1>3. \A x \in Attempts : SessionOf(x)' /\ CommitKnownBy(x)'
    BY <1>2, SessionsSpared, AreWorkers
  <1>4. \A u \in Puts : PutSound(u)'
    BY <1>1, <1>2, PutsSpared DEF ForgetsSend, PutKept, PutSound, RowSound, SenderKnown
  <1>5. StagesOnRecord'
    BY <1>1 DEF ForgetsSend, StagesOnRecord, PutInv, Sound
  <1>6. DestPublished' /\ RenamesInspected'
    BY <1>2, <1>1, DestKept, PutAssumption, AreWorkers DEF ForgetsSend, HistSame
  <1>7. OneSender' /\ RejectedIsFinal'
    BY <1>1
    DEF ForgetsSend, SenderKnown, RejectedIsFinal, OneSender, SenderLeased, SenderAlone, UnsentOff
  <1>8. FailureIsClean' /\ RejectionIsOver'
    BY <1>1, <1>2, ResultsKept, AreWorkers DEF ForgetsSend, Failing
  <1> QED
    BY <1>2, <1>3, <1>4, <1>5, <1>6, <1>7, <1>8, AreWorkers, AllKept

\* The sending agent stops: the invariant is kept.
LEMMA SenderCrashesKeeps ==
    ASSUME PutInv, SenderCrashes
    PROVE  Sound'
  <1>1. SenderKnown
    BY SenderIsKnown
  <1>2. Spares(None)
    BY <1>1 DEF SenderCrashes, Spares
  <1>3. \A x \in Attempts : SessionOf(x)' /\ CommitKnownBy(x)'
    BY <1>1, NoTerminal DEF SenderCrashes, SessionOf, CommitKnownBy, PutInv, Sound, AttemptSound
  <1>4. (\A u \in Puts : PutSound(u)') /\ StagesOnRecord' /\ DestPublished' /\ RenamesInspected'
    BY <1>1, <1>2, PutsKept, DestKept, AreWorkers DEF SenderCrashes, HistSame, HistIs
  <1>5. OneSender' /\ RejectedIsFinal'
    BY <1>1
    DEF SenderCrashes, SenderKnown, RejectedIsFinal, OneSender, Active, SenderLeased, SenderAlone,
        UnsentOff
  <1>6. FailureIsClean' /\ RejectionIsOver'
    BY <1>1, <1>2, AreWorkers, ResultsKept DEF SenderCrashes, Failing, Active
  <1> QED
    BY <1>2, <1>3, <1>4, <1>5, <1>6, AreWorkers, AllKept

\* A receive takes the offer: the invariant is kept.
LEMMA TakesOfferKeeps ==
    ASSUME PutInv, NEW a \in Attempts, TakesOffer(a)
    PROVE  Sound'
  <1>1. KnownOf(a)
    BY AttemptKnown
  <1>2. Spares(a) /\ SparesSessions(a)
    BY <1>1 DEF TakesOffer, Spares, LinksSame, Steps, Moves, SparesSessions
  <1>3. \A x \in Attempts : x # a => SessionOf(x)' /\ CommitKnownBy(x)'
    BY <1>2, SessionsSpared
  <1>4. WorkerSound(a)'
    BY <1>1, NotSettling DEF TakesOffer, Steps, Moves, SettlePCs, KnownOf
  <1>5. AttemptSound(a)'
    BY <1>1, AtRest
    DEF TakesOffer, LinksSame, Steps, Moves, KnownOf, AttemptSound, CommitKnownBy, SessionOf
  <1>6. /\ (\A u \in Puts : PutSound(u)') /\ StagesOnRecord' /\ DestPublished'
        /\ RenamesInspected' /\ OneSender' /\ RejectedIsFinal'
    BY <1>1, <1>2, PutsKept, DestKept, SenderKept DEF TakesOffer, HistSame, HistIs, Steps, Moves
  <1>7. FailureIsClean' /\ RejectionIsOver'
    BY <1>1, <1>2, AreWorkers, ResultsKept
    DEF TakesOffer, Failing, LinksSame, Steps, Moves, Harmless, LockedPCs
  <1> QED
    BY <1>2, <1>3, <1>4, <1>5, <1>6, <1>7, AreWorkers, AllKept

\* A receive refuses the offer, because the directory is away: the invariant
\* is kept.
LEMMA RefusesOfferKeeps ==
    ASSUME PutInv, NEW a \in Attempts, RefusesOffer(a)
    PROVE  Sound'
  <1>1. KnownOf(a)
    BY AttemptKnown
  <1>2. Spares(a) /\ SparesSessions(a)
    BY <1>1 DEF RefusesOffer, Spares, HistIs, LinksSame, Replies, Moves, SparesSessions
  <1>3. \A x \in Attempts : x # a => SessionOf(x)' /\ CommitKnownBy(x)'
    BY <1>2, SessionsSpared
  <1>4. WorkerSound(a)'
    BY <1>1, NotSettling DEF RefusesOffer, Replies, Moves, SettlePCs, KnownOf
  <1>5. AttemptSound(a)'
    BY <1>1, AtRest
    DEF RefusesOffer, LinksSame, Replies, Moves, KnownOf, AttemptSound, CommitKnownBy, SessionOf,
        Terminals
  <1>6. \A u \in Puts : PutSound(u)'
    BY <1>1, <1>2, PutsSpared DEF RefusesOffer, HistIs, PutKept, KnownOf, PutSound, RowSound
  <1>7. StagesOnRecord'
    BY <1>1, PutAssumption, AreWorkers, NoTerminal
    DEF RefusesOffer, StagesOnRecord, HistIs, LinksSame, Replies, Moves, NoRow, PutInv, Sound,
        Types, PutSound, HistTypes, Histories, Workers, RowSound, SettlePCs, Working, WorkPCs,
        CleanedSoundOf, OperatorQuits, DiskTypes, RowTypes, Rows, Identities
  <1>8. DestPublished' /\ RenamesInspected' /\ OneSender' /\ RejectedIsFinal'
    BY <1>1, <1>2, DestKept, SenderKept DEF RefusesOffer, HistIs, Replies, Moves
  <1>9. FailureIsClean' /\ RejectionIsOver'
    BY <1>2, RefusesOfferFails
  <1> QED
    BY <1>2, <1>3, <1>4, <1>5, <1>6, <1>7, <1>8, <1>9, AreWorkers, AllKept

\* A receive gets the lock of the directory and loads its record: the
\* invariant is kept.
LEMMA TakesLockKeeps ==
    ASSUME PutInv, NEW a \in Attempts, TakesLock(a)
    PROVE  Sound'
  <1>1. KnownOf(a)
    BY AttemptKnown
  <1>2. Spares(a) /\ SparesSessions(a)
    BY <1>1 DEF TakesLock, Spares, Moves, SparesSessions
  <1>3. \A x \in Attempts : x # a => SessionOf(x)' /\ CommitKnownBy(x)'
    BY <1>2, SessionsSpared
  <1>4. WorkerSound(a)'
    BY <1>1, NotSettling DEF TakesLock, Moves, SettlePCs, KnownOf
  <1>5. AttemptSound(a)'
    BY <1>1, PutAssumption
    DEF TakesLock, LockHeldBy, LoadedCopyOf, Moves, KnownOf, WorkingCopyOf, Working, WorkPCs,
        SettlePCs, NotYetPublishedBy, CommitKnownBy, PutSound, AttemptSound, CommitRecordedOf,
        SessionOf
  <1>6. /\ (\A u \in Puts : PutSound(u)') /\ StagesOnRecord' /\ DestPublished'
        /\ RenamesInspected' /\ OneSender' /\ RejectedIsFinal'
    BY <1>1, <1>2, PutsKept, DestKept, SenderKept DEF TakesLock, Moves, HistSame, HistIs
  <1>7. FailureIsClean' /\ RejectionIsOver'
    BY <1>1, <1>2, AreWorkers, ResultsKept DEF TakesLock, Failing, Moves, Harmless
  <1> QED
    BY <1>2, <1>3, <1>4, <1>5, <1>6, <1>7, AreWorkers, AllKept

\* A receive finds that its record is not its own to settle, and says so: the
\* invariant is kept.
LEMMA DefersKeeps ==
    ASSUME PutInv, NEW a \in Attempts, Defers(a)
    PROVE  Sound'
  <1>1. KnownOf(a)
    BY AttemptKnown
  <1>2. Spares(a) /\ SparesSessions(a)
    BY <1>1 DEF Defers, Spares, LinksSame, HistSame, Replies, HistIs, Moves, SparesSessions
  <1>3. \A x \in Attempts : x # a => SessionOf(x)' /\ CommitKnownBy(x)'
    BY <1>2, SessionsSpared
  <1>4. WorkerSound(a)'
    BY <1>1, NotSettling DEF Defers, Replies, Moves, SettlePCs, KnownOf
  <1>5. AttemptSound(a)'
    BY <1>1, AtRest
    DEF Defers, LinksSame, Replies, Moves, KnownOf, AttemptSound, CommitKnownBy, SessionOf,
        Terminals
  <1>6. /\ (\A u \in Puts : PutSound(u)') /\ StagesOnRecord' /\ DestPublished'
        /\ RenamesInspected' /\ OneSender' /\ RejectedIsFinal'
    BY <1>1, <1>2, PutsKept, DestKept, SenderKept DEF Defers, HistSame, Replies, HistIs, Moves
  <1>7. FailureIsClean' /\ RejectionIsOver'
    BY <1>1, <1>2, AreWorkers, ResultsKept
    DEF Defers, Failing, LinksSame, HistSame, Replies, HistIs, Moves, Harmless, LockedPCs
  <1> QED
    BY <1>2, <1>3, <1>4, <1>5, <1>6, <1>7, AreWorkers, AllKept

\* A receive finds its record committed: the invariant is kept.
LEMMA ConfirmsKeeps ==
    ASSUME PutInv, NEW a \in Attempts, Confirms(a)
    PROVE  Sound'
  <1>1. KnownOf(a)
    BY AttemptKnown
  <1>2. Spares(a) /\ SparesSessions(a)
    BY <1>1 DEF Confirms, Spares, Replies, Moves, SparesSessions
  <1>3. \A x \in Attempts : x # a => SessionOf(x)' /\ CommitKnownBy(x)'
    BY <1>2, SessionsSpared
  <1>4. WorkerSound(a)'
    BY <1>1, NotSettling DEF Confirms, Replies, Moves, SettlePCs, KnownOf
  <1>5. AttemptSound(a)'
    BY <1>1, AtRest DEF Confirms, Replies, Moves, KnownOf, AttemptSound, CommitKnownBy, SessionOf
  <1>6. /\ (\A u \in Puts : PutSound(u)') /\ StagesOnRecord' /\ DestPublished'
        /\ RenamesInspected' /\ OneSender' /\ RejectedIsFinal'
    BY <1>1, <1>2, PutsKept, DestKept, SenderKept DEF Confirms, Replies, HistSame, HistIs, Moves
  <1>7. FailureIsClean' /\ RejectionIsOver'
    BY <1>1, <1>2, AreWorkers, ResultsKept
    DEF Confirms, Failing, Replies, Moves, Harmless, LockedPCs
  <1> QED
    BY <1>2, <1>3, <1>4, <1>5, <1>6, <1>7, AreWorkers, AllKept

\* A receive takes up the cleanup of its committed record: the invariant is
\* kept.
LEMMA ResumesCommittedKeeps ==
    ASSUME PutInv, NEW a \in Attempts, ResumesCommitted(a)
    PROVE  Sound'
  <1>1. KnownOf(a)
    BY AttemptKnown
  <1>2. Spares(a) /\ SparesSessions(a)
    BY <1>1, AreWorkers
    DEF ResumesCommitted, Spares, Claimable, Claims, Settles, LockedPCs, RowIs, Moves,
        AttemptSound, SettledCopyOf, SettlePCs, WorkingCopyOf, Working, WorkPCs, HistTypes,
        Histories, NoRow, Workers, SparesSessions
  <1>3. \A x \in Attempts : x # a => SessionOf(x)' /\ CommitKnownBy(x)'
    BY <1>2, SessionsSpared
  <1>4. WorkerSound(a)'
    <2>1. SettledCopyOf(a)'
      BY <1>1, PutAssumption, AreWorkers
      DEF ResumesCommitted, SettledCopyOf, Claimable, Claims, Settles, SettlePCs, RowIs, Moves,
          KnownOf, AttemptSound, LoadedCopyOf
    <2>2. PlanOf(a)'
      BY <1>1, PutAssumption, AreWorkers
      DEF ResumesCommitted, PlanOf, Claimable, Claims, Settles, RowIs, Moves, KnownOf,
          WorkerSound, PutSound, AttemptSound, SettledCopyOf, SettlePCs, WorkingCopyOf, Working,
          WorkPCs, LoadedCopyOf, RowSound, PastRecordedOf, DestPublished, NotYetPublishedBy,
          CommitKnownBy, OperatorQuits, PutInv, Sound, Types, HistTypes, Histories, NoRow, Workers
    <2> QED
      BY <2>1, <2>2 DEF WorkerSound
  <1>5. AttemptSound(a)'
    BY <1>1, PutAssumption, AreWorkers, NoTerminal
    DEF ResumesCommitted, AttemptSound, Claimable, Claims, Settles, LockHeldBy, LoadedCopyOf,
        WorkingCopyOf, NotYetPublishedBy, CommitKnownBy, SessionOf, RowIs, Moves, LockedPCs,
        Working, Active, Terminals, WorkPCs, SettlePCs, PutInv, Sound, Types, KnownOf,
        WorkerSound, PutSound, HistTypes, Histories, NoRow, Workers, RowSound, SettledCopyOf,
        PlanOf, PastRecordedOf, CommitRecordedOf, SenderTypes, OperatorQuits
  <1>6. \A u \in Puts : PutSound(u)'
    BY <1>1, <1>2, PutAssumption, AreWorkers, PutsSpared
    DEF ResumesCommitted, Claimable, Claims, RowIs, Moves, PutKept, KnownOf, PutSound, RowSound
  <1>7. StagesOnRecord'
    BY <1>1, PutAssumption, AreWorkers, NoTerminal
    DEF ResumesCommitted, StagesOnRecord, Claimable, Claims, Settles, RowIs, Moves, PutInv, Sound,
        Types, KnownOf, AttemptSound, WorkerSound, PutSound, HistTypes, Histories, NoRow, Workers,
        RowSound, SettledCopyOf, SettlePCs, WorkingCopyOf, Working, WorkPCs, CleanedSoundOf,
        OperatorQuits, DiskTypes, RowTypes, Rows, Identities
  <1>8. DestPublished' /\ RenamesInspected' /\ OneSender' /\ RejectedIsFinal'
    BY <1>1, <1>2, DestKept, SenderKept DEF ResumesCommitted, Settles, Moves
  <1>9. FailureIsClean' /\ RejectionIsOver'
    BY <1>1, <1>2, AreWorkers, ResultsKept
    DEF ResumesCommitted, Failing, Claimable, Settles, Moves
  <1> QED
    BY <1>2, <1>3, <1>4, <1>5, <1>6, <1>7, <1>8, <1>9, AreWorkers, AllKept

\* A receive takes up its record of unknown outcome: the invariant is kept.
LEMMA ResumesUnknownKeeps ==
    ASSUME PutInv, NEW a \in Attempts, ResumesUnknown(a)
    PROVE  Sound'
  <1>1. KnownOf(a)
    BY AttemptKnown
  <1>2. Spares(a) /\ SparesSessions(a)
    BY <1>1, AreWorkers
    DEF ResumesUnknown, Spares, Claimable, Claims, Settles, LockedPCs, RowIs, Moves, WorkerSound,
        PutSound, AttemptSound, RowSound, SettledCopyOf, SettlePCs, WorkingCopyOf, Working,
        WorkPCs, HistTypes, Histories, NoRow, Workers, SparesSessions
  <1>3. \A x \in Attempts : x # a => SessionOf(x)' /\ CommitKnownBy(x)'
    BY <1>2, SessionsSpared
  <1>4. WorkerSound(a)'
    <2>1. SettledCopyOf(a)'
      BY <1>1, AreWorkers
      DEF ResumesUnknown, SettledCopyOf, Claimable, Claims, Settles, RowIs, Moves, KnownOf,
          PutSound, AttemptSound, LoadedCopyOf, RowSound
    <2>2. PlanOf(a)'
      BY <1>1, PutAssumption, AreWorkers
      DEF ResumesUnknown, PlanOf, Claimable, Claims, Settles, RowIs, Moves, KnownOf, WorkerSound,
          PutSound, AttemptSound, SettledCopyOf, SettlePCs, WorkingCopyOf, Working, WorkPCs,
          LoadedCopyOf, RowSound, PastRecordedOf, DestPublished, NotYetPublishedBy, CommitKnownBy,
          OperatorQuits, PutInv, Sound, Types, HistTypes, Histories, NoRow, Workers
    <2> QED
      BY <2>1, <2>2 DEF WorkerSound
  <1>5. AttemptSound(a)'
    BY <1>1, PutAssumption, AreWorkers, NoTerminal
    DEF ResumesUnknown, AttemptSound, Claimable, Claims, Settles, LockHeldBy, LoadedCopyOf,
        WorkingCopyOf, NotYetPublishedBy, CommitKnownBy, SessionOf, RowIs, Moves, LockedPCs,
        Working, Active, Terminals, WorkPCs, SettlePCs, PutInv, Sound, Types, KnownOf,
        WorkerSound, PutSound, HistTypes, Histories, NoRow, Workers, RowSound, SettledCopyOf,
        PlanOf, PastRecordedOf, CommitRecordedOf, SenderTypes, OperatorQuits
  <1>6. \A u \in Puts : PutSound(u)'
    BY <1>1, <1>2, PutAssumption, AreWorkers, PutsSpared
    DEF ResumesUnknown, Claimable, Claims, RowIs, Moves, PutKept, KnownOf, PutSound, RowSound,
        AttemptSound
  <1>7. StagesOnRecord'
    BY <1>1, StagesKept DEF ResumesUnknown, Claims, RowIs
  <1>8. DestPublished' /\ RenamesInspected' /\ OneSender' /\ RejectedIsFinal'
    BY <1>1, <1>2, DestKept, SenderKept DEF ResumesUnknown, Settles, Moves
  <1>9. FailureIsClean' /\ RejectionIsOver'
    BY <1>1, <1>2, AreWorkers, ResultsKept DEF ResumesUnknown, Failing, Claimable, Settles, Moves
  <1> QED
    BY <1>2, <1>3, <1>4, <1>5, <1>6, <1>7, <1>8, <1>9, AreWorkers, AllKept

\* A receive says "prepared": the invariant is kept.
LEMMA PreparesKeeps ==
    ASSUME PutInv, NEW a \in Attempts, Prepares(a)
    PROVE  Sound'
  <1>1. KnownOf(a)
    BY AttemptKnown
  <1>2. Spares(a) /\ SparesSessions(a)
    BY <1>1 DEF Prepares, Spares, LinkIs, Steps, Moves, SparesSessions
  <1>3. \A x \in Attempts : x # a => SessionOf(x)' /\ CommitKnownBy(x)'
    BY <1>2, SessionsSpared
  <1>4. WorkerSound(a)'
    BY <1>1, NotSettling DEF Prepares, Steps, Moves, SettlePCs, KnownOf
  <1>5. AttemptSound(a)'
    BY <1>1
    DEF Prepares, LockHeldBy, LockedPCs, Moves, KnownOf, AttemptSound, LoadedCopyOf, LinkIs,
        Steps, SettlePCs, WorkingCopyOf, Working, WorkPCs, NotYetPublishedBy, CommitKnownBy,
        SessionOf, Terminals
  <1>6. /\ (\A u \in Puts : PutSound(u)') /\ StagesOnRecord' /\ DestPublished'
        /\ RenamesInspected' /\ OneSender' /\ RejectedIsFinal'
    BY <1>1, <1>2, PutsKept, DestKept, SenderKept DEF Prepares, HistSame, HistIs, Steps, Moves
  <1>7. FailureIsClean' /\ RejectionIsOver'
    BY <1>2, <1>1, PreparesClean
  <1> QED
    BY <1>2, <1>3, <1>4, <1>5, <1>6, <1>7, AreWorkers, AllKept

\* A receive starts a put that is not on record: the invariant is kept.
LEMMA StartsNewKeeps ==
    ASSUME PutInv, NEW a \in Attempts, StartsNew(a)
    PROVE  Sound'
  <1>1. KnownOf(a)
    BY AttemptKnown
  <1>2. Spares(a) /\ SparesSessions(a)
    BY <1>1 DEF StartsNew, Spares, LinksSame, HistSame, Steps, HistIs, Moves, SparesSessions
  <1>3. \A x \in Attempts : x # a => SessionOf(x)' /\ CommitKnownBy(x)'
    BY <1>2, SessionsSpared
  <1>4. WorkerSound(a)'
    BY <1>1, NotSettling DEF StartsNew, Steps, Moves, SettlePCs, KnownOf
  <1>5. AttemptSound(a)'
    <2>1. LockHeldBy(a)' /\ LoadedCopyOf(a)' /\ NotYetPublishedBy(a)' /\ CommitKnownBy(a)'
            /\ SessionOf(a)' /\ PutOf[a] \notin wk'[a].todo
      BY <1>1, PutAssumption, AreWorkers, NoTerminal
      DEF StartsNew, LockHeldBy, Steps, LockedPCs, HistIs, Moves, KnownOf, WorkerSound, PutSound,
          AttemptSound, HistTypes, Histories, NoRow, Workers, LoadedCopyOf, SettledCopyOf,
          NotYetPublishedBy, LinksSame, HistSame, WorkingCopyOf, Working, CommitKnownBy, PlanOf,
          SettlePCs, SessionOf, SenderTypes, PutInv, Sound, Types
    <2>2. WorkingCopyOf(a)'
      BY <1>1, PutAssumption, AreWorkers
      DEF StartsNew, WorkingCopyOf, Steps, Working, HistIs, Moves, WorkPCs, SettlePCs, KnownOf,
          AttemptSound, LoadedCopyOf, PlanOf, HistTypes, Histories, NoRow, Workers
    <2> QED
      BY <2>1, <2>2 DEF AttemptSound
  <1>6. /\ (\A u \in Puts : PutSound(u)') /\ StagesOnRecord' /\ DestPublished'
        /\ RenamesInspected' /\ OneSender' /\ RejectedIsFinal'
    BY <1>1, <1>2, PutsKept, DestKept, SenderKept DEF StartsNew, HistSame, Steps, HistIs, Moves
  <1>7. FailureIsClean' /\ RejectionIsOver'
    BY <1>1, <1>2, AreWorkers, ResultsKept
    DEF StartsNew, Failing, LinksSame, HistSame, Steps, HistIs, Moves, Harmless, LockedPCs
  <1> QED
    BY <1>2, <1>3, <1>4, <1>5, <1>6, <1>7, AreWorkers, AllKept

\* A receive claims its record and goes on with the transfer: the invariant is
\* kept.
LEMMA ResumesTransferKeeps ==
    ASSUME PutInv, NEW a \in Attempts, ResumesTransfer(a)
    PROVE  Sound'
  <1>1. KnownOf(a)
    BY AttemptKnown
  <1>2. Spares(a) /\ SparesSessions(a)
    BY <1>1, PutAssumption, AreWorkers
    DEF ResumesTransfer, Spares, Claimable, Claims, Steps, LinksSame, HistSame, RowIs, Moves,
        HistIs, AttemptSound, SparesSessions, Types
  <1>3. \A x \in Attempts : x # a => SessionOf(x)' /\ CommitKnownBy(x)'
    BY <1>2, SessionsSpared
  <1>4. WorkerSound(a)'
    BY <1>1, NotSettling DEF ResumesTransfer, Steps, Moves, SettlePCs, KnownOf
  <1>5. AttemptSound(a)'
    <2>1. LockHeldBy(a)' /\ LoadedCopyOf(a)' /\ NotYetPublishedBy(a)'
            /\ PutOf[a] \notin wk'[a].todo
      BY <1>1, PutAssumption, AreWorkers
      DEF ResumesTransfer, LockHeldBy, LinksSame, LockedPCs, RowIs, Moves, HistIs, KnownOf,
          WorkerSound, AttemptSound, HistTypes, Histories, NoRow, Workers, LoadedCopyOf,
          Claimable, Steps, SettlePCs, NotYetPublishedBy
    <2>2. WorkingCopyOf(a)'
      BY <1>1, AreWorkers
      DEF ResumesTransfer, WorkingCopyOf, Claimable, Claims, Steps, LinksSame, HistSame, Working,
          RowIs, Moves, HistIs, WorkPCs, SettlePCs, KnownOf, WorkerSound, PutSound, AttemptSound,
          LoadedCopyOf, PlanOf, RowSound, HistTypes, Histories, NoRow, Workers
    <2>3. CommitKnownBy(a)' /\ SessionOf(a)'
      BY <1>1, PutAssumption, AreWorkers, NoTerminal
      DEF ResumesTransfer, CommitKnownBy, Claimable, Claims, Steps, LinksSame, HistSame, RowIs,
          Moves, HistIs, KnownOf, WorkerSound, PutSound, AttemptSound, PlanOf, SettledCopyOf,
          SettlePCs, CommitRecordedOf, Types, HistTypes, Histories, NoRow, Workers, SessionOf,
          SenderTypes
    <2> QED
      BY <2>1, <2>2, <2>3 DEF AttemptSound
  <1>6. \A u \in Puts : PutSound(u)'
    BY <1>1, <1>2, PutAssumption, AreWorkers, PutsSpared
    DEF ResumesTransfer, Claimable, Claims, Steps, LinksSame, HistSame, RowIs, HistIs, PutKept,
        KnownOf, PutSound, RowSound
  <1>7. StagesOnRecord'
    BY <1>1, StagesKept DEF ResumesTransfer, Claims, HistSame, RowIs, HistIs
  <1>8. DestPublished' /\ RenamesInspected' /\ OneSender' /\ RejectedIsFinal'
    BY <1>1, <1>2, DestKept, SenderKept DEF ResumesTransfer, Steps, HistSame, Moves, HistIs
  <1>9. FailureIsClean' /\ RejectionIsOver'
    BY <1>1, <1>2, AreWorkers, ResultsKept
    DEF ResumesTransfer, Failing, Claimable, Steps, LinksSame, HistSame, RowIs, Moves, HistIs
  <1> QED
    BY <1>2, <1>3, <1>4, <1>5, <1>6, <1>7, <1>8, <1>9, AreWorkers, AllKept

\* A receive claims its record to clean it up and begin again: the invariant
\* is kept.
LEMMA ResumesCleanupKeeps ==
    ASSUME PutInv, NEW a \in Attempts, ResumesCleanup(a)
    PROVE  Sound'
  <1>1. KnownOf(a)
    BY AttemptKnown
  <1>2. Spares(a) /\ SparesSessions(a)
    BY <1>1, AreWorkers
    DEF ResumesCleanup, Spares, Claimable, Claims, Settles, LinksSame, HistSame, LockedPCs, RowIs,
        Moves, HistIs, AttemptSound, SparesSessions, Sound, Types
  <1>3. \A x \in Attempts : x # a => SessionOf(x)' /\ CommitKnownBy(x)'
    BY <1>2, SessionsSpared
  <1>4. WorkerSound(a)'
    <2>1. SettledCopyOf(a)'
      BY <1>1, PutAssumption, AreWorkers
      DEF ResumesCleanup, SettledCopyOf, Claimable, Claims, Settles, LinksSame, HistSame,
          SettlePCs, RowIs, Moves, HistIs, KnownOf, WorkerSound, PutSound, AttemptSound,
          WorkingCopyOf, Working, LoadedCopyOf, RowSound
    <2>2. PlanOf(a)'
      BY <1>1, PutAssumption, AreWorkers
      DEF ResumesCleanup, PlanOf, Claimable, Claims, Settles, LinksSame, HistSame, RowIs, Moves,
          HistIs, KnownOf, WorkerSound, PutSound, AttemptSound, SettledCopyOf, SettlePCs,
          WorkingCopyOf, Working, WorkPCs, LoadedCopyOf, RowSound, PastRecordedOf, DestPublished,
          NotYetPublishedBy, CommitKnownBy, OperatorQuits, PutInv, Sound, Types, HistTypes,
          Histories, NoRow, Workers
    <2> QED
      BY <2>1, <2>2 DEF WorkerSound
  <1>5. AttemptSound(a)'
    <2>1. LockHeldBy(a)' /\ LoadedCopyOf(a)' /\ NotYetPublishedBy(a)' /\ CommitKnownBy(a)'
            /\ SessionOf(a)' /\ PutOf[a] \notin wk'[a].todo
      BY <1>1, PutAssumption, AreWorkers, NoTerminal
      DEF ResumesCleanup, LockHeldBy, LinksSame, HistSame, LockedPCs, RowIs, Moves, HistIs,
          KnownOf, WorkerSound, PutSound, AttemptSound, HistTypes, Histories, NoRow, Workers,
          LoadedCopyOf, Claimable, Claims, Settles, NotYetPublishedBy, WorkingCopyOf,
          CommitKnownBy, PlanOf, SettledCopyOf, SettlePCs, CommitRecordedOf, PutInv, Sound, Types,
          SessionOf, SenderTypes
    <2>2. WorkingCopyOf(a)'
      BY <1>1 DEF ResumesCleanup, WorkingCopyOf, Settles, Working, Moves, WorkPCs
    <2> QED
      BY <2>1, <2>2 DEF AttemptSound
  <1>6. \A u \in Puts : PutSound(u)'
    BY <1>1, <1>2, PutAssumption, AreWorkers, PutsSpared
    DEF ResumesCleanup, Claimable, Claims, HistSame, RowIs, HistIs, PutKept, KnownOf, PutSound,
        RowSound
  <1>7. StagesOnRecord'
    BY <1>1, PutAssumption, AreWorkers, NoTerminal
    DEF ResumesCleanup, StagesOnRecord, Claimable, Claims, Settles, LinksSame, HistSame, RowIs,
        Moves, HistIs, PutInv, Sound, Types, KnownOf, AttemptSound, WorkerSound, PutSound,
        HistTypes, Histories, NoRow, Workers, RowSound, SettledCopyOf, SettlePCs, WorkingCopyOf,
        Working, WorkPCs, CleanedSoundOf, OperatorQuits, DiskTypes, RowTypes, Rows, Identities
  <1>8. DestPublished' /\ RenamesInspected' /\ OneSender' /\ RejectedIsFinal'
    BY <1>1, <1>2, DestKept, SenderKept DEF ResumesCleanup, Settles, HistSame, Moves, HistIs
  <1>9. FailureIsClean' /\ RejectionIsOver'
    BY <1>1, <1>2, AreWorkers, ResultsKept
    DEF ResumesCleanup, Failing, Claimable, Settles, LinksSame, HistSame, RowIs, Moves, HistIs
  <1> QED
    BY <1>2, <1>3, <1>4, <1>5, <1>6, <1>7, <1>8, <1>9, AreWorkers, AllKept

\* A receive claims its record to find out whether it was published: the
\* invariant is kept.
LEMMA ResumesPublicationKeeps ==
    ASSUME PutInv, NEW a \in Attempts, ResumesPublication(a)
    PROVE  Sound'
  <1>1. KnownOf(a)
    BY AttemptKnown
  <1>2. Spares(a) /\ SparesSessions(a)
    BY <1>1, PutAssumption, AreWorkers
    DEF ResumesPublication, Spares, Claimable, Claims, Settles, LinksSame, HistSame, LockedPCs,
        RowIs, Moves, HistIs, KnownOf, WorkerSound, PutSound, AttemptSound, RowSound,
        SparesSessions, PutInv, Sound
  <1>3. \A x \in Attempts : x # a => SessionOf(x)' /\ CommitKnownBy(x)'
    BY <1>2, SessionsSpared
  <1>4. WorkerSound(a)'
    <2>1. SettledCopyOf(a)'
      BY <1>1, PutAssumption, AreWorkers
      DEF ResumesPublication, SettledCopyOf, Claimable, Claims, Settles, LinksSame, HistSame,
          SettlePCs, RowIs, Moves, HistIs, KnownOf, PutSound, AttemptSound, WorkingCopyOf,
          Working, WorkPCs, LoadedCopyOf, RowSound, OperatorQuits, Histories, NoRow, Workers
    <2>2. PlanOf(a)'
      BY <1>1, PutAssumption, AreWorkers
      DEF ResumesPublication, PlanOf, Claimable, Claims, Settles, LinksSame, HistSame, RowIs,
          Moves, HistIs, KnownOf, WorkerSound, PutSound, AttemptSound, SettledCopyOf, SettlePCs,
          WorkingCopyOf, Working, WorkPCs, LoadedCopyOf, RowSound, PastRecordedOf, DestPublished,
          NotYetPublishedBy, CommitKnownBy, OperatorQuits, PutInv, Sound, Types, HistTypes,
          Histories, NoRow, Workers
    <2> QED
      BY <2>1, <2>2 DEF WorkerSound
  <1>5. AttemptSound(a)'
    <2>1. LockHeldBy(a)' /\ LoadedCopyOf(a)' /\ NotYetPublishedBy(a)'
            /\ PutOf[a] \notin wk'[a].todo
      BY <1>1
      DEF ResumesPublication, LockHeldBy, LockedPCs, Moves, KnownOf, AttemptSound, LoadedCopyOf,
          Settles, NotYetPublishedBy
    <2>2. WorkingCopyOf(a)'
      BY <1>1 DEF ResumesPublication, WorkingCopyOf, Settles, Working, Moves, WorkPCs
    <2>3. CommitKnownBy(a)' /\ SessionOf(a)'
      BY <1>1, PutAssumption, AreWorkers, NoTerminal
      DEF ResumesPublication, CommitKnownBy, Claimable, Claims, Settles, LinksSame, HistSame,
          RowIs, Moves, HistIs, KnownOf, PutSound, AttemptSound, PlanOf, SettledCopyOf, SettlePCs,
          CommitRecordedOf, Types, HistTypes, Histories, NoRow, Workers, SessionOf, SenderTypes
    <2> QED
      BY <2>1, <2>2, <2>3 DEF AttemptSound
  <1>6. \A u \in Puts : PutSound(u)'
    BY <1>1, <1>2, PutAssumption, AreWorkers, PutsSpared
    DEF ResumesPublication, Claimable, Claims, Settles, LinksSame, HistSame, RowIs, Moves, HistIs,
        PutKept, KnownOf, PutSound, RowSound
  <1>7. StagesOnRecord'
    BY <1>1, PutAssumption, AreWorkers, NoTerminal
    DEF ResumesPublication, StagesOnRecord, Claimable, Claims, Settles, LinksSame, HistSame,
        RowIs, Moves, HistIs, PutInv, Sound, Types, KnownOf, AttemptSound, WorkerSound, PutSound,
        HistTypes, Histories, NoRow, Workers, RowSound, SettledCopyOf, SettlePCs, WorkingCopyOf,
        Working, WorkPCs, CleanedSoundOf, OperatorQuits, DiskTypes, RowTypes, Rows, Identities
  <1>8. DestPublished' /\ RenamesInspected' /\ OneSender' /\ RejectedIsFinal'
    BY <1>1, <1>2, DestKept, SenderKept DEF ResumesPublication, Settles, HistSame, Moves, HistIs
  <1>9. FailureIsClean' /\ RejectionIsOver'
    BY <1>1, <1>2, AreWorkers, ResultsKept
    DEF ResumesPublication, Failing, Claimable, Settles, LinksSame, HistSame, RowIs, Moves, HistIs
  <1> QED
    BY <1>2, <1>3, <1>4, <1>5, <1>6, <1>7, <1>8, <1>9, AreWorkers, AllKept

\* A receive goes on to open the stage of its record: the invariant is kept.
LEMMA ContinuesKeeps ==
    ASSUME PutInv, NEW a \in Attempts, Continues(a)
    PROVE  Sound'
  <1>1. KnownOf(a)
    BY AttemptKnown
  <1>2. Spares(a) /\ SparesSessions(a)
    BY <1>1 DEF Continues, Spares, Steps, Moves, SparesSessions
  <1>3. \A x \in Attempts : x # a => SessionOf(x)' /\ CommitKnownBy(x)'
    BY <1>2, SessionsSpared
  <1>4. WorkerSound(a)'
    BY <1>1, NotSettling DEF Continues, Steps, Moves, SettlePCs, KnownOf
  <1>5. AttemptSound(a)'
    BY <1>1, PutAssumption, AreWorkers
    DEF Continues, LockHeldBy, LockedPCs, Moves, KnownOf, WorkerSound, PutSound, AttemptSound,
        HistTypes, Histories, NoRow, Workers, LoadedCopyOf, Steps, WorkingCopyOf, Working,
        WorkPCs, SettlePCs, NotYetPublishedBy, CommitKnownBy, PlanOf, SettledCopyOf,
        CommitRecordedOf, PutInv, Sound, Types, SessionOf, Terminals
  <1>6. /\ (\A u \in Puts : PutSound(u)') /\ StagesOnRecord' /\ DestPublished'
        /\ RenamesInspected' /\ OneSender' /\ RejectedIsFinal'
    BY <1>1, <1>2, PutsKept, DestKept, SenderKept DEF Continues, HistSame, HistIs, Steps, Moves
  <1>7. FailureIsClean' /\ RejectionIsOver'
    BY <1>1, <1>2, AreWorkers, ResultsKept
    DEF Continues, Failing, Steps, Moves, Harmless, LockedPCs
  <1> QED
    BY <1>2, <1>3, <1>4, <1>5, <1>6, <1>7, AreWorkers, AllKept

\* A receive makes a new record: the invariant is kept.
LEMMA ReservesKeeps ==
    ASSUME PutInv, NEW a \in Attempts, Reserves(a)
    PROVE  Sound'
  <1>1. KnownOf(a)
    BY AttemptKnown
  <1>2. Spares(a) /\ SparesSessions(a)
    BY <1>1, PutAssumption, AreWorkers
    DEF Reserves, Spares, RowIs, Moves, LockedPCs, KnownOf, PutSound, AttemptSound, RowSound,
        SettledCopyOf, WorkingCopyOf, SparesSessions
  <1>3. \A x \in Attempts : x # a => SessionOf(x)' /\ CommitKnownBy(x)'
    BY <1>2, SessionsSpared
  <1>4. WorkerSound(a)'
    BY <1>1, NotSettling DEF Reserves, Moves, SettlePCs, KnownOf
  <1>5. AttemptSound(a)'
    BY <1>1, AreWorkers
    DEF Reserves, LockHeldBy, Moves, LockedPCs, KnownOf, AttemptSound, LoadedCopyOf, RowIs,
        WorkingCopyOf, NotYetPublishedBy, CommitKnownBy, SessionOf
  <1>6. \A u \in Puts : PutSound(u)'
    BY <1>1, <1>2, PutAssumption, AreWorkers
    DEF Reserves, RowIs, Moves, PutKept, KnownOf, PutSound, RowSound, WorkerSound, AttemptSound,
        SettledCopyOf, SettlePCs, PastRecordedOf, CommitRecordedOf, CleanedSoundOf,
        PublishedOnceOf, WorkingCopyOf, Working, WorkPCs
  <1>7. StagesOnRecord'
    BY <1>1, PutAssumption, AreWorkers, NoTerminal
    DEF Reserves, StagesOnRecord, RowIs, Moves, PutInv, Sound, Types, KnownOf, AttemptSound,
        WorkerSound, PutSound, HistTypes, Histories, NoRow, Workers, RowSound, SettledCopyOf,
        SettlePCs, WorkingCopyOf, Working, WorkPCs, CleanedSoundOf, OperatorQuits, DiskTypes,
        RowTypes, Rows, Identities
  <1>8. DestPublished' /\ RenamesInspected' /\ OneSender' /\ RejectedIsFinal'
    BY <1>1, <1>2, DestKept, SenderKept DEF Reserves, Moves
  <1>9. FailureIsClean' /\ RejectionIsOver'
    BY <1>1, <1>2, AreWorkers, ResultsKept DEF Reserves, Failing, Moves, Harmless, LockedPCs
  <1> QED
    BY <1>2, <1>3, <1>4, <1>5, <1>6, <1>7, <1>8, <1>9, AreWorkers, AllKept

\* A receive refuses a put that is not on record: the invariant is kept.
LEMMA RefusesKeeps ==
    ASSUME PutInv, NEW a \in Attempts, Refuses(a)
    PROVE  Sound'
  <1>1. KnownOf(a)
    BY AttemptKnown
  <1>2. Spares(a) /\ SparesSessions(a)
    BY <1>1 DEF Refuses, Spares, Replies, Moves, SparesSessions
  <1>3. \A x \in Attempts : x # a => SessionOf(x)' /\ CommitKnownBy(x)'
    BY <1>2, SessionsSpared
  <1>4. WorkerSound(a)'
    BY <1>1, NotSettling DEF Refuses, Replies, Moves, SettlePCs, KnownOf
  <1>5. AttemptSound(a)'
    BY <1>1, AtRest DEF Refuses, Replies, Moves, KnownOf, AttemptSound, CommitKnownBy, SessionOf
  <1>6. /\ (\A u \in Puts : PutSound(u)') /\ StagesOnRecord' /\ DestPublished'
        /\ RenamesInspected' /\ OneSender' /\ RejectedIsFinal'
    BY <1>1, <1>2, PutsKept, DestKept, SenderKept DEF Refuses, Replies, HistSame, HistIs, Moves
  <1>7. FailureIsClean' /\ RejectionIsOver'
    BY <1>2, <1>1, RefusesFails
  <1> QED
    BY <1>2, <1>3, <1>4, <1>5, <1>6, <1>7, AreWorkers, AllKept

\* A receive gives up, with its record to be cleaned up: the invariant is
\* kept.
LEMMA AbortsKeeps ==
    ASSUME PutInv, NEW a \in Attempts, Aborts(a)
    PROVE  Sound'
  <1>1. KnownOf(a)
    BY AttemptKnown
  <1>2. Spares(a) /\ SparesSessions(a)
    BY <1>1 DEF Aborts, Spares, Settles, LinksSame, Moves, SparesSessions
  <1>3. \A x \in Attempts : x # a => SessionOf(x)' /\ CommitKnownBy(x)'
    BY <1>2, SessionsSpared
  <1>4. WorkerSound(a)'
    BY <1>1, PutAssumption, AreWorkers
    DEF Aborts, SettledCopyOf, Settles, LinksSame, SettlePCs, Moves, KnownOf, WorkerSound,
        PutSound, AttemptSound, WorkingCopyOf, Working, WorkPCs, LoadedCopyOf, RowSound,
        OperatorQuits, HistTypes, Histories, NoRow, Workers, PlanOf, PastRecordedOf,
        DestPublished, NotYetPublishedBy, CommitKnownBy
  <1>5. AttemptSound(a)'
    <2>1. LockHeldBy(a)' /\ LoadedCopyOf(a)' /\ NotYetPublishedBy(a)' /\ CommitKnownBy(a)'
            /\ SessionOf(a)' /\ PutOf[a] \notin wk'[a].todo
      BY <1>1, PutAssumption, AreWorkers, NoTerminal
      DEF Aborts, LockHeldBy, LockedPCs, Moves, KnownOf, WorkerSound, PutSound, AttemptSound,
          HistTypes, Histories, NoRow, Workers, LoadedCopyOf, Settles, LinksSame, SettledCopyOf,
          SettlePCs, PlanOf, RowSound, NotYetPublishedBy, CommitKnownBy, CommitRecordedOf, PutInv,
          Sound, Types, SessionOf, Active, Terminals
    <2>2. WorkingCopyOf(a)'
      BY <1>1, PutAssumption, AreWorkers
      DEF Aborts, WorkingCopyOf, Settles, LinksSame, Working, Moves, WorkPCs, SettlePCs,
          WorkerSound, PutSound, AttemptSound, LoadedCopyOf, SettledCopyOf, PlanOf, RowSound,
          HistTypes, Histories, NoRow, Workers
    <2> QED
      BY <2>1, <2>2 DEF AttemptSound
  <1>6. /\ (\A u \in Puts : PutSound(u)') /\ StagesOnRecord' /\ DestPublished'
        /\ RenamesInspected' /\ OneSender' /\ RejectedIsFinal'
    BY <1>1, <1>2, PutsKept, DestKept, SenderKept DEF Aborts, Settles, HistSame, HistIs, Moves
  <1>7. FailureIsClean' /\ RejectionIsOver'
    BY <1>1, <1>2, AreWorkers, ResultsKept
    DEF Aborts, Failing, Settles, LinksSame, Moves, Harmless, LockedPCs
  <1> QED
    BY <1>2, <1>3, <1>4, <1>5, <1>6, <1>7, AreWorkers, AllKept

\* A receive creates its stage and gives up all the same: the invariant is
\* kept.
LEMMA FailsToOpenKeeps ==
    ASSUME PutInv, NEW a \in Attempts, FailsToOpen(a)
    PROVE  Sound'
  <1>1. KnownOf(a)
    BY AttemptKnown
  <1>2. Spares(a) /\ SparesSessions(a)
    BY <1>1
    DEF FailsToOpen, Spares, Settles, LockedPCs, Moves, KnownOf, PutSound, AttemptSound, RowSound,
        SettlePCs, WorkingCopyOf, Working, WorkPCs, HistTypes, Histories, NoRow, Workers,
        SparesSessions
  <1>3. \A x \in Attempts : x # a => SessionOf(x)' /\ CommitKnownBy(x)'
    BY <1>2, SessionsSpared
  <1>4. WorkerSound(a)'
    BY <1>1, AreWorkers
    DEF FailsToOpen, SettledCopyOf, Settles, Moves, KnownOf, WorkerSound, PutSound, AttemptSound,
        WorkingCopyOf, Working, WorkPCs, PlanOf, PastRecordedOf
  <1>5. AttemptSound(a)'
    BY <1>1, PutAssumption, AreWorkers, NoTerminal
    DEF FailsToOpen, AttemptSound, Settles, LockHeldBy, LoadedCopyOf, WorkingCopyOf,
        NotYetPublishedBy, CommitKnownBy, SessionOf, Moves, LockedPCs, Working, Active, Terminals,
        WorkPCs, SettlePCs, Types, KnownOf, WorkerSound, PutSound, HistTypes, Histories, NoRow,
        Workers, RowSound, SettledCopyOf, PlanOf, PastRecordedOf, CommitRecordedOf, SenderTypes,
        OperatorQuits
  <1>6. \A u \in Puts : PutSound(u)'
    BY <1>1, <1>2, PutAssumption, AreWorkers
    DEF FailsToOpen, Settles, Moves, PutKept, KnownOf, PutSound, RowSound, WorkerSound,
        AttemptSound, SettledCopyOf, SettlePCs, WorkingCopyOf, Working, WorkPCs, Claimable,
        HistTypes, Histories, PastRecordedOf, CommitRecordedOf, CleanedSoundOf, PublishedOnceOf
  <1>7. StagesOnRecord'
    BY <1>1, PutAssumption, AreWorkers, NoTerminal
    DEF FailsToOpen, StagesOnRecord, Settles, Moves, PutInv, Sound, Types, KnownOf, AttemptSound,
        WorkerSound, PutSound, HistTypes, Histories, NoRow, Workers, RowSound, SettledCopyOf,
        SettlePCs, WorkingCopyOf, Working, WorkPCs, CleanedSoundOf, OperatorQuits, DiskTypes,
        RowTypes, Rows, Identities
  <1>8. DestPublished' /\ RenamesInspected' /\ OneSender' /\ RejectedIsFinal'
    BY <1>1, <1>2, DestKept, SenderKept DEF FailsToOpen, Settles, Moves
  <1>9. FailureIsClean' /\ RejectionIsOver'
    BY <1>1, <1>2, AreWorkers, ResultsKept
    DEF FailsToOpen, Failing, Settles, Moves, Harmless, LockedPCs
  <1> QED
    BY <1>2, <1>3, <1>4, <1>5, <1>6, <1>7, <1>8, <1>9, AreWorkers, AllKept

\* A receive creates its stage: the invariant is kept.
LEMMA CreatesKeeps ==
    ASSUME PutInv, NEW a \in Attempts, Creates(a)
    PROVE  Sound'
  <1>1. KnownOf(a)
    BY AttemptKnown
  <1>2. Spares(a) /\ SparesSessions(a)
    BY <1>1, PutAssumption, AreWorkers
    DEF Creates, Spares, Steps, LockedPCs, Moves, KnownOf, WorkerSound, PutSound, AttemptSound,
        RowSound, SettlePCs, WorkingCopyOf, Working, WorkPCs, HistTypes, Histories, NoRow,
        Workers, SparesSessions
  <1>3. \A x \in Attempts : x # a => SessionOf(x)' /\ CommitKnownBy(x)'
    BY <1>2, SessionsSpared
  <1>4. WorkerSound(a)'
    BY <1>1, NotSettling DEF Creates, Steps, Moves, SettlePCs, KnownOf
  <1>5. AttemptSound(a)'
    BY <1>1, PutAssumption, AreWorkers
    DEF Creates, LockHeldBy, LockedPCs, Moves, KnownOf, WorkerSound, PutSound, AttemptSound,
        HistTypes, Histories, NoRow, Workers, LoadedCopyOf, Steps, WorkingCopyOf, Working,
        WorkPCs, SettlePCs, NotYetPublishedBy, CommitKnownBy, PlanOf, SettledCopyOf,
        CommitRecordedOf, Types, SessionOf, Terminals
  <1>6. \A u \in Puts : PutSound(u)'
    BY <1>1, <1>2, PutAssumption, AreWorkers
    DEF Creates, Steps, Moves, PutKept, KnownOf, PutSound, RowSound, WorkerSound, AttemptSound,
        SettledCopyOf, SettlePCs, WorkingCopyOf, Working, WorkPCs, Claimable, HistTypes,
        Histories, PastRecordedOf, CommitRecordedOf, CleanedSoundOf, PublishedOnceOf
  <1>7. StagesOnRecord'
    BY <1>1, PutAssumption, AreWorkers, NoTerminal
    DEF Creates, StagesOnRecord, Steps, Moves, PutInv, Sound, Types, KnownOf, AttemptSound,
        WorkerSound, PutSound, HistTypes, Histories, NoRow, Workers, RowSound, SettledCopyOf,
        SettlePCs, WorkingCopyOf, Working, WorkPCs, CleanedSoundOf, OperatorQuits, DiskTypes,
        RowTypes, Rows, Identities
  <1>8. DestPublished' /\ RenamesInspected' /\ OneSender' /\ RejectedIsFinal'
    BY <1>1, <1>2, DestKept, SenderKept DEF Creates, Steps, Moves
  <1>9. FailureIsClean' /\ RejectionIsOver'
    BY <1>1, <1>2, AreWorkers, ResultsKept DEF Creates, Failing, Steps, Moves, Harmless, LockedPCs
  <1> QED
    BY <1>2, <1>3, <1>4, <1>5, <1>6, <1>7, <1>8, <1>9, AreWorkers, AllKept

\* A receive opens the stage it had: the invariant is kept.
LEMMA OpensKeeps ==
    ASSUME PutInv, NEW a \in Attempts, Opens(a)
    PROVE  Sound'
  <1>1. KnownOf(a)
    BY AttemptKnown
  <1>2. Spares(a) /\ SparesSessions(a)
    BY <1>1 DEF Opens, Spares, Steps, Moves, SparesSessions
  <1>3. \A x \in Attempts : x # a => SessionOf(x)' /\ CommitKnownBy(x)'
    BY <1>2, SessionsSpared
  <1>4. WorkerSound(a)'
    BY <1>1, NotSettling DEF Opens, Steps, Moves, SettlePCs, KnownOf
  <1>5. AttemptSound(a)'
    BY <1>1, AreWorkers
    DEF Opens, LockHeldBy, LockedPCs, Moves, KnownOf, AttemptSound, Histories, NoRow, Workers,
        LoadedCopyOf, Steps, WorkingCopyOf, Working, WorkPCs, SettlePCs, NotYetPublishedBy,
        CommitKnownBy, PlanOf, SettledCopyOf, CommitRecordedOf, SessionOf, Terminals
  <1>6. /\ (\A u \in Puts : PutSound(u)') /\ StagesOnRecord' /\ DestPublished'
        /\ RenamesInspected' /\ OneSender' /\ RejectedIsFinal'
    BY <1>1, <1>2, PutsKept, DestKept, SenderKept DEF Opens, HistSame, HistIs, Steps, Moves
  <1>7. FailureIsClean' /\ RejectionIsOver'
    BY <1>1, <1>2, AreWorkers, ResultsKept DEF Opens, Failing, Steps, Moves, Harmless, LockedPCs
  <1> QED
    BY <1>2, <1>3, <1>4, <1>5, <1>6, <1>7, AreWorkers, AllKept

\* A receive notes that its stage exists: the invariant is kept.
LEMMA AttachesKeeps ==
    ASSUME PutInv, NEW a \in Attempts, Attaches(a)
    PROVE  Sound'
  <1>1. KnownOf(a)
    BY AttemptKnown
  <1>2. Spares(a) /\ SparesSessions(a)
    BY <1>1
    DEF Attaches, Spares, Marks, Moves, LockedPCs, RowIs, KnownOf, WorkerSound, AttemptSound,
        SettledCopyOf, SettlePCs, WorkingCopyOf, Working, WorkPCs, HistTypes, Histories, NoRow,
        Workers, SparesSessions
  <1>3. \A x \in Attempts : x # a => SessionOf(x)' /\ CommitKnownBy(x)'
    BY <1>2, SessionsSpared
  <1>4. WorkerSound(a)'
    BY <1>1, NotSettling DEF Attaches, Moves, SettlePCs, KnownOf
  <1>5. AttemptSound(a)'
    <2>1. LockHeldBy(a)' /\ LoadedCopyOf(a)' /\ NotYetPublishedBy(a)' /\ CommitKnownBy(a)'
            /\ SessionOf(a)' /\ PutOf[a] \notin wk'[a].todo
      BY <1>1, PutAssumption, AreWorkers
      DEF Attaches, LockHeldBy, LockedPCs, RowIs, KnownOf, WorkerSound, PutSound, AttemptSound,
          HistTypes, Histories, NoRow, Workers, LoadedCopyOf, Marks, Moves, NotYetPublishedBy,
          CommitKnownBy, PlanOf, SettledCopyOf, SettlePCs, CommitRecordedOf, Types, SessionOf,
          Terminals
    <2>2. WorkingCopyOf(a)'
      BY <1>1
      DEF Attaches, WorkingCopyOf, Marks, Moves, Working, RowIs, WorkPCs, KnownOf, AttemptSound
    <2> QED
      BY <2>1, <2>2 DEF AttemptSound
  <1>6. \A u \in Puts : PutSound(u)'
    BY <1>1, <1>2, PutAssumption, AreWorkers, PutsSpared
    DEF Attaches, Marks, Moves, RowIs, PutKept, KnownOf, PutSound, RowSound, WorkerSound,
        AttemptSound, SettledCopyOf, SettlePCs, PastRecordedOf, CommitRecordedOf, CleanedSoundOf,
        PublishedOnceOf, WorkingCopyOf, Working, WorkPCs
  <1>7. StagesOnRecord'
    BY <1>1, PutAssumption, AreWorkers, NoTerminal
    DEF Attaches, StagesOnRecord, Marks, Moves, RowIs, PutInv, Sound, Types, KnownOf,
        AttemptSound, WorkerSound, PutSound, HistTypes, Histories, NoRow, Workers, RowSound,
        SettledCopyOf, SettlePCs, WorkingCopyOf, Working, WorkPCs, CleanedSoundOf, OperatorQuits,
        DiskTypes, RowTypes, Rows, Identities
  <1>8. DestPublished' /\ RenamesInspected' /\ OneSender' /\ RejectedIsFinal'
    BY <1>1, <1>2, DestKept, SenderKept DEF Attaches, Marks, Moves
  <1>9. FailureIsClean' /\ RejectionIsOver'
    BY <1>1, <1>2, AreWorkers, ResultsKept DEF Attaches, Failing, Moves
  <1> QED
    BY <1>2, <1>3, <1>4, <1>5, <1>6, <1>7, <1>8, <1>9, AreWorkers, AllKept

\* A receive selects other records to settle: the invariant is kept.
LEMMA SelectsKeeps ==
    ASSUME PutInv, NEW a \in Attempts, Selects(a)
    PROVE  Sound'
  <1>1. KnownOf(a)
    BY AttemptKnown
  <1>2. Spares(a) /\ SparesSessions(a)
    BY <1>1 DEF Selects, Spares, Moves, SparesSessions
  <1>3. \A x \in Attempts : x # a => SessionOf(x)' /\ CommitKnownBy(x)'
    BY <1>2, SessionsSpared
  <1>4. WorkerSound(a)'
    BY <1>1, NotSettling DEF Selects, Moves, SettlePCs, KnownOf
  <1>5. AttemptSound(a)'
    BY <1>1, PutAssumption, AreWorkers
    DEF Selects, LockHeldBy, Moves, LockedPCs, KnownOf, WorkerSound, PutSound, AttemptSound,
        LoadedCopyOf, WorkingCopyOf, Working, WorkPCs, SettlePCs, SettledCopyOf,
        NotYetPublishedBy, CommitKnownBy, PlanOf, CommitRecordedOf, Types, HistTypes, Histories,
        NoRow, Workers, SessionOf, Active, Terminals
  <1>6. /\ (\A u \in Puts : PutSound(u)') /\ StagesOnRecord' /\ DestPublished'
        /\ RenamesInspected' /\ OneSender' /\ RejectedIsFinal'
    BY <1>1, <1>2, PutsKept, DestKept, SenderKept DEF Selects, Moves, HistSame, HistIs
  <1>7. FailureIsClean' /\ RejectionIsOver'
    BY <1>1, <1>2, AreWorkers, ResultsKept DEF Selects, Failing, Moves, Harmless, LockedPCs
  <1> QED
    BY <1>2, <1>3, <1>4, <1>5, <1>6, <1>7, AreWorkers, AllKept

\* A receive claims another record, of unknown outcome: the invariant is kept.
LEMMA ReapsUnknownKeeps ==
    ASSUME PutInv, NEW a \in Attempts, NEW t \in Puts, ReapsUnknown(a, t)
    PROVE  Sound'
  <1>1. KnownOf(a)
    BY AttemptKnown
  <1>2. Spares(a) /\ SparesSessions(a)
    BY <1>1 DEF ReapsUnknown, Spares, Claims, Moves, RowIs, SparesSessions
  <1>3. \A x \in Attempts : x # a => SessionOf(x)' /\ CommitKnownBy(x)'
    BY <1>2, SessionsSpared
  <1>4. WorkerSound(a)'
    BY <1>1, PutAssumption, AreWorkers
    DEF ReapsUnknown, SettledCopyOf, Claims, Moves, SettlePCs, RowIs, KnownOf, WorkerSound,
        PutSound, AttemptSound, WorkingCopyOf, Working, WorkPCs, LoadedCopyOf, RowSound,
        OperatorQuits, HistTypes, Histories, NoRow, Workers, PlanOf
  <1>5. AttemptSound(a)'
    <2>1. LockHeldBy(a)' /\ LoadedCopyOf(a)' /\ NotYetPublishedBy(a)' /\ CommitKnownBy(a)'
            /\ SessionOf(a)' /\ PutOf[a] \notin wk'[a].todo
      BY <1>1, PutAssumption, AreWorkers
      DEF ReapsUnknown, LockHeldBy, LockedPCs, RowIs, KnownOf, WorkerSound, PutSound,
          AttemptSound, HistTypes, Histories, NoRow, Workers, LoadedCopyOf, Claims, Moves,
          NotYetPublishedBy, CommitKnownBy, PlanOf, SettledCopyOf, SettlePCs, CommitRecordedOf,
          Types, SessionOf, Terminals
    <2>2. WorkingCopyOf(a)'
      BY <1>1
      DEF ReapsUnknown, WorkingCopyOf, Claims, Moves, Working, RowIs, WorkPCs, SettlePCs, KnownOf,
          AttemptSound
    <2> QED
      BY <2>1, <2>2 DEF AttemptSound
  <1>6. \A u \in Puts : PutSound(u)'
    BY <1>1, <1>2, PutAssumption, AreWorkers, PutsSpared
    DEF ReapsUnknown, Claims, Moves, RowIs, PutKept, KnownOf, PutSound, RowSound, WorkerSound,
        AttemptSound, SettledCopyOf, SettlePCs
  <1>7. StagesOnRecord'
    BY <1>1, PutAssumption, AreWorkers, NoTerminal
    DEF ReapsUnknown, StagesOnRecord, Claims, Moves, RowIs, PutInv, Sound, Types, WorkerSound,
        PutSound, HistTypes, Histories, NoRow, Workers, RowSound, SettledCopyOf, SettlePCs,
        WorkingCopyOf, Working, WorkPCs, CleanedSoundOf, OperatorQuits, DiskTypes, RowTypes, Rows,
        Identities
  <1>8. DestPublished' /\ RenamesInspected' /\ OneSender' /\ RejectedIsFinal'
    BY <1>1, <1>2, DestKept, SenderKept DEF ReapsUnknown, Claims, Moves
  <1>9. FailureIsClean' /\ RejectionIsOver'
    BY <1>1, <1>2, AreWorkers, ResultsKept DEF ReapsUnknown, Failing, Moves, Harmless, LockedPCs
  <1> QED
    BY <1>2, <1>3, <1>4, <1>5, <1>6, <1>7, <1>8, <1>9, AreWorkers, AllKept

\* A receive claims another record, to remove its stage: the invariant is
\* kept.
LEMMA ReapsStageKeeps ==
    ASSUME PutInv, NEW a \in Attempts, NEW t \in Puts, ReapsStage(a, t)
    PROVE  Sound'
  <1>1. KnownOf(a)
    BY AttemptKnown
  <1>2. Spares(a) /\ SparesSessions(a)
    BY <1>1 DEF ReapsStage, Spares, Claims, Moves, RowIs, SparesSessions
  <1>3. \A x \in Attempts : x # a => SessionOf(x)' /\ CommitKnownBy(x)'
    BY <1>2, SessionsSpared
  <1>4. WorkerSound(a)'
    BY <1>1, PutAssumption, AreWorkers
    DEF ReapsStage, SettledCopyOf, Claims, Moves, SettlePCs, RowIs, KnownOf, WorkerSound,
        PutSound, AttemptSound, WorkingCopyOf, Working, WorkPCs, LoadedCopyOf, RowSound,
        OperatorQuits, HistTypes, Histories, NoRow, Workers, PlanOf
  <1>5. AttemptSound(a)'
    <2>1. LockHeldBy(a)' /\ LoadedCopyOf(a)' /\ NotYetPublishedBy(a)' /\ CommitKnownBy(a)'
            /\ SessionOf(a)' /\ PutOf[a] \notin wk'[a].todo
      BY <1>1, PutAssumption, AreWorkers
      DEF ReapsStage, LockHeldBy, LockedPCs, RowIs, KnownOf, WorkerSound, PutSound, AttemptSound,
          HistTypes, Histories, NoRow, Workers, LoadedCopyOf, Claims, Moves, NotYetPublishedBy,
          CommitKnownBy, PlanOf, SettledCopyOf, SettlePCs, CommitRecordedOf, Sound, Types,
          SessionOf, Terminals
    <2>2. WorkingCopyOf(a)'
      BY <1>1
      DEF ReapsStage, WorkingCopyOf, Claims, Moves, Working, RowIs, WorkPCs, KnownOf, AttemptSound
    <2> QED
      BY <2>1, <2>2 DEF AttemptSound
  <1>6. \A u \in Puts : PutSound(u)'
    BY <1>1, <1>2, PutAssumption, AreWorkers, PutsSpared
    DEF ReapsStage, Claims, Moves, RowIs, PutKept, KnownOf, PutSound, RowSound, WorkerSound,
        AttemptSound, SettledCopyOf, SettlePCs
  <1>7. StagesOnRecord'
    BY <1>1, PutAssumption, AreWorkers, NoTerminal
    DEF ReapsStage, StagesOnRecord, Claims, Moves, RowIs, PutInv, Sound, Types, KnownOf,
        AttemptSound, WorkerSound, PutSound, HistTypes, Histories, NoRow, Workers, RowSound,
        SettledCopyOf, SettlePCs, WorkingCopyOf, Working, WorkPCs, CleanedSoundOf, OperatorQuits,
        DiskTypes, RowTypes, Rows, Identities
  <1>8. DestPublished' /\ RenamesInspected' /\ OneSender' /\ RejectedIsFinal'
    BY <1>1, <1>2, DestKept, SenderKept DEF ReapsStage, Claims, Moves
  <1>9. FailureIsClean' /\ RejectionIsOver'
    BY <1>1, <1>2, AreWorkers, ResultsKept DEF ReapsStage, Failing, Moves, Harmless, LockedPCs
  <1> QED
    BY <1>2, <1>3, <1>4, <1>5, <1>6, <1>7, <1>8, <1>9, AreWorkers, AllKept

\* A receive claims another record, to give it up: the invariant is kept.
LEMMA ReapsUnfinishedKeeps ==
    ASSUME PutInv, NEW a \in Attempts, NEW t \in Puts, ReapsUnfinished(a, t)
    PROVE  Sound'
  <1>1. KnownOf(a)
    BY AttemptKnown
  <1>2. Spares(a) /\ SparesSessions(a)
    BY <1>1 DEF ReapsUnfinished, Spares, Claims, Moves, RowIs, SparesSessions
  <1>3. \A x \in Attempts : x # a => SessionOf(x)' /\ CommitKnownBy(x)'
    BY <1>2, SessionsSpared
  <1>4. WorkerSound(a)'
    BY <1>1, PutAssumption, AreWorkers
    DEF ReapsUnfinished, SettledCopyOf, Claims, Moves, SettlePCs, RowIs, KnownOf, WorkerSound,
        PutSound, AttemptSound, WorkingCopyOf, Working, WorkPCs, LoadedCopyOf, RowSound,
        OperatorQuits, HistTypes, Histories, NoRow, Workers, PlanOf, PastRecordedOf,
        DestPublished, NotYetPublishedBy, CommitKnownBy
  <1>5. AttemptSound(a)'
    BY <1>1, PutAssumption, AreWorkers
    DEF ReapsUnfinished, LockHeldBy, LockedPCs, RowIs, KnownOf, WorkerSound, PutSound,
        AttemptSound, HistTypes, Histories, NoRow, Workers, LoadedCopyOf, Claims, Moves,
        WorkingCopyOf, Working, WorkPCs, SettlePCs, NotYetPublishedBy, CommitKnownBy, PlanOf,
        SettledCopyOf, CommitRecordedOf, PutInv, Types, SessionOf, Terminals
  <1>6. \A u \in Puts : PutSound(u)'
    BY <1>1, <1>2, PutAssumption, AreWorkers, PutsSpared
    DEF ReapsUnfinished, Claims, Moves, RowIs, PutKept, KnownOf, PutSound, RowSound, WorkerSound,
        AttemptSound, SettledCopyOf, SettlePCs
  <1>7. StagesOnRecord'
    BY <1>1, PutAssumption, AreWorkers, NoTerminal
    DEF ReapsUnfinished, StagesOnRecord, Claims, Moves, RowIs, PutInv, Sound, Types, KnownOf,
        AttemptSound, WorkerSound, PutSound, HistTypes, Histories, NoRow, Workers, RowSound,
        SettledCopyOf, SettlePCs, WorkingCopyOf, Working, WorkPCs, CleanedSoundOf, OperatorQuits,
        DiskTypes, RowTypes, Rows, Identities
  <1>8. DestPublished' /\ RenamesInspected' /\ OneSender' /\ RejectedIsFinal'
    BY <1>1, <1>2, DestKept, SenderKept DEF ReapsUnfinished, Claims, Moves
  <1>9. FailureIsClean' /\ RejectionIsOver'
    BY <1>1, <1>2, AreWorkers, ResultsKept
    DEF ReapsUnfinished, Failing, Moves, Harmless, LockedPCs
  <1> QED
    BY <1>2, <1>3, <1>4, <1>5, <1>6, <1>7, <1>8, <1>9, AreWorkers, AllKept

\* A receive leaves a selected record as it is: the invariant is kept.
LEMMA SkipsKeeps ==
    ASSUME PutInv, NEW a \in Attempts, NEW t \in Puts, Skips(a, t)
    PROVE  Sound'
  <1>1. KnownOf(a)
    BY AttemptKnown
  <1>2. Spares(a) /\ SparesSessions(a)
    BY <1>1 DEF Skips, Spares, Moves, SparesSessions
  <1>3. \A x \in Attempts : x # a => SessionOf(x)' /\ CommitKnownBy(x)'
    BY <1>2, SessionsSpared
  <1>4. WorkerSound(a)'
    BY <1>1, NotSettling DEF Skips, Moves, SettlePCs, KnownOf
  <1>5. AttemptSound(a)'
    BY <1>1
    DEF Skips, LockHeldBy, Moves, KnownOf, AttemptSound, LoadedCopyOf, WorkingCopyOf, Working,
        SettlePCs, NotYetPublishedBy, CommitKnownBy, CommitRecordedOf, PutInv, SessionOf, Active,
        Terminals
  <1>6. /\ (\A u \in Puts : PutSound(u)') /\ StagesOnRecord' /\ DestPublished'
        /\ RenamesInspected' /\ OneSender' /\ RejectedIsFinal'
    BY <1>1, <1>2, PutsKept, DestKept, SenderKept DEF Skips, Moves, HistSame, HistIs
  <1>7. FailureIsClean' /\ RejectionIsOver'
    BY <1>1, <1>2, AreWorkers, ResultsKept DEF Skips, Failing, Moves, Harmless
  <1> QED
    BY <1>2, <1>3, <1>4, <1>5, <1>6, <1>7, AreWorkers, AllKept

\* A receive says "ready": the invariant is kept.
LEMMA FinishesReapingKeeps ==
    ASSUME PutInv, NEW a \in Attempts, FinishesReaping(a)
    PROVE  Sound'
  <1>1. KnownOf(a)
    BY AttemptKnown
  <1>2. Spares(a) /\ SparesSessions(a)
    BY <1>1 DEF FinishesReaping, Spares, LinkIs, Steps, Moves, SparesSessions
  <1>3. \A x \in Attempts : x # a => SessionOf(x)' /\ CommitKnownBy(x)'
    BY <1>2, SessionsSpared
  <1>4. WorkerSound(a)'
    BY <1>1, NotSettling DEF FinishesReaping, Steps, Moves, SettlePCs, KnownOf
  <1>5. AttemptSound(a)'
    <2>1. LockHeldBy(a)' /\ LoadedCopyOf(a)' /\ NotYetPublishedBy(a)' /\ CommitKnownBy(a)'
            /\ SessionOf(a)' /\ PutOf[a] \notin wk'[a].todo
      BY <1>1, PutAssumption, AreWorkers, NoTerminal
      DEF FinishesReaping, LockHeldBy, LockedPCs, Moves, KnownOf, WorkerSound, PutSound,
          AttemptSound, HistTypes, Histories, NoRow, Workers, LoadedCopyOf, LinkIs, Steps,
          NotYetPublishedBy, CommitKnownBy, PlanOf, SettledCopyOf, SettlePCs, CommitRecordedOf,
          Types, SessionOf, Active, Terminals
    <2>2. WorkingCopyOf(a)'
      BY <1>1, AreWorkers
      DEF FinishesReaping, WorkingCopyOf, Steps, Working, Moves, WorkPCs, KnownOf, AttemptSound
    <2> QED
      BY <2>1, <2>2 DEF AttemptSound
  <1>6. /\ (\A u \in Puts : PutSound(u)') /\ StagesOnRecord' /\ DestPublished'
        /\ RenamesInspected' /\ OneSender' /\ RejectedIsFinal'
    BY <1>1, <1>2, PutsKept, DestKept, SenderKept
    DEF FinishesReaping, HistSame, HistIs, Steps, Moves
  <1>7. FailureIsClean' /\ RejectionIsOver'
    BY <1>1, <1>2, AreWorkers, ResultsKept
    DEF FinishesReaping, Failing, LinkIs, Steps, Moves, Harmless, LockedPCs
  <1> QED
    BY <1>2, <1>3, <1>4, <1>5, <1>6, <1>7, AreWorkers, AllKept

\* A receive has the payload: the invariant is kept.
LEMMA ReceivesKeeps ==
    ASSUME PutInv, NEW a \in Attempts, Receives(a)
    PROVE  Sound'
  <1>1. KnownOf(a)
    BY AttemptKnown
  <1>2. Spares(a) /\ SparesSessions(a)
    BY <1>1 DEF Receives, Spares, LinksSame, Steps, Moves, SparesSessions
  <1>3. \A x \in Attempts : x # a => SessionOf(x)' /\ CommitKnownBy(x)'
    BY <1>2, SessionsSpared
  <1>4. WorkerSound(a)'
    BY <1>1, NotSettling DEF Receives, Steps, Moves, SettlePCs, KnownOf
  <1>5. AttemptSound(a)'
    BY <1>1, PutAssumption, AreWorkers, NoTerminal
    DEF Receives, LockHeldBy, LockedPCs, Moves, KnownOf, WorkerSound, PutSound, AttemptSound,
        HistTypes, Histories, NoRow, Workers, LoadedCopyOf, LinksSame, Steps, WorkingCopyOf,
        Working, WorkPCs, SettlePCs, NotYetPublishedBy, CommitKnownBy, PlanOf, SettledCopyOf,
        CommitRecordedOf, Sound, Types, SessionOf, Active, Terminals
  <1>6. /\ (\A u \in Puts : PutSound(u)') /\ StagesOnRecord' /\ DestPublished'
        /\ RenamesInspected' /\ OneSender' /\ RejectedIsFinal'
    BY <1>1, <1>2, PutsKept, DestKept, SenderKept DEF Receives, HistSame, HistIs, Steps, Moves
  <1>7. FailureIsClean' /\ RejectionIsOver'
    BY <1>1, <1>2, AreWorkers, ResultsKept
    DEF Receives, Failing, LinksSame, Steps, Moves, Harmless, LockedPCs
  <1> QED
    BY <1>2, <1>3, <1>4, <1>5, <1>6, <1>7, AreWorkers, AllKept

\* A receive notes that it is about to publish: the invariant is kept.
LEMMA IntendsKeeps ==
    ASSUME PutInv, NEW a \in Attempts, Intends(a)
    PROVE  Sound'
  <1>1. KnownOf(a)
    BY AttemptKnown
  <1>2. Spares(a) /\ SparesSessions(a)
    BY <1>1, PutAssumption, AreWorkers
    DEF Intends, Spares, Marks, Moves, LockedPCs, RowIs, KnownOf, WorkerSound, PutSound,
        AttemptSound, RowSound, SettledCopyOf, SettlePCs, WorkingCopyOf, Working, WorkPCs,
        HistTypes, Histories, NoRow, Workers, SparesSessions
  <1>3. \A x \in Attempts : x # a => SessionOf(x)' /\ CommitKnownBy(x)'
    BY <1>2, SessionsSpared
  <1>4. WorkerSound(a)'
    BY <1>1, NotSettling DEF Intends, Moves, SettlePCs, KnownOf
  <1>5. AttemptSound(a)'
    <2>1. LockHeldBy(a)' /\ LoadedCopyOf(a)' /\ NotYetPublishedBy(a)' /\ CommitKnownBy(a)'
            /\ SessionOf(a)' /\ PutOf[a] \notin wk'[a].todo
      BY <1>1, PutAssumption, AreWorkers
      DEF Intends, LockHeldBy, LockedPCs, RowIs, KnownOf, WorkerSound, PutSound, AttemptSound,
          HistTypes, Histories, NoRow, Workers, LoadedCopyOf, Marks, Moves, NotYetPublishedBy,
          WorkingCopyOf, Working, WorkPCs, SettlePCs, PastRecordedOf, CommitKnownBy, PlanOf,
          SettledCopyOf, CommitRecordedOf, PutInv, Sound, Types, SessionOf, Terminals
    <2>2. WorkingCopyOf(a)'
      BY <1>1, PutAssumption, AreWorkers
      DEF Intends, WorkingCopyOf, Marks, Moves, Working, RowIs, WorkPCs, SettlePCs, KnownOf,
          WorkerSound, PutSound, AttemptSound
    <2> QED
      BY <2>1, <2>2 DEF AttemptSound
  <1>6. \A u \in Puts : PutSound(u)'
    BY <1>1, <1>2, PutAssumption, AreWorkers, PutsSpared
    DEF Intends, Marks, Moves, RowIs, PutKept, KnownOf, PutSound, RowSound, WorkerSound,
        AttemptSound, SettledCopyOf, SettlePCs, PastRecordedOf, CommitRecordedOf, CleanedSoundOf,
        PublishedOnceOf, WorkingCopyOf, Working, WorkPCs
  <1>7. StagesOnRecord'
    BY <1>1, StagesKept DEF Intends, Marks, RowIs
  <1>8. DestPublished' /\ RenamesInspected' /\ OneSender' /\ RejectedIsFinal'
    BY <1>1, <1>2, DestKept, SenderKept DEF Intends, Marks, Moves
  <1>9. FailureIsClean' /\ RejectionIsOver'
    BY <1>1, <1>2, AreWorkers, ResultsKept DEF Intends, Failing, Moves
  <1> QED
    BY <1>2, <1>3, <1>4, <1>5, <1>6, <1>7, <1>8, <1>9, AreWorkers, AllKept

\* A receive links its stage to the destination: the invariant is kept.
LEMMA LinksStageKeeps ==
    ASSUME PutInv, NEW a \in Attempts, LinksStage(a)
    PROVE  Sound'
  <1>1. KnownOf(a)
    BY AttemptKnown
  <1>2. Spares(a) /\ SparesSessions(a)
    BY <1>1, PutAssumption, AreWorkers
    DEF LinksStage, Spares, HistIs, Steps, LockedPCs, Moves, KnownOf, WorkerSound, AttemptSound,
        RowSound, SettledCopyOf, SettlePCs, WorkingCopyOf, Working, WorkPCs, HistTypes, Histories,
        NoRow, Workers, SparesSessions
  <1>3. \A x \in Attempts : x # a => SessionOf(x)' /\ CommitKnownBy(x)'
    BY <1>2, SessionsSpared
  <1>4. WorkerSound(a)'
    BY <1>1, NotSettling DEF LinksStage, Steps, Moves, SettlePCs, KnownOf
  <1>5. AttemptSound(a)'
    <2>1. LockHeldBy(a)' /\ LoadedCopyOf(a)' /\ NotYetPublishedBy(a)' /\ CommitKnownBy(a)'
            /\ SessionOf(a)' /\ PutOf[a] \notin wk'[a].todo
      BY <1>1, PutAssumption, AreWorkers
      DEF LinksStage, LockHeldBy, LockedPCs, Moves, KnownOf, WorkerSound, PutSound, AttemptSound,
          HistTypes, Histories, NoRow, Workers, LoadedCopyOf, HistIs, Steps, NotYetPublishedBy,
          CommitKnownBy, PlanOf, SettledCopyOf, SettlePCs, CommitRecordedOf, PutInv, Sound, Types,
          SessionOf, Terminals
    <2>2. WorkingCopyOf(a)'
      BY <1>1, PutAssumption
      DEF LinksStage, WorkingCopyOf, Steps, Working, Moves, WorkPCs, KnownOf, WorkerSound,
          AttemptSound
    <2> QED
      BY <2>1, <2>2 DEF AttemptSound
  <1>6. \A u \in Puts : PutSound(u)'
    BY <1>1, <1>2, PutAssumption, AreWorkers, PutsSpared
    DEF LinksStage, HistIs, Steps, Moves, PutKept, KnownOf, PutSound, RowSound, WorkerSound,
        AttemptSound, SettledCopyOf, SettlePCs, PastRecordedOf, CommitRecordedOf, CleanedSoundOf,
        PublishedOnceOf, WorkingCopyOf, Working, WorkPCs, PlanOf, NotYetPublishedBy, HistTypes,
        Histories, NoRow, Workers
  <1>7. StagesOnRecord'
    BY <1>1, PutAssumption, AreWorkers, NoTerminal
    DEF LinksStage, StagesOnRecord, HistIs, Steps, Moves, PutInv, Sound, Types, KnownOf,
        AttemptSound, WorkerSound, PutSound, HistTypes, Histories, NoRow, Workers, RowSound,
        SettledCopyOf, SettlePCs, WorkingCopyOf, Working, WorkPCs, CleanedSoundOf, OperatorQuits,
        DiskTypes, RowTypes, Rows, Identities
  <1>8. OneSender' /\ RejectedIsFinal'
    BY <1>1, SenderKept DEF LinksStage, HistIs, Steps
  <1>9. DestPublished' /\ RenamesInspected'
    <2>1. DestPublished'
      BY <1>1, PutAssumption, AreWorkers, NoTerminal
      DEF LinksStage, DestPublished, HistIs, Steps, Moves, Sound, Types, KnownOf, AttemptSound,
          WorkerSound, PutSound, HistTypes, Histories, NoRow, Workers, RenamesInspected,
          LockHeldBy, LockedPCs, WorkingCopyOf, Working, WorkPCs, SettlePCs, RowSound, DiskTypes,
          RowTypes, Rows, Identities
    <2>2. RenamesInspected'
      BY <1>1, AreWorkers, LockIsExclusive
      DEF LinksStage, Steps, Moves, RenamesInspected, LockedPCs
    <2> QED
      BY <2>1, <2>2
  <1>10. FailureIsClean' /\ RejectionIsOver'
    BY <1>1, <1>2, AreWorkers, ResultsKept
    DEF LinksStage, Failing, HistIs, Steps, Moves, Harmless, LockedPCs
  <1> QED
    BY <1>2, <1>3, <1>4, <1>5, <1>6, <1>7, <1>8, <1>9, <1>10, AreWorkers, AllKept

\* A receive finds the destination as it was inspected: the invariant is kept.
LEMMA ValidatesKeeps ==
    ASSUME PutInv, NEW a \in Attempts, Validates(a)
    PROVE  Sound'
  <1>1. KnownOf(a)
    BY AttemptKnown
  <1>2. Spares(a) /\ SparesSessions(a)
    BY <1>1 DEF Validates, Spares, Steps, Moves, SparesSessions
  <1>3. \A x \in Attempts : x # a => SessionOf(x)' /\ CommitKnownBy(x)'
    BY <1>2, SessionsSpared
  <1>4. WorkerSound(a)'
    BY <1>1, NotSettling DEF Validates, Steps, Moves, SettlePCs, KnownOf
  <1>5. AttemptSound(a)'
    BY <1>1, PutAssumption, AreWorkers
    DEF Validates, LockHeldBy, LockedPCs, Moves, KnownOf, WorkerSound, PutSound, AttemptSound,
        HistTypes, Histories, NoRow, Workers, LoadedCopyOf, Steps, WorkingCopyOf, Working,
        WorkPCs, SettlePCs, NotYetPublishedBy, CommitKnownBy, PlanOf, SettledCopyOf,
        CommitRecordedOf, SessionOf, Terminals
  <1>6. (\A u \in Puts : PutSound(u)') /\ StagesOnRecord' /\ OneSender' /\ RejectedIsFinal'
    BY <1>1, <1>2, PutsKept, SenderKept DEF Validates, HistSame, HistIs
  <1>7. DestPublished' /\ RenamesInspected'
    BY <1>1, PutAssumption, AreWorkers, NoTerminal
    DEF Validates, DestPublished, RenamesInspected, Steps, Moves, PutInv, Sound, Types, KnownOf,
        AttemptSound, WorkerSound, PutSound, HistTypes, Histories, NoRow, Workers, LockHeldBy,
        LockedPCs, WorkingCopyOf, Working, WorkPCs, SettlePCs, RowSound, DiskTypes, RowTypes,
        Rows, Identities
  <1>8. FailureIsClean' /\ RejectionIsOver'
    BY <1>1, <1>2, AreWorkers, ResultsKept
    DEF Validates, Failing, Steps, Moves, Harmless, LockedPCs
  <1> QED
    BY <1>2, <1>3, <1>4, <1>5, <1>6, <1>7, <1>8, AreWorkers, AllKept

\* A receive renames its stage over the destination: the invariant is kept.
LEMMA RenamesKeeps ==
    ASSUME PutInv, NEW a \in Attempts, Renames(a)
    PROVE  Sound'
  <1>1. KnownOf(a)
    BY AttemptKnown
  <1>2. Spares(a) /\ SparesSessions(a)
    BY <1>1, PutAssumption, AreWorkers
    DEF Renames, Spares, HistIs, Steps, LockedPCs, Moves, KnownOf, WorkerSound, AttemptSound,
        WorkingCopyOf, Working, WorkPCs, HistTypes, Histories, NoRow, SparesSessions
  <1>3. \A x \in Attempts : x # a => SessionOf(x)' /\ CommitKnownBy(x)'
    BY <1>2, SessionsSpared
  <1>4. WorkerSound(a)'
    BY <1>1, NotSettling DEF Renames, Steps, Moves, SettlePCs, KnownOf
  <1>5. AttemptSound(a)'
    BY <1>1
    DEF Renames, LockHeldBy, LockedPCs, Moves, KnownOf, AttemptSound, LoadedCopyOf, Steps,
        WorkingCopyOf, Working, WorkPCs, NotYetPublishedBy, CommitKnownBy, PlanOf, SettledCopyOf,
        SessionOf, Terminals
  <1>6. \A u \in Puts : u # PutOf[a] => PutKept(u)
    BY <1>1 DEF Renames, HistIs, PutKept, KnownOf, PutSound, RowSound
  <1>7. \A u \in Puts : u = PutOf[a] => PutSound(u)'
    BY <1>1, PutAssumption, AreWorkers
    DEF Renames, PutSound, HistIs, Steps, RowSound, PastRecordedOf, CommitRecordedOf,
        CleanedSoundOf, PublishedOnceOf, Moves, KnownOf, WorkerSound, AttemptSound, WorkingCopyOf,
        Working, WorkPCs, SettlePCs, SettledCopyOf, PlanOf, NotYetPublishedBy, HistTypes,
        Histories, NoRow, Workers
  <1>8. \A u \in Puts : PutSound(u)'
    BY <1>2, <1>6, <1>7, PutsSpared
  <1>9. StagesOnRecord'
    BY <1>1, PutAssumption, AreWorkers, NoTerminal
    DEF Renames, StagesOnRecord, HistIs, Steps, Moves, PutInv, Sound, Types, KnownOf,
        AttemptSound, WorkerSound, PutSound, HistTypes, Histories, NoRow, Workers, RowSound,
        SettledCopyOf, SettlePCs, WorkingCopyOf, Working, WorkPCs, CleanedSoundOf, OperatorQuits,
        DiskTypes, RowTypes, Rows, Identities
  <1>10. OneSender' /\ RejectedIsFinal'
    BY <1>1, SenderKept DEF Renames, HistIs, Steps
  <1>11. DestPublished' /\ RenamesInspected'
    <2>1. DestPublished'
      BY <1>1, PutAssumption, AreWorkers, NoTerminal
      DEF Renames, DestPublished, HistIs, Steps, Moves, PutInv, Types, KnownOf, AttemptSound,
          WorkerSound, PutSound, HistTypes, Histories, NoRow, Workers, RenamesInspected,
          LockHeldBy, LockedPCs, WorkingCopyOf, Working, WorkPCs, SettlePCs, RowSound, DiskTypes,
          RowTypes, Rows, Identities
    <2>2. RenamesInspected'
      <3> SUFFICES ASSUME NEW b \in Attempts, wk'[b].pc = "rename"
                   PROVE  FALSE
        BY DEF RenamesInspected
      <3>1. b # a
        BY DEF Renames, Steps, Moves
      <3>2. wk[b].pc = "rename"
        BY <3>1, AreWorkers DEF Renames, Steps, Moves
      <3>3. lock = a /\ lock = b
        BY <3>2, AttemptKnown DEF Renames, KnownOf, AttemptSound, LockHeldBy, LockedPCs
      <3> QED
        BY <3>1, <3>3
    <2> QED
      BY <2>1, <2>2
  <1>12. FailureIsClean' /\ RejectionIsOver'
    BY <1>1, <1>2, AreWorkers, ResultsKept
    DEF Renames, Failing, HistIs, Steps, Moves, Harmless, LockedPCs
  <1> QED
    BY <1>2, <1>3, <1>4, <1>5, <1>8, <1>9, <1>10, <1>11, <1>12, AreWorkers, AllKept

\* The rename fails: the invariant is kept.
LEMMA FailsToRenameKeeps ==
    ASSUME PutInv, NEW a \in Attempts, FailsToRename(a)
    PROVE  Sound'
  <1>1. KnownOf(a)
    BY AttemptKnown
  <1>2. Spares(a) /\ SparesSessions(a)
    BY <1>1 DEF FailsToRename, Spares, Steps, Moves, SparesSessions
  <1>3. \A x \in Attempts : x # a => SessionOf(x)' /\ CommitKnownBy(x)'
    BY <1>2, SessionsSpared
  <1>4. WorkerSound(a)'
    BY <1>1, NotSettling DEF FailsToRename, Steps, Moves, SettlePCs, KnownOf
  <1>5. AttemptSound(a)'
    BY <1>1, PutAssumption, AreWorkers
    DEF FailsToRename, LockHeldBy, LockedPCs, Moves, KnownOf, WorkerSound, PutSound, AttemptSound,
        HistTypes, Histories, NoRow, Workers, LoadedCopyOf, Steps, WorkingCopyOf, Working,
        WorkPCs, SettlePCs, NotYetPublishedBy, CommitKnownBy, PlanOf, SettledCopyOf,
        CommitRecordedOf, PutInv, Sound, Types, SessionOf, Terminals
  <1>6. /\ (\A u \in Puts : PutSound(u)') /\ StagesOnRecord' /\ DestPublished'
        /\ RenamesInspected' /\ OneSender' /\ RejectedIsFinal'
    BY <1>1, <1>2, PutsKept, DestKept, SenderKept
    DEF FailsToRename, HistSame, HistIs, Steps, Moves
  <1>7. FailureIsClean' /\ RejectionIsOver'
    BY <1>1, <1>2, AreWorkers, ResultsKept
    DEF FailsToRename, Failing, Steps, Moves, Harmless, LockedPCs
  <1> QED
    BY <1>2, <1>3, <1>4, <1>5, <1>6, <1>7, AreWorkers, AllKept

\* A receive finds its stage at the destination after publishing it: the
\* invariant is kept.
LEMMA FindsItPublishedKeeps ==
    ASSUME PutInv, NEW a \in Attempts, FindsItPublished(a)
    PROVE  Sound'
  <1>1. KnownOf(a)
    BY AttemptKnown
  <1>2. Spares(a) /\ SparesSessions(a)
    BY <1>1 DEF FindsItPublished, Spares, Settles, Moves, SparesSessions
  <1>3. \A x \in Attempts : x # a => SessionOf(x)' /\ CommitKnownBy(x)'
    BY <1>2, SessionsSpared
  <1>4. WorkerSound(a)'
    BY <1>1, PutAssumption
    DEF FindsItPublished, SettledCopyOf, Settles, Moves, KnownOf, WorkerSound, PutSound,
        AttemptSound, WorkingCopyOf, Working, WorkPCs, PlanOf, LoadedCopyOf, RowSound,
        PastRecordedOf, DestPublished, NotYetPublishedBy, CommitKnownBy, OperatorQuits, HistTypes,
        Histories, NoRow, Workers
  <1>5. AttemptSound(a)'
    BY <1>1, PutAssumption, AreWorkers, NoTerminal
    DEF FindsItPublished, AttemptSound, Settles, LockHeldBy, LoadedCopyOf, WorkingCopyOf,
        NotYetPublishedBy, CommitKnownBy, SessionOf, Moves, LockedPCs, Working, Active, Terminals,
        WorkPCs, SettlePCs, Types, KnownOf, WorkerSound, PutSound, HistTypes, Histories, NoRow,
        Workers, RowSound, SettledCopyOf, PlanOf, PastRecordedOf, CommitRecordedOf, SenderTypes,
        OperatorQuits
  <1>6. /\ (\A u \in Puts : PutSound(u)') /\ StagesOnRecord' /\ DestPublished'
        /\ RenamesInspected' /\ OneSender' /\ RejectedIsFinal'
    BY <1>1, <1>2, PutsKept, DestKept, SenderKept
    DEF FindsItPublished, HistSame, HistIs, Settles, Moves
  <1>7. FailureIsClean' /\ RejectionIsOver'
    BY <1>1, <1>2, AreWorkers, ResultsKept
    DEF FindsItPublished, Failing, Settles, Moves, Harmless, LockedPCs
  <1> QED
    BY <1>2, <1>3, <1>4, <1>5, <1>6, <1>7, AreWorkers, AllKept

\* A receive cannot tell whether it has published: the invariant is kept.
LEMMA LosesTrackKeeps ==
    ASSUME PutInv, NEW a \in Attempts, LosesTrack(a)
    PROVE  Sound'
  <1>1. KnownOf(a)
    BY AttemptKnown
  <1>2. Spares(a) /\ SparesSessions(a)
    BY <1>1, PutAssumption, AreWorkers
    DEF LosesTrack, Spares, Marks, Replies, LockedPCs, RowIs, Moves, NoRow, KnownOf, AttemptSound,
        RowSound, SettledCopyOf, SettlePCs, WorkingCopyOf, Working, WorkPCs, HistTypes, Workers,
        SparesSessions
  <1>3. \A x \in Attempts : x # a => SessionOf(x)' /\ CommitKnownBy(x)'
    BY <1>2, SessionsSpared
  <1>4. WorkerSound(a)'
    BY <1>1, NotSettling DEF LosesTrack, Replies, Moves, SettlePCs, KnownOf
  <1>5. AttemptSound(a)'
    BY <1>1, AtRest
    DEF LosesTrack, Replies, Moves, KnownOf, AttemptSound, CommitKnownBy, SessionOf
  <1>6. \A u \in Puts : PutSound(u)'
    BY <1>1, <1>2, PutAssumption, AreWorkers, PutsSpared
    DEF LosesTrack, Marks, Replies, RowIs, Moves, PutKept, KnownOf, PutSound, RowSound,
        WorkerSound, AttemptSound, SettledCopyOf, PastRecordedOf, CommitRecordedOf,
        CleanedSoundOf, PublishedOnceOf, NoRow, WorkingCopyOf, Working, WorkPCs, SettlePCs,
        PlanOf, NotYetPublishedBy, HistTypes, Histories, Workers
  <1>7. StagesOnRecord'
    BY <1>1, PutAssumption, AreWorkers, NoTerminal
    DEF LosesTrack, StagesOnRecord, Marks, Replies, RowIs, Moves, NoRow, PutInv, Sound, Types,
        KnownOf, WorkerSound, PutSound, HistTypes, Histories, Workers, RowSound, SettledCopyOf,
        SettlePCs, WorkingCopyOf, Working, WorkPCs, CleanedSoundOf, OperatorQuits, DiskTypes,
        RowTypes, Rows, Identities
  <1>8. DestPublished' /\ RenamesInspected' /\ OneSender' /\ RejectedIsFinal'
    BY <1>1, <1>2, DestKept, SenderKept DEF LosesTrack, Replies, Moves
  <1>9. FailureIsClean' /\ RejectionIsOver'
    BY <1>1, <1>2, AreWorkers, ResultsKept
    DEF LosesTrack, Failing, Replies, Moves, Harmless, LockedPCs
  <1> QED
    BY <1>2, <1>3, <1>4, <1>5, <1>6, <1>7, <1>8, <1>9, AreWorkers, AllKept

\* A receive finds the stage of the record it settles at the destination: the
\* invariant is kept.
LEMMA ProvesKeeps ==
    ASSUME PutInv, NEW a \in Attempts, Proves(a)
    PROVE  Sound'
  <1>1. KnownOf(a)
    BY AttemptKnown
  <1>2. Spares(a) /\ SparesSessions(a)
    BY <1>1 DEF Proves, Spares, Moves, SparesSessions
  <1>3. \A x \in Attempts : x # a => SessionOf(x)' /\ CommitKnownBy(x)'
    BY <1>2, SessionsSpared
  <1>4. WorkerSound(a)'
    BY <1>1, PutAssumption, AreWorkers
    DEF Proves, SettledCopyOf, Moves, SettlePCs, KnownOf, WorkerSound, RowSound, OperatorQuits,
        HistTypes, Histories, NoRow, Workers, PlanOf, PutSound, AttemptSound, WorkingCopyOf,
        Working, WorkPCs, LoadedCopyOf, PastRecordedOf, DestPublished, NotYetPublishedBy,
        CommitKnownBy
  <1>5. AttemptSound(a)'
    BY <1>1, PutAssumption, AreWorkers
    DEF Proves, LockHeldBy, Moves, LockedPCs, KnownOf, WorkerSound, PutSound, AttemptSound,
        LoadedCopyOf, WorkingCopyOf, Working, WorkPCs, SettlePCs, SettledCopyOf,
        NotYetPublishedBy, CommitKnownBy, PlanOf, CommitRecordedOf, PutInv, Sound, Types,
        HistTypes, Histories, NoRow, Workers, SessionOf, Active, Terminals
  <1>6. /\ (\A u \in Puts : PutSound(u)') /\ StagesOnRecord' /\ DestPublished'
        /\ RenamesInspected' /\ OneSender' /\ RejectedIsFinal'
    BY <1>1, <1>2, PutsKept, DestKept, SenderKept DEF Proves, Moves, HistSame, HistIs
  <1>7. FailureIsClean' /\ RejectionIsOver'
    BY <1>1, <1>2, AreWorkers, ResultsKept DEF Proves, Failing, Moves, Harmless, LockedPCs
  <1> QED
    BY <1>2, <1>3, <1>4, <1>5, <1>6, <1>7, AreWorkers, AllKept

\* A receive finds the stage unpublished: the invariant is kept.
LEMMA DisprovesKeeps ==
    ASSUME PutInv, NEW a \in Attempts, Disproves(a)
    PROVE  Sound'
  <1>1. KnownOf(a)
    BY AttemptKnown
  <1>2. Spares(a) /\ SparesSessions(a)
    BY <1>1 DEF Disproves, Spares, Steps, Moves, SparesSessions
  <1>3. \A x \in Attempts : x # a => SessionOf(x)' /\ CommitKnownBy(x)'
    BY <1>2, SessionsSpared
  <1>4. WorkerSound(a)'
    BY <1>1
    DEF Disproves, SettledCopyOf, Steps, SettlePCs, Moves, KnownOf, WorkerSound, PutSound,
        WorkPCs, PlanOf, RowSound, PastRecordedOf, DestPublished, NotYetPublishedBy,
        CommitKnownBy, OperatorQuits, HistTypes, Histories, NoRow
  <1>5. AttemptSound(a)'
    BY <1>1, PutAssumption, AreWorkers
    DEF Disproves, LockHeldBy, LockedPCs, Moves, KnownOf, WorkerSound, PutSound, AttemptSound,
        HistTypes, Histories, NoRow, Workers, LoadedCopyOf, Steps, WorkingCopyOf, Working,
        WorkPCs, SettlePCs, NotYetPublishedBy, CommitKnownBy, PlanOf, SettledCopyOf,
        CommitRecordedOf, Types, SessionOf, Terminals
  <1>6. /\ (\A u \in Puts : PutSound(u)') /\ StagesOnRecord' /\ DestPublished'
        /\ RenamesInspected' /\ OneSender' /\ RejectedIsFinal'
    BY <1>1, <1>2, PutsKept, DestKept, SenderKept DEF Disproves, HistSame, HistIs, Steps, Moves
  <1>7. FailureIsClean' /\ RejectionIsOver'
    BY <1>1, <1>2, AreWorkers, ResultsKept
    DEF Disproves, Failing, Steps, Moves, Harmless, LockedPCs
  <1> QED
    BY <1>2, <1>3, <1>4, <1>5, <1>6, <1>7, AreWorkers, AllKept

\* A receive leaves another record as one of unknown outcome: the invariant is
\* kept.
LEMMA LeavesOtherKeeps ==
    ASSUME PutInv, NEW a \in Attempts, LeavesOther(a)
    PROVE  Sound'
  <1>1. KnownOf(a)
    BY AttemptKnown
  <1>2. Spares(a) /\ SparesSessions(a)
    BY <1>1, PutAssumption, AreWorkers
    DEF LeavesOther, Spares, Idles, RowIs, LockedPCs, Moves, NoRow, KnownOf, WorkerSound,
        PutSound, AttemptSound, RowSound, SettledCopyOf, SettlePCs, WorkingCopyOf, Working,
        WorkPCs, HistTypes, Histories, Workers, SparesSessions
  <1>3. \A x \in Attempts : x # a => SessionOf(x)' /\ CommitKnownBy(x)'
    BY <1>2, SessionsSpared
  <1>4. WorkerSound(a)'
    BY <1>1, NotSettling DEF LeavesOther, Idles, Moves, SettlePCs, KnownOf
  <1>5. AttemptSound(a)'
    <2>1. LockHeldBy(a)' /\ LoadedCopyOf(a)' /\ NotYetPublishedBy(a)' /\ CommitKnownBy(a)'
            /\ SessionOf(a)' /\ PutOf[a] \notin wk'[a].todo
      BY <1>1, PutAssumption, AreWorkers
      DEF LeavesOther, LockHeldBy, LockedPCs, Moves, NoRow, KnownOf, WorkerSound, PutSound,
          AttemptSound, HistTypes, Histories, Workers, LoadedCopyOf, Idles, RowIs, SettledCopyOf,
          SettlePCs, PlanOf, RowSound, NotYetPublishedBy, CommitKnownBy, CommitRecordedOf, PutInv,
          Sound, Types, SessionOf, Terminals
    <2>2. WorkingCopyOf(a)'
      BY <1>1, PutAssumption, AreWorkers
      DEF LeavesOther, WorkingCopyOf, Idles, RowIs, Working, Moves, NoRow, WorkPCs, SettlePCs,
          KnownOf, WorkerSound, PutSound, AttemptSound, LoadedCopyOf, SettledCopyOf, PlanOf,
          RowSound, HistTypes, Histories, Workers
    <2> QED
      BY <2>1, <2>2 DEF AttemptSound
  <1>6. \A u \in Puts : u # wk[a].put => PutKept(u)
    BY <1>1 DEF LeavesOther, RowIs, PutKept, KnownOf, PutSound, RowSound
  <1>7. \A u \in Puts : u = wk[a].put => PutSound(u)'
    BY <1>1, PutAssumption, AreWorkers
    DEF LeavesOther, PutSound, Idles, RowIs, RowSound, PastRecordedOf, CommitRecordedOf,
        CleanedSoundOf, PublishedOnceOf, Moves, NoRow, KnownOf, WorkerSound, AttemptSound,
        WorkingCopyOf, Working, WorkPCs, SettlePCs, SettledCopyOf, PlanOf, NotYetPublishedBy,
        HistTypes, Histories, Workers
  <1>8. \A u \in Puts : PutSound(u)'
    BY <1>2, <1>6, <1>7, PutsSpared
  <1>9. StagesOnRecord'
    BY <1>1, StagesKept DEF LeavesOther, RowIs
  <1>10. DestPublished' /\ RenamesInspected' /\ OneSender' /\ RejectedIsFinal'
    BY <1>1, <1>2, DestKept, SenderKept DEF LeavesOther, Idles, Moves
  <1>11. FailureIsClean' /\ RejectionIsOver'
    BY <1>1, <1>2, AreWorkers, NoTerminal, ResultsKept
    DEF LeavesOther, Failing, Idles, RowIs, Active, Moves, Harmless, LockedPCs
  <1> QED
    BY <1>2, <1>3, <1>4, <1>5, <1>8, <1>9, <1>10, <1>11, AreWorkers, AllKept

\* A receive leaves its record of unknown outcome as it is: the invariant is
\* kept.
LEMMA LeavesAfreshKeeps ==
    ASSUME PutInv, NEW a \in Attempts, LeavesAfresh(a)
    PROVE  Sound'
  <1>1. KnownOf(a)
    BY AttemptKnown
  <1>2. Spares(a) /\ SparesSessions(a)
    BY <1>1, PutAssumption, AreWorkers
    DEF LeavesAfresh, Spares, Frees, Replies, LockedPCs, RowIs, Moves, NoRow, KnownOf,
        WorkerSound, PutSound, AttemptSound, RowSound, SettledCopyOf, SettlePCs, WorkingCopyOf,
        Working, WorkPCs, HistTypes, Histories, Workers, SparesSessions
  <1>3. \A x \in Attempts : x # a => SessionOf(x)' /\ CommitKnownBy(x)'
    BY <1>2, SessionsSpared
  <1>4. WorkerSound(a)'
    BY <1>1, NotSettling DEF LeavesAfresh, Replies, Moves, SettlePCs, KnownOf
  <1>5. AttemptSound(a)'
    BY <1>1, AtRest
    DEF LeavesAfresh, Replies, Moves, KnownOf, AttemptSound, CommitKnownBy, SessionOf
  <1>6. \A u \in Puts : PutSound(u)'
    BY <1>1, <1>2, PutAssumption, AreWorkers, PutsSpared
    DEF LeavesAfresh, Frees, Replies, RowIs, Moves, PutKept, KnownOf, PutSound, RowSound,
        WorkerSound, AttemptSound, SettledCopyOf, SettlePCs, WorkingCopyOf, Working, WorkPCs,
        Claimable, HistTypes, Histories
  <1>7. StagesOnRecord'
    BY <1>1, StagesKept DEF LeavesAfresh, Frees, RowIs
  <1>8. DestPublished' /\ RenamesInspected' /\ OneSender' /\ RejectedIsFinal'
    BY <1>1, <1>2, DestKept, SenderKept DEF LeavesAfresh, Replies, Moves
  <1>9. FailureIsClean' /\ RejectionIsOver'
    BY <1>1, <1>2, AreWorkers, ResultsKept
    DEF LeavesAfresh, Failing, Replies, Moves, Harmless, LockedPCs
  <1> QED
    BY <1>2, <1>3, <1>4, <1>5, <1>6, <1>7, <1>8, <1>9, AreWorkers, AllKept

\* A receive leaves its own record as one of unknown outcome: the invariant is
\* kept.
LEMMA LeavesOwnKeeps ==
    ASSUME PutInv, NEW a \in Attempts, LeavesOwn(a)
    PROVE  Sound'
  <1>1. KnownOf(a)
    BY AttemptKnown
  <1>2. Spares(a) /\ SparesSessions(a)
    BY <1>1, PutAssumption, AreWorkers
    DEF LeavesOwn, Spares, Replies, Marks, LockedPCs, Moves, NoRow, RowIs, KnownOf, WorkerSound,
        PutSound, AttemptSound, RowSound, SettledCopyOf, SettlePCs, WorkingCopyOf, Working,
        WorkPCs, HistTypes, Histories, Workers, SparesSessions
  <1>3. \A x \in Attempts : x # a => SessionOf(x)' /\ CommitKnownBy(x)'
    BY <1>2, SessionsSpared
  <1>4. WorkerSound(a)'
    BY <1>1, NotSettling DEF LeavesOwn, Replies, Moves, SettlePCs, KnownOf
  <1>5. AttemptSound(a)'
    BY <1>1, AtRest DEF LeavesOwn, Replies, Moves, KnownOf, AttemptSound, CommitKnownBy, SessionOf
  <1>6. \A u \in Puts : u # wk[a].put => PutKept(u)
    BY <1>1, PutAssumption, AreWorkers
    DEF LeavesOwn, Replies, Marks, Moves, RowIs, PutKept, KnownOf, PutSound, RowSound,
        WorkerSound, AttemptSound, SettledCopyOf, SettlePCs, WorkingCopyOf, Working, WorkPCs,
        Claimable, HistTypes, Histories
  <1>7. \A u \in Puts : u = wk[a].put => PutSound(u)'
    BY <1>1, PutAssumption, AreWorkers
    DEF LeavesOwn, PutSound, Replies, Marks, RowSound, PastRecordedOf, CommitRecordedOf,
        CleanedSoundOf, PublishedOnceOf, Moves, NoRow, RowIs, KnownOf, WorkerSound, AttemptSound,
        WorkingCopyOf, Working, WorkPCs, SettlePCs, SettledCopyOf, PlanOf, NotYetPublishedBy,
        HistTypes, Histories, Workers
  <1>8. \A u \in Puts : PutSound(u)'
    BY <1>2, <1>6, <1>7, PutsSpared
  <1>9. StagesOnRecord'
    BY <1>1, StagesKept DEF LeavesOwn, Marks, RowIs
  <1>10. DestPublished' /\ RenamesInspected' /\ OneSender' /\ RejectedIsFinal'
    BY <1>1, <1>2, DestKept, SenderKept DEF LeavesOwn, Replies, Moves
  <1>11. FailureIsClean' /\ RejectionIsOver'
    BY <1>1, <1>2, PutAssumption, AreWorkers, NoTerminal, ResultsKept
    DEF LeavesOwn, Failing, Replies, Moves, RowIs, Harmless, LockedPCs
  <1> QED
    BY <1>2, <1>3, <1>4, <1>5, <1>8, <1>9, <1>10, <1>11, AreWorkers, AllKept

\* A receive notes that the record it settles was published: the invariant is
\* kept.
LEMMA CommitsKeeps ==
    ASSUME PutInv, NEW a \in Attempts, Commits(a)
    PROVE  Sound'
  <1>1. KnownOf(a)
    BY AttemptKnown
  <1>2. Spares(a) /\ SparesSessions(a)
    BY <1>1, PutAssumption, AreWorkers
    DEF Commits, Spares, Marks, Moves, LockedPCs, RowIs, KnownOf, WorkerSound, PutSound,
        AttemptSound, RowSound, SettledCopyOf, SettlePCs, WorkingCopyOf, Working, WorkPCs,
        HistTypes, Histories, NoRow, Workers, SparesSessions
  <1>3. \A x \in Attempts : x # a => SessionOf(x)' /\ CommitKnownBy(x)'
    BY <1>2, SessionsSpared
  <1>4. WorkerSound(a)'
    BY <1>1, PutAssumption, AreWorkers
    DEF Commits, SettledCopyOf, Marks, Moves, SettlePCs, RowIs, KnownOf, WorkerSound, PutSound,
        AttemptSound, WorkingCopyOf, Working, WorkPCs, LoadedCopyOf, RowSound, OperatorQuits,
        HistTypes, Histories, NoRow, Workers, PlanOf, PastRecordedOf, DestPublished,
        NotYetPublishedBy, CommitKnownBy
  <1>5. AttemptSound(a)'
    <2>1. LockHeldBy(a)' /\ LoadedCopyOf(a)' /\ NotYetPublishedBy(a)' /\ CommitKnownBy(a)'
            /\ SessionOf(a)' /\ PutOf[a] \notin wk'[a].todo
      BY <1>1, PutAssumption, AreWorkers
      DEF Commits, LockHeldBy, LockedPCs, RowIs, KnownOf, WorkerSound, PutSound, AttemptSound,
          HistTypes, Histories, NoRow, Workers, LoadedCopyOf, Marks, Moves, NotYetPublishedBy,
          CommitKnownBy, PlanOf, SettledCopyOf, SettlePCs, CommitRecordedOf, Types, SessionOf,
          Terminals
    <2>2. WorkingCopyOf(a)'
      BY <1>1, PutAssumption, AreWorkers
      DEF Commits, WorkingCopyOf, Marks, Moves, Working, RowIs, WorkPCs, SettlePCs, KnownOf,
          WorkerSound, PutSound, AttemptSound, LoadedCopyOf, SettledCopyOf, PlanOf, RowSound,
          HistTypes, Histories, NoRow, Workers
    <2> QED
      BY <2>1, <2>2 DEF AttemptSound
  <1>6. \A u \in Puts : u # wk[a].put => PutKept(u)
    BY <1>1, PutAssumption, AreWorkers
    DEF Commits, Marks, Moves, RowIs, PutKept, KnownOf, PutSound, RowSound, WorkerSound,
        AttemptSound, SettlePCs
  <1>7. \A u \in Puts : u = wk[a].put => PutSound(u)'
    BY <1>1, PutAssumption, AreWorkers
    DEF Commits, PutSound, Marks, Moves, RowSound, PastRecordedOf, CommitRecordedOf,
        CleanedSoundOf, PublishedOnceOf, RowIs, KnownOf, WorkerSound, AttemptSound, WorkingCopyOf,
        Working, WorkPCs, SettlePCs, SettledCopyOf, PlanOf, NotYetPublishedBy, HistTypes,
        Histories, NoRow, Workers
  <1>8. \A u \in Puts : PutSound(u)'
    BY <1>2, <1>6, <1>7, PutsSpared
  <1>9. StagesOnRecord'
    BY <1>1, StagesKept DEF Commits, Marks, RowIs
  <1>10. DestPublished' /\ RenamesInspected' /\ OneSender' /\ RejectedIsFinal'
    BY <1>1, <1>2, DestKept, SenderKept DEF Commits, Marks, Moves
  <1>11. FailureIsClean' /\ RejectionIsOver'
    BY <1>1, <1>2, AreWorkers, ResultsKept DEF Commits, Failing, Moves, Harmless, LockedPCs
  <1> QED
    BY <1>2, <1>3, <1>4, <1>5, <1>8, <1>9, <1>10, <1>11, AreWorkers, AllKept

\* A worker notes that the record it settles is to be cleaned up: the
\* invariant is kept.
LEMMA BeginsCleanupKeeps ==
    ASSUME PutInv, NEW w \in Workers, BeginsCleanup(w)
    PROVE  Sound'
  <1>1. KnownOf(w)
    BY WorkerKnown
  <1>2. Spares(w) /\ SparesSessions(w)
    BY <1>1, PutAssumption, AreWorkers
    DEF BeginsCleanup, Spares, Marks, Moves, LockedPCs, RowIs, KnownOf, WorkerSound, AttemptSound,
        RowSound, SettledCopyOf, SettlePCs, HistTypes, Histories, NoRow, Workers, SparesSessions
  <1>3. \A x \in Attempts : x # w => SessionOf(x)' /\ CommitKnownBy(x)'
    BY <1>2, SessionsSpared
  <1>4. WorkerSound(w)'
    <2>1. SettledCopyOf(w)'
      BY <1>1
      DEF BeginsCleanup, SettledCopyOf, Marks, Moves, SettlePCs, RowIs, KnownOf, WorkerSound
    <2>2. PlanOf(w)'
      BY <1>1, PutAssumption, AreWorkers
      DEF BeginsCleanup, PlanOf, Marks, Moves, RowIs, KnownOf, WorkerSound, PutSound,
          AttemptSound, SettledCopyOf, SettlePCs, RowSound, PastRecordedOf, DestPublished,
          OperatorQuits, PutInv, Sound, Types, HistTypes, Histories, NoRow, Workers
    <2> QED
      BY <2>1, <2>2 DEF WorkerSound
  <1>5. w \in Attempts => AttemptSound(w)'
    <2>1. w \in Attempts => LockHeldBy(w)' /\ LoadedCopyOf(w)' /\ NotYetPublishedBy(w)'
            /\ CommitKnownBy(w)' /\ SessionOf(w)' /\ PutOf[w] \notin wk'[w].todo
      BY <1>1, PutAssumption, AreWorkers
      DEF BeginsCleanup, LockHeldBy, LockedPCs, RowIs, KnownOf, WorkerSound, PutSound,
          AttemptSound, HistTypes, Histories, NoRow, Workers, LoadedCopyOf, Marks, Moves,
          SettledCopyOf, SettlePCs, PlanOf, RowSound, NotYetPublishedBy, CommitKnownBy,
          CommitRecordedOf, PutInv, Sound, Types, SessionOf, Terminals
    <2>2. w \in Attempts => WorkingCopyOf(w)'
      BY <1>1, PutAssumption, AreWorkers
      DEF BeginsCleanup, WorkingCopyOf, Marks, Moves, Working, RowIs, WorkPCs, SettlePCs, KnownOf,
          WorkerSound, AttemptSound, LoadedCopyOf, SettledCopyOf, PlanOf, RowSound, HistTypes,
          Histories, NoRow, Workers
    <2> QED
      BY <2>1, <2>2 DEF AttemptSound
  <1>6. OperatorQuits'
    BY <1>1, AreWorkers DEF BeginsCleanup, OperatorQuits, Moves, KnownOf
  <1>7. \A u \in Puts : u # wk[w].put => PutKept(u)
    BY <1>1, PutAssumption, AreWorkers
    DEF BeginsCleanup, Marks, Moves, RowIs, PutKept, KnownOf, PutSound, RowSound, Claimable,
        Histories
  <1>8. \A u \in Puts : u = wk[w].put => PutSound(u)'
    BY <1>1, PutAssumption, AreWorkers
    DEF BeginsCleanup, PutSound, Marks, Moves, RowSound, PastRecordedOf, CommitRecordedOf,
        CleanedSoundOf, PublishedOnceOf, RowIs, KnownOf, WorkerSound, AttemptSound, SettledCopyOf,
        SettlePCs, PlanOf, HistTypes, Histories, NoRow, Workers
  <1>9. \A u \in Puts : PutSound(u)'
    BY <1>2, <1>7, <1>8, PutsSpared
  <1>10. StagesOnRecord'
    BY <1>1, StagesKept DEF BeginsCleanup, Marks, RowIs
  <1>11. DestPublished' /\ RenamesInspected' /\ OneSender' /\ RejectedIsFinal'
    BY <1>1, <1>2, DestKept, SenderKept DEF BeginsCleanup, Marks, Moves
  <1>12. FailureIsClean' /\ RejectionIsOver'
    BY <1>1, <1>2, AreWorkers, ResultsKept DEF BeginsCleanup, Failing, Moves, Harmless, LockedPCs
  <1> QED
    BY <1>2, <1>3, <1>4, <1>5, <1>6, <1>9, <1>10, <1>11, <1>12, AreWorkers, AllKept

\* A worker removes the stage of the record it settles: the invariant is kept.
LEMMA UnlinksKeeps ==
    ASSUME PutInv, NEW w \in Workers, Unlinks(w)
    PROVE  Sound'
  <1>1. KnownOf(w)
    BY WorkerKnown
  <1>2. Spares(w) /\ SparesSessions(w)
    BY <1>1 DEF Unlinks, Spares, Steps, Moves, SparesSessions
  <1>3. \A x \in Attempts : x # w => SessionOf(x)' /\ CommitKnownBy(x)'
    BY <1>2, SessionsSpared
  <1>4. WorkerSound(w)'
    BY <1>1, PutAssumption, AreWorkers
    DEF Unlinks, SettledCopyOf, Steps, SettlePCs, Moves, KnownOf, WorkerSound, PutSound,
        AttemptSound, RowSound, OperatorQuits, HistTypes, Histories, NoRow, Workers, PlanOf,
        PastRecordedOf, DestPublished, PutInv, Sound, Types
  <1>5. w \in Attempts => AttemptSound(w)'
    BY <1>1, PutAssumption, AreWorkers
    DEF Unlinks, LockHeldBy, LockedPCs, Moves, KnownOf, WorkerSound, PutSound, AttemptSound,
        HistTypes, Histories, NoRow, Workers, LoadedCopyOf, Steps, WorkingCopyOf, Working,
        WorkPCs, SettlePCs, NotYetPublishedBy, CommitKnownBy, PlanOf, SettledCopyOf,
        CommitRecordedOf, PutInv, Sound, Types, SessionOf, Terminals
  <1>6. OperatorQuits'
    BY <1>1, AreWorkers DEF Unlinks, OperatorQuits, Steps, Moves, KnownOf
  <1>7. \A u \in Puts : PutSound(u)'
    BY <1>1, <1>2, PutAssumption, AreWorkers, PutsSpared
    DEF Unlinks, Steps, Moves, PutKept, KnownOf, PutSound, RowSound, AttemptSound, SettlePCs
  <1>8. StagesOnRecord'
    BY <1>1, PutAssumption, AreWorkers, NoTerminal
    DEF Unlinks, StagesOnRecord, Steps, Moves, PutInv, Sound, Types, KnownOf, AttemptSound,
        WorkerSound, PutSound, HistTypes, Histories, NoRow, Workers, RowSound, SettlePCs,
        WorkingCopyOf, Working, WorkPCs, CleanedSoundOf, OperatorQuits, DiskTypes, RowTypes, Rows,
        Identities
  <1>9. DestPublished' /\ RenamesInspected' /\ OneSender' /\ RejectedIsFinal'
    BY <1>1, <1>2, DestKept, SenderKept DEF Unlinks, Steps, Moves
  <1>10. FailureIsClean' /\ RejectionIsOver'
    BY <1>1, <1>2, AreWorkers, ResultsKept DEF Unlinks, Failing, Steps, Moves, Harmless, LockedPCs
  <1> QED
    BY <1>2, <1>3, <1>4, <1>5, <1>6, <1>7, <1>8, <1>9, <1>10, AreWorkers, AllKept

\* A worker notes that the stage is gone: the invariant is kept.
LEMMA MarksCleanedKeeps ==
    ASSUME PutInv, NEW w \in Workers, MarksCleaned(w)
    PROVE  Sound'
  <1>1. KnownOf(w)
    BY WorkerKnown
  <1>2. Spares(w) /\ SparesSessions(w)
    BY <1>1, PutAssumption, AreWorkers
    DEF MarksCleaned, Spares, RowIs, Steps, LockedPCs, Moves, WorkerSound, PutSound, AttemptSound,
        RowSound, SettledCopyOf, SettlePCs, HistTypes, Histories, NoRow, Workers, SparesSessions
  <1>3. \A x \in Attempts : x # w => SessionOf(x)' /\ CommitKnownBy(x)'
    BY <1>2, SessionsSpared
  <1>4. WorkerSound(w)'
    <2>1. SettledCopyOf(w)'
      BY <1>1
      DEF MarksCleaned, SettledCopyOf, RowIs, Steps, SettlePCs, Moves, KnownOf, WorkerSound
    <2>2. PlanOf(w)'
      BY <1>1, PutAssumption, AreWorkers
      DEF MarksCleaned, PlanOf, RowIs, Steps, Moves, KnownOf, WorkerSound, PutSound, AttemptSound,
          SettledCopyOf, SettlePCs, RowSound, PastRecordedOf, DestPublished, OperatorQuits,
          PutInv, Sound, Types, HistTypes, Histories, NoRow, Workers
    <2> QED
      BY <2>1, <2>2 DEF WorkerSound
  <1>5. w \in Attempts => AttemptSound(w)'
    <2>1. w \in Attempts => LockHeldBy(w)' /\ LoadedCopyOf(w)' /\ NotYetPublishedBy(w)'
            /\ CommitKnownBy(w)' /\ SessionOf(w)' /\ PutOf[w] \notin wk'[w].todo
      BY <1>1, PutAssumption, AreWorkers
      DEF MarksCleaned, LockHeldBy, LockedPCs, Moves, KnownOf, WorkerSound, PutSound,
          AttemptSound, HistTypes, Histories, NoRow, Workers, LoadedCopyOf, RowIs, Steps,
          SettledCopyOf, SettlePCs, PlanOf, RowSound, NotYetPublishedBy, CommitKnownBy,
          CommitRecordedOf, PutInv, Sound, Types, SessionOf, Terminals
    <2>2. w \in Attempts => WorkingCopyOf(w)'
      BY <1>1, PutAssumption, AreWorkers
      DEF MarksCleaned, WorkingCopyOf, RowIs, Steps, Working, Moves, WorkPCs, SettlePCs, KnownOf,
          WorkerSound, PutSound, AttemptSound, LoadedCopyOf, SettledCopyOf, PlanOf, RowSound,
          HistTypes, Histories, NoRow, Workers
    <2> QED
      BY <2>1, <2>2 DEF AttemptSound
  <1>6. OperatorQuits'
    BY <1>1, AreWorkers DEF MarksCleaned, OperatorQuits, Steps, Moves, KnownOf
  <1>7. \A u \in Puts : u # wk[w].put => PutKept(u)
    BY <1>1 DEF MarksCleaned, RowIs, PutKept, KnownOf, PutSound, RowSound
  <1>8. \A u \in Puts : u = wk[w].put => PutSound(u)'
    BY <1>1, PutAssumption, AreWorkers
    DEF MarksCleaned, PutSound, RowIs, Steps, RowSound, PastRecordedOf, CommitRecordedOf,
        CleanedSoundOf, PublishedOnceOf, Moves, KnownOf, WorkerSound, AttemptSound, SettledCopyOf,
        SettlePCs, PlanOf, HistTypes, Histories, NoRow, Workers
  <1>9. \A u \in Puts : PutSound(u)'
    BY <1>2, <1>7, <1>8, PutsSpared
  <1>10. StagesOnRecord'
    BY <1>1, StagesKept DEF MarksCleaned, RowIs
  <1>11. DestPublished' /\ RenamesInspected' /\ OneSender' /\ RejectedIsFinal'
    BY <1>1, <1>2, DestKept, SenderKept DEF MarksCleaned, Steps, Moves
  <1>12. FailureIsClean' /\ RejectionIsOver'
    BY <1>1, <1>2, AreWorkers, ResultsKept
    DEF MarksCleaned, Failing, Steps, Moves, Harmless, LockedPCs
  <1> QED
    BY <1>2, <1>3, <1>4, <1>5, <1>6, <1>9, <1>10, <1>11, <1>12, AreWorkers, AllKept

\* A receive answers with its record not cleaned up: the invariant is kept.
LEMMA ReportsUncleanKeeps ==
    ASSUME PutInv, NEW w \in Workers, ReportsUnclean(w)
    PROVE  Sound'
  <1>1. KnownOf(w)
    BY WorkerKnown
  <1>2. Spares(w) /\ SparesSessions(w)
    BY <1>1, PutAssumption, AreWorkers
    DEF ReportsUnclean, Spares, Replies, RowIs, LockedPCs, Moves, NoRow, KnownOf, WorkerSound,
        PutSound, AttemptSound, RowSound, SettledCopyOf, SettlePCs, HistTypes, Histories, Workers,
        SparesSessions
  <1>3. \A x \in Attempts : x # w => SessionOf(x)' /\ CommitKnownBy(x)'
    BY <1>2, SessionsSpared
  <1>4. WorkerSound(w)'
    BY <1>1, NotSettling DEF ReportsUnclean, Replies, Moves, SettlePCs
  <1>5. w \in Attempts => AttemptSound(w)'
    BY <1>1, NoTerminal, AtRest, PutAssumption
    DEF ReportsUnclean, Replies, RowIs, Moves, KnownOf, AttemptSound, CommitKnownBy, SessionOf,
        Terminals, Active, WorkerSound, PlanOf, SettledCopyOf, SettlePCs
  <1>6. OperatorQuits'
    BY <1>1, AreWorkers DEF ReportsUnclean, OperatorQuits, Replies, Moves, KnownOf
  <1>7. \A u \in Puts : PutSound(u)'
    BY <1>1, <1>2, PutAssumption, AreWorkers, PutsSpared
    DEF ReportsUnclean, Replies, RowIs, Moves, PutKept, KnownOf, PutSound, RowSound, AttemptSound,
        SettlePCs
  <1>8. StagesOnRecord'
    BY <1>1, StagesKept DEF ReportsUnclean, RowIs
  <1>9. DestPublished' /\ RenamesInspected' /\ OneSender' /\ RejectedIsFinal'
    BY <1>1, <1>2, DestKept, SenderKept DEF ReportsUnclean, Replies, Moves
  <1>10. FailureIsClean' /\ RejectionIsOver'
    BY <1>1, <1>2, AreWorkers, ResultsKept
    DEF ReportsUnclean, Failing, Replies, RowIs, Active, Moves, Harmless, LockedPCs
  <1> QED
    BY <1>2, <1>3, <1>4, <1>5, <1>6, <1>7, <1>8, <1>9, <1>10, AreWorkers, AllKept

\* A worker gives up a record that is not its own put: the invariant is kept.
LEMMA StopsSettlingKeeps ==
    ASSUME PutInv, NEW w \in Workers, StopsSettling(w)
    PROVE  Sound'
  <1>1. KnownOf(w)
    BY WorkerKnown
  <1>2. Spares(w) /\ SparesSessions(w)
    BY <1>1, PutAssumption, AreWorkers
    DEF StopsSettling, Spares, Idles, Frees, LockedPCs, Moves, NoRow, RowIs, KnownOf, WorkerSound,
        PutSound, AttemptSound, RowSound, SettledCopyOf, SettlePCs, HistTypes, Histories, Workers,
        SparesSessions
  <1>3. \A x \in Attempts : x # w => SessionOf(x)' /\ CommitKnownBy(x)'
    BY <1>2, SessionsSpared
  <1>4. WorkerSound(w)'
    BY <1>1, NotSettling DEF StopsSettling, Idles, Moves, SettlePCs
  <1>5. w \in Attempts => AttemptSound(w)'
    <2>1. w \in Attempts => LockHeldBy(w)' /\ LoadedCopyOf(w)' /\ NotYetPublishedBy(w)'
            /\ PutOf[w] \notin wk'[w].todo
      BY <1>1, PutAssumption, AreWorkers
      DEF StopsSettling, LockHeldBy, Idles, Frees, LockedPCs, Moves, NoRow, RowIs, KnownOf,
          WorkerSound, PutSound, AttemptSound, HistTypes, Histories, Workers, LoadedCopyOf,
          SettledCopyOf, SettlePCs, PlanOf, RowSound, NotYetPublishedBy, Working, WorkPCs,
          PastRecordedOf
    <2>2. w \in Attempts => WorkingCopyOf(w)'
      BY <1>1, PutAssumption, AreWorkers
      DEF StopsSettling, WorkingCopyOf, Idles, Frees, Working, Moves, NoRow, RowIs, WorkPCs,
          SettlePCs, KnownOf, WorkerSound, PutSound, AttemptSound, LoadedCopyOf, SettledCopyOf,
          PlanOf, RowSound, HistTypes, Histories, Workers
    <2>3. w \in Attempts => CommitKnownBy(w)' /\ SessionOf(w)'
      BY <1>1, PutAssumption, AreWorkers
      DEF StopsSettling, CommitKnownBy, Idles, Frees, Moves, NoRow, RowIs, KnownOf, WorkerSound,
          PutSound, AttemptSound, PlanOf, SettledCopyOf, SettlePCs, CommitRecordedOf, PutInv,
          Sound, Types, HistTypes, Histories, Workers, SessionOf, SenderTypes
    <2> QED
      BY <2>1, <2>2, <2>3 DEF AttemptSound
  <1>6. OperatorQuits'
    BY <1>1, AreWorkers DEF StopsSettling, OperatorQuits, Idles, Moves, KnownOf
  <1>7. \A u \in Puts : PutSound(u)'
    BY <1>1, <1>2, AreWorkers, PutsSpared
    DEF StopsSettling, Idles, Frees, Moves, RowIs, PutKept, KnownOf, PutSound, RowSound,
        AttemptSound, SettledCopyOf
  <1>8. StagesOnRecord'
    BY <1>1, StagesKept DEF StopsSettling, Frees, RowIs
  <1>9. DestPublished' /\ RenamesInspected' /\ OneSender' /\ RejectedIsFinal'
    BY <1>1, <1>2, DestKept, SenderKept DEF StopsSettling, Idles, Moves
  <1>10. FailureIsClean' /\ RejectionIsOver'
    BY <1>1, <1>2, AreWorkers, ResultsKept
    DEF StopsSettling, Failing, Idles, Active, Moves, Harmless, LockedPCs
  <1> QED
    BY <1>2, <1>3, <1>4, <1>5, <1>6, <1>7, <1>8, <1>9, <1>10, AreWorkers, AllKept

\* A receive drops its record and reports the failure: the invariant is kept.
LEMMA ReportsFailureKeeps ==
    ASSUME PutInv, NEW w \in Workers, ReportsFailure(w)
    PROVE  Sound'
  <1>1. KnownOf(w)
    BY WorkerKnown
  <1>2. Spares(w) /\ SparesSessions(w)
    BY <1>1, PutAssumption, AreWorkers
    DEF ReportsFailure, Spares, Drops, Replies, LockedPCs, Dropped, Moves, NoRow, KnownOf,
        WorkerSound, PutSound, AttemptSound, RowSound, SettledCopyOf, SettlePCs, HistTypes,
        Histories, Workers, SparesSessions
  <1>3. \A x \in Attempts : x # w => SessionOf(x)' /\ CommitKnownBy(x)'
    BY <1>2, SessionsSpared
  <1>4. WorkerSound(w)'
    BY <1>1, NotSettling DEF ReportsFailure, Replies, Moves, SettlePCs
  <1>5. w \in Attempts => AttemptSound(w)'
    BY <1>1, NoTerminal, AtRest, PutAssumption
    DEF ReportsFailure, Drops, Replies, Dropped, Moves, KnownOf, AttemptSound, CommitKnownBy,
        SessionOf, Terminals, Active, PlanOf, SettledCopyOf, SettlePCs
  <1>6. OperatorQuits'
    BY <1>1, AreWorkers DEF ReportsFailure, OperatorQuits, Replies, Moves, KnownOf
  <1>7. \A u \in Puts : u # wk[w].put => PutKept(u)
    BY <1>1, PutAssumption, AreWorkers
    DEF ReportsFailure, Drops, Replies, Dropped, Moves, PutKept, KnownOf, PutSound, RowSound,
        WorkerSound, AttemptSound, SettledCopyOf, SettlePCs, WorkingCopyOf, Working, WorkPCs,
        Claimable, HistTypes, Histories
  <1>8. \A u \in Puts : u = wk[w].put => PutSound(u)'
    BY <1>1, PutAssumption, AreWorkers
    DEF ReportsFailure, PutSound, Drops, Replies, RowSound, PastRecordedOf, CommitRecordedOf,
        CleanedSoundOf, PublishedOnceOf, Dropped, Moves, NoRow, KnownOf, WorkerSound,
        AttemptSound, SettledCopyOf, SettlePCs, PlanOf, HistTypes, Histories, Workers
  <1>9. \A u \in Puts : PutSound(u)'
    BY <1>2, <1>7, <1>8, PutsSpared
  <1>10. StagesOnRecord'
    BY <1>1, StagesKept DEF ReportsFailure, Drops, KnownOf, WorkerSound, SettledCopyOf, SettlePCs
  <1>11. DestPublished' /\ RenamesInspected' /\ OneSender' /\ RejectedIsFinal'
    BY <1>1, <1>2, DestKept, SenderKept DEF ReportsFailure, Replies, Moves
  <1>12. FailureIsClean' /\ RejectionIsOver'
    BY <1>2, <1>1, ReportsFailureFails
  <1> QED
    BY <1>2, <1>3, <1>4, <1>5, <1>6, <1>9, <1>10, <1>11, <1>12, AreWorkers, AllKept

\* A receive detaches the stage and reports the commit: the invariant is kept.
LEMMA ReportsCommitKeeps ==
    ASSUME PutInv, NEW w \in Workers, ReportsCommit(w)
    PROVE  Sound'
  <1>1. KnownOf(w)
    BY WorkerKnown
  <1>2. Spares(w) /\ SparesSessions(w)
    BY <1>1, PutAssumption, AreWorkers
    DEF ReportsCommit, Spares, Drops, Replies, LockedPCs, Dropped, Moves, NoRow, KnownOf,
        WorkerSound, PutSound, AttemptSound, RowSound, SettledCopyOf, SettlePCs, HistTypes,
        Histories, Workers, SparesSessions
  <1>3. \A x \in Attempts : x # w => SessionOf(x)' /\ CommitKnownBy(x)'
    BY <1>2, SessionsSpared
  <1>4. WorkerSound(w)'
    BY <1>1, NotSettling DEF ReportsCommit, Replies, Moves, SettlePCs
  <1>5. w \in Attempts => AttemptSound(w)'
    BY <1>1, NoTerminal, AtRest, PutAssumption
    DEF ReportsCommit, Drops, Replies, Dropped, Moves, KnownOf, AttemptSound, CommitKnownBy,
        SessionOf, Terminals, Active, WorkerSound, PlanOf, SettledCopyOf, SettlePCs
  <1>6. OperatorQuits'
    BY <1>1, AreWorkers DEF ReportsCommit, OperatorQuits, Replies, Moves, KnownOf
  <1>7. \A u \in Puts : u # wk[w].put => PutKept(u)
    BY <1>1, PutAssumption, AreWorkers
    DEF ReportsCommit, Drops, Replies, Moves, PutKept, KnownOf, PutSound, RowSound, AttemptSound
  <1>8. \A u \in Puts : u = wk[w].put => PutSound(u)'
    BY <1>1, PutAssumption, AreWorkers
    DEF ReportsCommit, PutSound, Drops, Replies, RowSound, PastRecordedOf, CommitRecordedOf,
        CleanedSoundOf, PublishedOnceOf, Dropped, Moves, NoRow, KnownOf, WorkerSound,
        AttemptSound, SettledCopyOf, SettlePCs, PlanOf, HistTypes, Histories, Workers
  <1>9. \A u \in Puts : PutSound(u)'
    BY <1>2, <1>7, <1>8, PutsSpared
  <1>10. StagesOnRecord'
    BY <1>1, PutAssumption, StagesKept
    DEF ReportsCommit, Drops, Moves, KnownOf, WorkerSound, SettledCopyOf, SettlePCs
  <1>11. DestPublished' /\ RenamesInspected' /\ OneSender' /\ RejectedIsFinal'
    BY <1>1, <1>2, DestKept, SenderKept DEF ReportsCommit, Replies, Moves
  <1>12. FailureIsClean' /\ RejectionIsOver'
    BY <1>1, <1>2, PutAssumption, AreWorkers, ResultsKept
    DEF ReportsCommit, Failing, Replies, Moves, Harmless, LockedPCs
  <1> QED
    BY <1>2, <1>3, <1>4, <1>5, <1>6, <1>9, <1>10, <1>11, <1>12, AreWorkers, AllKept

\* A receive drops the record of an earlier attempt and begins again: the
\* invariant is kept.
LEMMA StartsAfreshKeeps ==
    ASSUME PutInv, NEW w \in Workers, StartsAfresh(w)
    PROVE  Sound'
  <1>1. KnownOf(w)
    BY WorkerKnown
  <1>2. Spares(w) /\ SparesSessions(w)
    BY <1>1, PutAssumption, AreWorkers
    DEF StartsAfresh, Spares, Drops, Moves, NoRow, LockedPCs, Dropped, KnownOf, WorkerSound,
        PutSound, AttemptSound, RowSound, SettledCopyOf, SettlePCs, HistTypes, Histories, Workers,
        SparesSessions
  <1>3. \A x \in Attempts : x # w => SessionOf(x)' /\ CommitKnownBy(x)'
    BY <1>2, SessionsSpared
  <1>4. WorkerSound(w)'
    BY <1>1, NotSettling DEF StartsAfresh, SettlePCs
  <1>5. w \in Attempts => AttemptSound(w)'
    BY <1>1, PutAssumption, AreWorkers, NoTerminal
    DEF StartsAfresh, LockHeldBy, Drops, Moves, NoRow, LockedPCs, Dropped, KnownOf, WorkerSound,
        PutSound, AttemptSound, HistTypes, Histories, Workers, LoadedCopyOf, SettledCopyOf,
        SettlePCs, PlanOf, RowSound, WorkingCopyOf, Working, WorkPCs, NotYetPublishedBy,
        CommitKnownBy, SessionOf, Active, Terminals
  <1>6. OperatorQuits'
    BY <1>1 DEF StartsAfresh, OperatorQuits, Moves, KnownOf, AttemptSound, Workers
  <1>7. \A u \in Puts : u # wk[w].put => PutKept(u)
    BY <1>1, PutAssumption, AreWorkers
    DEF StartsAfresh, Drops, Moves, Dropped, PutKept, KnownOf, PutSound, RowSound, WorkerSound,
        AttemptSound, SettledCopyOf, SettlePCs, WorkingCopyOf, Working, WorkPCs, Claimable,
        HistTypes, Histories
  <1>8. \A u \in Puts : u = wk[w].put => PutSound(u)'
    BY <1>1, PutAssumption, AreWorkers
    DEF StartsAfresh, PutSound, Drops, Moves, NoRow, RowSound, PastRecordedOf, CommitRecordedOf,
        CleanedSoundOf, PublishedOnceOf, Dropped, KnownOf, WorkerSound, AttemptSound,
        SettledCopyOf, SettlePCs, PlanOf, HistTypes, Histories, Workers
  <1>9. \A u \in Puts : PutSound(u)'
    BY <1>2, <1>7, <1>8, PutsSpared
  <1>10. StagesOnRecord'
    BY <1>1, StagesKept
    DEF StartsAfresh, Drops, Moves, KnownOf, WorkerSound, SettledCopyOf, SettlePCs
  <1>11. DestPublished' /\ RenamesInspected' /\ OneSender' /\ RejectedIsFinal'
    BY <1>1, <1>2, DestKept, PutAssumption, SenderKept DEF StartsAfresh
  <1>12. FailureIsClean' /\ RejectionIsOver'
    BY <1>1, <1>2, PutAssumption, AreWorkers, NoTerminal, ResultsKept
    DEF StartsAfresh, Failing, Drops, Moves, Harmless, LockedPCs
  <1> QED
    BY <1>2, <1>3, <1>4, <1>5, <1>6, <1>9, <1>10, <1>11, <1>12, AreWorkers, AllKept

\* A receive drops its record and returns without an answer: the invariant is
\* kept.
LEMMA ReturnsSilentlyKeeps ==
    ASSUME PutInv, NEW a \in Attempts, ReturnsSilently(a)
    PROVE  Sound'
  <1>1. KnownOf(a)
    BY AttemptKnown
  <1>2. Spares(a)
    BY <1>1, PutAssumption, AreWorkers
    DEF ReturnsSilently, Spares, Dropped, Returns, LockedPCs, Ends, LinkIs, Moves, NoRow, KnownOf,
        WorkerSound, PutSound, AttemptSound, RowSound, SettledCopyOf, SettlePCs, WorkingCopyOf,
        Working, WorkPCs, HistTypes, Histories, Workers
  <1>3. SparesSessions(a)
    BY <1>1 DEF ReturnsSilently, SparesSessions, Returns, LinkIs
  <1>4. \A x \in Attempts : x # a => SessionOf(x)' /\ CommitKnownBy(x)'
    BY <1>2, <1>3, SessionsSpared
  <1>5. WorkerSound(a)'
    BY <1>1, NotSettling DEF ReturnsSilently, Returns, Ends, Moves, SettlePCs, KnownOf
  <1>6. AttemptSound(a)'
    BY <1>1, AtRest
    DEF ReturnsSilently, Returns, Ends, LinkIs, Moves, KnownOf, AttemptSound, CommitKnownBy,
        SessionOf
  <1>7. \A u \in Puts : u # wk[a].put => PutKept(u)
    BY <1>1, PutAssumption, AreWorkers
    DEF ReturnsSilently, Returns, Ends, LinkIs, Moves, PutKept, KnownOf, PutSound, RowSound,
        WorkerSound, AttemptSound, SettledCopyOf, SettlePCs, WorkingCopyOf, Working, WorkPCs,
        Claimable, HistTypes, Histories
  <1>8. \A u \in Puts : u = wk[a].put => PutSound(u)'
    <2>1. \A u \in Puts : u = wk[a].put => RowSound(u)'
      BY <1>1, PutAssumption, AreWorkers
      DEF ReturnsSilently, RowSound, Dropped, Returns, Ends, LinkIs, Moves, NoRow, KnownOf,
          WorkerSound, PutSound, AttemptSound, WorkingCopyOf, Working, WorkPCs, SettlePCs,
          SettledCopyOf, HistTypes, Histories, Workers
    <2>2. \A u \in Puts : u = wk[a].put => PastRecordedOf(u)'
      BY <1>1, PutAssumption, AreWorkers
      DEF ReturnsSilently, PastRecordedOf, Dropped, Returns, Ends, LinkIs, Moves, NoRow, KnownOf,
          WorkerSound, PutSound, AttemptSound, WorkingCopyOf, Working, WorkPCs, SettlePCs,
          SettledCopyOf, PlanOf, RowSound, HistTypes, Histories, Workers
    <2>3. \A u \in Puts : u = wk[a].put => CommitRecordedOf(u)'
      BY <1>1, PutAssumption, AreWorkers
      DEF ReturnsSilently, CommitRecordedOf, Dropped, Returns, Ends, LinkIs, Moves, KnownOf,
          PutSound, PlanOf, SettlePCs, WorkingCopyOf, WorkPCs, HistTypes, Histories, Workers
    <2>4. \A u \in Puts : u = wk[a].put => CleanedSoundOf(u)'
      BY <1>1, PutAssumption, AreWorkers
      DEF ReturnsSilently, CleanedSoundOf, Dropped, Returns, Ends, LinkIs, Moves, NoRow, Working,
          WorkPCs, SettlePCs, HistTypes, Histories, Workers
    <2>5. \A u \in Puts : u = wk[a].put => PublishedOnceOf(u)'
      BY <1>1 DEF ReturnsSilently, PublishedOnceOf, KnownOf, PutSound
    <2> QED
      BY <2>1, <2>2, <2>3, <2>4, <2>5 DEF PutSound
  <1>9. \A u \in Puts : PutSound(u)'
    BY <1>2, <1>7, <1>8, PutsSpared
  <1>10. StagesOnRecord'
    BY <1>1, StagesKept DEF ReturnsSilently, KnownOf, WorkerSound, SettledCopyOf, SettlePCs
  <1>11. DestPublished' /\ RenamesInspected' /\ OneSender' /\ RejectedIsFinal'
    BY <1>1, <1>2, DestKept, SenderKept DEF ReturnsSilently, Returns, Ends, Moves
  <1>12. \A x \in Attempts : Failing(x)' => Failing(x)
    BY <1>1, PutAssumption, AreWorkers, NoTerminal
    DEF ReturnsSilently, Failing, Returns, Active, Ends, LinkIs, Moves, Types, KnownOf,
        AttemptSound, WorkerSound, PutSound, HistTypes, Histories, SenderTypes
  <1>13. Harmless(a) /\ row[PutOf[a]].state = "none" => Harmless(a)'
    BY <1>1 DEF ReturnsSilently, Moves, NoRow, Harmless, LockedPCs
  <1>14. FailureIsClean' /\ RejectionIsOver'
    BY <1>2, <1>12, <1>13, ResultsKept DEF ReturnsSilently
  <1> QED
    BY <1>2, <1>4, <1>5, <1>6, <1>9, <1>10, <1>11, <1>14, AreWorkers, AllKept

\* A worker is done with a record that is not its own put: the invariant is
\* kept.
LEMMA FinishesOtherKeeps ==
    ASSUME PutInv, NEW w \in Workers, FinishesOther(w)
    PROVE  Sound'
  <1>1. KnownOf(w)
    BY WorkerKnown
  <1>2. Spares(w) /\ SparesSessions(w)
    BY <1>1, PutAssumption, AreWorkers
    DEF FinishesOther, Spares, Drops, Idles, LockedPCs, Dropped, Moves, NoRow, KnownOf,
        WorkerSound, PutSound, AttemptSound, RowSound, SettledCopyOf, SettlePCs, HistTypes,
        Histories, Workers, SparesSessions
  <1>3. \A x \in Attempts : x # w => SessionOf(x)' /\ CommitKnownBy(x)'
    BY <1>2, SessionsSpared
  <1>4. WorkerSound(w)'
    BY <1>1, NotSettling DEF FinishesOther, Idles, Moves, SettlePCs
  <1>5. w \in Attempts => AttemptSound(w)'
    <2>1. w \in Attempts => LockHeldBy(w)' /\ LoadedCopyOf(w)' /\ NotYetPublishedBy(w)'
            /\ CommitKnownBy(w)' /\ SessionOf(w)' /\ PutOf[w] \notin wk'[w].todo
      BY <1>1, PutAssumption, AreWorkers, NoTerminal
      DEF FinishesOther, LockHeldBy, Drops, Idles, LockedPCs, Dropped, Moves, NoRow, KnownOf,
          WorkerSound, PutSound, AttemptSound, HistTypes, Histories, Workers, LoadedCopyOf,
          SettledCopyOf, SettlePCs, PlanOf, RowSound, NotYetPublishedBy, WorkingCopyOf,
          CommitKnownBy, CommitRecordedOf, PutInv, Sound, Types, SessionOf, SenderTypes
    <2>2. w \in Attempts => WorkingCopyOf(w)'
      BY <1>1, PutAssumption, AreWorkers
      DEF FinishesOther, WorkingCopyOf, Drops, Idles, Working, Dropped, Moves, NoRow, WorkPCs,
          SettlePCs, KnownOf, WorkerSound, AttemptSound, LoadedCopyOf, SettledCopyOf, PlanOf,
          RowSound, HistTypes, Histories, Workers
    <2> QED
      BY <2>1, <2>2 DEF AttemptSound
  <1>6. OperatorQuits'
    BY <1>1, AreWorkers DEF FinishesOther, OperatorQuits, Idles, Moves, KnownOf
  <1>7. \A u \in Puts : PutSound(u)'
    BY <1>1, <1>2, PutAssumption, AreWorkers, PutsSpared
    DEF FinishesOther, Drops, Idles, Dropped, Moves, PutKept, KnownOf, PutSound, RowSound,
        WorkerSound, AttemptSound, SettledCopyOf, PastRecordedOf, CommitRecordedOf,
        CleanedSoundOf, PublishedOnceOf, NoRow, SettlePCs, PlanOf, HistTypes, Histories, Workers
  <1>8. StagesOnRecord'
    BY <1>1, StagesKept DEF FinishesOther, Drops, KnownOf, WorkerSound, SettledCopyOf, SettlePCs
  <1>9. DestPublished' /\ RenamesInspected' /\ OneSender' /\ RejectedIsFinal'
    BY <1>1, <1>2, DestKept, SenderKept DEF FinishesOther, Idles, Moves
  <1>10. FailureIsClean' /\ RejectionIsOver'
    BY <1>1, <1>2, AreWorkers, NoTerminal, ResultsKept
    DEF FinishesOther, Failing, Drops, Idles, Active, Moves, NoRow, PutInv, Sound, Types, KnownOf,
        AttemptSound, Harmless, LockedPCs
  <1> QED
    BY <1>2, <1>3, <1>4, <1>5, <1>6, <1>7, <1>8, <1>9, <1>10, AreWorkers, AllKept

\* A receive sends its result: the invariant is kept.
LEMMA DeliversKeeps ==
    ASSUME PutInv, NEW a \in Attempts, Delivers(a)
    PROVE  Sound'
  <1>1. KnownOf(a)
    BY AttemptKnown
  <1>2. Spares(a) /\ SparesSessions(a)
    BY <1>1 DEF Delivers, Spares, LinkIs, Steps, Moves, SparesSessions
  <1>3. \A x \in Attempts : x # a => SessionOf(x)' /\ CommitKnownBy(x)'
    BY <1>2, SessionsSpared
  <1>4. WorkerSound(a)'
    BY <1>1, NotSettling DEF Delivers, Steps, Moves, SettlePCs, KnownOf
  <1>5. AttemptSound(a)'
    BY <1>1, AtRest
    DEF Delivers, LinkIs, Steps, Moves, KnownOf, AttemptSound, CommitKnownBy, SessionOf
  <1>6. /\ (\A u \in Puts : PutSound(u)') /\ StagesOnRecord' /\ DestPublished'
        /\ RenamesInspected' /\ OneSender' /\ RejectedIsFinal'
    BY <1>1, <1>2, PutsKept, DestKept, SenderKept DEF Delivers, HistSame, HistIs, Steps, Moves
  <1>7. FailureIsClean' /\ RejectionIsOver'
    BY <1>1, <1>2, AreWorkers, ResultsKept
    DEF Delivers, Failing, LinkIs, Steps, Moves, Harmless, LockedPCs
  <1> QED
    BY <1>2, <1>3, <1>4, <1>5, <1>6, <1>7, AreWorkers, AllKept

\* A receive returns, with its lease, lock and session released: the invariant
\* is kept.
LEMMA QuitsKeeps ==
    ASSUME PutInv, NEW a \in Attempts, Quits(a)
    PROVE  Sound'
  <1>1. KnownOf(a)
    BY AttemptKnown
  <1>2. Spares(a) /\ SparesSessions(a)
    BY <1>1 DEF Quits, Spares, Returns, Leaves, Ends, LinkIs, Moves, SparesSessions
  <1>3. \A x \in Attempts : x # a => SessionOf(x)' /\ CommitKnownBy(x)'
    BY <1>2, SessionsSpared
  <1>4. WorkerSound(a)'
    BY <1>1, NotSettling DEF Quits, Returns, Ends, Moves, SettlePCs, KnownOf
  <1>5. AttemptSound(a)'
    BY <1>1, AtRest
    DEF Quits, Returns, Ends, LinkIs, Moves, KnownOf, AttemptSound, CommitKnownBy, SessionOf
  <1>6. \A u \in Puts : PutSound(u)'
    BY <1>1, <1>2, PutAssumption, AreWorkers, PutsSpared
    DEF Quits, Returns, Leaves, Ends, LinkIs, Moves, PutKept, KnownOf, PutSound, RowSound,
        SettlePCs, WorkingCopyOf, Working, WorkPCs, Claimable, HistTypes, Histories
  <1>7. StagesOnRecord'
    BY <1>1, PutAssumption, AreWorkers, NoTerminal
    DEF Quits, StagesOnRecord, Returns, Leaves, Ends, LinkIs, Moves, NoRow, PutInv, Sound, Types,
        KnownOf, AttemptSound, WorkerSound, PutSound, HistTypes, Histories, Workers, RowSound,
        SettledCopyOf, SettlePCs, WorkingCopyOf, Working, WorkPCs, CleanedSoundOf, OperatorQuits,
        DiskTypes, RowTypes, Rows, Identities
  <1>8. DestPublished' /\ RenamesInspected' /\ OneSender' /\ RejectedIsFinal'
    BY <1>1, <1>2, DestKept, SenderKept DEF Quits, Returns, Ends, Moves
  <1>9. \A x \in Attempts : Failing(x)' => Failing(x)
    BY <1>1, AreWorkers DEF Quits, Failing, Returns, Ends, LinkIs, Moves
  <1>10. Harmless(a) /\ row[PutOf[a]].state = "none" => Harmless(a)'
    BY <1>1 DEF Quits, Returns, Ends, Moves, Harmless, LockedPCs
  <1>11. FailureIsClean' /\ RejectionIsOver'
    BY <1>2, <1>9, <1>10, ResultsKept DEF Quits
  <1> QED
    BY <1>2, <1>3, <1>4, <1>5, <1>6, <1>7, <1>8, <1>11, AreWorkers, AllKept

\* The operator looks at a record to abandon: the invariant is kept.
LEMMA LooksAtRecordKeeps ==
    ASSUME PutInv, NEW t \in Puts, LooksAtRecord(t)
    PROVE  Sound'
  <1>1. KnownOf(Operator)
    BY WorkerKnown, AreWorkers
  <1>2. Spares(Operator) /\ SparesSessions(Operator)
    BY <1>1 DEF LooksAtRecord, Spares, Moves, SparesSessions
  <1>3. \A x \in Attempts : SessionOf(x)' /\ CommitKnownBy(x)'
    BY <1>2, SessionsSpared, AreWorkers
  <1>4. WorkerSound(Operator)'
    BY <1>1, NotSettling DEF LooksAtRecord, Moves, SettlePCs, KnownOf
  <1>5. OperatorQuits'
    BY <1>1 DEF LooksAtRecord, OperatorQuits, Moves
  <1>6. /\ (\A u \in Puts : PutSound(u)') /\ StagesOnRecord' /\ DestPublished'
        /\ RenamesInspected' /\ OneSender' /\ RejectedIsFinal'
    BY <1>1, <1>2, PutsKept, DestKept, SenderKept DEF LooksAtRecord, Moves, HistSame, HistIs
  <1>7. FailureIsClean' /\ RejectionIsOver'
    BY <1>1, <1>2, AreWorkers, ResultsKept DEF LooksAtRecord, Failing, Moves
  <1> QED
    BY <1>2, <1>3, <1>4, <1>5, <1>6, <1>7, AreWorkers, AllKept

\* The operator claims a record to remove its stage: the invariant is kept.
LEMMA AbandonsStageKeeps ==
    ASSUME PutInv, AbandonsStage
    PROVE  Sound'
  <1>1. KnownOf(Operator)
    BY WorkerKnown, AreWorkers
  <1>2. Spares(Operator) /\ SparesSessions(Operator)
    BY <1>1, PutAssumption, AreWorkers
    DEF AbandonsStage, Spares, Claimable, Claims, Moves, HistIs, LockedPCs, RowIs, KnownOf,
        WorkerSound, RowSound, SettledCopyOf, SettlePCs, HistTypes, Histories, NoRow, Workers,
        SparesSessions
  <1>3. \A x \in Attempts : SessionOf(x)' /\ CommitKnownBy(x)'
    BY <1>2, SessionsSpared, AreWorkers
  <1>4. WorkerSound(Operator)'
    <2>1. SettledCopyOf(Operator)'
      BY <1>1
      DEF AbandonsStage, SettledCopyOf, Claimable, Claims, Moves, HistIs, RowIs, KnownOf,
          PutSound, RowSound, OperatorQuits, HistTypes
    <2>2. PlanOf(Operator)'
      BY <1>1, PutAssumption, AreWorkers
      DEF AbandonsStage, PlanOf, Claimable, Claims, Moves, HistIs, RowIs, KnownOf, WorkerSound,
          PutSound, SettledCopyOf, SettlePCs, RowSound, PastRecordedOf, DestPublished,
          OperatorQuits, PutInv, Sound, Types, HistTypes, Histories, NoRow, Workers
    <2> QED
      BY <2>1, <2>2 DEF WorkerSound
  <1>5. OperatorQuits'
    BY <1>1 DEF AbandonsStage, OperatorQuits, Moves, KnownOf
  <1>6. \A u \in Puts : PutSound(u)'
    BY <1>1, <1>2, PutAssumption, AreWorkers, PutsSpared
    DEF AbandonsStage, Claimable, Claims, Moves, HistIs, RowIs, PutKept, KnownOf, PutSound,
        RowSound, WorkerSound, AttemptSound
  <1>7. StagesOnRecord'
    BY <1>1, StagesKept DEF AbandonsStage, Claims, HistIs, RowIs
  <1>8. DestPublished' /\ RenamesInspected' /\ OneSender' /\ RejectedIsFinal'
    BY <1>1, <1>2, DestKept, AreWorkers, SenderKept DEF AbandonsStage, HistIs
  <1>9. FailureIsClean' /\ RejectionIsOver'
    BY <1>1, <1>2, AreWorkers, ResultsKept DEF AbandonsStage, Failing, Moves, HistIs
  <1> QED
    BY <1>2, <1>3, <1>4, <1>5, <1>6, <1>7, <1>8, <1>9, AreWorkers, AllKept

\* The operator claims a record to give it up: the invariant is kept.
LEMMA AbandonsTransferKeeps ==
    ASSUME PutInv, AbandonsTransfer
    PROVE  Sound'
  <1>1. KnownOf(Operator)
    BY WorkerKnown, AreWorkers
  <1>2. Spares(Operator) /\ SparesSessions(Operator)
    BY <1>1, PutAssumption, AreWorkers
    DEF AbandonsTransfer, Spares, Claimable, Claims, Moves, HistIs, LockedPCs, RowIs, KnownOf,
        WorkerSound, PutSound, RowSound, SettledCopyOf, SettlePCs, HistTypes, Histories, NoRow,
        Workers, SparesSessions
  <1>3. \A x \in Attempts : SessionOf(x)' /\ CommitKnownBy(x)'
    BY <1>2, SessionsSpared, AreWorkers
  <1>4. WorkerSound(Operator)'
    BY <1>1, PutAssumption, AreWorkers
    DEF AbandonsTransfer, SettledCopyOf, Claimable, Claims, Moves, HistIs, SettlePCs, RowIs,
        KnownOf, WorkerSound, PutSound, RowSound, OperatorQuits, HistTypes, Histories, NoRow,
        Workers, PlanOf, PastRecordedOf, DestPublished
  <1>5. OperatorQuits'
    BY <1>1 DEF AbandonsTransfer, OperatorQuits, Moves, KnownOf
  <1>6. \A u \in Puts : PutSound(u)'
    BY <1>1, <1>2, PutAssumption, AreWorkers, PutsSpared
    DEF AbandonsTransfer, Claimable, Claims, Moves, HistIs, RowIs, PutKept, KnownOf, PutSound,
        RowSound, WorkerSound, AttemptSound, SettledCopyOf, SettlePCs, WorkingCopyOf, Working,
        WorkPCs, HistTypes, Histories
  <1>7. StagesOnRecord'
    BY <1>1, AreWorkers, StagesKept DEF AbandonsTransfer, Claims, HistIs, RowIs
  <1>8. DestPublished' /\ RenamesInspected' /\ OneSender' /\ RejectedIsFinal'
    BY <1>1, <1>2, DestKept, AreWorkers, SenderKept DEF AbandonsTransfer, HistIs
  <1>9. FailureIsClean' /\ RejectionIsOver'
    BY <1>1, <1>2, AreWorkers, NoTerminal, ResultsKept
    DEF AbandonsTransfer, Failing, Moves, HistIs, HistSame
  <1> QED
    BY <1>2, <1>3, <1>4, <1>5, <1>6, <1>7, <1>8, <1>9, AreWorkers, AllKept

\* The operator finds the record taken: the invariant is kept.
LEMMA AbandonsNothingKeeps ==
    ASSUME PutInv, AbandonsNothing
    PROVE  Sound'
  <1>1. KnownOf(Operator)
    BY WorkerKnown, AreWorkers
  <1>2. Spares(Operator) /\ SparesSessions(Operator)
    BY <1>1 DEF AbandonsNothing, Spares, Idles, Moves, SparesSessions
  <1>3. \A x \in Attempts : SessionOf(x)' /\ CommitKnownBy(x)'
    BY <1>2, SessionsSpared, AreWorkers
  <1>4. WorkerSound(Operator)'
    BY <1>1, NotSettling DEF AbandonsNothing, Idles, Moves, SettlePCs, KnownOf
  <1>5. OperatorQuits'
    BY <1>1 DEF AbandonsNothing, OperatorQuits, Idles, Moves
  <1>6. /\ (\A u \in Puts : PutSound(u)') /\ StagesOnRecord' /\ DestPublished'
        /\ RenamesInspected' /\ OneSender' /\ RejectedIsFinal'
    BY <1>1, <1>2, PutsKept, DestKept, SenderKept
    DEF AbandonsNothing, Idles, HistSame, HistIs, Moves
  <1>7. FailureIsClean' /\ RejectionIsOver'
    BY <1>1, <1>2, AreWorkers, ResultsKept DEF AbandonsNothing, Failing, Idles, Moves
  <1> QED
    BY <1>2, <1>3, <1>4, <1>5, <1>6, <1>7, AreWorkers, AllKept

\* The operator claims a record to accept the file at its destination: the
\* invariant is kept.
LEMMA ClaimsToResolveKeeps ==
    ASSUME PutInv, NEW t \in Puts, ClaimsToResolve(t)
    PROVE  Sound'
  <1>1. KnownOf(Operator)
    BY WorkerKnown, AreWorkers
  <1>2. Spares(Operator) /\ SparesSessions(Operator)
    BY <1>1 DEF ClaimsToResolve, Spares, Claims, Moves, RowIs, SparesSessions
  <1>3. \A x \in Attempts : SessionOf(x)' /\ CommitKnownBy(x)'
    BY <1>2, SessionsSpared, AreWorkers
  <1>4. WorkerSound(Operator)'
    BY <1>1, PutAssumption, AreWorkers
    DEF ClaimsToResolve, SettledCopyOf, Claims, Moves, SettlePCs, RowIs, KnownOf, WorkerSound,
        PutSound, RowSound, PlanOf, PastRecordedOf, DestPublished, OperatorQuits, Types,
        HistTypes, Histories, NoRow, Workers
  <1>5. OperatorQuits'
    BY <1>1 DEF ClaimsToResolve, OperatorQuits, Moves
  <1>6. \A u \in Puts : PutSound(u)'
    BY <1>1, <1>2, PutsSpared
    DEF ClaimsToResolve, Claims, RowIs, PutKept, KnownOf, PutSound, RowSound
  <1>7. StagesOnRecord'
    BY <1>1, StagesKept DEF ClaimsToResolve, Claims, RowIs
  <1>8. DestPublished' /\ RenamesInspected' /\ OneSender' /\ RejectedIsFinal'
    BY <1>1, <1>2, DestKept, SenderKept DEF ClaimsToResolve, Claims, Moves
  <1>9. FailureIsClean' /\ RejectionIsOver'
    BY <1>1, <1>2, AreWorkers, ResultsKept DEF ClaimsToResolve, Failing, Moves
  <1> QED
    BY <1>2, <1>3, <1>4, <1>5, <1>6, <1>7, <1>8, <1>9, AreWorkers, AllKept

\* The operator notes the file it accepts: the invariant is kept.
LEMMA AcceptsKeeps ==
    ASSUME PutInv, Accepts
    PROVE  Sound'
  <1>1. KnownOf(Operator)
    BY WorkerKnown, AreWorkers
  <1>2. Spares(Operator) /\ SparesSessions(Operator)
    BY <1>1, PutAssumption, AreWorkers
    DEF Accepts, Spares, Marks, Moves, LockedPCs, RowIs, KnownOf, WorkerSound, PutSound, RowSound,
        SettledCopyOf, SettlePCs, HistTypes, Histories, NoRow, Workers, SparesSessions
  <1>3. \A x \in Attempts : SessionOf(x)' /\ CommitKnownBy(x)'
    BY <1>2, SessionsSpared, AreWorkers
  <1>4. WorkerSound(Operator)'
    BY <1>1, PutAssumption, AreWorkers
    DEF Accepts, SettledCopyOf, Marks, Moves, SettlePCs, RowIs, KnownOf, WorkerSound, PutSound,
        RowSound, OperatorQuits, HistTypes, Histories, NoRow, Workers, PlanOf, PastRecordedOf,
        DestPublished, PutInv, Sound, Types
  <1>5. OperatorQuits'
    BY <1>1 DEF Accepts, OperatorQuits, Moves, KnownOf
  <1>6. \A u \in Puts : u # wk[Operator].put => PutKept(u)
    BY <1>1 DEF Accepts, Marks, RowIs, PutKept, KnownOf, PutSound, RowSound
  <1>7. \A u \in Puts : u = wk[Operator].put => PutSound(u)'
    BY <1>1, PutAssumption, AreWorkers
    DEF Accepts, PutSound, Marks, Moves, RowSound, PastRecordedOf, CommitRecordedOf,
        CleanedSoundOf, PublishedOnceOf, RowIs, KnownOf, WorkerSound, SettledCopyOf, SettlePCs,
        PlanOf, HistTypes, Histories, NoRow, Workers
  <1>8. \A u \in Puts : PutSound(u)'
    BY <1>2, <1>6, <1>7, PutsSpared
  <1>9. StagesOnRecord'
    BY <1>1, StagesKept DEF Accepts, Marks, RowIs
  <1>10. DestPublished' /\ RenamesInspected' /\ OneSender' /\ RejectedIsFinal'
    BY <1>1, <1>2, DestKept, SenderKept DEF Accepts, Marks, Moves
  <1>11. FailureIsClean' /\ RejectionIsOver'
    BY <1>1, <1>2, AreWorkers, ResultsKept DEF Accepts, Failing, Moves
  <1> QED
    BY <1>2, <1>3, <1>4, <1>5, <1>8, <1>9, <1>10, <1>11, AreWorkers, AllKept

\* A settled record expires: the invariant is kept.
LEMMA ExpiresKeeps ==
    ASSUME PutInv, NEW t \in Puts, Expires(t)
    PROVE  Sound'
  <1>1. SenderKnown
    BY SenderIsKnown
  <1>2. Spares(None) /\ SparesSessions(None)
    BY <1>1 DEF Expires, Spares, RowIs, HistIs, SparesSessions
  <1>3. \A x \in Attempts : SessionOf(x)' /\ CommitKnownBy(x)'
    BY <1>2, SessionsSpared, AreWorkers
  <1>4. \A u \in Puts : PutSound(u)'
    BY <1>1, <1>2
    DEF Expires, RowIs, HistIs, PutSound, RowSound, HistTypes, Histories, SenderKnown,
        PastRecordedOf, CommitRecordedOf, CleanedSoundOf, PublishedOnceOf, NoRow
  <1>5. StagesOnRecord'
    BY <1>1, PutAssumption, AreWorkers, NoTerminal
    DEF Expires, StagesOnRecord, RowIs, HistIs, PutInv, Sound, Types, KnownOf, PutSound,
        HistTypes, Histories, NoRow, Workers, RowSound, SettlePCs, WorkingCopyOf, Working,
        WorkPCs, CleanedSoundOf, OperatorQuits, DiskTypes, RowTypes, Rows, Identities, SenderKnown
  <1>6. DestPublished' /\ RenamesInspected' /\ OneSender' /\ RejectedIsFinal'
    BY <1>2, <1>1, DestKept, PutAssumption, SenderKept DEF Expires, HistIs
  <1>7. FailureIsClean' /\ RejectionIsOver'
    BY <1>1, <1>2, ResultsKept, AreWorkers DEF Expires, Failing, HistIs
  <1> QED
    BY <1>2, <1>3, <1>4, <1>5, <1>6, <1>7, AreWorkers, AllKept

\* The user changes the file at a destination: the invariant is kept.
LEMMA UserActsKeeps ==
    ASSUME PutInv, NEW n \in Names, UserActs(n)
    PROVE  Sound'
  <1>1. SenderKnown
    BY SenderIsKnown
  <1>2. Spares(None) /\ SparesSessions(None)
    BY <1>1 DEF UserActs, Spares, SparesSessions
  <1>3. \A x \in Attempts : SessionOf(x)' /\ CommitKnownBy(x)'
    BY <1>2, SessionsSpared, AreWorkers
  <1>4. (\A u \in Puts : PutSound(u)') /\ StagesOnRecord' /\ OneSender' /\ RejectedIsFinal'
    BY <1>1, <1>2, PutsKept, SenderKept DEF UserActs, HistSame, HistIs
  <1>5. DestPublished' /\ RenamesInspected'
    BY <1>1, PutAssumption DEF UserActs, DestPublished, RenamesInspected, PutInv, Sound
  <1>6. FailureIsClean' /\ RejectionIsOver'
    BY <1>1, <1>2, ResultsKept, AreWorkers DEF UserActs, Failing
  <1> QED
    BY <1>2, <1>3, <1>4, <1>5, <1>6, AreWorkers, AllKept

(***************************************************************************)
(* The moves of each action.                                               *)
(***************************************************************************)

\* The moves Submit amounts to.
LEMMA SubmitMoves ==
    ASSUME WorkerTypes, LinkTypes, NEW a \in Attempts, Submit(a)
    PROVE  Submits(a)
  <1>1. Steps(a, "await_offer")
    BY AreWorkers DEF WorkerTypes, WorkerStates, Submit, Offer, Steps, Moves
  <1>2. LinkIs(a, TRUE, link[a].toS)
    BY DEF LinkTypes, Links, Submit, Offer, LinkIs
  <1> QED
    BY <1>1, <1>2 DEF Submit, Offer, Submits, disk

\* The moves Retry amounts to.
LEMMA RetryMoves ==
    ASSUME WorkerTypes, LinkTypes, NEW a \in Attempts, Retry(a)
    PROVE  Retries(a)
  <1>1. Steps(a, "await_offer")
    BY AreWorkers DEF WorkerTypes, WorkerStates, Retry, Offer, Steps, Moves
  <1>2. LinkIs(a, TRUE, link[a].toS)
    BY DEF LinkTypes, Links, Retry, Offer, LinkIs
  <1> QED
    BY <1>1, <1>2 DEF Retry, Offer, Retries, disk

\* The moves Break amounts to.
LEMMA BreakMoves ==
    ASSUME LinkTypes, NEW a \in Attempts, Break(a)
    PROVE  Breaks(a)
  BY PutAssumption, AreWorkers DEF Break, sender, disk, LinkTypes, Breaks, Links, LinkIs

\* The moves OnPrepared amounts to.
LEMMA OnPreparedMoves ==
    ASSUME LinkTypes, NEW a \in Attempts, OnPrepared(a)
    PROVE  Starts(a) \/ StopsSending(a)
  <1>1. CASE SReturn(a) /\ UNCHANGED sRow
    BY <1>1, StoppedSending DEF OnPrepared, Active, disk
  <1>2. CASE ~(SReturn(a) /\ UNCHANGED sRow)
    <2>1. LinkIs(a, link[a].up, None)
      BY <1>2 DEF LinkTypes, Links, OnPrepared, SExchange, LinkIs
    <2> QED
      BY <1>2, <2>1 DEF OnPrepared, FromR, Starts, disk
  <1> QED
    BY <1>1, <1>2

\* The moves OnReady amounts to.
LEMMA OnReadyMoves ==
    ASSUME LinkTypes, NEW a \in Attempts, OnReady(a)
    PROVE  Sends(a) \/ StopsSending(a)
  <1>1. CASE SReturn(a)
    BY <1>1, StoppedSending DEF OnReady, Active, disk
  <1>2. CASE ~SReturn(a)
    <2>1. LinkIs(a, link[a].up, None)
      BY <1>2 DEF LinkTypes, Links, OnReady, SExchange, LinkIs
    <2> QED
      BY <1>2, <2>1 DEF OnReady, Sends, disk
  <1> QED
    BY <1>1, <1>2

\* The moves OnUnready amounts to.
LEMMA OnUnreadyMoves ==
    ASSUME LinkTypes, NEW a \in Attempts, OnUnready(a)
    PROVE  StopsSending(a)
  BY StoppedSending DEF OnUnready, Unready, Active, disk

\* The moves SendFails amounts to.
LEMMA SendFailsMoves ==
    ASSUME LinkTypes, NEW a \in Attempts, SendFails(a)
    PROVE  StopsSending(a)
  BY StoppedSending DEF SendFails, Active, disk

\* The moves OnTerminal amounts to.
LEMMA OnTerminalMoves ==
    ASSUME HistTypes, LinkTypes, SenderTypes, NEW a \in Attempts, OnTerminal(a)
    PROVE  ToldCommitted(a) \/ ToldFailed(a) \/ ToldToRetry(a)
  <1>1. LinkIs(a, link[a].up, None)
    BY DEF LinkTypes, Links, OnTerminal, LinkIs
  <1>2. HistIs(hist.pubs, IF link[a].toS = "error" THEN hist.rejected \cup {PutOf[a]}
                          ELSE hist.rejected, hist.unfound, hist.lapsed)
    BY DEF HistTypes, Histories, OnTerminal, HistIs
  <1>3. spc[a] \in Active /\ link[a].toS \in Terminals
    BY DEF OnTerminal, FromR, Active
  <1>4. sRow' = [sRow EXCEPT ![PutOf[a]] = CASE link[a].toS = "committed" -> "committed"
                                             [] link[a].toS = "error" -> "none"
                                             [] OTHER -> @]
    BY DEF OnTerminal
  <1>5. link[a].toS = "retryable_error" => sRow' = sRow
    BY <1>4, PutAssumption DEF SenderTypes
  <1>6. link[a].toS \in {"committed", "error"} =>
            sRow' = [sRow EXCEPT ![PutOf[a]] = IF link[a].toS = "committed" THEN "committed"
                                               ELSE "none"]
    BY <1>4
  <1> QED
    BY <1>1, <1>2, <1>3, <1>5, <1>6
    DEF OnTerminal, ToldCommitted, ToldFailed, ToldToRetry, Terminals, disk

\* The moves ReceiveOffer amounts to.
LEMMA ReceiveOfferMoves ==
    ASSUME WorkerTypes, HistTypes, LinkTypes, NEW a \in Attempts, ReceiveOffer(a)
    PROVE  TakesOffer(a) \/ RefusesOffer(a)
  BY PutAssumption, AreWorkers, GotoSteps, ReplyReplies, TakenSame
  DEF ReceiveOffer, sender, disk, HistTypes, LinkTypes, TakesOffer, RefusesOffer, FromS, Own,
      Histories, Links, HistIs

\* The moves LockDestination amounts to.
LEMMA LockDestinationMoves ==
    ASSUME WorkerTypes, NEW a \in Attempts, LockDestination(a)
    PROVE  TakesLock(a)
  <1>1. Moves(a, "loaded", row[PutOf[a]], wk[a].put, wk[a].rec, wk[a].plan, wk[a].out,
              wk[a].todo)
    BY AreWorkers DEF WorkerTypes, WorkerStates, LockDestination, Own, Moves
  <1> QED
    BY <1>1 DEF LockDestination, TakesLock, sender, disk

\* The moves AnswerAdjudicated amounts to.
LEMMA AnswerAdjudicatedMoves ==
    ASSUME WorkerTypes, NEW a \in Attempts, AnswerAdjudicated(a)
    PROVE  Defers(a)
  BY PutAssumption, AreWorkers, ReplyReplies
  DEF AnswerAdjudicated, sender, disk, Defers, LinksSame, HistSame, HistIs

\* The moves AnswerCommitted amounts to.
LEMMA AnswerCommittedMoves ==
    ASSUME WorkerTypes, RowTypes, NEW a \in Attempts, AnswerCommitted(a)
    PROVE  ResumesCommitted(a) \/ Confirms(a)
  BY PutAssumption, AreWorkers, SettleSettles, ReplyReplies, ClaimClaims
  DEF AnswerCommitted, sender, disk, ResumesCommitted, Confirms, Own

\* The moves AnswerUnknown amounts to.
LEMMA AnswerUnknownMoves ==
    ASSUME WorkerTypes, RowTypes, NEW a \in Attempts, AnswerUnknown(a)
    PROVE  ResumesUnknown(a) \/ Defers(a)
  BY PutAssumption, AreWorkers, SettleSettles, ReplyReplies, ClaimClaims
  DEF AnswerUnknown, sender, disk, ResumesUnknown, Defers, Own, LinksSame, HistSame, HistIs

\* The moves Prepare amounts to.
LEMMA PrepareMoves ==
    ASSUME WorkerTypes, LinkTypes, NEW a \in Attempts, Prepare(a)
    PROVE  Prepares(a)
  BY PutAssumption, AreWorkers, GotoSteps
  DEF Prepare, sender, disk, LinkTypes, Prepares, Links, LinkIs

\* The moves OnStart amounts to.
LEMMA OnStartMoves ==
    ASSUME WorkerTypes, RowTypes, HistTypes, LinkTypes, NEW a \in Attempts, OnStart(a)
    PROVE  \/ StartsNew(a) \/ Defers(a) \/ ResumesCleanup(a) \/ ResumesPublication(a)
           \/ ResumesTransfer(a)
  BY PutAssumption, AreWorkers, GotoSteps, SettleSettles, ReplyReplies, ClaimClaims, TakenSame
  DEF OnStart, sender, disk, HistTypes, LinkTypes, StartsNew, Defers, ResumesCleanup,
      ResumesPublication, ResumesTransfer, FromS, Own, Histories, Links, HistSame, HistIs

\* The moves Admit amounts to.
LEMMA AdmitMoves ==
    ASSUME WorkerTypes, RowTypes, LinkTypes, NEW a \in Attempts, Admit(a)
    PROVE  Aborts(a) \/ Continues(a) \/ Reserves(a) \/ Refuses(a)
  <1> DEFINE r == [NoRow EXCEPT !.state = "stage_intent", !.stage = a, !.lease = a,
                                !.old = IF PutOf[a] \in Replace THEN At(PutOf[a]) ELSE None]
  <1>1. CASE wk[a].own.state # "none" /\ Settle(a, "abort", "reject") /\ row' = row
    BY <1>1, Aborting DEF Admit, LinksSame, sender, disk
  <1>2. CASE wk[a].own.state # "none" /\ Goto(a, "open") /\ row' = row
    BY <1>2, GotoSteps, AreWorkers DEF Admit, Continues, sender, disk
  <1>3. CASE /\ wk[a].own.state = "none"
             /\ row' = [row EXCEPT ![PutOf[a]] = r]
             /\ wk' = [wk EXCEPT ![a].pc = "open", ![a].own = r]
    <2>1. row'[PutOf[a]] = r /\ \A u \in Puts : u # PutOf[a] => row'[u] = row[u]
      BY <1>3, PutAssumption DEF RowTypes
    <2>2. r.state = "stage_intent" /\ r.stage = a /\ r.cleaned = FALSE /\ r.lease = a
      BY DEF NoRow
    <2> HIDE DEF r
    <2>3. Moves(a, "open", r, wk[a].put, wk[a].rec, wk[a].plan, wk[a].out, wk[a].todo)
      BY <1>3, AreWorkers DEF WorkerTypes, WorkerStates, Moves
    <2> QED
      BY <1>3, <2>1, <2>2, <2>3 DEF Admit, Reserves, RowIs, sender, disk
  <1>4. CASE wk[a].own.state = "none" /\ Reply(a, "error") /\ row' = row
    BY <1>4, ReplyReplies, AreWorkers DEF Admit, Refuses, sender, disk
  <1> QED
    BY <1>1, <1>2, <1>3, <1>4 DEF Admit, Own

\* The moves OpenStage amounts to.
LEMMA OpenStageMoves ==
    ASSUME WorkerTypes, LinkTypes, NEW a \in Attempts, OpenStage(a)
    PROVE  Creates(a) \/ Opens(a) \/ FailsToOpen(a) \/ Aborts(a)
  <1> DEFINE fresh == wk[a].own.state = "stage_intent"
  <1>1. CASE Goto(a, IF fresh THEN "attach" ELSE "select")
    <2>1. Steps(a, IF fresh THEN "attach" ELSE "select")
      BY <1>1, GotoSteps, AreWorkers
    <2> QED
      BY <2>1 DEF OpenStage, Creates, Opens, sender
  <1>2. CASE Settle(a, "abort", "reject")
    <2>1. fresh => FailsToOpen(a)
      BY <1>2, SettleSettles DEF OpenStage, FailsToOpen, sender
    <2>2. ~fresh => Aborts(a)
      BY <1>2, Aborting DEF OpenStage, LinksSame, sender
    <2> QED
      BY <2>1, <2>2
  <1> QED
    BY <1>1, <1>2 DEF OpenStage

\* The moves AttachStage amounts to.
LEMMA AttachStageMoves ==
    ASSUME WorkerTypes, RowTypes, LinkTypes, NEW a \in Attempts, AttachStage(a)
    PROVE  Attaches(a) \/ Aborts(a)
  <1>1. CASE /\ row[PutOf[a]].state = "stage_intent"
             /\ row' = [row EXCEPT ![PutOf[a]].state = "transferring"]
             /\ wk' = [wk EXCEPT ![a].pc = "select", ![a].own.state = "transferring"]
    <2>1. Marks(PutOf[a], "transferring")
      BY <1>1, PutAssumption DEF RowTypes, Rows, Marks, RowIs
    <2> DEFINE own == [wk[a].own EXCEPT !.state = "transferring"]
    <2>2. own.state = "transferring" /\ own.stage = wk[a].own.stage
      BY AreWorkers DEF WorkerTypes, WorkerStates, Rows
    <2>3. Moves(a, "select", own, wk[a].put, wk[a].rec, wk[a].plan, wk[a].out, wk[a].todo)
      BY <1>1, AreWorkers DEF WorkerTypes, WorkerStates, Moves
    <2> HIDE DEF own
    <2> QED
      BY <1>1, <2>1, <2>2, <2>3 DEF AttachStage, Attaches, Moves, sender, disk
  <1>2. CASE Settle(a, "abort", "reject") /\ UNCHANGED row
    BY <1>2, Aborting DEF AttachStage, LinksSame, sender, disk
  <1> QED
    BY <1>1, <1>2 DEF AttachStage, Own

\* The moves SelectReap amounts to.
LEMMA SelectReapMoves ==
    ASSUME WorkerTypes, NEW a \in Attempts, SelectReap(a)
    PROVE  Selects(a)
  <1>1. PICK some \in SUBSET (Puts \ {PutOf[a]}) :
            wk' = [wk EXCEPT ![a].pc = "reap", ![a].todo = some]
    BY DEF SelectReap, Own
  <1>2. Moves(a, "reap", wk[a].own, wk[a].put, wk[a].rec, wk[a].plan, wk[a].out, some)
    BY <1>1, AreWorkers DEF WorkerTypes, WorkerStates, Moves
  <1> QED
    BY <1>1, <1>2 DEF SelectReap, Selects, Moves, sender, disk

\* The moves ReapNext amounts to.
LEMMA ReapNextMoves ==
    ASSUME WorkerTypes, RowTypes, NEW a \in Attempts, NEW t \in Puts, ReapNext(a, t)
    PROVE  ReapsUnknown(a, t) \/ ReapsStage(a, t) \/ ReapsUnfinished(a, t) \/ Skips(a, t)
  <1>1. ASSUME NEW next, wk' = [wk EXCEPT ![a].pc = next, ![a].todo = @ \ {t}, ![a].put = t,
                                          ![a].rec = row[t], ![a].plan = "quit"]
        PROVE  Moves(a, next, wk[a].own, t, row[t], "quit", wk[a].out, wk[a].todo \ {t})
    BY <1>1, AreWorkers DEF WorkerTypes, WorkerStates, Moves
  <1>2. CASE /\ row' = row
             /\ wk' = [wk EXCEPT ![a].todo = @ \ {t}]
    <2>1. Moves(a, wk[a].pc, wk[a].own, wk[a].put, wk[a].rec, wk[a].plan, wk[a].out,
                wk[a].todo \ {t})
      BY <1>2, AreWorkers DEF WorkerTypes, WorkerStates, Moves
    <2> QED
      BY <1>2, <2>1 DEF ReapNext, Skips, sender, disk
  <1>3. CASE row[t].lease = None /\ Claim(a, t) /\ ~UNCHANGED row
    BY <1>1, <1>3, ClaimClaims
    DEF ReapNext, ReapsUnknown, ReapsStage, ReapsUnfinished, sender, disk
  <1>4. CASE row[t].lease = None /\ Claim(a, t) /\ UNCHANGED row
    BY <1>1, <1>2, <1>4, ClaimClaims
    DEF ReapNext, ReapsUnknown, ReapsStage, ReapsUnfinished, sender, disk
  <1> QED
    BY <1>2, <1>3, <1>4 DEF ReapNext

\* The moves ReapDone amounts to.
LEMMA ReapDoneMoves ==
    ASSUME WorkerTypes, LinkTypes, NEW a \in Attempts, ReapDone(a)
    PROVE  FinishesReaping(a)
  BY PutAssumption, AreWorkers, GotoSteps
  DEF ReapDone, sender, disk, LinkTypes, FinishesReaping, Links, LinkIs

\* The moves OnComplete amounts to.
LEMMA OnCompleteMoves ==
    ASSUME WorkerTypes, LinkTypes, NEW a \in Attempts, OnComplete(a)
    PROVE  Receives(a) \/ Aborts(a)
  BY PutAssumption, AreWorkers, GotoSteps, SettleSettles, Aborting, TakenSame
  DEF OnComplete, sender, disk, LinkTypes, Receives, FromS, Links

\* The moves PublicationIntent amounts to.
LEMMA PublicationIntentMoves ==
    ASSUME WorkerTypes, RowTypes, LinkTypes, NEW a \in Attempts, PublicationIntent(a)
    PROVE  Intends(a) \/ Quits(a)
  <1>1. CASE /\ row[PutOf[a]].state = "transferring"
             /\ row' = [row EXCEPT ![PutOf[a]].state = "publication_intent"]
             /\ wk' = [wk EXCEPT ![a].pc = "publish", ![a].own.state = "publication_intent"]
             /\ UNCHANGED <<lock, link>>
    <2>1. Marks(PutOf[a], "publication_intent")
      BY <1>1, PutAssumption DEF RowTypes, Rows, Marks, RowIs
    <2> DEFINE own == [wk[a].own EXCEPT !.state = "publication_intent"]
    <2>2. own.state = "publication_intent" /\ own.stage = wk[a].own.stage
      BY AreWorkers DEF WorkerTypes, WorkerStates, Rows
    <2>3. Moves(a, "publish", own, wk[a].put, wk[a].rec, wk[a].plan, wk[a].out, wk[a].todo)
      BY <1>1, AreWorkers DEF WorkerTypes, WorkerStates, Moves
    <2> HIDE DEF own
    <2> QED
      BY <1>1, <2>1, <2>2, <2>3 DEF PublicationIntent, Intends, Moves, sender, disk
  <1>2. CASE RReturn(a, row)
    BY <1>2, Quitting DEF PublicationIntent, sender, disk
  <1> QED
    BY <1>1, <1>2 DEF PublicationIntent, Own

\* The moves LinkStage amounts to.
LEMMA LinkStageMoves ==
    ASSUME WorkerTypes, HistTypes, LinkTypes, NEW a \in Attempts, LinkStage(a)
    PROVE  LinksStage(a) \/ Aborts(a)
  <1>1. CASE Settle(a, "abort", "reject") /\ UNCHANGED <<dest, hist>>
    BY <1>1, Aborting DEF LinkStage, LinksSame, sender
  <1>2. CASE /\ dest' = [dest EXCEPT ![DestOf[PutOf[a]]] = wk[a].own.stage]
             /\ Published(PutOf[a]) /\ Goto(a, "check")
    <2>1. HistIs([hist.pubs EXCEPT ![PutOf[a]] = @ + 1], hist.rejected, hist.unfound,
                 hist.lapsed)
      BY <1>2 DEF HistTypes, Histories, Published, HistIs
    <2> QED
      BY <1>2, <2>1, GotoSteps, AreWorkers DEF LinkStage, LinksStage, Own, sender
  <1> QED
    BY <1>1, <1>2 DEF LinkStage, Own

\* The moves ValidateReplacement amounts to.
LEMMA ValidateReplacementMoves ==
    ASSUME WorkerTypes, LinkTypes, NEW a \in Attempts, ValidateReplacement(a)
    PROVE  Validates(a) \/ Aborts(a)
  <1>1. CASE Settle(a, "abort", "reject")
    BY <1>1, Aborting DEF ValidateReplacement, LinksSame, sender, disk
  <1>2. CASE At(PutOf[a]) = wk[a].own.old /\ Goto(a, "rename")
    BY <1>2, GotoSteps, AreWorkers DEF ValidateReplacement, Validates, At, Own, sender, disk
  <1> QED
    BY <1>1, <1>2 DEF ValidateReplacement, Own

\* The moves RenameStage amounts to.
LEMMA RenameStageMoves ==
    ASSUME WorkerTypes, HistTypes, NEW a \in Attempts, RenameStage(a)
    PROVE  Renames(a) \/ FailsToRename(a)
  BY PutAssumption, AreWorkers, GotoSteps
  DEF RenameStage, sender, disk, HistTypes, Renames, FailsToRename, Own, Published, Histories,
      HistIs

\* The moves CancelPublish amounts to.
LEMMA CancelPublishMoves ==
    ASSUME WorkerTypes, LinkTypes, NEW a \in Attempts, CancelPublish(a)
    PROVE  Aborts(a)
  BY Aborting DEF CancelPublish, LinksSame, sender, disk

\* The moves CheckPublication amounts to.
LEMMA CheckPublicationMoves ==
    ASSUME WorkerTypes, RowTypes, LinkTypes, NEW a \in Attempts, CheckPublication(a)
    PROVE  FindsItPublished(a) \/ Aborts(a) \/ LosesTrack(a)
  <1>1. CASE Proven(PutOf[a], wk[a].own) /\ Settle(a, "commit", "commit") /\ UNCHANGED row
    BY <1>1, SettleSettles DEF CheckPublication, FindsItPublished, Proven, At, sender, disk
  <1>2. CASE ProvenNot(PutOf[a], wk[a].own) /\ Settle(a, "abort", "reject") /\ UNCHANGED row
    BY <1>2, Aborting DEF CheckPublication, ProvenNot, LinksSame, sender, disk
  <1>3. CASE MarkUnknown(PutOf[a]) /\ Reply(a, "retryable_error")
    BY <1>3, MarkUnknownMarks, ReplyReplies, AreWorkers, PutAssumption
    DEF CheckPublication, LosesTrack, sender, disk
  <1> QED
    BY <1>1, <1>2, <1>3 DEF CheckPublication, Own

\* The moves Reconcile amounts to.
LEMMA ReconcileMoves ==
    ASSUME WorkerTypes, RowTypes, LinkTypes, NEW a \in Attempts, Reconcile(a)
    PROVE  \/ Proves(a) \/ Disproves(a) \/ LeavesOther(a) \/ LeavesAfresh(a)
           \/ LeavesOwn(a) \/ Quits(a)
  <1> DEFINE t == wk[a].put
             r == row[t]
             marked == [row EXCEPT ![t].state = "outcome_unknown"]
  <1>1. t \in Puts
    BY AreWorkers DEF WorkerTypes, WorkerStates
  <1>2. row' = marked => Marks(t, "outcome_unknown")
    BY <1>1 DEF RowTypes, Rows, Marks, RowIs
  <1>3. row' = Freed(marked, a) => RowIs(t, "outcome_unknown", r.stage, r.cleaned, None)
    BY <1>1 DEF RowTypes, Rows, Freed, RowIs
  <1>4. row' = Freed(row, a) => Frees(t)
    BY <1>1, AreWorkers, FreedFrees
  <1>5. CASE /\ Proven(t, wk[a].rec)
             /\ wk' = [wk EXCEPT ![a].pc = "commit",
                                 ![a].plan = CASE @ = "reject" -> "commit"
                                               [] @ = "afresh" -> "late_commit"
                                               [] OTHER -> @]
             /\ UNCHANGED <<row, lock, link>>
    <2> DEFINE plan == CASE wk[a].plan = "reject" -> "commit"
                         [] wk[a].plan = "afresh" -> "late_commit"
                         [] OTHER -> wk[a].plan
    <2>1. wk' = [wk EXCEPT ![a].pc = "commit", ![a].plan = plan]
      BY <1>5, AreWorkers DEF WorkerTypes, WorkerStates
    <2>2. \/ wk[a].plan = "reject" /\ plan = "commit"
          \/ wk[a].plan = "afresh" /\ plan = "late_commit"
          \/ wk[a].plan \notin {"reject", "afresh"} /\ plan = wk[a].plan
      OBVIOUS
    <2> HIDE DEF plan
    <2>3. Moves(a, "commit", wk[a].own, t, wk[a].rec, plan, wk[a].out, wk[a].todo)
      BY <2>1, AreWorkers DEF WorkerTypes, WorkerStates, Moves
    <2> QED
      BY <1>5, <2>2, <2>3 DEF Reconcile, Proves, Proven, At, Moves, sender, disk
  <1>6. CASE /\ ProvenNot(t, wk[a].rec)
             /\ Goto(a, "abort")
             /\ UNCHANGED <<row, lock, link>>
    BY <1>6, GotoSteps, AreWorkers DEF Reconcile, Disproves, ProvenNot, sender, disk
  <1>7. CASE /\ wk[a].plan = "quit"
             /\ row' = Freed(IF r.state = "publication_intent" THEN marked ELSE row, a)
             /\ Idle(a)
             /\ UNCHANGED <<lock, link>>
    <2>1. Idles(a)
      BY <1>7, IdleIdles, AreWorkers
    <2>2. \/ Frees(t)
          \/ r.state = "publication_intent"
               /\ RowIs(t, "outcome_unknown", r.stage, r.cleaned, None)
      BY <1>3, <1>4, <1>7
    <2> QED
      BY <1>7, <2>1, <2>2 DEF Reconcile, LeavesOther, Frees, RowIs, sender, disk
  <1>8. CASE /\ wk[a].plan = "afresh"
             /\ row' = Freed(row, a)
             /\ Reply(a, "retryable_error")
             /\ UNCHANGED <<lock, link>>
    BY <1>4, <1>8, ReplyReplies, AreWorkers DEF Reconcile, LeavesAfresh, sender, disk
  <1>9. CASE /\ wk[a].plan = "reject"
             /\ row' = IF r.state = "publication_intent" THEN marked ELSE row
             /\ Reply(a, "retryable_error")
             /\ UNCHANGED <<lock, link>>
    <2>1. Replies(a, "retryable_error")
      BY <1>9, ReplyReplies, AreWorkers
    <2>2. row' = row \/ (r.state = "publication_intent" /\ Marks(t, "outcome_unknown"))
      BY <1>2, <1>9
    <2> QED
      BY <1>9, <2>1, <2>2 DEF Reconcile, LeavesOwn, Marks, RowIs, sender, disk
  <1>10. CASE wk[a].plan = "reject" /\ RReturn(a, row)
    BY <1>10, Quitting DEF Reconcile, sender, disk
  <1> QED
    BY <1>5, <1>6, <1>7, <1>8, <1>9, <1>10 DEF Reconcile

\* The moves CommitReceiver amounts to.
LEMMA CommitReceiverMoves ==
    ASSUME WorkerTypes, RowTypes, LinkTypes, NEW a \in Attempts, CommitReceiver(a)
    PROVE  Commits(a) \/ StopsSettling(a) \/ Quits(a)
  <1> DEFINE t == wk[a].put
  <1>1. t \in Puts
    BY AreWorkers DEF WorkerTypes, WorkerStates
  <1>2. CASE /\ row[t].state \in {"publication_intent", "outcome_unknown", "committed"}
             /\ row' = [row EXCEPT ![t].state = "committed"]
             /\ wk' = [wk EXCEPT ![a].pc = "unlink", ![a].rec.state = "committed"]
             /\ UNCHANGED <<lock, link>>
    <2>1. Marks(t, "committed")
      BY <1>1, <1>2 DEF RowTypes, Rows, Marks, RowIs
    <2> DEFINE rec == [wk[a].rec EXCEPT !.state = "committed"]
    <2>2. rec.state = "committed" /\ rec.stage = wk[a].rec.stage
      BY AreWorkers DEF WorkerTypes, WorkerStates, Rows
    <2>3. Moves(a, "unlink", wk[a].own, t, rec, wk[a].plan, wk[a].out, wk[a].todo)
      BY <1>2, AreWorkers DEF WorkerTypes, WorkerStates, Moves
    <2> HIDE DEF rec
    <2> QED
      BY <1>2, <2>1, <2>2, <2>3 DEF CommitReceiver, Commits, Moves, sender, disk
  <1>3. CASE /\ wk[a].plan = "quit"
             /\ row' = Freed(row, a)
             /\ Idle(a)
             /\ UNCHANGED <<lock, link>>
    BY <1>1, <1>3, FreedFrees, IdleIdles, AreWorkers
    DEF CommitReceiver, StopsSettling, sender, disk
  <1>4. CASE wk[a].plan # "quit" /\ RReturn(a, row)
    BY <1>4, Quitting DEF CommitReceiver, sender, disk
  <1> QED
    BY <1>2, <1>3, <1>4 DEF CommitReceiver

\* The moves BeginCleanup amounts to.
LEMMA BeginCleanupMoves ==
    ASSUME WorkerTypes, RowTypes, LinkTypes, OperatorQuits, NEW w \in Workers, BeginCleanup(w)
    PROVE  \/ BeginsCleanup(w) \/ ReportsUnclean(w) \/ StopsSettling(w)
           \/ (w \in Attempts /\ Quits(w))
  <1> DEFINE t == wk[w].put
             rec == [row[t] EXCEPT !.state = "cleanup_not_attempted"]
  <1>1. t \in Puts
    BY DEF WorkerTypes, WorkerStates
  <1>2. /\ rec.state = "cleanup_not_attempted" /\ rec.stage = row[t].stage
        /\ rec.cleaned = row[t].cleaned /\ rec.lease = row[t].lease
    BY <1>1 DEF RowTypes, Rows
  <1>3. CASE /\ row[t].state \in {"stage_intent", "transferring", "publication_intent",
                                  "outcome_unknown"}
             /\ row' = [row EXCEPT ![t] = rec]
             /\ wk' = [wk EXCEPT ![w].pc = "unlink", ![w].rec = rec]
             /\ UNCHANGED <<lock, link, hist>>
    <2> HIDE DEF rec
    <2>1. Marks(t, "cleanup_not_attempted")
      BY <1>1, <1>2, <1>3 DEF RowTypes, Marks, RowIs
    <2>2. Moves(w, "unlink", wk[w].own, t, rec, wk[w].plan, wk[w].out, wk[w].todo)
      BY <1>3 DEF WorkerTypes, WorkerStates, Moves
    <2> QED
      BY <1>2, <1>3, <2>1, <2>2 DEF BeginCleanup, BeginsCleanup, Moves, sender, disk
  <1>4. CASE Conclude(w, FALSE, row)
    BY <1>4, ConcludeFails DEF BeginCleanup, sender, disk
  <1> QED
    BY <1>3, <1>4 DEF BeginCleanup

\* The moves UnlinkStage amounts to.
LEMMA UnlinkStageMoves ==
    ASSUME WorkerTypes, RowTypes, LinkTypes, OperatorQuits, NEW w \in Workers, UnlinkStage(w)
    PROVE  \/ Unlinks(w) \/ ReportsUnclean(w) \/ StopsSettling(w)
           \/ (w \in Attempts /\ Quits(w))
  BY PutAssumption, AreWorkers, GotoSteps, ConcludeFails
  DEF UnlinkStage, sender, disk, LinkTypes, OperatorQuits, Unlinks, Removable, Links, Proven,
      Links2

\* The moves MarkCleaned amounts to.
LEMMA MarkCleanedMoves ==
    ASSUME WorkerTypes, RowTypes, LinkTypes, OperatorQuits, NEW w \in Workers, MarkCleaned(w)
    PROVE  \/ MarksCleaned(w) \/ ReportsUnclean(w) \/ StopsSettling(w)
           \/ (w \in Attempts /\ Quits(w))
  <1> DEFINE t == wk[w].put
  <1>1. t \in Puts
    BY DEF WorkerTypes, WorkerStates
  <1>2. CASE /\ row[t].state = wk[w].rec.state
             /\ row' = [row EXCEPT ![t].cleaned = TRUE]
             /\ Goto(w, "drop")
             /\ UNCHANGED <<lock, link, hist>>
    <2>1. RowIs(t, row[t].state, row[t].stage, TRUE, row[t].lease)
      BY <1>1, <1>2 DEF RowTypes, Rows, RowIs
    <2> QED
      BY <1>2, <2>1, GotoSteps DEF MarkCleaned, MarksCleaned, sender, disk
  <1>3. CASE Conclude(w, FALSE, row)
    BY <1>3, ConcludeFails DEF MarkCleaned, sender, disk
  <1> QED
    BY <1>2, <1>3 DEF MarkCleaned

\* The moves DropStage amounts to.
LEMMA DropStageMoves ==
    ASSUME WorkerTypes, RowTypes, LinkTypes, OperatorQuits, NEW w \in Workers, DropStage(w)
    PROVE  \/ ReportsFailure(w) \/ ReportsCommit(w) \/ StartsAfresh(w)
           \/ FinishesOther(w) \/ (w \in Attempts /\ ReturnsSilently(w))
           \/ ReportsUnclean(w) \/ StopsSettling(w) \/ (w \in Attempts /\ Quits(w))
  <1> DEFINE t == wk[w].put
             detached == [row[t] EXCEPT !.stage = None, !.cleaned = FALSE]
             resolved == [detached EXCEPT !.state = "resolved_accept_current"]
  <1>1. row[t] \in Rows
    BY DEF WorkerTypes, WorkerStates, RowTypes
  <1>2. /\ NoRow \in Rows /\ NoRow.state = "none" /\ NoRow.stage = None
        /\ NoRow.cleaned = FALSE /\ NoRow.lease = None
    BY DEF NoRow, Rows, States
  <1>3. /\ detached \in Rows /\ detached.state = row[t].state /\ detached.stage = None
        /\ detached.cleaned = FALSE /\ detached.lease = row[t].lease
    BY <1>1 DEF Rows
  <1>4. /\ resolved \in Rows /\ resolved.state = "resolved_accept_current"
        /\ resolved.stage = None /\ resolved.cleaned = FALSE /\ resolved.lease = row[t].lease
    BY <1>1 DEF Rows, States
  <1> HIDE DEF detached, resolved
  <1>5. wk[w].pc = "drop" /\ UNCHANGED <<sRow, sLease, spc, files, dest>>
    BY DEF DropStage, sender, disk
  <1>6. CASE /\ row[t].state = "cleanup_not_attempted"
             /\ Conclude(w, TRUE, [row EXCEPT ![t] = NoRow])
    BY <1>2, <1>5, <1>6, ConcludeDrops
  <1>7. CASE /\ row[t].state = "committed"
             /\ Conclude(w, TRUE, [row EXCEPT ![t] = detached])
    BY <1>3, <1>5, <1>7, ConcludeDrops
  <1>8. CASE /\ row[t].state = "accept_current_intent"
             /\ Conclude(w, TRUE, [row EXCEPT ![t] = resolved])
    BY <1>4, <1>5, <1>8, ConcludeDrops
  <1>9. CASE Conclude(w, FALSE, row)
    BY <1>5, <1>9, ConcludeFails
  <1> QED
    BY <1>6, <1>7, <1>8, <1>9 DEF DropStage, detached, resolved

\* The moves Deliver amounts to.
LEMMA DeliverMoves ==
    ASSUME WorkerTypes, LinkTypes, NEW a \in Attempts, Deliver(a)
    PROVE  Delivers(a)
  BY PutAssumption, AreWorkers, GotoSteps
  DEF Deliver, sender, disk, LinkTypes, Delivers, Links, LinkIs

\* The moves OnResultAck amounts to.
LEMMA OnResultAckMoves ==
    ASSUME WorkerTypes, RowTypes, LinkTypes, NEW a \in Attempts, OnResultAck(a)
    PROVE  Quits(a)
  BY PutAssumption, AreWorkers, Quitting DEF OnResultAck, sender, disk, LinkTypes, Links

\* The moves RecvFails amounts to.
LEMMA RecvFailsMoves ==
    ASSUME WorkerTypes, RowTypes, LinkTypes, NEW a \in Attempts, RecvFails(a)
    PROVE  Quits(a)
  BY PutAssumption, AreWorkers, Quitting DEF RecvFails, sender, disk, LinkTypes, Links

\* The moves AbandonLoad amounts to.
LEMMA AbandonLoadMoves ==
    ASSUME WorkerTypes, NEW t \in Puts, AbandonLoad(t)
    PROVE  LooksAtRecord(t)
  <1>1. Moves(Operator, "abandon", wk[Operator].own, t, wk[Operator].rec, "quit",
              wk[Operator].out, wk[Operator].todo)
    BY AreWorkers DEF WorkerTypes, WorkerStates, AbandonLoad, Moves
  <1> QED
    BY <1>1 DEF AbandonLoad, LooksAtRecord, sender, disk

\* The moves AbandonClaim amounts to.
LEMMA AbandonClaimMoves ==
    ASSUME WorkerTypes, RowTypes, HistTypes, AbandonClaim
    PROVE  AbandonsStage \/ AbandonsTransfer \/ AbandonsNothing
  <1> DEFINE t == wk[Operator].put
             next == IF row[t].state = "cleanup_not_attempted" THEN "unlink" ELSE "abort"
  <1>1. t \in Puts
    BY AreWorkers DEF WorkerTypes, WorkerStates
  <1>2. CASE Idle(Operator) /\ UNCHANGED <<row, hist>>
    BY <1>2, IdleIdles, AreWorkers DEF AbandonClaim, AbandonsNothing, sender, disk
  <1>3. CASE /\ Claimable(row[t]) /\ Claim(Operator, t)
             /\ wk' = [wk EXCEPT ![Operator].rec = row[t], ![Operator].pc = next]
             /\ hist' = [hist EXCEPT !.lapsed = IF hist.pubs[t] > 0 THEN @ \cup {t} ELSE @]
    <2>1. Moves(Operator, next, wk[Operator].own, t, row[t], wk[Operator].plan,
                wk[Operator].out, wk[Operator].todo)
      BY <1>3, AreWorkers DEF WorkerTypes, WorkerStates, Moves
    <2>2. HistIs(hist.pubs, hist.rejected, hist.unfound,
                 IF hist.pubs[t] > 0 THEN hist.lapsed \cup {t} ELSE hist.lapsed)
      BY <1>3 DEF HistTypes, Histories, HistIs
    <2>3. Claims(Operator, t)
      BY <1>1, <1>3, ClaimClaims
    <2> QED
      BY <1>3, <2>1, <2>2, <2>3 DEF AbandonClaim, AbandonsStage, AbandonsTransfer, sender, disk
  <1> QED
    BY <1>2, <1>3 DEF AbandonClaim

\* The moves AbandonSend amounts to.
LEMMA AbandonSendMoves ==
    ASSUME NEW t \in Puts, AbandonSend(t)
    PROVE  ForgetsSend(t)
  BY PutAssumption, AreWorkers DEF AbandonSend, sender, disk, ForgetsSend

\* The moves ExpireSend amounts to.
LEMMA ExpireSendMoves ==
    ASSUME NEW t \in Puts, ExpireSend(t)
    PROVE  ForgetsSend(t)
  BY PutAssumption, AreWorkers DEF ExpireSend, sender, disk, ForgetsSend

\* The moves ResolveClaim amounts to.
LEMMA ResolveClaimMoves ==
    ASSUME WorkerTypes, RowTypes, NEW t \in Puts, ResolveClaim(t)
    PROVE  ClaimsToResolve(t)
  <1>1. Moves(Operator, "preflight", wk[Operator].own, t, wk[Operator].rec, "quit",
              wk[Operator].out, wk[Operator].todo)
    BY AreWorkers DEF WorkerTypes, WorkerStates, ResolveClaim, Moves
  <1> QED
    BY <1>1, ClaimClaims DEF ResolveClaim, ClaimsToResolve, sender, disk

\* The moves ResolveIntent amounts to.
LEMMA ResolveIntentMoves ==
    ASSUME WorkerTypes, RowTypes, LinkTypes, OperatorQuits, ResolveIntent
    PROVE  Accepts \/ StopsSettling(Operator)
  <1> DEFINE t == wk[Operator].put
             rec == [row[t] EXCEPT !.state = "accept_current_intent", !.accepted = At(t)]
  <1>1. t \in Puts
    BY AreWorkers DEF WorkerTypes, WorkerStates
  <1>2. /\ rec.state = "accept_current_intent" /\ rec.stage = row[t].stage
        /\ rec.cleaned = row[t].cleaned /\ rec.lease = row[t].lease
    BY <1>1 DEF RowTypes, Rows
  <1>3. CASE /\ row' = [row EXCEPT ![t] = rec]
             /\ wk' = [wk EXCEPT ![Operator].pc = "unlink", ![Operator].rec = rec]
             /\ UNCHANGED <<lock, link, hist>>
    <2> HIDE DEF rec
    <2>1. Marks(t, "accept_current_intent")
      BY <1>1, <1>2, <1>3 DEF RowTypes, Marks, RowIs
    <2>2. Moves(Operator, "unlink", wk[Operator].own, t, rec, wk[Operator].plan,
                wk[Operator].out, wk[Operator].todo)
      BY <1>3, AreWorkers DEF WorkerTypes, WorkerStates, Moves
    <2> QED
      BY <1>2, <1>3, <2>1, <2>2 DEF ResolveIntent, Accepts, Moves, sender, disk
  <1>4. CASE Conclude(Operator, FALSE, row)
    <2>1. wk[Operator].plan = "quit" /\ wk[Operator].pc = "preflight"
      BY DEF OperatorQuits, ResolveIntent
    <2> QED
      BY <1>4, <2>1, ConcludeFails, AreWorkers DEF ResolveIntent, ReportsUnclean, sender, disk
  <1> QED
    BY <1>3, <1>4 DEF ResolveIntent

\* The moves ExpireReceive amounts to.
LEMMA ExpireReceiveMoves ==
    ASSUME RowTypes, HistTypes, NEW t \in Puts, ExpireReceive(t)
    PROVE  Expires(t)
  <1>1. RowIs(t, "none", None, FALSE, None)
    BY DEF RowTypes, ExpireReceive, NoRow, RowIs
  <1>2. HistIs(hist.pubs, hist.rejected, hist.unfound,
               IF hist.pubs[t] > 0 THEN hist.lapsed \cup {t} ELSE hist.lapsed)
    BY DEF HistTypes, Histories, ExpireReceive, HistIs
  <1> QED
    BY <1>1, <1>2 DEF ExpireReceive, Expires, sender, disk

\* The moves SenderCrash amounts to.
LEMMA SenderCrashMoves ==
    ASSUME LinkTypes, SenderCrash
    PROVE  SenderCrashes
  BY PutAssumption, AreWorkers DEF SenderCrash, sender, disk, LinkTypes, SenderCrashes, Links

\* The moves ReceiverCrash amounts to.
LEMMA ReceiverCrashMoves ==
    ASSUME WorkerTypes, RowTypes, LinkTypes, ReceiverCrash
    PROVE  ReceiverCrashes
  <1>1. \A u \in Puts : /\ row'[u].state = row[u].state /\ row'[u].stage = row[u].stage
                        /\ row'[u].cleaned = row[u].cleaned /\ row'[u].lease = None
    BY DEF RowTypes, Rows, ReceiverCrash
  <1>2. \A w \in Workers :
            /\ wk'[w].pc = IF wk[w].pc = "off" \/ w = Operator THEN "off" ELSE "end"
            /\ wk'[w].plan = "quit" /\ wk'[w].todo = {}
    BY DEF ReceiverCrash, Blank
  <1>3. \A a \in Attempts : link'[a].up = FALSE /\ link'[a].toS = link[a].toS
    BY DEF LinkTypes, Links, ReceiverCrash
  <1> QED
    BY <1>1, <1>2, <1>3 DEF ReceiverCrash, ReceiverCrashes, sender, disk

\* The moves UserMoves amounts to.
LEMMA UserMovesMoves ==
    ASSUME NEW n \in Names, UserMoves(n)
    PROVE  UserActs(n)
  BY PutAssumption, AreWorkers DEF UserMoves, sender, disk, UserActs

(***************************************************************************)
(* Types.                                                                  *)
(***************************************************************************)

\* A worker that has not started, and a record that is not there, have their
\* types.
LEMMA BlankTyped ==
    ASSUME NEW pc \in RecvPCs \cup OperatorPCs
    PROVE  Blank(pc) \in WorkerStates /\ NoRow \in Rows
  BY PutAssumption DEF Blank, WorkerStates, NoRow, Rows, States, Plans, Terminals

\* Goto keeps the types.
LEMMA GotoTyped ==
    ASSUME WorkerTypes, NEW w \in Workers, NEW pc \in RecvPCs \cup OperatorPCs, Goto(w, pc)
    PROVE  WorkerTypes'
  BY DEF WorkerTypes, WorkerStates, Goto

\* Settle keeps the types.
LEMMA SettleTyped ==
    ASSUME WorkerTypes, NEW a \in Attempts, NEW pc \in RecvPCs, NEW plan \in Plans,
           Settle(a, pc, plan)
    PROVE  WorkerTypes'
  <1> DEFINE s == [wk[a] EXCEPT !.pc = pc, !.plan = plan, !.put = PutOf[a], !.rec = wk[a].own]
  <1>1. wk' = [wk EXCEPT ![a] = s]
    BY AreWorkers DEF WorkerTypes, Settle, Own
  <1>2. s \in WorkerStates
    BY AreWorkers, PutAssumption DEF WorkerTypes, WorkerStates
  <1> QED
    BY <1>1, <1>2 DEF WorkerTypes

\* Reply keeps the types.
LEMMA ReplyTyped ==
    ASSUME WorkerTypes, NEW w \in Workers, NEW m \in Terminals, Reply(w, m)
    PROVE  WorkerTypes'
  <1>1. Blank("deliver") \in WorkerStates
    BY BlankTyped DEF RecvPCs
  <1>2. [Blank("deliver") EXCEPT !.out = m] \in WorkerStates
    BY <1>1 DEF WorkerStates
  <1> QED
    BY <1>2 DEF WorkerTypes, Reply

\* Idle keeps the types.
LEMMA IdleTyped ==
    ASSUME WorkerTypes, NEW w \in Workers, Idle(w)
    PROVE  WorkerTypes'
  <1>1. Blank("off") \in WorkerStates /\ Blank("reap") \in WorkerStates
    BY BlankTyped DEF RecvPCs
  <1>2. [Blank("reap") EXCEPT !.own = wk[w].own, !.todo = wk[w].todo] \in WorkerStates
    BY <1>1 DEF WorkerTypes, WorkerStates
  <1> QED
    BY <1>1, <1>2 DEF WorkerTypes, Idle

\* ReleaseReceiver keeps the types.
LEMMA FreedTyped ==
    ASSUME WorkerTypes, NEW w \in Workers, NEW rows \in [Puts -> Rows]
    PROVE  Freed(rows, w) \in [Puts -> Rows]
  BY DEF WorkerTypes, WorkerStates, Freed, Rows

\* Receive returns, and the types are kept.
LEMMA ReturnTyped ==
    ASSUME WorkerTypes, LinkTypes, LockTypes, NEW a \in Attempts, NEW rows \in [Puts -> Rows],
           RReturn(a, rows)
    PROVE  WorkerTypes' /\ RowTypes' /\ LinkTypes' /\ LockTypes'
  <1>1. WorkerTypes'
    BY BlankTyped, AreWorkers DEF WorkerTypes, RReturn, RecvPCs
  <1>2. RowTypes'
    BY DEF RowTypes, RReturn, Released, Rows
  <1>3. LinkTypes'
    BY DEF LinkTypes, Links, RReturn
  <1>4. LockTypes'
    BY DEF LockTypes, RReturn
  <1> QED
    BY <1>1, <1>2, <1>3, <1>4

\* However a settlement ends, the types are kept.
LEMMA ConcludeTyped ==
    ASSUME WorkerTypes, LinkTypes, LockTypes, OperatorQuits, NEW w \in Workers,
           NEW ok \in BOOLEAN, NEW rows \in [Puts -> Rows], Conclude(w, ok, rows)
    PROVE  WorkerTypes' /\ RowTypes' /\ LinkTypes' /\ LockTypes'
  <1>1. CASE RReturn(w, rows) /\ wk[w].plan # "quit"
    BY <1>1, ReturnTyped DEF OperatorQuits, Workers
  <1>2. CASE Idle(w) /\ row' = Freed(rows, w) /\ UNCHANGED <<lock, link>>
    BY <1>2, IdleTyped, FreedTyped DEF RowTypes, LinkTypes, LockTypes
  <1>3. CASE /\ \E m \in Terminals : Reply(w, m)
             /\ row' \in {rows, Freed(rows, w)} /\ UNCHANGED <<lock, link>>
    BY <1>3, ReplyTyped, FreedTyped DEF RowTypes, LinkTypes, LockTypes
  <1>4. CASE /\ wk' = [wk EXCEPT ![w].pc = IF wk[w].plan = "fresh" THEN "admit" ELSE "loaded",
                                 ![w].own = NoRow]
             /\ row' = rows /\ UNCHANGED <<lock, link>>
    <2>1. NoRow \in Rows /\ "admit" \in RecvPCs /\ "loaded" \in RecvPCs
      BY BlankTyped DEF RecvPCs
    <2> DEFINE pc == IF wk[w].plan = "fresh" THEN "admit" ELSE "loaded"
    <2>2. pc \in RecvPCs /\ wk' = [wk EXCEPT ![w].pc = pc, ![w].own = NoRow]
      BY <1>4, <2>1
    <2> HIDE DEF pc
    <2>3. WorkerTypes'
      BY <2>1, <2>2 DEF WorkerTypes, WorkerStates
    <2> QED
      BY <1>4, <2>3 DEF RowTypes, LinkTypes, LockTypes
  <1>5. {"committed", "error", "retryable_error"} = Terminals
    BY DEF Terminals
  <1>6. \/ /\ \E m \in {"committed", "error", "retryable_error"} : Reply(w, m)
           /\ row' \in {rows, Freed(rows, w)} /\ UNCHANGED <<lock, link>>
        \/ /\ wk' = [wk EXCEPT ![w].pc = IF wk[w].plan = "fresh" THEN "admit" ELSE "loaded",
                               ![w].own = NoRow]
           /\ row' = rows /\ UNCHANGED <<lock, link>>
        \/ RReturn(w, rows) /\ wk[w].plan # "quit"
        \/ Idle(w) /\ row' = Freed(rows, w) /\ UNCHANGED <<lock, link>>
    BY DEF Conclude
  <1> QED
    BY <1>1, <1>2, <1>3, <1>4, <1>5, <1>6

\* The states of a record, by name.
LEMMA StatesKnown ==
    /\ {"stage_intent", "transferring", "publication_intent", "committed"} \subseteq States
    /\ {"outcome_unknown", "cleanup_not_attempted", "accept_current_intent"} \subseteq States
    /\ {"none", "resolved_accept_current"} \subseteq States
  BY DEF States

\* The places of a worker and the plans, by name.
LEMMA PCsKnown ==
    /\ {"end", "off", "await_offer", "loaded", "open", "select", "reap"} \subseteq RecvPCs
    /\ {"reconcile", "unlink", "abort", "publish", "commit"} \subseteq RecvPCs
    /\ {"abandon", "preflight", "abort", "unlink"} \subseteq OperatorPCs
    /\ "quit" \in Plans /\ "commit" \in Plans /\ "late_commit" \in Plans
  BY DEF RecvPCs, OperatorPCs, Plans

\* The messages, by name.
LEMMA MessagesKnown ==
    /\ {"offer", "start", "complete", "result_ack"} \subseteq ToReceiver
    /\ {"prepared", "ready"} \subseteq ToSender /\ Terminals \subseteq ToSender
  BY DEF ToReceiver, ToSender

\* A record is replaced by a record.
LEMMA PutTyped ==
    ASSUME RowTypes, NEW t \in Puts, NEW r \in Rows, row' = [row EXCEPT ![t] = r]
    PROVE  RowTypes'
  BY DEF RowTypes

\* A record changes its state.
LEMMA MarkTyped ==
    ASSUME NEW r \in Rows, NEW state \in States
    PROVE  [r EXCEPT !.state = state] \in Rows
  BY DEF Rows

\* A record notes the file the operator accepts.
LEMMA AcceptTyped ==
    ASSUME NEW r \in Rows, NEW state \in States, NEW f \in Identities \cup {None}
    PROVE  [r EXCEPT !.state = state, !.accepted = f] \in Rows
  BY DEF Rows

\* A record changes its lease.
LEMMA LeaseTyped ==
    ASSUME NEW r \in Rows, NEW w \in Workers \cup {None}
    PROVE  [r EXCEPT !.lease = w] \in Rows
  BY DEF Rows

\* ClaimReceiver keeps the types.
LEMMA ClaimTyped ==
    ASSUME RowTypes, NEW w \in Workers, NEW t \in Puts, Claim(w, t)
    PROVE  RowTypes'
  BY DEF RowTypes, Rows, Claim

\* An update of a record's state keeps the types.
LEMMA StateTyped ==
    ASSUME RowTypes, NEW t \in Puts, NEW state \in States,
           row' = [row EXCEPT ![t].state = state]
    PROVE  RowTypes'
  BY DEF RowTypes, Rows

\* A worker's state is replaced by one.
LEMMA WorkerTyped ==
    ASSUME WorkerTypes, NEW w \in Workers, NEW s \in WorkerStates, wk' = [wk EXCEPT ![w] = s]
    PROVE  WorkerTypes'
  BY DEF WorkerTypes

\* DropStage keeps the types, however it ends.
LEMMA DropTyped ==
    ASSUME WorkerTypes, RowTypes, LinkTypes, LockTypes, OperatorQuits, NEW w \in Workers,
           DropStage(w)
    PROVE  WorkerTypes' /\ RowTypes' /\ LinkTypes' /\ LockTypes'
  <1> DEFINE t == wk[w].put
             detached == [row[t] EXCEPT !.stage = None, !.cleaned = FALSE]
             resolved == [detached EXCEPT !.state = "resolved_accept_current"]
  <1>1. t \in Puts /\ row[t] \in Rows
    BY DEF WorkerTypes, WorkerStates, RowTypes
  <1>2. detached \in Rows
    BY <1>1 DEF Rows
  <1>3. resolved \in Rows
    BY <1>2, MarkTyped, StatesKnown
  <1>4. NoRow \in Rows
    BY BlankTyped, PCsKnown
  <1> HIDE DEF detached, resolved
  <1>5. ASSUME NEW r \in Rows
        PROVE  [row EXCEPT ![t] = r] \in [Puts -> Rows]
    BY DEF RowTypes
  <1>6. \/ \E r \in {NoRow, detached, resolved} : Conclude(w, TRUE, [row EXCEPT ![t] = r])
        \/ Conclude(w, FALSE, row)
    BY DEF DropStage, detached, resolved
  <1> QED
    BY <1>2, <1>3, <1>4, <1>5, <1>6, ConcludeTyped DEF RowTypes

\* LockDestination keeps the types of the workers.
LEMMA LockDestinationWorkerTypes ==
    ASSUME WorkerTypes, RowTypes, NEW a \in Attempts, LockDestination(a)
    PROVE  WorkerTypes'
  <1>1. row[PutOf[a]] \in Rows /\ "loaded" \in RecvPCs
    BY PutAssumption, PCsKnown DEF RowTypes
  <1> QED
    BY <1>1, AreWorkers DEF WorkerTypes, WorkerStates, LockDestination, Own

\* Admit keeps the types of the workers.
LEMMA AdmitWorkerTypes ==
    ASSUME WorkerTypes, DiskTypes, NEW a \in Attempts, Admit(a)
    PROVE  WorkerTypes'
  <1> DEFINE r == [NoRow EXCEPT !.state = "stage_intent", !.stage = a, !.lease = a,
                                !.old = IF PutOf[a] \in Replace THEN At(PutOf[a]) ELSE None]
  <1>1. r \in Rows
    BY StatesKnown, AreWorkers, PutAssumption DEF NoRow, Rows, DiskTypes, At
  <1> HIDE DEF r
  <1>2. CASE wk' = [wk EXCEPT ![a].pc = "open", ![a].own = r]
    BY <1>1, <1>2, AreWorkers, PCsKnown DEF WorkerTypes, WorkerStates
  <1>3. CASE Settle(a, "abort", "reject") \/ Goto(a, "open") \/ Reply(a, "error")
    BY <1>3, AreWorkers, SettleTyped, GotoTyped, ReplyTyped DEF RecvPCs, Plans, Terminals
  <1> QED
    BY <1>2, <1>3 DEF Admit, Own, r

\* Admit keeps the types of the records.
LEMMA AdmitRowTypes ==
    ASSUME RowTypes, DiskTypes, NEW a \in Attempts, Admit(a)
    PROVE  RowTypes'
  <1> DEFINE r == [NoRow EXCEPT !.state = "stage_intent", !.stage = a, !.lease = a,
                                !.old = IF PutOf[a] \in Replace THEN At(PutOf[a]) ELSE None]
  <1>1. r \in Rows
    BY StatesKnown, AreWorkers, PutAssumption DEF NoRow, Rows, DiskTypes, At
  <1> HIDE DEF r
  <1>2. row' = row \/ row' = [row EXCEPT ![PutOf[a]] = r]
    BY DEF Admit, Own, r
  <1> QED
    BY <1>1, <1>2, PutAssumption DEF RowTypes

\* AttachStage keeps the types of the workers.
LEMMA AttachStageWorkerTypes ==
    ASSUME WorkerTypes, NEW a \in Attempts, AttachStage(a)
    PROVE  WorkerTypes'
  <1>1. [wk[a].own EXCEPT !.state = "transferring"] \in Rows
    BY AreWorkers, MarkTyped, StatesKnown DEF WorkerTypes, WorkerStates
  <1>2. CASE wk' = [wk EXCEPT ![a].pc = "select", ![a].own.state = "transferring"]
    BY <1>1, <1>2, AreWorkers, PCsKnown DEF WorkerTypes, WorkerStates
  <1>3. CASE Settle(a, "abort", "reject")
    BY <1>3, SettleTyped DEF RecvPCs, Plans
  <1> QED
    BY <1>2, <1>3 DEF AttachStage

\* PublicationIntent keeps the types of the workers.
LEMMA PublicationIntentWorkerTypes ==
    ASSUME WorkerTypes, RowTypes, LinkTypes, LockTypes, NEW a \in Attempts, PublicationIntent(a)
    PROVE  WorkerTypes'
  <1>1. [wk[a].own EXCEPT !.state = "publication_intent"] \in Rows
    BY AreWorkers, MarkTyped, StatesKnown DEF WorkerTypes, WorkerStates
  <1>2. CASE wk' = [wk EXCEPT ![a].pc = "publish", ![a].own.state = "publication_intent"]
    BY <1>1, <1>2, AreWorkers, PCsKnown DEF WorkerTypes, WorkerStates
  <1>3. CASE RReturn(a, row)
    BY <1>3, ReturnTyped DEF RowTypes
  <1> QED
    BY <1>2, <1>3 DEF PublicationIntent

\* CommitReceiver keeps the types of the workers.
LEMMA CommitReceiverWorkerTypes ==
    ASSUME WorkerTypes, RowTypes, LinkTypes, LockTypes, NEW a \in Attempts, CommitReceiver(a)
    PROVE  WorkerTypes'
  <1>1. [wk[a].rec EXCEPT !.state = "committed"] \in Rows
    BY AreWorkers, MarkTyped, StatesKnown DEF WorkerTypes, WorkerStates
  <1>2. CASE wk' = [wk EXCEPT ![a].pc = "unlink", ![a].rec.state = "committed"]
    BY <1>1, <1>2, AreWorkers, PCsKnown DEF WorkerTypes, WorkerStates
  <1>3. CASE RReturn(a, row) \/ Idle(a)
    BY <1>3, ReturnTyped, IdleTyped, AreWorkers DEF RowTypes
  <1> QED
    BY <1>2, <1>3 DEF CommitReceiver

\* SelectReap keeps the types of the workers.
LEMMA SelectReapWorkerTypes ==
    ASSUME WorkerTypes, NEW a \in Attempts, SelectReap(a)
    PROVE  WorkerTypes'
  <1>1. PICK some \in SUBSET Puts : wk' = [wk EXCEPT ![a].pc = "reap", ![a].todo = some]
    BY DEF SelectReap
  <1> QED
    BY <1>1, AreWorkers, PCsKnown DEF WorkerTypes, WorkerStates

\* ReapNext keeps the types of the workers.
LEMMA ReapNextWorkerTypes ==
    ASSUME WorkerTypes, RowTypes, NEW a \in Attempts, NEW t \in Puts, ReapNext(a, t)
    PROVE  WorkerTypes'
  <1>1. CASE wk' = [wk EXCEPT ![a].todo = @ \ {t}]
    BY <1>1, AreWorkers DEF WorkerTypes, WorkerStates
  <1>2. ASSUME NEW next \in RecvPCs,
               wk' = [wk EXCEPT ![a].pc = next, ![a].todo = @ \ {t}, ![a].put = t,
                                ![a].rec = row[t], ![a].plan = "quit"]
        PROVE  WorkerTypes'
    <2> DEFINE s == [wk[a] EXCEPT !.pc = next, !.todo = @ \ {t}, !.put = t, !.rec = row[t],
                                  !.plan = "quit"]
    <2>1. s \in WorkerStates
      BY AreWorkers, PCsKnown DEF WorkerTypes, WorkerStates, RowTypes
    <2>2. wk' = [wk EXCEPT ![a] = s]
      BY <1>2, AreWorkers DEF WorkerTypes
    <2> QED
      BY <2>1, <2>2, WorkerTyped, AreWorkers
  <1> QED
    BY <1>1, <1>2, PCsKnown DEF ReapNext

\* Reconcile keeps the types of the workers.
LEMMA ReconcileWorkerTypes ==
    ASSUME WorkerTypes, RowTypes, LinkTypes, LockTypes, NEW a \in Attempts, Reconcile(a)
    PROVE  WorkerTypes'
  <1>1. CASE wk' = [wk EXCEPT ![a].pc = "commit",
                              ![a].plan = CASE @ = "reject" -> "commit"
                                            [] @ = "afresh" -> "late_commit"
                                            [] OTHER -> @]
    <2> DEFINE plan == CASE wk[a].plan = "reject" -> "commit"
                         [] wk[a].plan = "afresh" -> "late_commit"
                         [] OTHER -> wk[a].plan
    <2>1. wk' = [wk EXCEPT ![a].pc = "commit", ![a].plan = plan]
      BY <1>1, AreWorkers DEF WorkerTypes, WorkerStates
    <2>2. plan \in Plans
      BY AreWorkers, PCsKnown DEF WorkerTypes, WorkerStates
    <2> HIDE DEF plan
    <2> QED
      BY <2>1, <2>2, AreWorkers, PCsKnown DEF WorkerTypes, WorkerStates
  <1>2. CASE RReturn(a, row)
    BY <1>2, ReturnTyped DEF RowTypes
  <1>3. CASE Goto(a, "abort") \/ Idle(a) \/ Reply(a, "retryable_error")
    BY <1>3, GotoTyped, IdleTyped, ReplyTyped, AreWorkers DEF RecvPCs, Terminals
  <1> QED
    BY <1>1, <1>2, <1>3 DEF Reconcile

\* Reconcile keeps the types of the records.
LEMMA ReconcileRowTypes ==
    ASSUME RowTypes, WorkerTypes, LinkTypes, LockTypes, NEW a \in Attempts, Reconcile(a)
    PROVE  RowTypes'
  <1> DEFINE t == wk[a].put
             marked == [row EXCEPT ![t].state = "outcome_unknown"]
  <1>1. marked \in [Puts -> Rows] /\ row \in [Puts -> Rows]
    BY AreWorkers, StatesKnown DEF WorkerTypes, WorkerStates, RowTypes, Rows
  <1> HIDE DEF marked
  <1>2. \/ RReturn(a, row)
        \/ row' \in {row, marked, Freed(row, a), Freed(marked, a)}
    BY DEF Reconcile, marked
  <1> QED
    BY <1>1, <1>2, ReturnTyped, FreedTyped, AreWorkers DEF RowTypes

\* BeginCleanup keeps the types of the workers.
LEMMA BeginCleanupWorkerTypes ==
    ASSUME WorkerTypes, RowTypes, LinkTypes, LockTypes, OperatorQuits, NEW w \in Workers,
           BeginCleanup(w)
    PROVE  WorkerTypes'
  <1> DEFINE t == wk[w].put
             rec == [row[t] EXCEPT !.state = "cleanup_not_attempted"]
  <1>1. t \in Puts
    BY AreWorkers DEF WorkerTypes, WorkerStates
  <1>2. rec \in Rows
    BY <1>1, MarkTyped, StatesKnown DEF RowTypes
  <1> HIDE DEF rec
  <1>3. CASE Conclude(w, FALSE, row)
    BY <1>3, ConcludeTyped, AreWorkers DEF RowTypes
  <1>4. CASE wk' = [wk EXCEPT ![w].pc = "unlink", ![w].rec = rec]
    BY <1>2, <1>4, PCsKnown, AreWorkers DEF WorkerTypes, WorkerStates
  <1> QED
    BY <1>3, <1>4 DEF BeginCleanup, rec

\* BeginCleanup keeps the types of the records.
LEMMA BeginCleanupRowTypes ==
    ASSUME RowTypes, WorkerTypes, LinkTypes, LockTypes, OperatorQuits, NEW w \in Workers,
           BeginCleanup(w)
    PROVE  RowTypes'
  <1> DEFINE t == wk[w].put
             rec == [row[t] EXCEPT !.state = "cleanup_not_attempted"]
  <1>1. t \in Puts
    BY AreWorkers DEF WorkerTypes, WorkerStates
  <1>2. rec \in Rows
    BY <1>1, MarkTyped, StatesKnown DEF RowTypes
  <1> HIDE DEF rec
  <1>3. CASE Conclude(w, FALSE, row)
    BY <1>3, ConcludeTyped, AreWorkers DEF RowTypes
  <1>4. CASE row' = [row EXCEPT ![t] = rec]
    BY <1>1, <1>2, <1>4, PutTyped
  <1> QED
    BY <1>3, <1>4 DEF BeginCleanup, rec

\* ResolveIntent keeps the types of the workers.
LEMMA ResolveIntentWorkerTypes ==
    ASSUME WorkerTypes, RowTypes, LinkTypes, LockTypes, DiskTypes, OperatorQuits, ResolveIntent
    PROVE  WorkerTypes'
  <1> DEFINE t == wk[Operator].put
             rec == [row[t] EXCEPT !.state = "accept_current_intent", !.accepted = At(t)]
  <1>1. t \in Puts
    BY AreWorkers DEF WorkerTypes, WorkerStates
  <1>2. rec \in Rows
    BY <1>1, AcceptTyped, StatesKnown, PutAssumption DEF DiskTypes, At, RowTypes
  <1> HIDE DEF rec
  <1>3. CASE Conclude(Operator, FALSE, row)
    BY <1>3, ConcludeTyped, AreWorkers DEF RowTypes
  <1>4. CASE wk' = [wk EXCEPT ![Operator].pc = "unlink", ![Operator].rec = rec]
    BY <1>2, <1>4, PCsKnown, AreWorkers DEF WorkerTypes, WorkerStates
  <1> QED
    BY <1>3, <1>4 DEF ResolveIntent, rec

\* ResolveIntent keeps the types of the records.
LEMMA ResolveIntentRowTypes ==
    ASSUME RowTypes, WorkerTypes, LinkTypes, LockTypes, DiskTypes, OperatorQuits, ResolveIntent
    PROVE  RowTypes'
  <1> DEFINE t == wk[Operator].put
             rec == [row[t] EXCEPT !.state = "accept_current_intent", !.accepted = At(t)]
  <1>1. t \in Puts
    BY AreWorkers DEF WorkerTypes, WorkerStates
  <1>2. rec \in Rows
    BY <1>1, AcceptTyped, StatesKnown, PutAssumption DEF DiskTypes, At, RowTypes
  <1> HIDE DEF rec
  <1>3. CASE Conclude(Operator, FALSE, row)
    BY <1>3, ConcludeTyped, AreWorkers DEF RowTypes
  <1>4. CASE row' = [row EXCEPT ![t] = rec]
    BY <1>1, <1>2, <1>4, PutTyped
  <1> QED
    BY <1>3, <1>4 DEF ResolveIntent, rec

\* AbandonLoad keeps the types of the workers.
LEMMA AbandonLoadWorkerTypes ==
    ASSUME WorkerTypes, NEW t \in Puts, AbandonLoad(t)
    PROVE  WorkerTypes'
  BY AreWorkers, PCsKnown DEF WorkerTypes, WorkerStates, AbandonLoad

\* ResolveClaim keeps the types of the workers.
LEMMA ResolveClaimWorkerTypes ==
    ASSUME WorkerTypes, NEW t \in Puts, ResolveClaim(t)
    PROVE  WorkerTypes'
  BY AreWorkers, PCsKnown DEF WorkerTypes, WorkerStates, ResolveClaim

\* ReceiverCrash keeps the types of the workers.
LEMMA ReceiverCrashWorkerTypes ==
    ASSUME WorkerTypes, ReceiverCrash
    PROVE  WorkerTypes'
  BY BlankTyped, PCsKnown DEF WorkerTypes, ReceiverCrash

\* ReceiverCrash keeps the types of the records.
LEMMA ReceiverCrashRowTypes ==
    ASSUME RowTypes, ReceiverCrash
    PROVE  RowTypes'
  BY DEF RowTypes, Rows, ReceiverCrash

\* ExpireReceive keeps the types of the records.
LEMMA ExpireReceiveRowTypes ==
    ASSUME RowTypes, NEW t \in Puts, ExpireReceive(t)
    PROVE  RowTypes'
  BY BlankTyped, PCsKnown DEF RowTypes, ExpireReceive

\* MarkCleaned keeps the types of the records.
LEMMA MarkCleanedRowTypes ==
    ASSUME RowTypes, WorkerTypes, LinkTypes, LockTypes, OperatorQuits, NEW w \in Workers,
           MarkCleaned(w)
    PROVE  RowTypes'
  <1> DEFINE t == wk[w].put
  <1>1. CASE row' = [row EXCEPT ![t].cleaned = TRUE]
    BY <1>1 DEF RowTypes, Rows
  <1>2. CASE Conclude(w, FALSE, row)
    BY <1>2, ConcludeTyped DEF RowTypes
  <1> QED
    BY <1>1, <1>2 DEF MarkCleaned

\* Deliver keeps the types of the sessions.
LEMMA DeliverLinkTypes ==
    ASSUME LinkTypes, WorkerTypes, NEW a \in Attempts, Deliver(a)
    PROVE  LinkTypes'
  <1>1. wk[a].out \in ToSender
    BY AreWorkers, MessagesKnown DEF WorkerTypes, WorkerStates
  <1> QED
    BY <1>1 DEF LinkTypes, Links, Deliver

\* OnPrepared keeps the types of the sessions.
LEMMA OnPreparedLinkTypes ==
    ASSUME LinkTypes, NEW a \in Attempts, OnPrepared(a)
    PROVE  LinkTypes'
  <1>1. CASE SReturn(a)
    BY <1>1 DEF LinkTypes, Links, SReturn
  <1>2. CASE \E m \in ToReceiver : SExchange(a, m)
    BY <1>2 DEF LinkTypes, Links, SExchange
  <1> QED
    BY <1>1, <1>2, MessagesKnown DEF OnPrepared

\* OnReady keeps the types of the sessions.
LEMMA OnReadyLinkTypes ==
    ASSUME LinkTypes, NEW a \in Attempts, OnReady(a)
    PROVE  LinkTypes'
  <1>1. CASE SReturn(a)
    BY <1>1 DEF LinkTypes, Links, SReturn
  <1>2. CASE \E m \in ToReceiver : SExchange(a, m)
    BY <1>2 DEF LinkTypes, Links, SExchange
  <1> QED
    BY <1>1, <1>2, MessagesKnown DEF OnReady

\* Retry keeps the types of the sessions.
LEMMA RetryLinkTypes ==
    ASSUME LinkTypes, NEW a \in Attempts, Retry(a)
    PROVE  LinkTypes'
  BY MessagesKnown DEF LinkTypes, Links, Retry, Offer

\* AbandonClaim keeps the types of the history.
LEMMA AbandonClaimHistTypes ==
    ASSUME HistTypes, WorkerTypes, AbandonClaim
    PROVE  HistTypes'
  <1>1. wk[Operator].put \in Puts
    BY AreWorkers DEF WorkerTypes, WorkerStates
  <1> QED
    BY <1>1 DEF HistTypes, Histories, AbandonClaim

\* OpenStage keeps the types of the directory.
LEMMA OpenStageDiskTypes ==
    ASSUME DiskTypes, WorkerTypes, NEW a \in Attempts, WorkingCopyOf(a), OpenStage(a)
    PROVE  DiskTypes'
  <1>1. wk[a].own.stage \in Attempts
    BY AreWorkers DEF WorkerTypes, WorkerStates, Rows, OpenStage, WorkingCopyOf, Working, WorkPCs
  <1> QED
    BY <1>1 DEF DiskTypes, OpenStage

\* RenameStage keeps the types of the directory.
LEMMA RenameStageDiskTypes ==
    ASSUME DiskTypes, WorkerTypes, NEW a \in Attempts, RenameStage(a)
    PROVE  DiskTypes'
  <1>1. wk[a].own.stage \in Identities \cup {None}
    BY AreWorkers DEF WorkerTypes, WorkerStates, Rows, Identities
  <1> QED
    BY <1>1 DEF DiskTypes, RenameStage

(***************************************************************************)
(* Every action keeps the invariant.                                       *)
(***************************************************************************)

\* A step that changes nothing the invariant is about but ages and the directory.
LEMMA UnchangedKeeps ==
    ASSUME PutInv, UNCHANGED <<sRow, sLease, spc, link, row, files, dest, lock, wk, hist>>
    PROVE  Sound'
  <1>1. ASSUME NEW a \in Attempts
        PROVE  AttemptSound(a)'
    BY DEF PutInv, Sound, AttemptSound, LockHeldBy, LoadedCopyOf, WorkingCopyOf, Working,
        NotYetPublishedBy, CommitKnownBy, SessionOf
  <1>2. ASSUME NEW w \in Workers
        PROVE  WorkerSound(w)'
    BY DEF PutInv, Sound, WorkerSound, SettledCopyOf, PlanOf
  <1>3. ASSUME NEW t \in Puts
        PROVE  PutSound(t)'
    BY DEF PutInv, Sound, PutSound, RowSound, PastRecordedOf, CommitRecordedOf, CleanedSoundOf,
        PublishedOnceOf
  <1>4. OperatorQuits' /\ DestPublished' /\ RenamesInspected' /\ StagesOnRecord'
    BY DEF PutInv, Sound, OperatorQuits, DestPublished, RenamesInspected, StagesOnRecord
  <1>5. OneSender' /\ RejectedIsFinal'
    BY SenderKept
  <1>6. FailureIsClean' /\ RejectionIsOver'
    BY DEF PutInv, Sound, FailureIsClean, Failing, Over, Harmless, RejectionIsOver
  <1> QED
    BY <1>1, <1>2, <1>3, <1>4, <1>5, <1>6 DEF Sound

\* Submit keeps the invariant.
LEMMA SubmitPreserves ==
    ASSUME PutInv, NEW a \in Attempts, Submit(a)
    PROVE  PutInv'
  <1>1. Types /\ OperatorQuits
    BY DEF PutInv, Sound
  <1>2. SenderTypes'
    BY <1>1, PutAssumption, AreWorkers
    DEF Submit, sender, disk, Terminals, SenderTypes, Offer, SendPCs, Types
  <1>3. LinkTypes'
    BY <1>1, PutAssumption, AreWorkers, MessagesKnown
    DEF Submit, sender, disk, Terminals, LinkTypes, Offer, Links, Types
  <1>4. WorkerTypes'
    BY <1>1, PutAssumption, AreWorkers, PCsKnown, StatesKnown
    DEF Submit, sender, disk, Terminals, WorkerTypes, RowTypes, Offer, Workers, WorkerStates,
        Types
  <1>5. Types'
    BY <1>1, <1>2, <1>3, <1>4
    DEF Types, RowTypes, DiskTypes, LockTypes, HistTypes, Submit, Offer, sender, disk
  <1>6. Submits(a)
    BY <1>1, SubmitMoves DEF Types
  <1>7. Sound'
    BY <1>6, SubmitsKeeps
  <1> QED
    BY <1>5, <1>7 DEF PutInv

\* Retry keeps the invariant.
LEMMA RetryPreserves ==
    ASSUME PutInv, NEW a \in Attempts, Retry(a)
    PROVE  PutInv'
  <1>1. Types /\ OperatorQuits
    BY DEF PutInv, Sound
  <1>2. SenderTypes'
    BY <1>1, PutAssumption, AreWorkers
    DEF Retry, sender, disk, Terminals, SenderTypes, Offer, SendPCs, Types
  <1>3. LinkTypes'
    BY <1>1, RetryLinkTypes DEF Types
  <1>4. WorkerTypes'
    BY <1>1, PutAssumption, AreWorkers, PCsKnown, StatesKnown
    DEF Retry, sender, disk, Terminals, WorkerTypes, RowTypes, Offer, Workers, WorkerStates, Types
  <1>5. Types'
    BY <1>1, <1>2, <1>3, <1>4
    DEF Types, RowTypes, DiskTypes, LockTypes, HistTypes, Retry, Offer, sender, disk
  <1>6. Retries(a)
    BY <1>1, RetryMoves DEF Types
  <1>7. Sound'
    BY <1>6, RetriesKeeps
  <1> QED
    BY <1>5, <1>7 DEF PutInv

\* Break keeps the invariant.
LEMMA BreakPreserves ==
    ASSUME PutInv, NEW a \in Attempts, Break(a)
    PROVE  PutInv'
  <1>1. Types /\ OperatorQuits
    BY DEF PutInv, Sound
  <1>2. LinkTypes'
    BY <1>1, PutAssumption, AreWorkers, MessagesKnown
    DEF Break, sender, disk, Terminals, LinkTypes, Links, Types
  <1>3. Types'
    BY <1>1, <1>2
    DEF Types, SenderTypes, RowTypes, DiskTypes, LockTypes, WorkerTypes, HistTypes, Break, sender,
        disk
  <1>4. Breaks(a)
    BY <1>1, BreakMoves DEF Types
  <1>5. Sound'
    BY <1>4, BreaksKeeps
  <1> QED
    BY <1>3, <1>5 DEF PutInv

\* OnPrepared keeps the invariant.
LEMMA OnPreparedPreserves ==
    ASSUME PutInv, NEW a \in Attempts, OnPrepared(a)
    PROVE  PutInv'
  <1>1. Types /\ OperatorQuits
    BY DEF PutInv, Sound
  <1>2. SenderTypes'
    BY <1>1, PutAssumption, AreWorkers
    DEF OnPrepared, sender, disk, Terminals, SenderTypes, SExchange, SReturn, SendPCs,
        ReleaseSend, Types
  <1>3. LinkTypes'
    BY <1>1, OnPreparedLinkTypes DEF Types
  <1>4. Types'
    BY <1>1, <1>2, <1>3
    DEF Types, RowTypes, DiskTypes, LockTypes, WorkerTypes, HistTypes, OnPrepared, sender, disk
  <1>5. Starts(a) \/ StopsSending(a)
    BY <1>1, OnPreparedMoves DEF Types
  <1>6. Sound'
    BY <1>5, StartsKeeps, StopsSendingKeeps
  <1> QED
    BY <1>4, <1>6 DEF PutInv

\* OnReady keeps the invariant.
LEMMA OnReadyPreserves ==
    ASSUME PutInv, NEW a \in Attempts, OnReady(a)
    PROVE  PutInv'
  <1>1. Types /\ OperatorQuits
    BY DEF PutInv, Sound
  <1>2. SenderTypes'
    BY <1>1, PutAssumption, AreWorkers
    DEF OnReady, sender, disk, Terminals, SenderTypes, SExchange, SReturn, SendPCs, ReleaseSend,
        Types
  <1>3. LinkTypes'
    BY <1>1, OnReadyLinkTypes DEF Types
  <1>4. Types'
    BY <1>1, <1>2, <1>3
    DEF Types, RowTypes, DiskTypes, LockTypes, WorkerTypes, HistTypes, OnReady, sender, disk
  <1>5. Sends(a) \/ StopsSending(a)
    BY <1>1, OnReadyMoves DEF Types
  <1>6. Sound'
    BY <1>5, SendsKeeps, StopsSendingKeeps
  <1> QED
    BY <1>4, <1>6 DEF PutInv

\* OnUnready keeps the invariant.
LEMMA OnUnreadyPreserves ==
    ASSUME PutInv, NEW a \in Attempts, OnUnready(a)
    PROVE  PutInv'
  <1>1. Types /\ OperatorQuits
    BY DEF PutInv, Sound
  <1>2. SenderTypes'
    BY <1>1, PutAssumption, AreWorkers
    DEF OnUnready, sender, disk, Terminals, SenderTypes, Unready, SReturn, SendPCs, ReleaseSend,
        Types
  <1>3. LinkTypes'
    BY <1>1, PutAssumption, AreWorkers, MessagesKnown
    DEF OnUnready, sender, disk, Terminals, LinkTypes, Unready, SReturn, Links, ReleaseSend, Types
  <1>4. Types'
    BY <1>1, <1>2, <1>3
    DEF Types, RowTypes, DiskTypes, LockTypes, WorkerTypes, HistTypes, OnUnready, sender, disk
  <1>5. StopsSending(a)
    BY <1>1, OnUnreadyMoves DEF Types
  <1>6. Sound'
    BY <1>5, StopsSendingKeeps
  <1> QED
    BY <1>4, <1>6 DEF PutInv

\* SendFails keeps the invariant.
LEMMA SendFailsPreserves ==
    ASSUME PutInv, NEW a \in Attempts, SendFails(a)
    PROVE  PutInv'
  <1>1. Types /\ OperatorQuits
    BY DEF PutInv, Sound
  <1>2. SenderTypes'
    BY <1>1, PutAssumption, AreWorkers
    DEF SendFails, sender, disk, Terminals, SenderTypes, SReturn, SendPCs, ReleaseSend, Types
  <1>3. LinkTypes'
    BY <1>1, PutAssumption, AreWorkers, MessagesKnown
    DEF SendFails, sender, disk, Terminals, LinkTypes, SReturn, Links, ReleaseSend, Types
  <1>4. Types'
    BY <1>1, <1>2, <1>3
    DEF Types, RowTypes, DiskTypes, LockTypes, WorkerTypes, HistTypes, SendFails, sender, disk
  <1>5. StopsSending(a)
    BY <1>1, SendFailsMoves DEF Types
  <1>6. Sound'
    BY <1>5, StopsSendingKeeps
  <1> QED
    BY <1>4, <1>6 DEF PutInv

\* OnTerminal keeps the invariant.
LEMMA OnTerminalPreserves ==
    ASSUME PutInv, NEW a \in Attempts, OnTerminal(a)
    PROVE  PutInv'
  <1>1. Types /\ OperatorQuits
    BY DEF PutInv, Sound
  <1>2. SenderTypes'
    BY <1>1, PutAssumption, AreWorkers
    DEF OnTerminal, sender, disk, Terminals, SenderTypes, Unready, ReleaseSend, SendPCs, Types
  <1>3. LinkTypes'
    BY <1>1, PutAssumption, AreWorkers, MessagesKnown
    DEF OnTerminal, sender, disk, Terminals, LinkTypes, Unready, ReleaseSend, Links, Types
  <1>4. HistTypes'
    BY <1>1, PutAssumption, AreWorkers
    DEF OnTerminal, sender, disk, Terminals, HistTypes, Unready, ReleaseSend, Histories, Types
  <1>5. Types'
    BY <1>1, <1>2, <1>3, <1>4
    DEF Types, RowTypes, DiskTypes, LockTypes, WorkerTypes, OnTerminal, sender, disk
  <1>6. ToldCommitted(a) \/ ToldFailed(a) \/ ToldToRetry(a)
    BY <1>1, OnTerminalMoves DEF Types
  <1>7. Sound'
    BY <1>6, ToldCommittedKeeps, ToldFailedKeeps, ToldToRetryKeeps
  <1> QED
    BY <1>5, <1>7 DEF PutInv

\* ReceiveOffer keeps the invariant.
LEMMA ReceiveOfferPreserves ==
    ASSUME PutInv, NEW a \in Attempts, ReceiveOffer(a)
    PROVE  PutInv'
  <1>1. Types /\ OperatorQuits
    BY DEF PutInv, Sound
  <1>2. LinkTypes'
    BY <1>1, PutAssumption, AreWorkers, GotoTyped, ReplyTyped, MessagesKnown
    DEF ReceiveOffer, sender, disk, Terminals, LinkTypes, Own, Links, Types
  <1>3. WorkerTypes'
    BY <1>1, AreWorkers, GotoTyped, ReplyTyped DEF ReceiveOffer, RecvPCs, Plans, Terminals, Types
  <1>4. HistTypes'
    BY <1>1, PutAssumption, AreWorkers, GotoTyped, ReplyTyped
    DEF ReceiveOffer, sender, disk, Terminals, HistTypes, Own, Histories, Types
  <1>5. Types'
    BY <1>1, <1>2, <1>3, <1>4
    DEF Types, SenderTypes, RowTypes, DiskTypes, LockTypes, ReceiveOffer, sender, disk
  <1>6. TakesOffer(a) \/ RefusesOffer(a)
    BY <1>1, ReceiveOfferMoves DEF Types
  <1>7. Sound'
    BY <1>6, TakesOfferKeeps, RefusesOfferKeeps
  <1> QED
    BY <1>5, <1>7 DEF PutInv

\* LockDestination keeps the invariant.
LEMMA LockDestinationPreserves ==
    ASSUME PutInv, NEW a \in Attempts, LockDestination(a)
    PROVE  PutInv'
  <1>1. Types /\ OperatorQuits
    BY DEF PutInv, Sound
  <1>2. LockTypes'
    BY <1>1, PutAssumption, AreWorkers
    DEF LockDestination, sender, disk, Terminals, LockTypes, Own, Types
  <1>3. WorkerTypes'
    BY <1>1, LockDestinationWorkerTypes DEF Types
  <1>4. Types'
    BY <1>1, <1>2, <1>3
    DEF Types, SenderTypes, LinkTypes, RowTypes, DiskTypes, HistTypes, LockDestination, sender,
        disk
  <1>5. TakesLock(a)
    BY <1>1, LockDestinationMoves DEF Types
  <1>6. Sound'
    BY <1>5, TakesLockKeeps
  <1> QED
    BY <1>4, <1>6 DEF PutInv

\* AnswerAdjudicated keeps the invariant.
LEMMA AnswerAdjudicatedPreserves ==
    ASSUME PutInv, NEW a \in Attempts, AnswerAdjudicated(a)
    PROVE  PutInv'
  <1>1. Types /\ OperatorQuits
    BY DEF PutInv, Sound
  <1>2. WorkerTypes'
    BY <1>1, AreWorkers, ReplyTyped DEF AnswerAdjudicated, RecvPCs, Plans, Terminals, Types
  <1>3. Types'
    BY <1>1, <1>2
    DEF Types, SenderTypes, LinkTypes, RowTypes, DiskTypes, LockTypes, HistTypes,
        AnswerAdjudicated, sender, disk
  <1>4. Defers(a)
    BY <1>1, AnswerAdjudicatedMoves DEF Types
  <1>5. Sound'
    BY <1>4, DefersKeeps
  <1> QED
    BY <1>3, <1>5 DEF PutInv

\* AnswerCommitted keeps the invariant.
LEMMA AnswerCommittedPreserves ==
    ASSUME PutInv, NEW a \in Attempts, AnswerCommitted(a)
    PROVE  PutInv'
  <1>1. Types /\ OperatorQuits
    BY DEF PutInv, Sound
  <1>2. RowTypes'
    BY <1>1, PutAssumption, AreWorkers, SettleTyped, ReplyTyped, ClaimTyped, StatesKnown,
       StateTyped, MarkTyped, PutTyped
    DEF AnswerCommitted, sender, disk, Terminals, RowTypes, WorkerTypes, Own, Workers,
        WorkerStates, Types
  <1>3. WorkerTypes'
    BY <1>1, AreWorkers, SettleTyped, ReplyTyped
    DEF AnswerCommitted, RecvPCs, Plans, Terminals, Types
  <1>4. Types'
    BY <1>1, <1>2, <1>3
    DEF Types, SenderTypes, LinkTypes, DiskTypes, LockTypes, HistTypes, AnswerCommitted, sender,
        disk
  <1>5. ResumesCommitted(a) \/ Confirms(a)
    BY <1>1, AnswerCommittedMoves DEF Types
  <1>6. Sound'
    BY <1>5, ResumesCommittedKeeps, ConfirmsKeeps
  <1> QED
    BY <1>4, <1>6 DEF PutInv

\* AnswerUnknown keeps the invariant.
LEMMA AnswerUnknownPreserves ==
    ASSUME PutInv, NEW a \in Attempts, AnswerUnknown(a)
    PROVE  PutInv'
  <1>1. Types /\ OperatorQuits
    BY DEF PutInv, Sound
  <1>2. RowTypes'
    BY <1>1, PutAssumption, AreWorkers, SettleTyped, ReplyTyped, ClaimTyped, StatesKnown,
       StateTyped, MarkTyped, PutTyped
    DEF AnswerUnknown, sender, disk, Terminals, RowTypes, WorkerTypes, Own, Workers, WorkerStates,
        Types
  <1>3. WorkerTypes'
    BY <1>1, AreWorkers, SettleTyped, ReplyTyped
    DEF AnswerUnknown, RecvPCs, Plans, Terminals, Types
  <1>4. Types'
    BY <1>1, <1>2, <1>3
    DEF Types, SenderTypes, LinkTypes, DiskTypes, LockTypes, HistTypes, AnswerUnknown, sender,
        disk
  <1>5. ResumesUnknown(a) \/ Defers(a)
    BY <1>1, AnswerUnknownMoves DEF Types
  <1>6. Sound'
    BY <1>5, ResumesUnknownKeeps, DefersKeeps
  <1> QED
    BY <1>4, <1>6 DEF PutInv

\* Prepare keeps the invariant.
LEMMA PreparePreserves ==
    ASSUME PutInv, NEW a \in Attempts, Prepare(a)
    PROVE  PutInv'
  <1>1. Types /\ OperatorQuits
    BY DEF PutInv, Sound
  <1>2. LinkTypes'
    BY <1>1, PutAssumption, AreWorkers, GotoTyped, MessagesKnown
    DEF Prepare, sender, disk, Terminals, LinkTypes, Links, Types
  <1>3. WorkerTypes'
    BY <1>1, AreWorkers, GotoTyped DEF Prepare, RecvPCs, Plans, Terminals, Types
  <1>4. Types'
    BY <1>1, <1>2, <1>3
    DEF Types, SenderTypes, RowTypes, DiskTypes, LockTypes, HistTypes, Prepare, sender, disk
  <1>5. Prepares(a)
    BY <1>1, PrepareMoves DEF Types
  <1>6. Sound'
    BY <1>5, PreparesKeeps
  <1> QED
    BY <1>4, <1>6 DEF PutInv

\* OnStart keeps the invariant.
LEMMA OnStartPreserves ==
    ASSUME PutInv, NEW a \in Attempts, OnStart(a)
    PROVE  PutInv'
  <1>1. Types /\ OperatorQuits
    BY DEF PutInv, Sound
  <1>2. LinkTypes'
    BY <1>1, PutAssumption, AreWorkers, GotoTyped, SettleTyped, ReplyTyped, ClaimTyped,
       MessagesKnown
    DEF OnStart, sender, disk, Terminals, LinkTypes, Own, Links, Types
  <1>3. RowTypes'
    BY <1>1, PutAssumption, AreWorkers, GotoTyped, SettleTyped, ReplyTyped, ClaimTyped,
       StatesKnown, StateTyped, MarkTyped, PutTyped
    DEF OnStart, sender, disk, Terminals, RowTypes, WorkerTypes, Own, Workers, WorkerStates, Types
  <1>4. WorkerTypes'
    BY <1>1, AreWorkers, GotoTyped, SettleTyped, ReplyTyped
    DEF OnStart, RecvPCs, Plans, Terminals, Types
  <1>5. HistTypes'
    BY <1>1, PutAssumption, AreWorkers, GotoTyped, SettleTyped, ReplyTyped, ClaimTyped
    DEF OnStart, sender, disk, Terminals, HistTypes, Own, Histories, Types
  <1>6. Types'
    BY <1>1, <1>2, <1>3, <1>4, <1>5
    DEF Types, SenderTypes, DiskTypes, LockTypes, OnStart, sender, disk
  <1>7. \/ StartsNew(a) \/ Defers(a) \/ ResumesCleanup(a) \/ ResumesPublication(a)
        \/ ResumesTransfer(a)
    BY <1>1, OnStartMoves DEF Types
  <1>8. Sound'
    BY <1>7, StartsNewKeeps, DefersKeeps, ResumesCleanupKeeps, ResumesPublicationKeeps,
       ResumesTransferKeeps
  <1> QED
    BY <1>6, <1>8 DEF PutInv

\* Admit keeps the invariant.
LEMMA AdmitPreserves ==
    ASSUME PutInv, NEW a \in Attempts, Admit(a)
    PROVE  PutInv'
  <1>1. Types /\ OperatorQuits
    BY DEF PutInv, Sound
  <1>2. RowTypes'
    BY <1>1, AdmitRowTypes DEF Types
  <1>3. WorkerTypes'
    BY <1>1, AdmitWorkerTypes DEF Types
  <1>4. Types'
    BY <1>1, <1>2, <1>3
    DEF Types, SenderTypes, LinkTypes, DiskTypes, LockTypes, HistTypes, Admit, sender, disk
  <1>5. Aborts(a) \/ Continues(a) \/ Reserves(a) \/ Refuses(a)
    BY <1>1, AdmitMoves DEF Types
  <1>6. Sound'
    BY <1>5, AbortsKeeps, ContinuesKeeps, ReservesKeeps, RefusesKeeps
  <1> QED
    BY <1>4, <1>6 DEF PutInv

\* OpenStage keeps the invariant.
LEMMA OpenStagePreserves ==
    ASSUME PutInv, NEW a \in Attempts, OpenStage(a)
    PROVE  PutInv'
  <1>1. Types /\ OperatorQuits
    BY DEF PutInv, Sound
  <1>2. WorkingCopyOf(a)
    BY DEF PutInv, Sound, AttemptSound
  <1>3. DiskTypes'
    BY <1>1, <1>2, OpenStageDiskTypes DEF Types
  <1>4. WorkerTypes'
    BY <1>1, AreWorkers, GotoTyped, SettleTyped DEF OpenStage, RecvPCs, Plans, Terminals, Types
  <1>5. Types'
    BY <1>1, <1>3, <1>4
    DEF Types, SenderTypes, LinkTypes, RowTypes, LockTypes, HistTypes, OpenStage, sender, disk
  <1>6. Creates(a) \/ Opens(a) \/ FailsToOpen(a) \/ Aborts(a)
    BY <1>1, OpenStageMoves DEF Types
  <1>7. Sound'
    BY <1>6, CreatesKeeps, OpensKeeps, FailsToOpenKeeps, AbortsKeeps
  <1> QED
    BY <1>5, <1>7 DEF PutInv

\* AttachStage keeps the invariant.
LEMMA AttachStagePreserves ==
    ASSUME PutInv, NEW a \in Attempts, AttachStage(a)
    PROVE  PutInv'
  <1>1. Types /\ OperatorQuits
    BY DEF PutInv, Sound
  <1>2. RowTypes'
    BY <1>1, PutAssumption, AreWorkers, SettleTyped, StatesKnown, StateTyped, MarkTyped, PutTyped
    DEF AttachStage, sender, disk, Terminals, RowTypes, WorkerTypes, Own, Workers, WorkerStates,
        Types
  <1>3. WorkerTypes'
    BY <1>1, AttachStageWorkerTypes DEF Types
  <1>4. Types'
    BY <1>1, <1>2, <1>3
    DEF Types, SenderTypes, LinkTypes, DiskTypes, LockTypes, HistTypes, AttachStage, sender, disk
  <1>5. Attaches(a) \/ Aborts(a)
    BY <1>1, AttachStageMoves DEF Types
  <1>6. Sound'
    BY <1>5, AttachesKeeps, AbortsKeeps
  <1> QED
    BY <1>4, <1>6 DEF PutInv

\* SelectReap keeps the invariant.
LEMMA SelectReapPreserves ==
    ASSUME PutInv, NEW a \in Attempts, SelectReap(a)
    PROVE  PutInv'
  <1>1. Types /\ OperatorQuits
    BY DEF PutInv, Sound
  <1>2. WorkerTypes'
    BY <1>1, SelectReapWorkerTypes DEF Types
  <1>3. Types'
    BY <1>1, <1>2
    DEF Types, SenderTypes, LinkTypes, RowTypes, DiskTypes, LockTypes, HistTypes, SelectReap,
        sender, disk
  <1>4. Selects(a)
    BY <1>1, SelectReapMoves DEF Types
  <1>5. Sound'
    BY <1>4, SelectsKeeps
  <1> QED
    BY <1>3, <1>5 DEF PutInv

\* ReapNext keeps the invariant.
LEMMA ReapNextPreserves ==
    ASSUME PutInv, NEW a \in Attempts, NEW t \in Puts, ReapNext(a, t)
    PROVE  PutInv'
  <1>1. Types /\ OperatorQuits
    BY DEF PutInv, Sound
  <1>2. RowTypes'
    BY <1>1, PutAssumption, AreWorkers, ClaimTyped, StatesKnown, StateTyped, MarkTyped, PutTyped
    DEF ReapNext, sender, disk, Terminals, RowTypes, WorkerTypes, Workers, WorkerStates, Types
  <1>3. WorkerTypes'
    BY <1>1, ReapNextWorkerTypes DEF Types
  <1>4. Types'
    BY <1>1, <1>2, <1>3
    DEF Types, SenderTypes, LinkTypes, DiskTypes, LockTypes, HistTypes, ReapNext, sender, disk
  <1>5. ReapsUnknown(a, t) \/ ReapsStage(a, t) \/ ReapsUnfinished(a, t) \/ Skips(a, t)
    BY <1>1, ReapNextMoves DEF Types
  <1>6. Sound'
    BY <1>5, ReapsUnknownKeeps, ReapsStageKeeps, ReapsUnfinishedKeeps, SkipsKeeps
  <1> QED
    BY <1>4, <1>6 DEF PutInv

\* ReapDone keeps the invariant.
LEMMA ReapDonePreserves ==
    ASSUME PutInv, NEW a \in Attempts, ReapDone(a)
    PROVE  PutInv'
  <1>1. Types /\ OperatorQuits
    BY DEF PutInv, Sound
  <1>2. LinkTypes'
    BY <1>1, PutAssumption, AreWorkers, GotoTyped, MessagesKnown
    DEF ReapDone, sender, disk, Terminals, LinkTypes, Links, Types
  <1>3. WorkerTypes'
    BY <1>1, AreWorkers, GotoTyped DEF ReapDone, RecvPCs, Plans, Terminals, Types
  <1>4. Types'
    BY <1>1, <1>2, <1>3
    DEF Types, SenderTypes, RowTypes, DiskTypes, LockTypes, HistTypes, ReapDone, sender, disk
  <1>5. FinishesReaping(a)
    BY <1>1, ReapDoneMoves DEF Types
  <1>6. Sound'
    BY <1>5, FinishesReapingKeeps
  <1> QED
    BY <1>4, <1>6 DEF PutInv

\* OnComplete keeps the invariant.
LEMMA OnCompletePreserves ==
    ASSUME PutInv, NEW a \in Attempts, OnComplete(a)
    PROVE  PutInv'
  <1>1. Types /\ OperatorQuits
    BY DEF PutInv, Sound
  <1>2. LinkTypes'
    BY <1>1, PutAssumption, AreWorkers, GotoTyped, SettleTyped, MessagesKnown
    DEF OnComplete, sender, disk, Terminals, LinkTypes, Links, Types
  <1>3. WorkerTypes'
    BY <1>1, AreWorkers, GotoTyped, SettleTyped DEF OnComplete, RecvPCs, Plans, Terminals, Types
  <1>4. Types'
    BY <1>1, <1>2, <1>3
    DEF Types, SenderTypes, RowTypes, DiskTypes, LockTypes, HistTypes, OnComplete, sender, disk
  <1>5. Receives(a) \/ Aborts(a)
    BY <1>1, OnCompleteMoves DEF Types
  <1>6. Sound'
    BY <1>5, ReceivesKeeps, AbortsKeeps
  <1> QED
    BY <1>4, <1>6 DEF PutInv

\* PublicationIntent keeps the invariant.
LEMMA PublicationIntentPreserves ==
    ASSUME PutInv, NEW a \in Attempts, PublicationIntent(a)
    PROVE  PutInv'
  <1>1. Types /\ OperatorQuits
    BY DEF PutInv, Sound
  <1>2. LinkTypes'
    BY <1>1, PutAssumption, AreWorkers, ReturnTyped, MessagesKnown
    DEF PublicationIntent, sender, disk, Terminals, WorkerTypes, LinkTypes, LockTypes, RowTypes,
        Own, Workers, WorkerStates, Links, Types
  <1>3. RowTypes'
    BY <1>1, PutAssumption, AreWorkers, ReturnTyped, StatesKnown, StateTyped, MarkTyped, PutTyped
    DEF PublicationIntent, sender, disk, Terminals, WorkerTypes, LinkTypes, LockTypes, RowTypes,
        Own, Workers, WorkerStates, Types
  <1>4. LockTypes'
    BY <1>1, PutAssumption, AreWorkers, ReturnTyped
    DEF PublicationIntent, sender, disk, Terminals, WorkerTypes, LinkTypes, LockTypes, RowTypes,
        Own, Workers, Types
  <1>5. WorkerTypes'
    BY <1>1, PublicationIntentWorkerTypes DEF Types
  <1>6. Types'
    BY <1>1, <1>2, <1>3, <1>4, <1>5
    DEF Types, SenderTypes, DiskTypes, HistTypes, PublicationIntent, sender, disk
  <1>7. Intends(a) \/ Quits(a)
    BY <1>1, PublicationIntentMoves DEF Types
  <1>8. Sound'
    BY <1>7, IntendsKeeps, QuitsKeeps
  <1> QED
    BY <1>6, <1>8 DEF PutInv

\* LinkStage keeps the invariant.
LEMMA LinkStagePreserves ==
    ASSUME PutInv, NEW a \in Attempts, LinkStage(a)
    PROVE  PutInv'
  <1>1. Types /\ OperatorQuits
    BY DEF PutInv, Sound
  <1>2. DiskTypes'
    BY <1>1, PutAssumption, AreWorkers, GotoTyped, SettleTyped
    DEF LinkStage, sender, disk, Terminals, DiskTypes, WorkerTypes, Own, Published, Workers,
        WorkerStates, Identities, Types
  <1>3. WorkerTypes'
    BY <1>1, AreWorkers, GotoTyped, SettleTyped DEF LinkStage, RecvPCs, Plans, Terminals, Types
  <1>4. HistTypes'
    BY <1>1, PutAssumption, AreWorkers, GotoTyped, SettleTyped
    DEF LinkStage, sender, disk, Terminals, HistTypes, Own, Published, Histories, Types
  <1>5. Types'
    BY <1>1, <1>2, <1>3, <1>4
    DEF Types, SenderTypes, LinkTypes, RowTypes, LockTypes, LinkStage, sender, disk
  <1>6. LinksStage(a) \/ Aborts(a)
    BY <1>1, LinkStageMoves DEF Types
  <1>7. Sound'
    BY <1>6, LinksStageKeeps, AbortsKeeps
  <1> QED
    BY <1>5, <1>7 DEF PutInv

\* ValidateReplacement keeps the invariant.
LEMMA ValidateReplacementPreserves ==
    ASSUME PutInv, NEW a \in Attempts, ValidateReplacement(a)
    PROVE  PutInv'
  <1>1. Types /\ OperatorQuits
    BY DEF PutInv, Sound
  <1>2. WorkerTypes'
    BY <1>1, AreWorkers, GotoTyped, SettleTyped
    DEF ValidateReplacement, RecvPCs, Plans, Terminals, Types
  <1>3. Types'
    BY <1>1, <1>2
    DEF Types, SenderTypes, LinkTypes, RowTypes, DiskTypes, LockTypes, HistTypes,
        ValidateReplacement, sender, disk
  <1>4. Validates(a) \/ Aborts(a)
    BY <1>1, ValidateReplacementMoves DEF Types
  <1>5. Sound'
    BY <1>4, ValidatesKeeps, AbortsKeeps
  <1> QED
    BY <1>3, <1>5 DEF PutInv

\* CancelPublish keeps the invariant.
LEMMA CancelPublishPreserves ==
    ASSUME PutInv, NEW a \in Attempts, CancelPublish(a)
    PROVE  PutInv'
  <1>1. Types /\ OperatorQuits
    BY DEF PutInv, Sound
  <1>2. WorkerTypes'
    BY <1>1, AreWorkers, SettleTyped DEF CancelPublish, RecvPCs, Plans, Terminals, Types
  <1>3. Types'
    BY <1>1, <1>2
    DEF Types, SenderTypes, LinkTypes, RowTypes, DiskTypes, LockTypes, HistTypes, CancelPublish,
        sender, disk
  <1>4. Aborts(a)
    BY <1>1, CancelPublishMoves DEF Types
  <1>5. Sound'
    BY <1>4, AbortsKeeps
  <1> QED
    BY <1>3, <1>5 DEF PutInv

\* RenameStage keeps the invariant.
LEMMA RenameStagePreserves ==
    ASSUME PutInv, NEW a \in Attempts, RenameStage(a)
    PROVE  PutInv'
  <1>1. Types /\ OperatorQuits
    BY DEF PutInv, Sound
  <1>2. DiskTypes'
    BY <1>1, RenameStageDiskTypes DEF Types
  <1>3. WorkerTypes'
    BY <1>1, AreWorkers, GotoTyped DEF RenameStage, RecvPCs, Plans, Terminals, Types
  <1>4. HistTypes'
    BY <1>1, PutAssumption, AreWorkers, GotoTyped
    DEF RenameStage, sender, disk, Terminals, HistTypes, Own, Published, Histories, Types
  <1>5. Types'
    BY <1>1, <1>2, <1>3, <1>4
    DEF Types, SenderTypes, LinkTypes, RowTypes, LockTypes, RenameStage, sender, disk
  <1>6. Renames(a) \/ FailsToRename(a)
    BY <1>1, RenameStageMoves DEF Types
  <1>7. Sound'
    BY <1>6, RenamesKeeps, FailsToRenameKeeps
  <1> QED
    BY <1>5, <1>7 DEF PutInv

\* CheckPublication keeps the invariant.
LEMMA CheckPublicationPreserves ==
    ASSUME PutInv, NEW a \in Attempts, CheckPublication(a)
    PROVE  PutInv'
  <1>1. Types /\ OperatorQuits
    BY DEF PutInv, Sound
  <1>2. RowTypes'
    BY <1>1, PutAssumption, AreWorkers, SettleTyped, ReplyTyped, StatesKnown, StateTyped,
       MarkTyped, PutTyped
    DEF CheckPublication, sender, disk, Terminals, RowTypes, WorkerTypes, Own, MarkUnknown,
        Workers, WorkerStates, Types
  <1>3. WorkerTypes'
    BY <1>1, AreWorkers, SettleTyped, ReplyTyped
    DEF CheckPublication, RecvPCs, Plans, Terminals, Types
  <1>4. Types'
    BY <1>1, <1>2, <1>3
    DEF Types, SenderTypes, LinkTypes, DiskTypes, LockTypes, HistTypes, CheckPublication, sender,
        disk
  <1>5. FindsItPublished(a) \/ Aborts(a) \/ LosesTrack(a)
    BY <1>1, CheckPublicationMoves DEF Types
  <1>6. Sound'
    BY <1>5, FindsItPublishedKeeps, AbortsKeeps, LosesTrackKeeps
  <1> QED
    BY <1>4, <1>6 DEF PutInv

\* Reconcile keeps the invariant.
LEMMA ReconcilePreserves ==
    ASSUME PutInv, NEW a \in Attempts, Reconcile(a)
    PROVE  PutInv'
  <1>1. Types /\ OperatorQuits
    BY DEF PutInv, Sound
  <1>2. LinkTypes'
    BY <1>1, PutAssumption, AreWorkers, GotoTyped, ReplyTyped, IdleTyped, ReturnTyped, FreedTyped,
       MessagesKnown
    DEF Reconcile, sender, disk, Terminals, WorkerTypes, LinkTypes, LockTypes, RowTypes, Workers,
        WorkerStates, Links, Types
  <1>3. RowTypes'
    BY <1>1, ReconcileRowTypes DEF Types
  <1>4. LockTypes'
    BY <1>1, PutAssumption, AreWorkers, GotoTyped, ReplyTyped, IdleTyped, ReturnTyped, FreedTyped
    DEF Reconcile, sender, disk, Terminals, WorkerTypes, LinkTypes, LockTypes, RowTypes, Workers,
        Types
  <1>5. WorkerTypes'
    BY <1>1, ReconcileWorkerTypes DEF Types
  <1>6. Types'
    BY <1>1, <1>2, <1>3, <1>4, <1>5
    DEF Types, SenderTypes, DiskTypes, HistTypes, Reconcile, sender, disk
  <1>7. \/ Proves(a) \/ Disproves(a) \/ LeavesOther(a) \/ LeavesAfresh(a)
        \/ LeavesOwn(a) \/ Quits(a)
    BY <1>1, ReconcileMoves DEF Types
  <1>8. Sound'
    BY <1>7, ProvesKeeps, DisprovesKeeps, LeavesOtherKeeps, LeavesAfreshKeeps, LeavesOwnKeeps,
       QuitsKeeps
  <1> QED
    BY <1>6, <1>8 DEF PutInv

\* CommitReceiver keeps the invariant.
LEMMA CommitReceiverPreserves ==
    ASSUME PutInv, NEW a \in Attempts, CommitReceiver(a)
    PROVE  PutInv'
  <1>1. Types /\ OperatorQuits
    BY DEF PutInv, Sound
  <1>2. LinkTypes'
    BY <1>1, PutAssumption, AreWorkers, IdleTyped, ReturnTyped, FreedTyped, MessagesKnown
    DEF CommitReceiver, sender, disk, Terminals, WorkerTypes, LinkTypes, LockTypes, RowTypes,
        Workers, WorkerStates, Links, Types
  <1>3. RowTypes'
    BY <1>1, PutAssumption, AreWorkers, IdleTyped, ReturnTyped, FreedTyped, StatesKnown,
       StateTyped, MarkTyped, PutTyped
    DEF CommitReceiver, sender, disk, Terminals, WorkerTypes, LinkTypes, LockTypes, RowTypes,
        Workers, WorkerStates, Types
  <1>4. LockTypes'
    BY <1>1, PutAssumption, AreWorkers, IdleTyped, ReturnTyped, FreedTyped
    DEF CommitReceiver, sender, disk, Terminals, WorkerTypes, LinkTypes, LockTypes, RowTypes,
        Workers, Types
  <1>5. WorkerTypes'
    BY <1>1, CommitReceiverWorkerTypes DEF Types
  <1>6. Types'
    BY <1>1, <1>2, <1>3, <1>4, <1>5
    DEF Types, SenderTypes, DiskTypes, HistTypes, CommitReceiver, sender, disk
  <1>7. Commits(a) \/ StopsSettling(a) \/ Quits(a)
    BY <1>1, CommitReceiverMoves DEF Types
  <1>8. Sound'
    BY <1>7, AreWorkers, CommitsKeeps, StopsSettlingKeeps, QuitsKeeps
  <1> QED
    BY <1>6, <1>8 DEF PutInv

\* BeginCleanup keeps the invariant.
LEMMA BeginCleanupPreserves ==
    ASSUME PutInv, NEW w \in Workers, BeginCleanup(w)
    PROVE  PutInv'
  <1>1. Types /\ OperatorQuits
    BY DEF PutInv, Sound
  <1>2. LinkTypes'
    BY <1>1, PutAssumption, AreWorkers, ConcludeTyped, MessagesKnown
    DEF BeginCleanup, sender, disk, Terminals, WorkerTypes, LinkTypes, LockTypes, RowTypes,
        Workers, WorkerStates, Links, Types
  <1>3. RowTypes'
    BY <1>1, BeginCleanupRowTypes DEF Types
  <1>4. LockTypes'
    BY <1>1, PutAssumption, AreWorkers, ConcludeTyped
    DEF BeginCleanup, sender, disk, Terminals, WorkerTypes, LinkTypes, LockTypes, RowTypes,
        Workers, Types
  <1>5. WorkerTypes'
    BY <1>1, BeginCleanupWorkerTypes DEF Types
  <1>6. Types'
    BY <1>1, <1>2, <1>3, <1>4, <1>5
    DEF Types, SenderTypes, DiskTypes, HistTypes, BeginCleanup, Conclude, sender, disk
  <1>7. \/ BeginsCleanup(w) \/ ReportsUnclean(w) \/ StopsSettling(w)
        \/ (w \in Attempts /\ Quits(w))
    BY <1>1, BeginCleanupMoves DEF Types
  <1>8. Sound'
    BY <1>7, BeginsCleanupKeeps, ReportsUncleanKeeps, StopsSettlingKeeps, QuitsKeeps
  <1> QED
    BY <1>6, <1>8 DEF PutInv

\* MarkCleaned keeps the invariant.
LEMMA MarkCleanedPreserves ==
    ASSUME PutInv, NEW w \in Workers, MarkCleaned(w)
    PROVE  PutInv'
  <1>1. Types /\ OperatorQuits
    BY DEF PutInv, Sound
  <1>2. LinkTypes'
    BY <1>1, PutAssumption, AreWorkers, GotoTyped, ConcludeTyped, MessagesKnown
    DEF MarkCleaned, sender, disk, Terminals, WorkerTypes, LinkTypes, LockTypes, RowTypes,
        Workers, WorkerStates, Links, Types
  <1>3. RowTypes'
    BY <1>1, MarkCleanedRowTypes DEF Types
  <1>4. LockTypes'
    BY <1>1, PutAssumption, AreWorkers, GotoTyped, ConcludeTyped
    DEF MarkCleaned, sender, disk, Terminals, WorkerTypes, LinkTypes, LockTypes, RowTypes,
        Workers, Types
  <1>5. WorkerTypes'
    BY <1>1, AreWorkers, GotoTyped, ConcludeTyped
    DEF MarkCleaned, RecvPCs, Plans, Terminals, RowTypes, Types
  <1>6. Types'
    BY <1>1, <1>2, <1>3, <1>4, <1>5
    DEF Types, SenderTypes, DiskTypes, HistTypes, MarkCleaned, Conclude, sender, disk
  <1>7. \/ MarksCleaned(w) \/ ReportsUnclean(w) \/ StopsSettling(w)
        \/ (w \in Attempts /\ Quits(w))
    BY <1>1, MarkCleanedMoves DEF Types
  <1>8. Sound'
    BY <1>7, MarksCleanedKeeps, ReportsUncleanKeeps, StopsSettlingKeeps, QuitsKeeps
  <1> QED
    BY <1>6, <1>8 DEF PutInv

\* DropStage keeps the invariant.
LEMMA DropStagePreserves ==
    ASSUME PutInv, NEW w \in Workers, DropStage(w)
    PROVE  PutInv'
  <1>1. Types /\ OperatorQuits
    BY DEF PutInv, Sound
  <1>2. WorkerTypes' /\ RowTypes' /\ LinkTypes' /\ LockTypes'
    BY <1>1, DropTyped DEF Types
  <1>3. Types'
    BY <1>1, <1>2 DEF Types, SenderTypes, DiskTypes, HistTypes, DropStage, Conclude, sender, disk
  <1>4. \/ ReportsFailure(w) \/ ReportsCommit(w) \/ StartsAfresh(w)
        \/ FinishesOther(w) \/ (w \in Attempts /\ ReturnsSilently(w))
        \/ ReportsUnclean(w) \/ StopsSettling(w) \/ (w \in Attempts /\ Quits(w))
    BY <1>1, DropStageMoves DEF Types
  <1>5. Sound'
    BY <1>4, ReportsFailureKeeps, ReportsCommitKeeps, StartsAfreshKeeps, FinishesOtherKeeps,
       ReturnsSilentlyKeeps, ReportsUncleanKeeps, StopsSettlingKeeps, QuitsKeeps
  <1> QED
    BY <1>3, <1>5 DEF PutInv

\* UnlinkStage keeps the invariant.
LEMMA UnlinkStagePreserves ==
    ASSUME PutInv, NEW w \in Workers, UnlinkStage(w)
    PROVE  PutInv'
  <1>1. Types /\ OperatorQuits
    BY DEF PutInv, Sound
  <1>2. LinkTypes'
    BY <1>1, PutAssumption, AreWorkers, GotoTyped, ConcludeTyped, MessagesKnown
    DEF UnlinkStage, sender, disk, Terminals, WorkerTypes, LinkTypes, LockTypes, RowTypes,
        Workers, WorkerStates, Links, Types
  <1>3. RowTypes'
    BY <1>1, PutAssumption, AreWorkers, GotoTyped, ConcludeTyped, StatesKnown, StateTyped,
       MarkTyped, PutTyped
    DEF UnlinkStage, sender, disk, Terminals, WorkerTypes, LinkTypes, LockTypes, RowTypes,
        Workers, WorkerStates, Types
  <1>4. DiskTypes'
    BY <1>1, PutAssumption, AreWorkers, GotoTyped, ConcludeTyped
    DEF UnlinkStage, sender, disk, Terminals, WorkerTypes, LinkTypes, LockTypes, RowTypes,
        DiskTypes, Workers, WorkerStates, Identities, Types
  <1>5. LockTypes'
    BY <1>1, PutAssumption, AreWorkers, GotoTyped, ConcludeTyped
    DEF UnlinkStage, sender, disk, Terminals, WorkerTypes, LinkTypes, LockTypes, RowTypes,
        Workers, Types
  <1>6. WorkerTypes'
    BY <1>1, AreWorkers, GotoTyped, ConcludeTyped
    DEF UnlinkStage, RecvPCs, Plans, Terminals, RowTypes, Types
  <1>7. Types'
    BY <1>1, <1>2, <1>3, <1>4, <1>5, <1>6
    DEF Types, SenderTypes, HistTypes, UnlinkStage, Conclude, sender, disk
  <1>8. Unlinks(w) \/ ReportsUnclean(w) \/ StopsSettling(w) \/ (w \in Attempts /\ Quits(w))
    BY <1>1, UnlinkStageMoves DEF Types
  <1>9. Sound'
    BY <1>8, UnlinksKeeps, ReportsUncleanKeeps, StopsSettlingKeeps, QuitsKeeps
  <1> QED
    BY <1>7, <1>9 DEF PutInv

\* Deliver keeps the invariant.
LEMMA DeliverPreserves ==
    ASSUME PutInv, NEW a \in Attempts, Deliver(a)
    PROVE  PutInv'
  <1>1. Types /\ OperatorQuits
    BY DEF PutInv, Sound
  <1>2. LinkTypes'
    BY <1>1, DeliverLinkTypes DEF Types
  <1>3. WorkerTypes'
    BY <1>1, AreWorkers, GotoTyped DEF Deliver, RecvPCs, Plans, Terminals, Types
  <1>4. Types'
    BY <1>1, <1>2, <1>3
    DEF Types, SenderTypes, RowTypes, DiskTypes, LockTypes, HistTypes, Deliver, sender, disk
  <1>5. Delivers(a)
    BY <1>1, DeliverMoves DEF Types
  <1>6. Sound'
    BY <1>5, DeliversKeeps
  <1> QED
    BY <1>4, <1>6 DEF PutInv

\* OnResultAck keeps the invariant.
LEMMA OnResultAckPreserves ==
    ASSUME PutInv, NEW a \in Attempts, OnResultAck(a)
    PROVE  PutInv'
  <1>1. Types /\ OperatorQuits
    BY DEF PutInv, Sound
  <1>2. LinkTypes'
    BY <1>1, PutAssumption, AreWorkers, ReturnTyped, MessagesKnown
    DEF OnResultAck, sender, disk, Terminals, WorkerTypes, LinkTypes, LockTypes, RowTypes,
        Workers, WorkerStates, Links, Types
  <1>3. RowTypes'
    BY <1>1, PutAssumption, AreWorkers, ReturnTyped, StatesKnown, StateTyped, MarkTyped, PutTyped
    DEF OnResultAck, sender, disk, Terminals, WorkerTypes, LinkTypes, LockTypes, RowTypes,
        Workers, WorkerStates, Types
  <1>4. LockTypes'
    BY <1>1, PutAssumption, AreWorkers, ReturnTyped
    DEF OnResultAck, sender, disk, Terminals, WorkerTypes, LinkTypes, LockTypes, RowTypes,
        Workers, Types
  <1>5. WorkerTypes'
    BY <1>1, AreWorkers, ReturnTyped DEF OnResultAck, RecvPCs, Plans, Terminals, RowTypes, Types
  <1>6. Types'
    BY <1>1, <1>2, <1>3, <1>4, <1>5
    DEF Types, SenderTypes, DiskTypes, HistTypes, OnResultAck, sender, disk
  <1>7. Quits(a)
    BY <1>1, OnResultAckMoves DEF Types
  <1>8. Sound'
    BY <1>7, QuitsKeeps
  <1> QED
    BY <1>6, <1>8 DEF PutInv

\* RecvFails keeps the invariant.
LEMMA RecvFailsPreserves ==
    ASSUME PutInv, NEW a \in Attempts, RecvFails(a)
    PROVE  PutInv'
  <1>1. Types /\ OperatorQuits
    BY DEF PutInv, Sound
  <1>2. LinkTypes'
    BY <1>1, PutAssumption, AreWorkers, ReturnTyped, MessagesKnown
    DEF RecvFails, sender, disk, Terminals, WorkerTypes, LinkTypes, LockTypes, RowTypes, Workers,
        WorkerStates, Links, Types
  <1>3. RowTypes'
    BY <1>1, PutAssumption, AreWorkers, ReturnTyped, StatesKnown, StateTyped, MarkTyped, PutTyped
    DEF RecvFails, sender, disk, Terminals, WorkerTypes, LinkTypes, LockTypes, RowTypes, Workers,
        WorkerStates, Types
  <1>4. LockTypes'
    BY <1>1, PutAssumption, AreWorkers, ReturnTyped
    DEF RecvFails, sender, disk, Terminals, WorkerTypes, LinkTypes, LockTypes, RowTypes, Workers,
        Types
  <1>5. WorkerTypes'
    BY <1>1, AreWorkers, ReturnTyped DEF RecvFails, RecvPCs, Plans, Terminals, RowTypes, Types
  <1>6. Types'
    BY <1>1, <1>2, <1>3, <1>4, <1>5
    DEF Types, SenderTypes, DiskTypes, HistTypes, RecvFails, sender, disk
  <1>7. Quits(a)
    BY <1>1, RecvFailsMoves DEF Types
  <1>8. Sound'
    BY <1>7, QuitsKeeps
  <1> QED
    BY <1>6, <1>8 DEF PutInv

\* AbandonLoad keeps the invariant.
LEMMA AbandonLoadPreserves ==
    ASSUME PutInv, NEW t \in Puts, AbandonLoad(t)
    PROVE  PutInv'
  <1>1. Types /\ OperatorQuits
    BY DEF PutInv, Sound
  <1>2. WorkerTypes'
    BY <1>1, AbandonLoadWorkerTypes DEF Types
  <1>3. Types'
    BY <1>1, <1>2
    DEF Types, SenderTypes, LinkTypes, RowTypes, DiskTypes, LockTypes, HistTypes, AbandonLoad,
        sender, disk
  <1>4. LooksAtRecord(t)
    BY <1>1, AbandonLoadMoves DEF Types
  <1>5. Sound'
    BY <1>4, LooksAtRecordKeeps
  <1> QED
    BY <1>3, <1>5 DEF PutInv

\* AbandonClaim keeps the invariant.
LEMMA AbandonClaimPreserves ==
    ASSUME PutInv, AbandonClaim
    PROVE  PutInv'
  <1>1. Types /\ OperatorQuits
    BY DEF PutInv, Sound
  <1>2. RowTypes'
    BY <1>1, PutAssumption, AreWorkers, IdleTyped, ClaimTyped, StatesKnown, StateTyped, MarkTyped,
       PutTyped
    DEF AbandonClaim, sender, disk, Terminals, RowTypes, WorkerTypes, Workers, WorkerStates, Types
  <1>3. WorkerTypes'
    BY <1>1, PutAssumption, AreWorkers, IdleTyped, ClaimTyped, PCsKnown, StatesKnown
    DEF AbandonClaim, sender, disk, Terminals, WorkerTypes, RowTypes, Workers, WorkerStates, Types
  <1>4. HistTypes'
    BY <1>1, AbandonClaimHistTypes DEF Types
  <1>5. Types'
    BY <1>1, <1>2, <1>3, <1>4
    DEF Types, SenderTypes, LinkTypes, DiskTypes, LockTypes, AbandonClaim, sender, disk
  <1>6. AbandonsStage \/ AbandonsTransfer \/ AbandonsNothing
    BY <1>1, AbandonClaimMoves DEF Types
  <1>7. Sound'
    BY <1>6, AbandonsStageKeeps, AbandonsTransferKeeps, AbandonsNothingKeeps
  <1> QED
    BY <1>5, <1>7 DEF PutInv

\* AbandonSend keeps the invariant.
LEMMA AbandonSendPreserves ==
    ASSUME PutInv, NEW t \in Puts, AbandonSend(t)
    PROVE  PutInv'
  <1>1. Types /\ OperatorQuits
    BY DEF PutInv, Sound
  <1>2. SenderTypes'
    BY <1>1, PutAssumption, AreWorkers
    DEF AbandonSend, sender, disk, Terminals, SenderTypes, SendPCs, Types
  <1>3. Types'
    BY <1>1, <1>2
    DEF Types, LinkTypes, RowTypes, DiskTypes, LockTypes, WorkerTypes, HistTypes, AbandonSend,
        sender, disk
  <1>4. ForgetsSend(t)
    BY <1>1, AbandonSendMoves DEF Types
  <1>5. Sound'
    BY <1>4, ForgetsSendKeeps
  <1> QED
    BY <1>3, <1>5 DEF PutInv

\* ExpireSend keeps the invariant.
LEMMA ExpireSendPreserves ==
    ASSUME PutInv, NEW t \in Puts, ExpireSend(t)
    PROVE  PutInv'
  <1>1. Types /\ OperatorQuits
    BY DEF PutInv, Sound
  <1>2. SenderTypes'
    BY <1>1, PutAssumption, AreWorkers
    DEF ExpireSend, sender, disk, Terminals, SenderTypes, SendPCs, Types
  <1>3. Types'
    BY <1>1, <1>2
    DEF Types, LinkTypes, RowTypes, DiskTypes, LockTypes, WorkerTypes, HistTypes, ExpireSend,
        sender, disk
  <1>4. ForgetsSend(t)
    BY <1>1, ExpireSendMoves DEF Types
  <1>5. Sound'
    BY <1>4, ForgetsSendKeeps
  <1> QED
    BY <1>3, <1>5 DEF PutInv

\* ResolveClaim keeps the invariant.
LEMMA ResolveClaimPreserves ==
    ASSUME PutInv, NEW t \in Puts, ResolveClaim(t)
    PROVE  PutInv'
  <1>1. Types /\ OperatorQuits
    BY DEF PutInv, Sound
  <1>2. RowTypes'
    BY <1>1, PutAssumption, AreWorkers, ClaimTyped, StatesKnown, StateTyped, MarkTyped, PutTyped
    DEF ResolveClaim, sender, disk, Terminals, RowTypes, WorkerTypes, Workers, WorkerStates, Types
  <1>3. WorkerTypes'
    BY <1>1, ResolveClaimWorkerTypes DEF Types
  <1>4. Types'
    BY <1>1, <1>2, <1>3
    DEF Types, SenderTypes, LinkTypes, DiskTypes, LockTypes, HistTypes, ResolveClaim, sender, disk
  <1>5. ClaimsToResolve(t)
    BY <1>1, ResolveClaimMoves DEF Types
  <1>6. Sound'
    BY <1>5, ClaimsToResolveKeeps
  <1> QED
    BY <1>4, <1>6 DEF PutInv

\* ResolveIntent keeps the invariant.
LEMMA ResolveIntentPreserves ==
    ASSUME PutInv, ResolveIntent
    PROVE  PutInv'
  <1>1. Types /\ OperatorQuits
    BY DEF PutInv, Sound
  <1>2. LinkTypes'
    BY <1>1, PutAssumption, AreWorkers, ConcludeTyped, MessagesKnown
    DEF ResolveIntent, sender, disk, Terminals, WorkerTypes, LinkTypes, LockTypes, RowTypes,
        Workers, WorkerStates, Links, Types
  <1>3. RowTypes'
    BY <1>1, ResolveIntentRowTypes DEF Types
  <1>4. LockTypes'
    BY <1>1, PutAssumption, AreWorkers, ConcludeTyped
    DEF ResolveIntent, sender, disk, Terminals, WorkerTypes, LinkTypes, LockTypes, RowTypes,
        Workers, Types
  <1>5. WorkerTypes'
    BY <1>1, ResolveIntentWorkerTypes DEF Types
  <1>6. Types'
    BY <1>1, <1>2, <1>3, <1>4, <1>5
    DEF Types, SenderTypes, DiskTypes, HistTypes, ResolveIntent, Conclude, sender, disk
  <1>7. Accepts \/ StopsSettling(Operator)
    BY <1>1, ResolveIntentMoves DEF Types
  <1>8. Sound'
    BY <1>7, AreWorkers, AcceptsKeeps, StopsSettlingKeeps
  <1> QED
    BY <1>6, <1>8 DEF PutInv

\* Age keeps the invariant.
LEMMA AgePreserves ==
    ASSUME PutInv, NEW t \in Puts, Age(t)
    PROVE  PutInv'
  <1>1. Types /\ OperatorQuits
    BY DEF PutInv, Sound
  <1>2. SenderTypes'
    BY <1>1, PutAssumption, AreWorkers
    DEF Age, sender, disk, Terminals, SenderTypes, SendPCs, Types
  <1>3. Types'
    BY <1>1, <1>2
    DEF Types, LinkTypes, RowTypes, DiskTypes, LockTypes, WorkerTypes, HistTypes, Age, sender,
        disk
  <1>4. Sound'
    BY UnchangedKeeps DEF Age, disk
  <1> QED
    BY <1>3, <1>4 DEF PutInv

\* ExpireReceive keeps the invariant.
LEMMA ExpireReceivePreserves ==
    ASSUME PutInv, NEW t \in Puts, ExpireReceive(t)
    PROVE  PutInv'
  <1>1. Types /\ OperatorQuits
    BY DEF PutInv, Sound
  <1>2. RowTypes'
    BY <1>1, ExpireReceiveRowTypes DEF Types
  <1>3. HistTypes'
    BY <1>1, PutAssumption, AreWorkers
    DEF ExpireReceive, sender, disk, Terminals, HistTypes, Histories, Types
  <1>4. Types'
    BY <1>1, <1>2, <1>3
    DEF Types, SenderTypes, LinkTypes, DiskTypes, LockTypes, WorkerTypes, ExpireReceive, sender,
        disk
  <1>5. Expires(t)
    BY <1>1, ExpireReceiveMoves DEF Types
  <1>6. Sound'
    BY <1>5, ExpiresKeeps
  <1> QED
    BY <1>4, <1>6 DEF PutInv

\* SenderCrash keeps the invariant.
LEMMA SenderCrashPreserves ==
    ASSUME PutInv, SenderCrash
    PROVE  PutInv'
  <1>1. Types /\ OperatorQuits
    BY DEF PutInv, Sound
  <1>2. SenderTypes'
    BY <1>1, PutAssumption, AreWorkers
    DEF SenderCrash, sender, disk, Terminals, SenderTypes, SendPCs, Types
  <1>3. LinkTypes'
    BY <1>1, PutAssumption, AreWorkers, MessagesKnown
    DEF SenderCrash, sender, disk, Terminals, LinkTypes, Links, Types
  <1>4. Types'
    BY <1>1, <1>2, <1>3
    DEF Types, RowTypes, DiskTypes, LockTypes, WorkerTypes, HistTypes, SenderCrash, sender, disk
  <1>5. SenderCrashes
    BY <1>1, SenderCrashMoves DEF Types
  <1>6. Sound'
    BY <1>5, SenderCrashesKeeps
  <1> QED
    BY <1>4, <1>6 DEF PutInv

\* ReceiverCrash keeps the invariant.
LEMMA ReceiverCrashPreserves ==
    ASSUME PutInv, ReceiverCrash
    PROVE  PutInv'
  <1>1. Types /\ OperatorQuits
    BY DEF PutInv, Sound
  <1>2. LinkTypes'
    BY <1>1, PutAssumption, AreWorkers, MessagesKnown
    DEF ReceiverCrash, sender, disk, Terminals, LinkTypes, Workers, Links, Types
  <1>3. RowTypes'
    BY <1>1, ReceiverCrashRowTypes DEF Types
  <1>4. LockTypes'
    BY <1>1, PutAssumption, AreWorkers
    DEF ReceiverCrash, sender, disk, Terminals, LockTypes, Workers, Types
  <1>5. WorkerTypes'
    BY <1>1, ReceiverCrashWorkerTypes DEF Types
  <1>6. Types'
    BY <1>1, <1>2, <1>3, <1>4, <1>5
    DEF Types, SenderTypes, DiskTypes, HistTypes, ReceiverCrash, sender, disk
  <1>7. ReceiverCrashes
    BY <1>1, ReceiverCrashMoves DEF Types
  <1>8. Sound'
    BY <1>7, ReceiverCrashesKeeps
  <1> QED
    BY <1>6, <1>8 DEF PutInv

\* UserMoves keeps the invariant.
LEMMA UserMovesPreserves ==
    ASSUME PutInv, NEW n \in Names, UserMoves(n)
    PROVE  PutInv'
  <1>1. Types /\ OperatorQuits
    BY DEF PutInv, Sound
  <1>2. DiskTypes'
    BY <1>1, PutAssumption, AreWorkers
    DEF UserMoves, sender, disk, Terminals, DiskTypes, WorkerTypes, Workers, WorkerStates,
        Identities, Types
  <1>3. Types'
    BY <1>1, <1>2
    DEF Types, SenderTypes, LinkTypes, RowTypes, LockTypes, WorkerTypes, HistTypes, UserMoves,
        sender, disk
  <1>4. UserActs(n)
    BY <1>1, UserMovesMoves DEF Types
  <1>5. Sound'
    BY <1>4, UserActsKeeps
  <1> QED
    BY <1>3, <1>5 DEF PutInv

\* UserMovesParent keeps the invariant.
LEMMA UserMovesParentPreserves ==
    ASSUME PutInv, UserMovesParent
    PROVE  PutInv'
  <1>1. Types /\ OperatorQuits
    BY DEF PutInv, Sound
  <1>2. DiskTypes'
    BY <1>1, PutAssumption, AreWorkers
    DEF UserMovesParent, sender, disk, Terminals, DiskTypes, WorkerTypes, Workers, WorkerStates,
        Identities, Types
  <1>3. Types'
    BY <1>1, <1>2
    DEF Types, SenderTypes, LinkTypes, RowTypes, LockTypes, WorkerTypes, HistTypes,
        UserMovesParent, sender, disk
  <1>4. Sound'
    BY UnchangedKeeps DEF UserMovesParent, sender, disk
  <1> QED
    BY <1>3, <1>4 DEF PutInv

(***************************************************************************)
(* The theorems.                                                           *)
(***************************************************************************)

\* The type invariant, and its parts.
LEMMA TypesAreOK ==
    (Types /\ \A a \in Attempts : PutOf[a] \notin wk[a].todo) <=> TypeOK
  BY DEF Types, SenderTypes, LinkTypes, RowTypes, DiskTypes, LockTypes, WorkerTypes, HistTypes,
      TypeOK

\* The invariant holds when nothing has been sent.
LEMMA InitSound ==
    ASSUME Init
    PROVE  PutInv
  <1>1. Types
    <2>1. SenderTypes
      BY DEF Init, SenderTypes, SendPCs
    <2>2. LinkTypes
      BY DEF Init, LinkTypes, Links
    <2>3. RowTypes
      BY BlankTyped, PCsKnown DEF Init, RowTypes
    <2>4. DiskTypes
      BY DEF Init, DiskTypes, Identities
    <2>5. LockTypes
      BY DEF Init, LockTypes
    <2>6. WorkerTypes
      BY BlankTyped, PCsKnown DEF Init, WorkerTypes
    <2>7. HistTypes
      BY DEF Init, HistTypes, Histories
    <2> QED
      BY <2>1, <2>2, <2>3, <2>4, <2>5, <2>6, <2>7 DEF Types
  <1>2. \A w \in Workers : wk[w].pc = "off" /\ wk[w].plan = "quit" /\ wk[w].todo = {}
    BY DEF Init, Blank
  <1>3. \A t \in Puts : row[t] = NoRow /\ hist.pubs[t] = 0 /\ sRow[t] = "unsent"
          /\ sLease[t] = None
    BY DEF Init
  <1>4. \A a \in Attempts : link[a].toS = None /\ spc[a] = "off" /\ ~link[a].up
    BY DEF Init
  <1>5. ASSUME NEW a \in Attempts
        PROVE  AttemptSound(a)
    BY <1>2, <1>4, AreWorkers, NoTerminal
    DEF AttemptSound, LockHeldBy, LockedPCs, LoadedCopyOf, WorkingCopyOf, Working, WorkPCs,
        SettlePCs, NotYetPublishedBy, CommitKnownBy, SessionOf
  <1>6. ASSUME NEW w \in Workers
        PROVE  WorkerSound(w)
    BY <1>2 DEF WorkerSound, SettledCopyOf, SettlePCs, PlanOf
  <1>7. ASSUME NEW t \in Puts
        PROVE  PutSound(t)
    BY <1>3 DEF PutSound, RowSound, PastRecordedOf, CommitRecordedOf, CleanedSoundOf,
        PublishedOnceOf, NoRow
  <1>8. DestPublished /\ RenamesInspected /\ StagesOnRecord
    BY <1>2, AreWorkers, PutAssumption DEF Init, DestPublished, RenamesInspected, StagesOnRecord
  <1>9. OneSender /\ RejectedIsFinal
    BY <1>3, <1>4 DEF Init, OneSender, SenderLeased, SenderAlone, UnsentOff, Active,
         RejectedIsFinal
  <1>10. FailureIsClean /\ RejectionIsOver /\ OperatorQuits
    BY <1>2, <1>4, AreWorkers DEF Init, FailureIsClean, Failing, Active, RejectionIsOver,
         OperatorQuits
  <1> QED
    BY <1>1, <1>5, <1>6, <1>7, <1>8, <1>9, <1>10 DEF PutInv, Sound

\* ChangePutRoot keeps the invariant: no receive is under way, a record that is
\* deleted is not of a published put, and one that is detached has no stage left.
LEMMA ChangePutRootPreserves ==
    ASSUME PutInv, ChangePutRoot
    PROVE  PutInv'
  <1>1. Types /\ Sound
    BY DEF PutInv
  <1>2. /\ UNCHANGED <<sRow, sLease, aged, spc, link, files, dest, parent, lock, wk, hist>>
        /\ stale' \subseteq Puts
    BY <1>1 DEF ChangePutRoot, sender, Types, DiskTypes
  <1>3. /\ \A a \in Attempts : wk[a].pc \in {"off", "end"}
        /\ wk[Operator].pc \in {"off", "abandon"}
    BY DEF ChangePutRoot
  <1>4. \A t \in Puts :
           /\ row'[t] \in Rows
           /\ row'[t].stage = None
           /\ \/ row'[t] = row[t]
              \/ /\ row[t].cleaned /\ row[t].state = "committed" /\ row'[t].state = "committed"
                 /\ row'[t].lease = None /\ row'[t].cleaned = FALSE
              \/ /\ row[t].cleaned /\ row[t].state = "cleanup_not_attempted"
                 /\ row'[t] = NoRow
    <2> SUFFICES ASSUME NEW t \in Puts
                 PROVE  /\ row'[t] \in Rows
                        /\ row'[t].stage = None
                        /\ \/ row'[t] = row[t]
                           \/ /\ row[t].cleaned /\ row[t].state = "committed"
                              /\ row'[t].state = "committed"
                              /\ row'[t].lease = None /\ row'[t].cleaned = FALSE
                           \/ /\ row[t].cleaned /\ row[t].state = "cleanup_not_attempted"
                              /\ row'[t] = NoRow
      OBVIOUS
    <2>1. row'[t] = Purged(row[t]) /\ Purged(row[t]).stage = None /\ row[t] \in Rows
      BY <1>1 DEF ChangePutRoot, Types, RowTypes
    <2>2. CASE row[t].cleaned /\ row[t].lease = None /\ row[t].state = "committed"
      BY <2>1, <2>2 DEF Purged, Rows
    <2>3. CASE row[t].cleaned /\ row[t].lease = None /\ row[t].state = "cleanup_not_attempted"
      BY <2>1, <2>3 DEF Purged, Rows, NoRow, States
    <2>4. CASE ~(row[t].cleaned /\ row[t].lease = None
                   /\ row[t].state \in {"committed", "cleanup_not_attempted"})
      BY <2>1, <2>4 DEF Purged
    <2> QED
      BY <2>2, <2>3, <2>4
  <1>5. Types'
    <2>1. RowTypes'
      BY <1>4 DEF RowTypes, ChangePutRoot
    <2> QED
      BY <1>1, <1>2, <2>1 DEF Types, SenderTypes, LinkTypes, DiskTypes, LockTypes, WorkerTypes,
          HistTypes
  <1>6. ASSUME NEW a \in Attempts PROVE AttemptSound(a)'
    BY <1>1, <1>2, <1>3 DEF Sound, AttemptSound, LockHeldBy, LoadedCopyOf, WorkingCopyOf, Working,
        NotYetPublishedBy, CommitKnownBy, SessionOf, LockedPCs, WorkPCs, SettlePCs
  <1>7. ASSUME NEW w \in Workers PROVE WorkerSound(w)'
    <2>1. wk'[w].pc \in {"off", "end", "abandon"}
      BY <1>2, <1>3, AreWorkers DEF Workers
    <2> QED
      BY <2>1 DEF WorkerSound, SettledCopyOf, PlanOf, SettlePCs
  <1>8. ASSUME NEW t \in Puts PROVE PutSound(t)'
    <2>1. PutSound(t)
      BY <1>1 DEF Sound
    <2>2. RowSound(t)'
      BY <2>1, <1>4 DEF PutSound, RowSound, NoRow
    <2>3. PastRecordedOf(t)' /\ CommitRecordedOf(t)' /\ PublishedOnceOf(t)'
      BY <2>1, <1>2, <1>4 DEF PutSound, PastRecordedOf, CommitRecordedOf, PublishedOnceOf, NoRow
    <2>4. CleanedSoundOf(t)'
      BY <2>1, <1>2, <1>4 DEF PutSound, CleanedSoundOf, NoRow
    <2> QED
      BY <2>2, <2>3, <2>4 DEF PutSound
  <1>9. StagesOnRecord'
    <2> SUFFICES ASSUME NEW f \in files
                 PROVE  PutOf[f] \in hist.overtaken \/ row'[PutOf[f]].stage = f
      BY <1>2 DEF StagesOnRecord
    <2>1. PutOf[f] \in Puts
      BY <1>1, PutAssumption DEF Types, DiskTypes
    <2>2. PutOf[f] \in hist.overtaken \/ row[PutOf[f]].stage = f
      BY <1>1 DEF Sound, StagesOnRecord
    <2>3. CleanedSoundOf(PutOf[f])
      BY <1>1, <2>1 DEF Sound, PutSound
    <2> QED
      BY <1>4, <2>1, <2>2, <2>3 DEF CleanedSoundOf
  <1>10. ASSUME NEW t, t \in hist.unfound \cup hist.lapsed \/ t \in Puts, Over(t)
         PROVE  Over(t)'
    BY <1>2, <1>4, <1>10 DEF Over, Harmless, NoRow
  <1>11. FailureIsClean' /\ RejectionIsOver'
    BY <1>1, <1>2, <1>10, PutAssumption DEF Sound, FailureIsClean, Failing, RejectionIsOver,
        Types, HistTypes, Histories
  <1>12. OperatorQuits' /\ DestPublished' /\ RenamesInspected' /\ OneSender' /\ RejectedIsFinal'
    BY <1>1, <1>2 DEF Sound, OperatorQuits, DestPublished, RenamesInspected, OneSender, SenderLeased,
        SenderAlone, UnsentOff, RejectedIsFinal
  <1> QED
    BY <1>5, <1>6, <1>7, <1>8, <1>9, <1>11, <1>12 DEF PutInv, Sound

\* A step of the sending agent keeps the invariant.
LEMMA SenderStepPreserves ==
    ASSUME PutInv, NEW a \in Attempts,
           Submit(a) \/ Retry(a) \/ Break(a) \/ SenderStep(a)
    PROVE  PutInv'
  BY SubmitPreserves, RetryPreserves, BreakPreserves, OnPreparedPreserves, OnReadyPreserves,
     OnUnreadyPreserves, OnTerminalPreserves, SendFailsPreserves
  DEF SenderStep

\* A step of a settlement keeps the invariant, whoever takes it.
LEMMA SettlementPreserves ==
    ASSUME PutInv, NEW w \in Workers, SettlementStep(w)
    PROVE  PutInv'
  BY BeginCleanupPreserves, UnlinkStagePreserves, MarkCleanedPreserves, DropStagePreserves
  DEF SettlementStep

\* A step of the receiving agent keeps the invariant.
LEMMA ReceiverStepPreserves ==
    ASSUME PutInv, NEW a \in Attempts, ReceiverStep(a)
    PROVE  PutInv'
  <1>1. CASE \/ ReceiveOffer(a) \/ LockDestination(a) \/ AnswerAdjudicated(a)
             \/ AnswerCommitted(a) \/ AnswerUnknown(a) \/ Prepare(a) \/ OnStart(a)
    BY <1>1, ReceiveOfferPreserves, LockDestinationPreserves, AnswerAdjudicatedPreserves,
       AnswerCommittedPreserves, AnswerUnknownPreserves, PreparePreserves, OnStartPreserves
  <1>2. CASE \/ Admit(a) \/ OpenStage(a) \/ AttachStage(a) \/ SelectReap(a)
             \/ (\E t \in Puts : ReapNext(a, t)) \/ ReapDone(a) \/ OnComplete(a)
    BY <1>2, AdmitPreserves, OpenStagePreserves, AttachStagePreserves, SelectReapPreserves,
       ReapNextPreserves, ReapDonePreserves, OnCompletePreserves
  <1>3. CASE \/ PublicationIntent(a) \/ LinkStage(a) \/ ValidateReplacement(a)
             \/ RenameStage(a) \/ CancelPublish(a) \/ CheckPublication(a) \/ Reconcile(a)
    BY <1>3, PublicationIntentPreserves, LinkStagePreserves, ValidateReplacementPreserves,
       RenameStagePreserves, CancelPublishPreserves, CheckPublicationPreserves,
       ReconcilePreserves
  <1>4. CASE \/ CommitReceiver(a) \/ SettlementStep(a) \/ Deliver(a) \/ OnResultAck(a)
             \/ RecvFails(a)
    BY <1>4, CommitReceiverPreserves, SettlementPreserves, AreWorkers, DeliverPreserves,
       OnResultAckPreserves, RecvFailsPreserves
  <1> QED
    BY <1>1, <1>2, <1>3, <1>4 DEF ReceiverStep

\* Every step keeps the invariant.
LEMMA NextPreserves ==
    ASSUME PutInv, [Next]_vars
    PROVE  PutInv'
  <1>1. CASE \E a \in Attempts :
                 Submit(a) \/ Retry(a) \/ Break(a) \/ SenderStep(a) \/ ReceiverStep(a)
    BY <1>1, SenderStepPreserves, ReceiverStepPreserves
  <1>2. CASE \E t \in Puts : \/ AbandonLoad(t) \/ AbandonSend(t) \/ ResolveClaim(t)
                             \/ Age(t) \/ ExpireSend(t) \/ ExpireReceive(t)
    BY <1>2, AbandonLoadPreserves, AbandonSendPreserves, ResolveClaimPreserves, AgePreserves,
       ExpireSendPreserves, ExpireReceivePreserves
  <1>3. CASE AbandonClaim \/ ResolveIntent \/ SettlementStep(Operator)
    BY <1>3, AbandonClaimPreserves, ResolveIntentPreserves, SettlementPreserves, AreWorkers
  <1>4. CASE \/ SenderCrash \/ ReceiverCrash \/ UserMovesParent \/ ChangePutRoot
             \/ \E n \in Names : UserMoves(n)
    BY <1>4, SenderCrashPreserves, ReceiverCrashPreserves, UserMovesParentPreserves,
       ChangePutRootPreserves, UserMovesPreserves
  <1>5. CASE UNCHANGED vars
    <2>1. Types'
      BY <1>5 DEF PutInv, Types, SenderTypes, LinkTypes, RowTypes, DiskTypes, LockTypes,
          WorkerTypes, HistTypes, vars, sender, disk
    <2>2. Sound'
      BY <1>5, UnchangedKeeps DEF vars, sender, disk
    <2> QED
      BY <2>1, <2>2 DEF PutInv
  <1> QED
    BY <1>1, <1>2, <1>3, <1>4, <1>5 DEF Next

\* The inductive invariant holds throughout, whatever the agents, the operator,
\* the user and the crashes do.
THEOREM PutInvariant == Spec => []PutInv
  <1>1. Init => PutInv
    BY InitSound
  <1>2. PutInv /\ [Next]_vars => PutInv'
    BY NextPreserves
  <1> QED
    BY <1>1, <1>2, PTL DEF Spec

\* What the invariant says of results: a commit is of a published put, and a
\* rejected put was not published and has left no stage.
LEMMA SoundResults ==
    ASSUME PutInv
    PROVE  ResultsAreTrue
  <1>1. CommitIsPublished
    BY DEF PutInv, Sound, PutSound, CommitRecordedOf, AttemptSound, CommitKnownBy,
        CommitIsPublished
  <1>2. ASSUME NEW t \in hist.rejected \ (hist.unfound \cup hist.lapsed)
        PROVE  hist.pubs[t] = 0 /\ (t \in hist.overtaken \/ \A f \in files : PutOf[f] # t)
    <2>1. t \in Puts
      BY DEF PutInv, Types, HistTypes, Histories
    <2>2. hist.pubs[t] = 0 /\ row[t].state = "none"
      BY DEF PutInv, Sound, RejectionIsOver, Over
    <2>3. row[t].stage = None
      BY <2>1, <2>2 DEF PutInv, Sound, PutSound, RowSound
    <2>4. \A f \in files : f # None
      BY PutAssumption DEF PutInv, Types, DiskTypes
    <2>5. ASSUME NEW f \in files, PutOf[f] = t
          PROVE  t \in hist.overtaken
      BY <2>3, <2>4, <2>5 DEF PutInv, Sound, StagesOnRecord
    <2> QED
      BY <2>2, <2>5
  <1> QED
    BY <1>1, <1>2 DEF ResultsAreTrue, RejectionIsClean

\* What it says of publications and of records.
LEMMA SoundRecords ==
    ASSUME PutInv
    PROVE  PublishedOnce /\ RecordsTrue
  <1>1. PublishedOnce
    BY DEF PutInv, Sound, PutSound, PublishedOnceOf, PublishedOnce
  <1>2. TypeOK
    BY TypesAreOK DEF PutInv, Sound, AttemptSound
  <1>3. StagesOnRecord
    BY DEF PutInv, Sound
  <1> QED
    BY <1>1, <1>2, <1>3 DEF RecordsTrue

\* Nobody claims a commit without a publication (CommitReceiver,
\* MarkSenderCommitted), and a put whose sender was told of a final failure
\* (rejectCleanup) was not published and has left no stage behind, but for the
\* exceptions that hist names: refused before its record was looked for, with its
\* directory away or the put root changed (unfound), its record lapsed, or
\* overtaken by the operator.
THEOREM ResultsStayTrue == Spec => []ResultsAreTrue
  BY PutInvariant, SoundResults, PTL

\* However sessions break, agents crash, attempts are retried and records are
\* reaped, a put is published at most once while its record lasts.
THEOREM PublicationIsOnce == Spec => []PublishedOnce
  <1>1. PutInv => PublishedOnce
    BY SoundRecords
  <1> QED
    BY <1>1, PutInvariant, PTL

\* The rows of put_transfers name every stage on disk (cleanupStage), but for the
\* puts that were overtaken.
THEOREM RecordsStayTrue == Spec => []RecordsTrue
  <1>1. PutInv => RecordsTrue
    BY SoundRecords
  <1> QED
    BY <1>1, PutInvariant, PTL

\* All of it, too, for puts that aim at one name and settle what others have left
\* (ReapParent).
THEOREM PutsAreSound == Spec => []PutsStaySound
  <1>1. PutInv => PutsStaySound
    BY SoundResults, SoundRecords DEF PutsStaySound
  <1> QED
    BY <1>1, PutInvariant, PTL

\* A replacement destroys the file that was inspected or one of the user's, never
\* one that another put has published since (publishReplacement).
THEOREM ReplacementsInspected == Spec => ReplacesWhatItInspected
  <1> DEFINE Inspected ==
          \A a \in Attempts :
              LET n == DestOf[PutOf[a]] IN
              wk[a].pc = "rename" /\ dest'[n] # dest[n] /\ dest'[n] = wk[a].own.stage
                  => dest[n] = wk[a].own.old \/ dest[n] \notin Attempts
  <1>1. PutInv => Inspected
    BY DEF PutInv, Sound, RenamesInspected
  <1>2. PutInv /\ [Next]_vars => [Inspected]_vars
    BY <1>1
  <1> QED
    BY <1>2, PutInvariant, PTL DEF Spec, ReplacesWhatItInspected

=============================================================================

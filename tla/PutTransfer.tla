----------------------------- MODULE PutTransfer -----------------------------
(***************************************************************************)
(* Remote put, "px-put-v3" (internal/put): one agent creates or replaces   *)
(* files below another agent's put root.                                   *)
(*                                                                         *)
(* The receiver writes a stage file next to the destination, records a     *)
(* publication intent, links (create) or renames (replace) the stage to    *)
(* its name and then commits.  After a crash only the row and the file     *)
(* identities in the directory say what happened.  A row is changed by the *)
(* holder of its lease; a receive holds the lock of its directory          *)
(* throughout.  The local operator may abandon a record or accept the      *)
(* current file, without that lock.                                        *)
(*                                                                         *)
(* Abstractions: one destination directory; a stage is named, and its file *)
(* identified, by the attempt that reserved it; the payload is one         *)
(* message; a lease token is named by its holder; the cleanup facts        *)
(* stage_removed and parent_synced are one.  The build is the Unix one     *)
(* (no backups).                                                           *)
(***************************************************************************)
EXTENDS Naturals

CONSTANTS
    Puts,            \* transfer IDs
    Attempts,        \* sessions; each is used once
    PutOf,           \* [Attempts -> Puts]
    Names,           \* names in the destination directory
    DestOf,          \* [Puts -> Names]
    Replace,         \* the puts of mode "replace"
    Expecting,       \* those of them with ExpectSHA256, of a file of the user's
    UserFiles,       \* files the receiving user makes
    Operator,        \* the receiving agent's local operator
    None,
    Scenes           \* bound of the model: sets of the kinds of interference below

\* The receiving user touches the destination, or moves its directory away
\* for a while; the operator acts; the put root or allow_put is changed; 24 hours
\* pass; an agent stops.
Kinds == {"user", "parent", "operator", "root", "age", "sender_crash", "receiver_crash"}

ASSUME PutAssumption ==
    /\ Puts # {}
    /\ PutOf \in [Attempts -> Puts]
    /\ DestOf \in [Puts -> Names]
    /\ Replace \subseteq Puts
    /\ Expecting \subseteq Replace
    /\ UserFiles \cap Attempts = {}
    /\ Operator \notin Attempts
    /\ None \notin Attempts \cup UserFiles \cup {Operator}
    /\ Scenes \subseteq SUBSET Kinds

VARIABLES
    scene,    \* what may interfere in this behaviour
    sRow,     \* put_transfers rows with direction 'send': their state
    sLease,   \* and lease
    aged,     \* puts whose send row has passed its 24 hours
    spc,      \* the goroutine in Send
    link,     \* the direct session of each attempt
    row,      \* put_transfers rows with direction 'receive'
    files,    \* stages present under their own names
    dest,     \* the file at each destination name
    parent,   \* whether the directory is where the record says
    stale,    \* puts whose manifest, as the sender keeps it, names an earlier
              \* put_root_revision than the receiver's
    lock,     \* holder of the destination lock
    wk,       \* the goroutine in Receive of each attempt, and the operator
    hist      \* history, below

sender == <<sRow, sLease, aged, spc>>
\* The directory, with what may happen to it and whom the put root admits.
disk == <<files, dest, parent, scene, stale>>
vars == <<sender, link, row, disk, lock, wk, hist>>

Workers == Attempts \cup {Operator}
Identities == Attempts \cup UserFiles

States == {"none", "stage_intent", "transferring", "publication_intent",
           "committed", "outcome_unknown", "cleanup_not_attempted",
           "accept_current_intent", "resolved_accept_current"}
Rows == [state : States, stage : Attempts \cup {None},
         old : Identities \cup {None},        \* OldIdentity
         accepted : Identities \cup {None},   \* ResolutionDestinationIdentity
         cleaned : BOOLEAN,                   \* stage_removed and parent_synced
         lease : Workers \cup {None}]
NoRow == [state |-> "none", stage |-> None, old |-> None, accepted |-> None,
          cleaned |-> FALSE, lease |-> None]

Terminals == {"error", "retryable_error", "committed"}
ToReceiver == {"offer", "start", "complete", "result_ack"}
ToSender == {"prepared", "ready"} \cup Terminals
ASSUME NoMessage == None \notin ToReceiver \cup ToSender
Links == [up : BOOLEAN, toR : ToReceiver \cup {None}, toS : ToSender \cup {None}]

SendPCs == {"off", "await_prepared", "await_ready", "await_result", "end"}
RecvPCs == {"off", "await_offer", "locking", "loaded", "await_start", "admit",
            "open", "attach", "select", "reap", "await_data", "intent", "publish",
            "rename", "check", "reconcile", "commit", "abort", "unlink", "mark",
            "drop", "deliver", "await_ack", "end"}
OperatorPCs == {"off", "abandon", "preflight", "abort", "unlink", "mark", "drop"}

\* What a settlement is run for, and so what follows it.
Plans == {"reject", "commit", "late_commit", "fresh", "afresh", "silent", "quit"}

\* own: the attempt's copy of its record; put, rec: the record it settles.
WorkerStates == [pc : RecvPCs \cup OperatorPCs, own : Rows, put : Puts, rec : Rows,
                 plan : Plans, out : Terminals, todo : SUBSET Puts]

\* A worker that has not started or has returned.
Blank(pc) == [pc |-> pc, own |-> NoRow, put |-> CHOOSE t \in Puts : TRUE, rec |-> NoRow,
              plan |-> "quit", out |-> "error", todo |-> {}]

(***************************************************************************)
(* hist.pubs counts publications; rejected: the sender was told of a clean *)
(* failure; unfound: it was, before its record was looked for: the         *)
(* directory was away or the put root had changed; lapsed: the record of a *)
(* published put was abandoned or has expired; overtaken: a retry claimed  *)
(* its record after the operator had changed it.                           *)
(***************************************************************************)
Histories == [pubs : [Puts -> Nat],
              rejected : SUBSET Puts, unfound : SUBSET Puts,
              lapsed : SUBSET Puts, overtaken : SUBSET Puts]

\* The type invariant.  A receive never reaps the record it works for.
TypeOK ==
    /\ sRow \in [Puts -> {"unsent", "none", "transferring", "committed"}]
    /\ sLease \in [Puts -> Attempts \cup {None}]
    /\ aged \subseteq Puts
    /\ spc \in [Attempts -> SendPCs]
    /\ link \in [Attempts -> Links]
    /\ row \in [Puts -> Rows]
    /\ files \subseteq Attempts
    /\ dest \in [Names -> Identities \cup {None}]
    /\ parent \in BOOLEAN
    /\ stale \subseteq Puts
    /\ lock \in Attempts \cup {None}
    /\ wk \in [Workers -> WorkerStates]
    /\ hist \in Histories
    /\ \A a \in Attempts : PutOf[a] \notin wk[a].todo

Init ==
    /\ scene \in Scenes
    /\ sRow = [t \in Puts |-> "unsent"]
    /\ sLease = [t \in Puts |-> None]
    /\ aged = {}
    /\ spc = [a \in Attempts |-> "off"]
    /\ link = [a \in Attempts |-> [up |-> FALSE, toR |-> None, toS |-> None]]
    /\ row = [t \in Puts |-> NoRow]
    /\ files = {}
    /\ dest \in [Names -> UserFiles \cup {None}]
    /\ parent = TRUE
    /\ stale = {}
    /\ lock = None
    /\ wk = [w \in Workers |-> Blank("off")]
    /\ hist = [pubs |-> [t \in Puts |-> 0], rejected |-> {}, unfound |-> {},
               lapsed |-> {}, overtaken |-> {}]

(***************************************************************************)
(* The session: each side waits for the other, so one slot each way.       *)
(***************************************************************************)
FromS(a, type) == link[a].toR = type
FromR(a, types) == link[a].toS \in types

\* The sender takes a message and sends one.
SExchange(a, m) ==
    /\ link[a].up
    /\ link' = [link EXCEPT ![a].toS = None, ![a].toR = m]

Break(a) ==
    /\ link[a].up
    /\ link' = [link EXCEPT ![a].up = FALSE]
    /\ UNCHANGED <<sender, row, disk, lock, wk, hist>>

(***************************************************************************)
(* The sending agent: Send.                                                *)
(***************************************************************************)
ReleaseSend(a) == sLease' = [t \in Puts |-> IF sLease[t] = a THEN None ELSE sLease[t]]

SReturn(a) ==
    /\ spc' = [spc EXCEPT ![a] = "end"]
    /\ ReleaseSend(a)
    /\ link' = [link EXCEPT ![a].up = FALSE, ![a].toS = None]

Offer(a) ==
    /\ spc[a] = "off"
    /\ spc' = [spc EXCEPT ![a] = "await_prepared"]
    /\ link' = [link EXCEPT ![a].up = TRUE, ![a].toR = "offer"]
    /\ wk' = [wk EXCEPT ![a].pc = "await_offer"]
    /\ UNCHANGED <<aged, row, disk, lock, hist>>

\* A new put has a new ID and no row yet.
Submit(a) ==
    /\ sRow[PutOf[a]] = "unsent"
    /\ sRow' = [sRow EXCEPT ![PutOf[a]] = "none"]
    /\ UNCHANGED sLease
    /\ Offer(a)

\* ClaimSender, then the offer of the persisted manifest.
Retry(a) ==
    /\ sRow[PutOf[a]] = "transferring" /\ sLease[PutOf[a]] = None
    /\ PutOf[a] \notin aged
    /\ sLease' = [sLease EXCEPT ![PutOf[a]] = a]
    /\ UNCHANGED sRow
    /\ Offer(a)

\* ReserveSender for a new put (or its capacity error), then "start".
OnPrepared(a) ==
    /\ spc[a] = "await_prepared" /\ FromR(a, {"prepared"})
    /\ \/ /\ SExchange(a, "start")
          /\ sRow' = [sRow EXCEPT ![PutOf[a]] = "transferring"]
          /\ sLease' = [sLease EXCEPT ![PutOf[a]] = a]
          /\ spc' = [spc EXCEPT ![a] = "await_ready"]
       \/ sLease[PutOf[a]] # a /\ SReturn(a) /\ UNCHANGED sRow
    /\ UNCHANGED <<aged, row, disk, lock, wk, hist>>

\* The payload and "complete", or the source is found to have changed.
OnReady(a) ==
    /\ spc[a] = "await_ready" /\ FromR(a, {"ready"})
    /\ \/ /\ SExchange(a, "complete")
          /\ spc' = [spc EXCEPT ![a] = "await_result"]
          /\ UNCHANGED sLease
       \/ SReturn(a)
    /\ UNCHANGED <<sRow, aged, row, disk, lock, wk, hist>>

\* "committed" where "ready" was expected: an error, and the row stays.
Unready(a) == spc[a] = "await_ready" /\ FromR(a, {"committed"})
OnUnready(a) ==
    /\ Unready(a)
    /\ SReturn(a)
    /\ UNCHANGED <<sRow, aged, row, disk, lock, wk, hist>>

\* senderCommitted and senderTerminalError: settle the row, then acknowledge.
OnTerminal(a) ==
    LET t == PutOf[a]
        told == link[a].toS IN
    /\ spc[a] \in {"await_prepared", "await_ready", "await_result"}
    /\ FromR(a, Terminals) /\ ~Unready(a)
    /\ sRow' = [sRow EXCEPT ![t] = CASE told = "committed" -> "committed"
                                     [] told = "error" -> "none"
                                     [] OTHER -> @]
    /\ hist' = [hist EXCEPT !.rejected = IF told = "error" THEN @ \cup {t} ELSE @]
    /\ link' = [link EXCEPT ![a].toS = None, ![a].toR = "result_ack"]
    /\ ReleaseSend(a)
    /\ spc' = [spc EXCEPT ![a] = "end"]
    /\ UNCHANGED <<aged, row, disk, lock, wk>>

SendFails(a) ==
    /\ spc[a] \in {"await_prepared", "await_ready", "await_result"}
    /\ ~link[a].up
    /\ SReturn(a)
    /\ UNCHANGED <<sRow, aged, row, disk, lock, wk, hist>>

(***************************************************************************)
(* The receiving agent: Receive.                                           *)
(***************************************************************************)
Own(a) == PutOf[a]
At(t) == dest[DestOf[t]]
Goto(w, pc) == wk' = [wk EXCEPT ![w].pc = pc]

\* ReleaseReceiver of everything w holds.
Released(rows, w) ==
    [t \in Puts |-> IF rows[t].lease = w THEN [rows[t] EXCEPT !.lease = None] ELSE rows[t]]

\* ReleaseReceiver of the record w settles.
Freed(rows, w) == [rows EXCEPT ![wk[w].put].lease = None]

\* Done with a record that is not the attempt's own.
Idle(w) ==
    wk' = [wk EXCEPT ![w] = IF w = Operator THEN Blank("off")
                            ELSE [Blank("reap") EXCEPT !.own = wk[w].own, !.todo = wk[w].todo]]

\* Deliver the terminal message before returning.
Reply(a, m) == wk' = [wk EXCEPT ![a] = [Blank("deliver") EXCEPT !.out = m]]

\* Mutant: the lock is not given back.
RReturnLocked(a, rows) ==
    /\ wk' = [wk EXCEPT ![a] = Blank("end")]
    /\ row' = Released(rows, a)
    /\ link' = [link EXCEPT ![a].up = FALSE, ![a].toR = None]
    /\ UNCHANGED lock

\* Return: the deferred releases of lease, lock and session.
RReturn(a, rows) ==
    /\ wk' = [wk EXCEPT ![a] = Blank("end")]
    /\ row' = Released(rows, a)
    /\ lock' = IF lock = a THEN None ELSE lock
    /\ link' = [link EXCEPT ![a].up = FALSE, ![a].toR = None]

\* ClaimReceiver.
Claimable(r) ==
    /\ r.lease = None
    /\ \/ r.state \in States \ {"none", "committed", "resolved_accept_current"}
       \/ r.state = "committed" /\ r.stage # None
Claim(w, t) == row' = [row EXCEPT ![t].lease = w]

\* Settle the attempt's own record from pc on.
Settle(a, pc, plan) ==
    wk' = [wk EXCEPT ![a].pc = pc, ![a].plan = plan, ![a].put = Own(a),
                     ![a].rec = wk[a].own]

\* The offer.  validateManifestFor fails if a retry names an earlier revision of
\* the put root, openDestinationParent if the directory is away; either way the
\* put is refused for good, whatever its record says.
ReceiveOffer(a) ==
    /\ wk[a].pc = "await_offer" /\ FromS(a, "offer")
    /\ link' = [link EXCEPT ![a].toR = None]
    /\ \/ /\ Own(a) \notin stale /\ parent
          /\ Goto(a, "locking")
          /\ UNCHANGED hist
       \/ /\ Own(a) \in stale \/ ~parent
          /\ Reply(a, "error")
          /\ hist' = [hist EXCEPT !.unfound = @ \cup {Own(a)}]
    /\ UNCHANGED <<sender, row, disk, lock>>

\* lockPutDestination, then Load.
LockDestination(a) ==
    /\ wk[a].pc = "locking"
    /\ lock = None
    /\ lock' = a
    /\ wk' = [wk EXCEPT ![a].pc = "loaded", ![a].own = row[Own(a)]]
    /\ UNCHANGED <<sender, link, row, disk, hist>>

\* The record is being, or was, adjudicated by the operator.
AnswerAdjudicated(a) ==
    /\ wk[a].pc = "loaded"
    /\ wk[a].own.state \in {"accept_current_intent", "resolved_accept_current"}
    /\ Reply(a, "retryable_error")
    /\ UNCHANGED <<sender, link, row, disk, lock, hist>>

\* A committed record is answered, and cleaned up if it has to be.
AnswerCommitted(a) ==
    /\ wk[a].pc = "loaded" /\ wk[a].own.state = "committed"
    /\ \/ /\ wk[a].own.stage # None /\ Claimable(row[Own(a)])
          /\ Claim(a, Own(a))
          /\ Settle(a, "unlink", "commit")
       \/ /\ wk[a].own.stage = None \/ ~Claimable(row[Own(a)])
          /\ Reply(a, "committed")
          /\ UNCHANGED row
    /\ UNCHANGED <<sender, link, disk, lock, hist>>

AnswerUnknown(a) ==
    /\ wk[a].pc = "loaded" /\ wk[a].own.state = "outcome_unknown"
    /\ \/ /\ Claimable(row[Own(a)])
          /\ Claim(a, Own(a))
          /\ Settle(a, "reconcile", "afresh")
       \/ /\ ~Claimable(row[Own(a)])
          /\ Reply(a, "retryable_error")
          /\ UNCHANGED row
    /\ UNCHANGED <<sender, link, disk, lock, hist>>

Prepare(a) ==
    /\ wk[a].pc = "loaded"
    /\ wk[a].own.state \in {"none", "stage_intent", "transferring",
                            "publication_intent", "cleanup_not_attempted"}
    /\ link[a].up
    /\ link' = [link EXCEPT ![a].toS = "prepared"]
    /\ Goto(a, "await_start")
    /\ UNCHANGED <<sender, row, disk, lock, hist>>

\* The sender has its row; claim ours and continue where it was left.
OnStart(a) ==
    LET state == wk[a].own.state IN
    /\ wk[a].pc = "await_start" /\ FromS(a, "start")
    /\ link' = [link EXCEPT ![a].toR = None]
    /\ \/ state = "none" /\ Goto(a, "admit") /\ UNCHANGED row
       \/ /\ state # "none" /\ ~Claimable(row[Own(a)])
          /\ Reply(a, "retryable_error")
          /\ UNCHANGED row
       \/ /\ state # "none" /\ Claimable(row[Own(a)])
          /\ Claim(a, Own(a))
          /\ \/ state = "cleanup_not_attempted" /\ Settle(a, "unlink", "fresh")
             \/ state = "publication_intent" /\ Settle(a, "reconcile", "reject")
             \/ state \in {"stage_intent", "transferring"} /\ Goto(a, "admit")
    /\ hist' = [hist EXCEPT !.overtaken =
                    IF row[Own(a)].state # state THEN @ \cup {Own(a)} ELSE @]
    /\ UNCHANGED <<sender, disk, lock>>

\* validateReplacementFile: the file has no second link, as the stage of an
\* unfinished create has.
Unlinked(f) == f \notin files

\* validateCreateDestination; for a new record inspectReplacementDestination
\* and ReserveReceiver, which may be refused for want of capacity.
Admit(a) ==
    LET t == Own(a)
        fits == IF t \in Replace THEN At(t) # None /\ Unlinked(At(t)) ELSE At(t) = None
        r == [NoRow EXCEPT !.state = "stage_intent", !.stage = a, !.lease = a,
                           !.old = IF t \in Replace THEN At(t) ELSE None]
    IN
    /\ wk[a].pc = "admit"
    /\ \/ /\ wk[a].own.state # "none" /\ t \notin Replace /\ At(t) # None
          /\ Settle(a, "abort", "reject")
          /\ UNCHANGED row
       \/ /\ wk[a].own.state # "none" /\ (t \in Replace \/ At(t) = None)
          /\ Goto(a, "open")
          /\ UNCHANGED row
       \/ /\ wk[a].own.state = "none" /\ fits
          /\ row' = [row EXCEPT ![t] = r]
          /\ wk' = [wk EXCEPT ![a].pc = "open", ![a].own = r]
       \/ /\ wk[a].own.state = "none"
          /\ Reply(a, "error")
          /\ UNCHANGED row
    /\ UNCHANGED <<sender, link, disk, lock, hist>>

\* createOrOpenStage.
OpenStage(a) ==
    LET t == Own(a)
        own == wk[a].own
        fresh == own.state = "stage_intent"
        ok == /\ fresh \/ own.stage \in files
              /\ t \in Replace => At(t) = own.old /\ Unlinked(At(t))
    IN
    /\ wk[a].pc = "open"
    /\ files' = IF fresh THEN files \cup {own.stage} ELSE files
    /\ \/ ok /\ Goto(a, IF fresh THEN "attach" ELSE "select")
       \/ ~ok /\ Settle(a, "abort", "reject")
    /\ UNCHANGED <<sender, link, row, dest, parent, scene, stale, lock, hist>>

\* AttachStage, or its error.
AttachStage(a) ==
    /\ wk[a].pc = "attach"
    /\ \/ /\ row[Own(a)].state = "stage_intent" /\ row[Own(a)].lease = a
          /\ row' = [row EXCEPT ![Own(a)].state = "transferring"]
          /\ wk' = [wk EXCEPT ![a].pc = "select", ![a].own.state = "transferring"]
       \/ Settle(a, "abort", "reject") /\ UNCHANGED row
    /\ UNCHANGED <<sender, link, disk, lock, hist>>

\* ReapParent's query: other records of the directory that have something to
\* settle; limits, retry times and expiry leave some of them out.
SelectReap(a) ==
    LET due == {t \in Puts : /\ t # Own(a) /\ Claimable(row[t])
                             /\ row[t].state # "accept_current_intent"
                             /\ row[t].state \in {"stage_intent", "transferring"} => t \in aged}
    IN
    /\ wk[a].pc = "select"
    /\ \E some \in SUBSET due :
           wk' = [wk EXCEPT ![a].pc = "reap", ![a].todo = some]
    /\ UNCHANGED <<sender, link, row, disk, lock, hist>>

\* Claim one of them if it is still free, and settle it by its state now.
ReapNext(a, t) ==
    LET r == row[t]
        next == CASE r.state \in {"publication_intent", "outcome_unknown"} -> "reconcile"
                  [] r.state = "cleanup_not_attempted" \/ (r.state = "committed" /\ r.stage # None)
                        -> "unlink"
                  [] r.state \in {"stage_intent", "transferring"} -> "abort"
                  [] OTHER -> "reap"
    IN
    /\ wk[a].pc = "reap" /\ t \in wk[a].todo
    /\ \/ /\ r.lease = None /\ next # "reap"
          /\ Claim(a, t)
          /\ wk' = [wk EXCEPT ![a].pc = next, ![a].todo = @ \ {t}, ![a].put = t,
                              ![a].rec = r, ![a].plan = "quit"]
       \/ /\ r.lease # None \/ next = "reap"
          /\ wk' = [wk EXCEPT ![a].todo = @ \ {t}]
          /\ UNCHANGED row
    /\ UNCHANGED <<sender, link, disk, lock, hist>>

\* "ready".
ReapDone(a) ==
    /\ wk[a].pc = "reap" /\ wk[a].todo = {}
    /\ link[a].up
    /\ link' = [link EXCEPT ![a].toS = "ready"]
    /\ Goto(a, "await_data")
    /\ UNCHANGED <<sender, row, disk, lock, hist>>

\* receiveData up to VerifyContent: what arrived is the manifest's, or the
\* put is aborted.
OnComplete(a) ==
    /\ wk[a].pc = "await_data" /\ FromS(a, "complete")
    /\ link' = [link EXCEPT ![a].toR = None]
    /\ \/ parent /\ wk[a].own.stage \in files /\ Goto(a, "intent")
       \/ Settle(a, "abort", "reject")
    /\ UNCHANGED <<sender, row, disk, lock, hist>>

\* PublicationIntent.
PublicationIntent(a) ==
    LET t == Own(a) IN
    /\ wk[a].pc = "intent"
    /\ \/ /\ row[t].state = "transferring" /\ row[t].lease = a
          /\ row' = [row EXCEPT ![t].state = "publication_intent"]
          /\ wk' = [wk EXCEPT ![a].pc = "publish", ![a].own.state = "publication_intent"]
          /\ UNCHANGED <<lock, link>>
       \/ /\ row[t].state # "transferring"
          /\ RReturn(a, row)
    /\ UNCHANGED <<sender, disk, hist>>

Published(t) == hist' = [hist EXCEPT !.pubs[t] = @ + 1]

\* Stage.Publish, create: linkat is exclusive, and may fail.
LinkStage(a) ==
    LET t == Own(a) IN
    /\ wk[a].pc = "publish" /\ t \notin Replace
    /\ \/ /\ parent /\ At(t) = None /\ wk[a].own.stage \in files
          /\ dest' = [dest EXCEPT ![DestOf[t]] = wk[a].own.stage]
          /\ Published(t)
          /\ Goto(a, "check")
       \/ Settle(a, "abort", "reject") /\ UNCHANGED <<dest, hist>>
    /\ UNCHANGED <<sender, link, row, files, parent, scene, stale, lock>>

\* Mutant: the directory is locked up to the validation only.
ValidateReplacementUnlocks(a) ==
    /\ wk[a].pc = "publish" /\ Own(a) \in Replace
    /\ \/ At(Own(a)) = wk[a].own.old /\ Goto(a, "rename") /\ lock' = None
       \/ At(Own(a)) # wk[a].own.old /\ Settle(a, "abort", "reject") /\ UNCHANGED lock
    /\ UNCHANGED <<sender, link, row, disk, hist>>

\* publishReplacement up to the rename: the destination is the file that was
\* inspected and, if the sender asks for it, has the expected content.
ValidateReplacement(a) ==
    LET t == Own(a)
        ok == /\ parent
              /\ At(t) = wk[a].own.old /\ Unlinked(At(t)) /\ wk[a].own.stage \in files
              /\ t \in Expecting => At(t) \in UserFiles
    IN
    /\ wk[a].pc = "publish" /\ t \in Replace
    /\ \/ ok /\ Goto(a, "rename")
       \/ ~ok /\ Settle(a, "abort", "reject")
    /\ UNCHANGED <<sender, link, row, disk, lock, hist>>

\* renameat, which may fail.
RenameStage(a) ==
    LET t == Own(a) IN
    /\ wk[a].pc = "rename"
    /\ Goto(a, "check")
    /\ \/ /\ dest' = [dest EXCEPT ![DestOf[t]] = wk[a].own.stage]
          /\ files' = files \ {wk[a].own.stage}
          /\ Published(t)
       \/ UNCHANGED <<dest, files, hist>>
    /\ UNCHANGED <<sender, link, row, parent, scene, stale, lock>>

\* The context is cancelled before the namespace operation.
CancelPublish(a) ==
    /\ wk[a].pc = "publish" /\ ~link[a].up
    /\ Settle(a, "abort", "silent")
    /\ UNCHANGED <<sender, link, row, disk, lock, hist>>

(***************************************************************************)
(* Evidence: destinationHasIdentity and replacementPublicationEvidence.    *)
(***************************************************************************)
\* Mutant: whatever is not the file of before proves the publication.
ProvenByChange(t, r) == At(t) # r.old

Proven(t, r) == At(t) = r.stage
ProvenNot(t, r) == t \in Replace /\ At(t) = r.old /\ r.stage \in files
MarkUnknown(t) == row' = [row EXCEPT ![t].state = "outcome_unknown"]

\* After the namespace operation.
CheckPublication(a) ==
    LET t == Own(a)
        r == wk[a].own IN
    /\ wk[a].pc = "check"
    /\ \/ Proven(t, r) /\ Settle(a, "commit", "commit") /\ UNCHANGED row
       \/ ProvenNot(t, r) /\ Settle(a, "abort", "reject") /\ UNCHANGED row
       \/ /\ ~Proven(t, r) /\ ~ProvenNot(t, r)
          /\ MarkUnknown(t)
          /\ Reply(a, "retryable_error")
    /\ UNCHANGED <<sender, link, disk, lock, hist>>

\* Mutant: a destination that is not the stage proves that nothing happened.
ReconcileByAbsence(a) ==
    LET t == wk[a].put
        r == wk[a].rec IN
    /\ wk[a].pc = "reconcile" /\ parent
    /\ \/ /\ Proven(t, r)
          /\ wk' = [wk EXCEPT ![a].pc = "commit",
                              ![a].plan = CASE @ = "reject" -> "commit"
                                            [] @ = "afresh" -> "late_commit"
                                            [] OTHER -> @]
       \/ ~Proven(t, r) /\ Goto(a, "abort")
    /\ UNCHANGED <<sender, link, row, disk, lock, hist>>

\* reconcilePublication of a record that may or may not have been published,
\* for the record's own retry or for ReapParent.
Reconcile(a) ==
    LET t == wk[a].put
        r == wk[a].rec
        unknown == ~parent \/ (~Proven(t, r) /\ ~ProvenNot(t, r))
        markable == row[t].state = "publication_intent"
        marked == IF markable THEN [row EXCEPT ![t].state = "outcome_unknown"] ELSE row
    IN
    /\ wk[a].pc = "reconcile"
    /\ \/ /\ parent /\ Proven(t, r)
          /\ wk' = [wk EXCEPT ![a].pc = "commit",
                              ![a].plan = CASE @ = "reject" -> "commit"
                                            [] @ = "afresh" -> "late_commit"
                                            [] OTHER -> @]
          /\ UNCHANGED <<row, lock, link>>
       \/ /\ parent /\ ProvenNot(t, r)
          /\ Goto(a, "abort")
          /\ UNCHANGED <<row, lock, link>>
       \/ /\ unknown /\ wk[a].plan = "quit"
          /\ row' = Freed(marked, a)
          /\ Idle(a)
          /\ UNCHANGED <<lock, link>>
       \/ /\ unknown /\ wk[a].plan = "afresh"
          /\ row' = Freed(row, a)
          /\ Reply(a, "retryable_error")
          /\ UNCHANGED <<lock, link>>
       \/ /\ parent /\ unknown /\ wk[a].plan = "reject" /\ (markable \/ t \in Replace)
          /\ row' = marked
          /\ Reply(a, "retryable_error")
          /\ UNCHANGED <<lock, link>>
       \/ /\ wk[a].plan = "reject" /\ (~parent \/ (unknown /\ ~markable /\ t \notin Replace))
          /\ RReturn(a, row)
    /\ UNCHANGED <<sender, disk, hist>>

\* CommitReceiver, or its error.
CommitReceiver(a) ==
    LET t == wk[a].put
        ok == row[t].state \in {"publication_intent", "outcome_unknown", "committed"} IN
    /\ wk[a].pc = "commit"
    /\ \/ /\ ok
          /\ row' = [row EXCEPT ![t].state = "committed"]
          /\ wk' = [wk EXCEPT ![a].pc = "unlink", ![a].rec.state = "committed"]
          /\ UNCHANGED <<lock, link>>
       \/ /\ wk[a].plan = "quit"
          /\ row' = Freed(row, a)
          /\ Idle(a)
          /\ UNCHANGED <<lock, link>>
       \/ wk[a].plan # "quit" /\ RReturn(a, row)
    /\ UNCHANGED <<sender, disk, hist>>

(***************************************************************************)
(* Settlement: cleanupStage and what leads to it, by whoever has the lease.*)
(***************************************************************************)

\* Mutant: a failed cleanup is reported like a clean one.
ConcludeAlike(w, ok, rows) ==
    /\ hist' = hist
    /\ \/ /\ wk[w].plan \in {"reject", "commit"}
          /\ Reply(w, IF wk[w].plan = "reject" THEN "error" ELSE "committed")
          /\ row' = rows
          /\ UNCHANGED <<lock, link>>
       \/ /\ wk[w].plan \in {"fresh", "afresh"}
          /\ wk' = [wk EXCEPT ![w].pc = IF wk[w].plan = "fresh" THEN "admit" ELSE "loaded",
                              ![w].own = NoRow]
          /\ row' = Freed(rows, w)
          /\ UNCHANGED <<lock, link>>
       \/ wk[w].plan \in {"silent", "late_commit"} /\ RReturn(w, rows)
       \/ /\ wk[w].plan = "quit"
          /\ Idle(w)
          /\ row' = Freed(rows, w)
          /\ UNCHANGED <<lock, link>>

\* The settlement ends, well or not, with rows as it leaves them.
Conclude(w, ok, rows) ==
    /\ hist' = hist
    /\ \/ /\ wk[w].plan \in {"reject", "commit"}
          /\ Reply(w, IF wk[w].plan = "commit" THEN "committed"
                      ELSE IF ok THEN "error" ELSE "retryable_error")
          /\ row' = rows
          /\ UNCHANGED <<lock, link>>
       \/ /\ wk[w].plan = "late_commit" /\ ok
          /\ Reply(w, "committed")
          /\ row' = Freed(rows, w)
          /\ UNCHANGED <<lock, link>>
       \/ /\ wk[w].plan \in {"fresh", "afresh"} /\ ok
          /\ wk' = [wk EXCEPT ![w].pc = IF wk[w].plan = "fresh" THEN "admit" ELSE "loaded",
                              ![w].own = NoRow]
          /\ row' = rows
          /\ UNCHANGED <<lock, link>>
       \/ /\ wk[w].plan \in {"fresh", "afresh"} /\ ~ok
          /\ Reply(w, "retryable_error")
          /\ row' = IF wk[w].plan = "afresh" THEN Freed(rows, w) ELSE rows
          /\ UNCHANGED <<lock, link>>
       \/ /\ wk[w].plan = "silent" \/ (wk[w].plan = "late_commit" /\ ~ok)
          /\ RReturn(w, rows)
       \/ /\ wk[w].plan = "quit"
          /\ Idle(w)
          /\ row' = Freed(rows, w)
          /\ UNCHANGED <<lock, link>>

\* BeginCleanupNotAttempted; the update matches no row in another state.
BeginCleanup(w) ==
    LET t == wk[w].put
        begun == [row[t] EXCEPT !.state = "cleanup_not_attempted"] IN
    /\ wk[w].pc = "abort"
    /\ \/ /\ row[t].state \in {"stage_intent", "transferring", "publication_intent",
                               "outcome_unknown"}
          /\ row' = [row EXCEPT ![t] = begun]
          /\ wk' = [wk EXCEPT ![w].pc = "unlink", ![w].rec = begun]
          /\ UNCHANGED <<lock, link, hist>>
       \/ Conclude(w, FALSE, row)
    /\ UNCHANGED <<sender, disk>>

\* CleanupCommitted's check and openOwnedStage: the stage is gone, or has
\* the links its state implies.
Links2(f) == f \in files /\ \E n \in Names : dest[n] = f
Removable(t, r) ==
    /\ parent
    /\ ~(r.cleaned /\ r.stage \in files)
    /\ r.state = "committed" /\ t \notin Replace => Proven(t, r)
    /\ r.stage \in files =>
          \/ r.state = "committed" /\ Links2(r.stage)
          \/ r.state = "cleanup_not_attempted" /\ ~Links2(r.stage)
          \/ r.state = "accept_current_intent"

\* Mutant: the stage is not unlinked.
UnlinkNothing(w) ==
    /\ wk[w].pc = "unlink"
    /\ Goto(w, "mark")
    /\ UNCHANGED <<sender, link, row, disk, lock, hist>>

UnlinkStage(w) ==
    LET r == wk[w].rec IN
    /\ wk[w].pc = "unlink"
    /\ \/ /\ Removable(wk[w].put, r)
          /\ files' = files \ {r.stage}
          /\ Goto(w, "mark")
          /\ UNCHANGED <<row, lock, link, hist>>
       \/ Conclude(w, FALSE, row) /\ UNCHANGED files
    /\ UNCHANGED <<sender, dest, parent, scene, stale>>

\* The cleanup facts, as far as the row still is what the copy says.
MarkCleaned(w) ==
    LET t == wk[w].put IN
    /\ wk[w].pc = "mark"
    /\ \/ /\ row[t].state = wk[w].rec.state
          /\ row' = [row EXCEPT ![t].cleaned = TRUE]
          /\ Goto(w, "drop")
          /\ UNCHANGED <<lock, link, hist>>
       \/ Conclude(w, FALSE, row)
    /\ UNCHANGED <<sender, disk>>

\* Delete the row, detach the stage (ClearStage), or resolve the record if
\* the destination still is the file that was accepted.
DropStage(w) ==
    LET t == wk[w].put
        detached == [row[t] EXCEPT !.stage = None, !.cleaned = FALSE]
        state == row[t].state IN
    /\ wk[w].pc = "drop"
    /\ \/ /\ state = "cleanup_not_attempted"
          /\ Conclude(w, TRUE, [row EXCEPT ![t] = NoRow])
       \/ /\ state = "committed"
          /\ Conclude(w, TRUE, [row EXCEPT ![t] = detached])
       \/ /\ state = "accept_current_intent" /\ parent /\ At(t) = row[t].accepted
          /\ Conclude(w, TRUE, [row EXCEPT ![t] =
                                    [detached EXCEPT !.state = "resolved_accept_current"]])
       \/ Conclude(w, FALSE, row)
    /\ UNCHANGED <<sender, disk>>

SettlementStep(w) == BeginCleanup(w) \/ UnlinkStage(w) \/ MarkCleaned(w) \/ DropStage(w)

(***************************************************************************)
(* Delivery of the terminal message, with its own timeout.                 *)
(***************************************************************************)
Deliver(a) ==
    /\ wk[a].pc = "deliver"
    /\ link[a].up
    /\ link' = [link EXCEPT ![a].toS = wk[a].out]
    /\ Goto(a, "await_ack")
    /\ UNCHANGED <<sender, row, disk, lock, hist>>

\* "result_ack", or the timeout.
OnResultAck(a) ==
    /\ wk[a].pc = "await_ack"
    /\ RReturn(a, row)
    /\ UNCHANGED <<sender, disk, hist>>

\* The session is gone, or its context is cancelled.
RecvFails(a) ==
    /\ wk[a].pc \in {"await_offer", "locking", "loaded", "await_start", "admit",
                     "reap", "await_data", "intent", "deliver"}
    /\ ~link[a].up
    /\ RReturn(a, row)
    /\ UNCHANGED <<sender, disk, hist>>

ReceiverStep(a) ==
    \/ ReceiveOffer(a) \/ LockDestination(a) \/ AnswerAdjudicated(a)
    \/ AnswerCommitted(a) \/ AnswerUnknown(a) \/ Prepare(a) \/ OnStart(a)
    \/ Admit(a) \/ OpenStage(a) \/ AttachStage(a) \/ SelectReap(a)
    \/ (\E t \in Puts : ReapNext(a, t)) \/ ReapDone(a) \/ OnComplete(a)
    \/ PublicationIntent(a) \/ LinkStage(a) \/ ValidateReplacement(a)
    \/ RenameStage(a) \/ CancelPublish(a) \/ CheckPublication(a) \/ Reconcile(a)
    \/ CommitReceiver(a) \/ SettlementStep(a) \/ Deliver(a) \/ OnResultAck(a)
    \/ RecvFails(a)

SenderStep(a) ==
    OnPrepared(a) \/ OnReady(a) \/ OnUnready(a) \/ OnTerminal(a) \/ SendFails(a)

(***************************************************************************)
(* The local operator.                                                     *)
(***************************************************************************)

\* Abandon of a receive: the state is looked at before the claim...
AbandonLoad(t) ==
    /\ "operator" \in scene
    /\ wk[Operator].pc = "off"
    /\ row[t].state \in {"stage_intent", "transferring", "cleanup_not_attempted"}
    /\ wk' = [wk EXCEPT ![Operator].pc = "abandon", ![Operator].put = t,
                        ![Operator].plan = "quit"]
    /\ UNCHANGED <<sender, link, row, disk, lock, hist>>

\* ... and not again after it.
AbandonClaim ==
    LET t == wk[Operator].put
        past == hist.pubs[t] > 0 IN
    /\ wk[Operator].pc = "abandon"
    /\ \/ /\ Claimable(row[t])
          /\ Claim(Operator, t)
          /\ wk' = [wk EXCEPT ![Operator].rec = row[t], ![Operator].pc =
                        IF row[t].state = "cleanup_not_attempted" THEN "unlink" ELSE "abort"]
          /\ hist' = [hist EXCEPT !.lapsed = IF past THEN @ \cup {t} ELSE @]
       \/ ~Claimable(row[t]) /\ Idle(Operator) /\ UNCHANGED <<row, hist>>
    /\ UNCHANGED <<sender, link, disk, lock>>

\* Abandon of a send.
AbandonSend(t) ==
    /\ "operator" \in scene
    /\ sRow[t] = "transferring" /\ sLease[t] = None /\ t \notin aged
    /\ sRow' = [sRow EXCEPT ![t] = "none"]
    /\ UNCHANGED <<sLease, aged, spc, link, row, disk, lock, wk, hist>>

\* ResolveAcceptCurrent claims the record.
ResolveClaim(t) ==
    /\ "operator" \in scene
    /\ wk[Operator].pc = "off"
    /\ row[t].state \in {"outcome_unknown", "accept_current_intent"} /\ row[t].lease = None
    /\ Claim(Operator, t)
    /\ wk' = [wk EXCEPT ![Operator].pc = "preflight", ![Operator].put = t,
                        ![Operator].plan = "quit"]
    /\ UNCHANGED <<sender, link, disk, lock, hist>>

\* preflightAcceptCurrent: there is a file, the one accepted before if any;
\* then the intent.
ResolveIntent ==
    LET t == wk[Operator].put
        r == row[t]
        intent == [r EXCEPT !.state = "accept_current_intent", !.accepted = At(t)]
        ok == /\ parent /\ At(t) # None /\ r.accepted \in {None, At(t)}
              /\ Unlinked(At(t)) \/ At(t) = r.stage IN
    /\ wk[Operator].pc = "preflight"
    /\ \/ /\ ok
          /\ row' = [row EXCEPT ![t] = intent]
          /\ wk' = [wk EXCEPT ![Operator].pc = "unlink", ![Operator].rec = intent]
          /\ UNCHANGED <<lock, link, hist>>
       \/ ~ok /\ Conclude(Operator, FALSE, row)
    /\ UNCHANGED <<sender, disk>>

(***************************************************************************)
(* Time, crashes and the receiving user.                                   *)
(***************************************************************************)

\* The send row, which is older than the receive row, passes 24 hours.
Age(t) ==
    /\ "age" \in scene
    /\ sRow[t] \in {"transferring", "committed"} /\ t \notin aged
    /\ aged' = aged \cup {t}
    /\ UNCHANGED <<sRow, sLease, spc, link, row, disk, lock, wk, hist>>

\* ExpireSettled.
ExpireSend(t) ==
    /\ t \in aged /\ sLease[t] = None /\ sRow[t] \in {"transferring", "committed"}
    /\ sRow' = [sRow EXCEPT ![t] = "none"]
    /\ UNCHANGED <<sLease, aged, spc, link, row, disk, lock, wk, hist>>

ExpireReceive(t) ==
    /\ t \in aged /\ row[t].lease = None
    /\ \/ row[t].state = "committed" /\ row[t].stage = None
       \/ row[t].state = "resolved_accept_current"
       \/ row[t].state = "cleanup_not_attempted" /\ row[t].cleaned
    /\ row' = [row EXCEPT ![t] = NoRow]
    /\ hist' = [hist EXCEPT !.lapsed = IF hist.pubs[t] > 0 THEN @ \cup {t} ELSE @]
    /\ UNCHANGED <<sender, link, disk, lock, wk>>

SenderCrash ==
    /\ "sender_crash" \in scene
    /\ \E a \in Attempts : spc[a] \notin {"off", "end"}
    /\ spc' = [a \in Attempts |-> IF spc[a] = "off" THEN "off" ELSE "end"]
    /\ sLease' = [t \in Puts |-> None]
    /\ link' = [a \in Attempts |-> [link[a] EXCEPT !.up = FALSE, !.toS = None]]
    /\ UNCHANGED <<sRow, aged, row, disk, lock, wk, hist>>

\* The agent stops; Startup clears the leases.
ReceiverCrash ==
    /\ "receiver_crash" \in scene
    /\ \E w \in Workers : wk[w].pc \notin {"off", "end"}
    /\ row' = [t \in Puts |-> [row[t] EXCEPT !.lease = None]]
    /\ lock' = None
    /\ wk' = [w \in Workers |->
                 Blank(IF wk[w].pc = "off" \/ w = Operator THEN "off" ELSE "end")]
    /\ link' = [a \in Attempts |-> [link[a] EXCEPT !.up = FALSE, !.toR = None]]
    /\ UNCHANGED <<sender, disk, hist>>

UserMoves(n) ==
    /\ "user" \in scene
    /\ parent
    /\ \/ dest[n] # None /\ dest' = [dest EXCEPT ![n] = None]
       \/ \E f \in UserFiles : /\ dest[n] = None
                               /\ \A m \in Names : dest[m] # f
                               /\ dest' = [dest EXCEPT ![n] = f]
    /\ UNCHANGED <<sender, link, row, files, parent, scene, stale, lock, wk, hist>>

UserMovesParent ==
    /\ "parent" \in scene
    /\ parent' = ~parent
    /\ UNCHANGED <<sender, link, row, files, dest, scene, stale, lock, wk, hist>>

\* Update of the put root or of allow_put, by one revision: refused while a
\* receive or a resolution is active, or a record says there is something left to
\* settle once the finished ones are detached or deleted (purgeSafePutBlockerRows).
\* A committed record does not stand in the way, nor does the sender's row.  The
\* directory stays the one of the puts here.
Purged(r) ==
    IF r.cleaned /\ r.lease = None /\ r.state = "committed"
    THEN [r EXCEPT !.stage = None, !.cleaned = FALSE]
    ELSE IF r.cleaned /\ r.lease = None /\ r.state = "cleanup_not_attempted" THEN NoRow ELSE r

ChangePutRoot ==
    LET left == [t \in Puts |-> Purged(row[t])] IN
    /\ "root" \in scene
    /\ \A a \in Attempts : wk[a].pc \in {"off", "end"}
    /\ wk[Operator].pc \in {"off", "abandon"}
    /\ \A t \in Puts : /\ left[t].state \in {"none", "committed", "resolved_accept_current"}
                       /\ left[t].stage = None
    /\ row' = left
    /\ stale' = stale \cup {t \in Puts : sRow[t] = "transferring"}
    /\ UNCHANGED <<sender, link, files, dest, parent, scene, lock, wk, hist>>

Next ==
    \/ \E a \in Attempts : Submit(a) \/ Retry(a) \/ Break(a) \/ SenderStep(a) \/ ReceiverStep(a)
    \/ \E t \in Puts : \/ AbandonLoad(t) \/ AbandonSend(t) \/ ResolveClaim(t)
                       \/ Age(t) \/ ExpireSend(t) \/ ExpireReceive(t)
    \/ AbandonClaim \/ ResolveIntent \/ SettlementStep(Operator)
    \/ SenderCrash \/ ReceiverCrash \/ UserMovesParent \/ ChangePutRoot
    \/ \E n \in Names : UserMoves(n)

Spec == Init /\ [][Next]_vars

\* Goroutines keep being scheduled, and the lock is a channel of one token,
\* which serves its waiters in order.
FairSpec ==
    /\ Spec
    /\ \A a \in Attempts : /\ WF_vars(SenderStep(a)) /\ WF_vars(ReceiverStep(a))
                           /\ SF_vars(LockDestination(a))

(***************************************************************************)
(* Properties.                                                             *)
(***************************************************************************)

\* Nobody claims a commit without a publication: not the receiver's row
\* (CommitReceiver), not a result under way, not the sender's row
\* (MarkSenderCommitted).
CommitIsPublished ==
    \A t \in Puts :
        hist.pubs[t] = 0 => /\ row[t].state # "committed"
                            /\ sRow[t] # "committed"
                            /\ \A a \in Attempts : PutOf[a] = t => link[a].toS # "committed"

\* A put is published at most once, whatever is lost, interrupted, retried
\* or reaped, while its record lasts: recovery never republishes.
PublishedOnce == \A t \in Puts : hist.pubs[t] > 1 => t \in hist.lapsed

\* rejectCleanup: a put the sender was told has failed for good was not
\* published and has left no stage behind, unless a retry worked from a copy
\* that the operator had overtaken (below).  Excepted are the puts whose record
\* lapsed, and those refused before it was looked for (unfound): a retry of a
\* published put is told of a final failure when its directory is away or the
\* put root has changed in between.
RejectionIsClean ==
    \A t \in hist.rejected \ (hist.unfound \cup hist.lapsed) :
        /\ hist.pubs[t] = 0
        /\ t \in hist.overtaken \/ \A f \in files : PutOf[f] # t

\* Every stage on disk is named by the row of its put: cleanupStage never
\* forgets one, and no crash leaves one behind without a record, unless a
\* retry works from a copy that the operator has overtaken.
StagesOnRecord ==
    \A f \in files : PutOf[f] \in hist.overtaken \/ row[PutOf[f]].stage = f

\* A replacement never destroys a file that another put published after the
\* destination was inspected (the destination lock and OldIdentity).
ReplacesWhatItInspected ==
    [][\A a \in Attempts :
          LET n == DestOf[PutOf[a]] IN
          wk[a].pc = "rename" /\ dest'[n] # dest[n] /\ dest'[n] = wk[a].own.stage
              => dest[n] = wk[a].own.old \/ dest[n] \notin Attempts]_vars

\* Every receive ends: the lock of the directory is handed on, and nobody
\* waits for ever for it, for a lease or for the other side.
ReceivesEnd == \A a \in Attempts : wk[a].pc # "off" ~> wk[a].pc = "end"

\* What either side is told of a put is true: committed means published, a
\* final failure means that nothing is left of it.
ResultsAreTrue == CommitIsPublished /\ RejectionIsClean

\* The rows describe what is on disk.
RecordsTrue == TypeOK /\ StagesOnRecord

\* All of it holds, too, when one put settles what another one left behind
\* (ReapParent) and both aim at one name.
PutsStaySound == ResultsAreTrue /\ PublishedOnce /\ RecordsTrue

=============================================================================

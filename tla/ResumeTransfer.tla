--------------------------- MODULE ResumeTransfer ---------------------------
(***************************************************************************)
(* The recoverable send protocol "px-transfer-v4"                          *)
(* (internal/transfer/resume.go: SendResumable and ReceiveResumable)       *)
(* between one sending and one receiving agent.                            *)
(*                                                                         *)
(* A transfer is a manifest (its ID is the hash of the manifest, so a      *)
(* source with other content is another transfer).  Each attempt runs over *)
(* its own direct session: an ordered pair of message queues that can      *)
(* break at any time, losing what is still in flight.  Both agents keep a  *)
(* row per transfer in SQLite, which survives crashes; the registry of     *)
(* active operations does not.                                             *)
(*                                                                         *)
(* Abstractions: a payload is NChunks chunks, each of which carries only   *)
(* whether it is what the manifest hash was computed over; a resume token  *)
(* is named by the session that issued it; deleteStoredRow is one step     *)
(* here and is opened up in module TransferCleanup.                        *)
(***************************************************************************)
EXTENDS Naturals, Sequences, FiniteSets

CONSTANTS
    Transfers,      \* manifests (transfer IDs)
    Sessions,       \* attempts; each is used once
    Names,          \* destination names below the receiving root
    DestOf,         \* [Transfers -> Names]: manifest.Name
    Contents,       \* file contents
    ContentOf,      \* [Transfers -> Contents]: manifest.SHA256
    Public,         \* the transfers of visibility "public"
    NChunks,        \* payload length in chunks
    MaxSendStates,  \* MaxSendResumeStates (64 in the code)
    MaxRecvStates,  \* MaxResumeStates (64 in the code)
    NoToken,        \* the empty token of a first offer
    Idle,           \* no session owns the registry entry
    Free,           \* no directory entry at the destination
    Damaged         \* an entry published with content its manifest denies

ASSUME ConstantsAssumption ==
    /\ DestOf \in [Transfers -> Names]
    /\ Public \subseteq Transfers
    /\ NChunks \in Nat
    /\ MaxSendStates \in Nat
    /\ MaxRecvStates \in Nat
    /\ NoToken \notin Sessions
    /\ Idle \notin Sessions
    /\ ContentOf \in [Transfers -> Contents]
    /\ {Free, Damaged} \cap Contents = {}
    /\ Free # Damaged

VARIABLES
    \* durable state of the sending agent
    sendRow,        \* transfer_resumes rows with direction 'send'
    sendJournal,    \* transfers with a sender_observed_commit observation
    source,         \* whether the source still has the manifest's content
    \* durable state of the receiving agent
    recvRow,        \* transfer_resumes rows with direction 'receive'
    recvJournal,    \* transfers with a receiver_published observation
    partial,        \* the <transfer ID>.part files
    dest,           \* the destination directory
    \* volatile registries of active operations (ResumeStore.active)
    sActive, rActive,
    \* the sessions and the two goroutines that run over each
    xfer, up, toR, toS,
    spc, stok, sent, sok,
    rpc, rrec, offered,
    \* history
    published,      \* transfers linked, or found in place, at commit
    lapsed          \* transfers whose commit evidence was discarded early

senderDisk   == <<sendRow, sendJournal, source>>
receiverDisk == <<recvRow, recvJournal, partial, dest>>
senderProc   == <<spc, stok, sent, sok>>
receiverProc == <<rpc, rrec, offered>>
channel      == <<up, toR, toS>>
history      == <<published, lapsed>>
vars == <<senderDisk, receiverDisk, sActive, rActive, xfer, channel,
          senderProc, receiverProc, history>>

Tokens == Sessions \cup {NoToken}

SendStates == {"none", "transferring"}
RecvStates == {"none", "transferring", "committing", "pending"}
SendRows == [state : SendStates, token : Tokens]
RecvRows == [state : RecvStates, token : Tokens]
NoSendRow == [state |-> "none", token |-> NoToken]
NoRecvRow == [state |-> "none", token |-> NoToken]
Partials == [len : 0 .. NChunks, ok : BOOLEAN]
Empty == [len |-> 0, ok |-> TRUE]
DestStates == Contents \cup {Free, Damaged}

(***************************************************************************)
(* Messages.  "full" stands for an offset equal to the declared size.      *)
(***************************************************************************)
MsgTypes == {"offer", "ready", "chunk", "ack", "complete", "failed",
             "committed", "rejected"}
Msgs == [type : MsgTypes, token : Tokens, full : BOOLEAN, ok : BOOLEAN]
Msg(type) == [type |-> type, token |-> NoToken, full |-> FALSE, ok |-> TRUE]
Offer(token) == [Msg("offer") EXCEPT !.token = token]
Ready(token, full) == [Msg("ready") EXCEPT !.token = token, !.full = full]
Chunk(ok) == [Msg("chunk") EXCEPT !.ok = ok]

SendPCs == {"off", "prepared", "leased", "await_ready", "stream", "await_ack",
            "verify", "await_commit", "acking", "finishing", "end"}
RecvPCs == {"off", "await_offer", "acquired", "opening", "receive", "verify",
            "commit", "marking", "linking", "published", "confirming",
            "await_final_ack", "finishing", "await_reject_ack", "panic", "end"}

(***************************************************************************)
(* The type invariant.                                                     *)
(***************************************************************************)
TypeOK ==
    /\ sendRow \in [Transfers -> SendRows]
    /\ sendJournal \subseteq Transfers
    /\ source \in [Transfers -> {"same", "changed"}]
    /\ recvRow \in [Transfers -> RecvRows]
    /\ recvJournal \subseteq Transfers
    /\ partial \in [Transfers -> Partials]
    /\ dest \in [Names -> DestStates]
    /\ sActive \in [Transfers -> Sessions \cup {Idle}]
    /\ rActive \in [Transfers -> Sessions \cup {Idle}]
    /\ xfer \in [Sessions -> Transfers]
    /\ up \in [Sessions -> BOOLEAN]
    /\ toR \in [Sessions -> Seq(Msgs)]
    /\ toS \in [Sessions -> Seq(Msgs)]
    /\ spc \in [Sessions -> SendPCs]
    /\ stok \in [Sessions -> Tokens]
    /\ sent \in [Sessions -> 0 .. NChunks]
    /\ sok \in [Sessions -> BOOLEAN]
    /\ rpc \in [Sessions -> RecvPCs]
    /\ rrec \in [Sessions -> RecvRows]
    /\ offered \in [Sessions -> Tokens]
    /\ published \subseteq Transfers
    /\ lapsed \subseteq Transfers

Init ==
    /\ sendRow = [t \in Transfers |-> NoSendRow]
    /\ sendJournal = {}
    /\ source = [t \in Transfers |-> "same"]
    /\ recvRow = [t \in Transfers |-> NoRecvRow]
    /\ recvJournal = {}
    /\ partial = [t \in Transfers |-> Empty]
    /\ dest = [n \in Names |-> Free]
    /\ sActive = [t \in Transfers |-> Idle]
    /\ rActive = [t \in Transfers |-> Idle]
    /\ xfer \in [Sessions -> Transfers]
    /\ up = [s \in Sessions |-> FALSE]
    /\ toR = [s \in Sessions |-> <<>>]
    /\ toS = [s \in Sessions |-> <<>>]
    /\ spc = [s \in Sessions |-> "off"]
    /\ stok = [s \in Sessions |-> NoToken]
    /\ sent = [s \in Sessions |-> 0]
    /\ sok = [s \in Sessions |-> TRUE]
    /\ rpc = [s \in Sessions |-> "off"]
    /\ rrec = [s \in Sessions |-> NoRecvRow]
    /\ offered = [s \in Sessions |-> NoToken]
    /\ published = {}
    /\ lapsed = {}

(***************************************************************************)
(* The direct session.  Send fails once the session is down; Receive may   *)
(* still drain what arrived before, or fail (direct.Session.Receive).      *)
(***************************************************************************)
SendToR(s, m) == up[s] /\ toR' = [toR EXCEPT ![s] = Append(@, m)]
SendToS(s, m) == up[s] /\ toS' = [toS EXCEPT ![s] = Append(@, m)]
HasFromS(s, type) == toR[s] # <<>> /\ Head(toR[s]).type = type
HasFromR(s, type) == toS[s] # <<>> /\ Head(toS[s]).type = type
TakeFromS(s) == toR' = [toR EXCEPT ![s] = Tail(@)]
TakeFromR(s) == toS' = [toS EXCEPT ![s] = Tail(@)]

\* The transport fails, or either side cancels.  A step that needs the
\* session may fail from now on, so messages still queued may never be read.
Break(s) ==
    /\ up[s]
    /\ up' = [up EXCEPT ![s] = FALSE]
    /\ UNCHANGED <<senderDisk, receiverDisk, sActive, rActive, xfer, toR, toS,
                   senderProc, receiverProc, history>>

(***************************************************************************)
(* The sending agent: SendResumable.                                       *)
(***************************************************************************)
SGoto(s, pc) == spc' = [spc EXCEPT ![s] = pc]
Released(active, s) == [t \in Transfers |-> IF active[t] = s THEN Idle ELSE active[t]]
Rows(row) == {t \in Transfers : row[t].state # "none"}

\* Mutant: the session is not closed on return.
SReturnLeavesSessionOpen(s) ==
    /\ SGoto(s, "end")
    /\ sActive' = Released(sActive, s)
    /\ up' = up

\* Returning releases the lease and closes the session; what was already
\* sent may still be drained by the peer.
SReturn(s) ==
    /\ SGoto(s, "end")
    /\ sActive' = Released(sActive, s)
    /\ up' = [up EXCEPT ![s] = FALSE]

\* A new submission: the session is connected, GC has run (the Expire
\* actions), and prepareSend has hashed the source and loaded the row of the
\* same manifest ID, if there is one.  The registry is not yet consulted.
SubmitSend(s) ==
    /\ spc[s] = "off" /\ rpc[s] = "off"
    /\ source[xfer[s]] = "same"
    /\ SGoto(s, "prepared")
    /\ stok' = [stok EXCEPT ![s] = sendRow[xfer[s]].token]
    /\ up' = [up EXCEPT ![s] = TRUE]
    /\ rpc' = [rpc EXCEPT ![s] = "await_offer"]
    /\ UNCHANGED <<senderDisk, receiverDisk, sActive, rActive, xfer, toR, toS,
                   sent, sok, rrec, offered, history>>

\* ResumeStore.acquire for a new submission; a duplicate returns an error.
AcquireSend(s) ==
    /\ spc[s] = "prepared"
    /\ \/ /\ sActive[xfer[s]] = Idle
          /\ sActive' = [sActive EXCEPT ![xfer[s]] = s]
          /\ SGoto(s, "leased")
          /\ up' = up
       \/ /\ sActive[xfer[s]] # Idle
          /\ SReturn(s)
    /\ UNCHANGED <<senderDisk, receiverDisk, rActive, xfer, toR, toS, stok, sent,
                   sok, receiverProc, history>>

\* A retry: ClaimSend leases the row before the session is set up, and
\* prepareSend reloads it and verifies the source against its hash.
ClaimSend(s) ==
    LET t == xfer[s] IN
    /\ spc[s] = "off" /\ rpc[s] = "off"
    /\ sActive[t] = Idle
    /\ sendRow[t].state = "transferring"
    /\ source[t] = "same"
    /\ sActive' = [sActive EXCEPT ![t] = s]
    /\ SGoto(s, "leased")
    /\ stok' = [stok EXCEPT ![s] = sendRow[t].token]
    /\ up' = [up EXCEPT ![s] = TRUE]
    /\ rpc' = [rpc EXCEPT ![s] = "await_offer"]
    /\ UNCHANGED <<senderDisk, receiverDisk, rActive, xfer, toR, toS, sent, sok,
                   rrec, offered, history>>

\* saveSend admits a row only below the limit; updating one is always
\* admitted.
Admits(t) ==
    \/ sendRow[t].state # "none"
    \/ Cardinality(Rows(sendRow)) < MaxSendStates

\* saveSend, then the offer; or the capacity error.
OfferTransfer(s) ==
    LET t == xfer[s] IN
    /\ spc[s] = "leased"
    /\ \/ /\ Admits(t)
          /\ sendRow' = [sendRow EXCEPT ![t] = [state |-> "transferring",
                                               token |-> stok[s]]]
          /\ SendToR(s, Offer(stok[s]))
          /\ SGoto(s, "await_ready")
          /\ UNCHANGED <<sActive, up>>
       \/ /\ ~Admits(t)
          /\ SReturn(s)
          /\ UNCHANGED <<sendRow, toR>>
    /\ UNCHANGED <<sendJournal, source, receiverDisk, rActive, xfer, toS, stok,
                   sent, sok, receiverProc, history>>

\* The offer was rejected: acknowledge, then finishSend.
OnOfferRejected(s) ==
    /\ spc[s] = "await_ready"
    /\ HasFromR(s, "rejected")
    /\ TakeFromR(s)
    /\ SendToR(s, Msg("ack"))
    /\ SGoto(s, "finishing")
    /\ UNCHANGED <<senderDisk, receiverDisk, sActive, rActive, xfer, up, stok,
                   sent, sok, receiverProc, history>>

\* The receiver is ready: persist its token and start at its offset.  With
\* a full offset only the local source is hashed again.
OnReady(s) ==
    LET t == xfer[s]
        m == Head(toS[s])
        done == m.full \/ NChunks = 0
    IN
    /\ spc[s] = "await_ready"
    /\ HasFromR(s, "ready")
    /\ TakeFromR(s)
    /\ stok' = [stok EXCEPT ![s] = m.token]
    /\ sendRow' = [sendRow EXCEPT ![t] = [state |-> "transferring",
                                         token |-> m.token]]
    /\ sent' = [sent EXCEPT ![s] = IF done THEN NChunks ELSE 0]
    /\ sok' = [sok EXCEPT ![s] = ~done \/ source[t] = "same"]
    /\ SGoto(s, IF done THEN "verify" ELSE "stream")
    /\ UNCHANGED <<sendJournal, source, receiverDisk, sActive, rActive, xfer, up,
                   toR, receiverProc, history>>

\* Mutant: the loop runs once more than there are chunks.
SendChunkTooOften(s) ==
    LET ok == source[xfer[s]] = "same" IN
    /\ spc[s] = "stream"
    /\ SendToR(s, Chunk(ok))
    /\ sent' = [sent EXCEPT ![s] = sent[s] + 1]
    /\ sok' = [sok EXCEPT ![s] = sok[s] /\ ok]
    /\ SGoto(s, IF sent[s] = NChunks THEN "await_ack" ELSE "stream")
    /\ UNCHANGED <<senderDisk, receiverDisk, sActive, rActive, xfer, up, toS, stok,
                   receiverProc, history>>

\* Read, hash and send one chunk; after the last one wait for its ack.
SendChunk(s) ==
    LET ok == source[xfer[s]] = "same" IN
    /\ spc[s] = "stream"
    /\ SendToR(s, Chunk(ok))
    /\ sent' = [sent EXCEPT ![s] = sent[s] + 1]
    /\ sok' = [sok EXCEPT ![s] = sok[s] /\ ok]
    /\ SGoto(s, IF sent[s] + 1 = NChunks THEN "await_ack" ELSE "stream")
    /\ UNCHANGED <<senderDisk, receiverDisk, sActive, rActive, xfer, up, toS, stok,
                   receiverProc, history>>

OnPayloadAck(s) ==
    /\ spc[s] = "await_ack"
    /\ HasFromR(s, "ack")
    /\ TakeFromR(s)
    /\ SGoto(s, "verify")
    /\ UNCHANGED <<senderDisk, receiverDisk, sActive, rActive, xfer, up, toR, stok,
                   sent, sok, receiverProc, history>>

\* The hash of what was streamed decides between "complete" and "failed".
CompletePayload(s) ==
    /\ spc[s] = "verify"
    /\ \/ /\ sok[s]
          /\ SendToR(s, Msg("complete"))
          /\ SGoto(s, "await_commit")
          /\ UNCHANGED <<sActive, up>>
       \/ /\ ~sok[s]
          /\ SendToR(s, Msg("failed"))
          /\ SReturn(s)
    /\ UNCHANGED <<senderDisk, receiverDisk, rActive, xfer, toS, stok, sent, sok,
                   receiverProc, history>>

\* A rejection after the payload is acknowledged, but the row is kept.
OnCommitRejected(s) ==
    /\ spc[s] = "await_commit"
    /\ HasFromR(s, "rejected")
    /\ TakeFromR(s)
    /\ SendToR(s, Msg("ack"))
    /\ SReturn(s)
    /\ UNCHANGED <<senderDisk, receiverDisk, rActive, xfer, stok, sent, sok,
                   receiverProc, history>>

\* "committed" answers either the offer (a lost earlier reply) or the
\* payload: observeSend records it before it is acknowledged.
OnCommitted(s) ==
    /\ spc[s] \in {"await_ready", "await_commit"}
    /\ HasFromR(s, "committed")
    /\ TakeFromR(s)
    /\ sendJournal' = sendJournal \cup {xfer[s]}
    /\ SGoto(s, "acking")
    /\ UNCHANGED <<sendRow, source, receiverDisk, sActive, rActive, xfer, up, toR,
                   stok, sent, sok, receiverProc, history>>

AckCommit(s) ==
    /\ spc[s] = "acking"
    /\ SendToR(s, Msg("ack"))
    /\ SGoto(s, "finishing")
    /\ UNCHANGED <<senderDisk, receiverDisk, sActive, rActive, xfer, up, toS, stok,
                   sent, sok, receiverProc, history>>

\* finishSend runs under a context that outlives the session.
FinishSend(s) ==
    /\ spc[s] = "finishing"
    /\ sendRow' = [sendRow EXCEPT ![xfer[s]] = NoSendRow]
    /\ SReturn(s)
    /\ UNCHANGED <<sendJournal, source, receiverDisk, rActive, xfer, toR, toS,
                   stok, sent, sok, receiverProc, history>>

\* Any step that needs the session fails once it is down.
SendFails(s) ==
    /\ ~up[s]
    /\ spc[s] \notin {"off", "finishing", "end"}
    /\ SReturn(s)
    /\ UNCHANGED <<senderDisk, receiverDisk, rActive, xfer, toR, toS, stok, sent,
                   sok, receiverProc, history>>

SenderStep(s) ==
    \/ AcquireSend(s) \/ OfferTransfer(s) \/ OnOfferRejected(s) \/ OnReady(s)
    \/ SendChunk(s) \/ OnPayloadAck(s) \/ CompletePayload(s)
    \/ OnCommitRejected(s) \/ OnCommitted(s) \/ AckCommit(s) \/ FinishSend(s)
    \/ SendFails(s)

(***************************************************************************)
(* The receiving agent: ReceiveResumable and commitResume.                 *)
(***************************************************************************)
RGoto(s, pc) == rpc' = [rpc EXCEPT ![s] = pc]

RReturn(s) ==
    /\ RGoto(s, "end")
    /\ rActive' = Released(rActive, s)
    /\ up' = [up EXCEPT ![s] = FALSE]

\* rejectResume: send the rejection and wait for its acknowledgement.
RejectResume(s) ==
    /\ SendToS(s, Msg("rejected"))
    /\ RGoto(s, "await_reject_ack")
    /\ UNCHANGED <<rActive, up>>

\* The process stops: every session it served ends, the registry is gone.
ReceiverStops(pcs) ==
    /\ rpc' = pcs
    /\ rActive' = [t \in Transfers |-> Idle]
    /\ up' = [s \in Sessions |-> FALSE]

Stopped(pc) == [s \in Sessions |-> IF pc[s] \in {"off", "panic"} THEN pc[s] ELSE "end"]

\* Mutant: acquire does not look for an operation that is already active.
ReceiveOfferTwice(s) ==
    /\ rpc[s] = "await_offer"
    /\ HasFromS(s, "offer")
    /\ TakeFromS(s)
    /\ offered' = [offered EXCEPT ![s] = Head(toR[s]).token]
    /\ rActive' = [rActive EXCEPT ![xfer[s]] = s]
    /\ rrec' = [rrec EXCEPT ![s] = recvRow[xfer[s]]]
    /\ RGoto(s, "acquired")
    /\ UNCHANGED <<senderDisk, receiverDisk, sActive, xfer, up, toS, senderProc,
                   history>>

\* The offer arrives: acquire registers the operation, load reads the row.
\* On a duplicate, acquire returns a nil context which is then passed to
\* rejectResume; direct.Session.Send dereferences it and the agent stops.
ReceiveOffer(s) ==
    LET t == xfer[s] IN
    /\ rpc[s] = "await_offer"
    /\ HasFromS(s, "offer")
    /\ TakeFromS(s)
    /\ offered' = [offered EXCEPT ![s] = Head(toR[s]).token]
    /\ \/ /\ rActive[t] = Idle
          /\ rActive' = [rActive EXCEPT ![t] = s]
          /\ rrec' = [rrec EXCEPT ![s] = recvRow[t]]
          /\ RGoto(s, "acquired")
          /\ up' = up
       \/ /\ rActive[t] # Idle
          /\ ReceiverStops([Stopped(rpc) EXCEPT ![s] = "panic"])
          /\ rrec' = rrec
    /\ UNCHANGED <<senderDisk, receiverDisk, sActive, xfer, toS, senderProc, history>>

\* The transfer is already committed here and the token proves that the
\* sender is the one it was committed for: repeat the outcome.
ConfirmPriorCommit(s) ==
    /\ rpc[s] = "acquired"
    /\ rrec[s].state = "pending"
    /\ offered[s] = rrec[s].token
    /\ recvJournal' = recvJournal \cup {xfer[s]}
    /\ SendToS(s, Msg("committed"))
    /\ RGoto(s, "await_final_ack")
    /\ UNCHANGED <<senderDisk, recvRow, partial, dest, sActive, rActive, xfer, up,
                   toR, senderProc, rrec, offered, history>>

QuotaFull == Cardinality(Rows(recvRow)) >= MaxRecvStates

\* A token that does not match the row, a token without a row, or no room.
OfferRefused(s) ==
    \/ rrec[s].state = "pending" /\ offered[s] # rrec[s].token
    \/ rrec[s].state # "none" /\ offered[s] # NoToken /\ offered[s] # rrec[s].token
    \/ rrec[s].state = "none" /\ (offered[s] # NoToken \/ QuotaFull)

RejectOffer(s) ==
    /\ rpc[s] = "acquired"
    /\ OfferRefused(s)
    /\ RejectResume(s)
    /\ UNCHANGED <<senderDisk, receiverDisk, sActive, xfer, toR, senderProc,
                   rrec, offered, history>>

\* reserveReceive with a new token, or the row that is there.
AdmitOffer(s) ==
    LET t == xfer[s]
        row == IF rrec[s].state = "none"
               THEN [state |-> "transferring", token |-> s] ELSE rrec[s]
    IN
    /\ rpc[s] = "acquired"
    /\ ~OfferRefused(s)
    /\ rrec[s].state # "pending"
    /\ recvRow' = [recvRow EXCEPT ![t] = row]
    /\ rrec' = [rrec EXCEPT ![s] = row]
    /\ RGoto(s, "opening")
    /\ UNCHANGED <<senderDisk, recvJournal, partial, dest, sActive, rActive, xfer,
                   channel, senderProc, offered, history>>

\* Truncate(record.Offset): zero before commit intent, the size after it.
Truncated(p, state) ==
    CASE state = "transferring" -> Empty
      [] p.len = NChunks        -> p
      [] OTHER                  -> [len |-> NChunks, ok |-> NChunks = 0]

OpenPartial(s) ==
    LET t == xfer[s] IN
    /\ rpc[s] = "opening"
    /\ partial' = [partial EXCEPT ![t] = Truncated(@, rrec[s].state)]
    /\ SendToS(s, Ready(rrec[s].token, rrec[s].state = "committing"))
    /\ RGoto(s, "receive")
    /\ UNCHANGED <<senderDisk, recvRow, recvJournal, dest, sActive, rActive, xfer,
                   up, toR, senderProc, rrec, offered, history>>

\* The partial is open but there is no room in the spool or at the
\* destination: a row that this session created is discarded again (the
\* error of discarding it is ignored).
RefuseForSpace(s) ==
    LET t == xfer[s]
        created == rrec[s].token = s
    IN
    /\ rpc[s] = "opening"
    /\ \E row \in IF created THEN {NoRecvRow, recvRow[t]} ELSE {recvRow[t]} :
           recvRow' = [recvRow EXCEPT ![t] = row]
    /\ partial' = [partial EXCEPT ![t] = Truncated(@, rrec[s].state)]
    /\ RejectResume(s)
    /\ UNCHANGED <<senderDisk, recvJournal, dest, sActive, xfer, toR, senderProc,
                   rrec, offered, history>>

\* Write one chunk; the last one is synced and acknowledged.
ReceiveChunk(s) ==
    LET t == xfer[s] IN
    /\ rpc[s] = "receive"
    /\ partial[t].len < NChunks
    /\ HasFromS(s, "chunk")
    /\ TakeFromS(s)
    /\ partial' = [partial EXCEPT ![t] = [len |-> @.len + 1,
                                         ok  |-> @.ok /\ Head(toR[s]).ok]]
    /\ IF partial[t].len + 1 = NChunks THEN SendToS(s, Msg("ack")) ELSE toS' = toS
    /\ UNCHANGED <<senderDisk, recvRow, recvJournal, dest, sActive, rActive, xfer,
                   up, senderProc, receiverProc, history>>

\* "complete" leads to verification, "failed" ends the attempt.
OnComplete(s) ==
    /\ rpc[s] = "receive"
    /\ partial[xfer[s]].len = NChunks
    /\ \/ /\ HasFromS(s, "complete")
          /\ RGoto(s, "verify")
          /\ UNCHANGED <<rActive, up>>
       \/ /\ HasFromS(s, "failed")
          /\ RReturn(s)
    /\ TakeFromS(s)
    /\ UNCHANGED <<senderDisk, receiverDisk, sActive, xfer, toS, senderProc,
                   rrec, offered, history>>

CommitStates == {"committing", "pending"}

\* The row and its partial go, and with them the proof of a publication.
RemoveReceive(t) ==
    /\ recvRow' = [recvRow EXCEPT ![t] = NoRecvRow]
    /\ partial' = [partial EXCEPT ![t] = Empty]
    /\ lapsed' = IF recvRow[t].state \in CommitStates THEN lapsed \cup {t} ELSE lapsed
    /\ UNCHANGED <<recvJournal, dest, published>>

\* discardReceive, whose error the callers ignore.
DiscardReceive(t) ==
    \/ RemoveReceive(t)
    \/ UNCHANGED <<receiverDisk, history>>

\* Mutant: the partial is trusted, its hash is not compared.
VerifyPartialWithoutHash(s) ==
    /\ rpc[s] = "verify"
    /\ RGoto(s, "commit")
    /\ UNCHANGED <<senderDisk, receiverDisk, sActive, rActive, xfer, channel,
                   senderProc, rrec, offered, history>>

\* The whole partial is hashed against the manifest.
VerifyPartial(s) ==
    LET t == xfer[s] IN
    /\ rpc[s] = "verify"
    /\ \/ /\ partial[t].ok
          /\ RGoto(s, "commit")
          /\ UNCHANGED <<receiverDisk, rActive, up, toS, history>>
       \/ /\ ~partial[t].ok
          /\ DiscardReceive(t)
          /\ RejectResume(s)
    /\ UNCHANGED <<senderDisk, sActive, xfer, toR, senderProc, rrec, offered>>

\* commitResume up to the copy found the file of this manifest in place.
FoundInPlace(s) ==
    /\ RGoto(s, "published")
    /\ published' = published \cup {xfer[s]}
    /\ lapsed' = lapsed \ {xfer[s]}

\* Mutant: a directory entry is not needed, commit intent is believed.
InspectDestinationTrustingIntent(s) ==
    LET t == xfer[s]
        there == dest[DestOf[t]]
    IN
    /\ rpc[s] = "commit"
    /\ \/ /\ rrec[s].state = "committing"
          /\ there \in {ContentOf[t], Free}
          /\ RGoto(s, "published")
       \/ /\ there = Free
          /\ rrec[s].state # "committing"
          /\ RGoto(s, "marking")
    /\ UNCHANGED <<senderDisk, receiverDisk, sActive, rActive, xfer, channel,
                   senderProc, rrec, offered, history>>

\* With commit intent on record an existing destination is reconciled by its
\* content, whoever put it there; without it any entry is a collision.
InspectDestination(s) ==
    LET t == xfer[s]
        there == dest[DestOf[t]]
    IN
    /\ rpc[s] = "commit"
    /\ \/ /\ rrec[s].state = "committing" /\ there = ContentOf[t]
          /\ FoundInPlace(s)
       \/ /\ there = Free
          /\ RGoto(s, IF rrec[s].state = "committing" THEN "linking" ELSE "marking")
          /\ UNCHANGED history
    /\ UNCHANGED <<senderDisk, receiverDisk, sActive, rActive, xfer, channel,
                   senderProc, rrec, offered>>

MarkCommitting(s) ==
    /\ rpc[s] = "marking"
    /\ recvRow[xfer[s]].state = "transferring"
    /\ recvRow' = [recvRow EXCEPT ![xfer[s]].state = "committing"]
    /\ RGoto(s, "linking")
    /\ UNCHANGED <<senderDisk, recvJournal, partial, dest, sActive, rActive, xfer,
                   channel, senderProc, rrec, offered, history>>

\* Mutant: the copy is renamed over whatever is at the destination.
LinkDestinationReplacing(s) ==
    LET t == xfer[s] IN
    /\ rpc[s] = "linking"
    /\ dest' = [dest EXCEPT ![DestOf[t]] = IF partial[t].ok THEN ContentOf[t] ELSE Damaged]
    /\ published' = published \cup {t}
    /\ lapsed' = lapsed \ {t}
    /\ RGoto(s, "published")
    /\ UNCHANGED <<senderDisk, recvRow, recvJournal, partial, sActive, rActive,
                   xfer, channel, senderProc, rrec, offered>>

\* The exclusive link of the verified copy, made durable.
LinkDestination(s) ==
    LET t == xfer[s]
        n == DestOf[t]
    IN
    /\ rpc[s] = "linking"
    /\ dest[n] = Free
    /\ dest' = [dest EXCEPT ![n] = IF partial[t].ok THEN ContentOf[t] ELSE Damaged]
    /\ published' = published \cup {t}
    /\ lapsed' = lapsed \ {t}
    /\ RGoto(s, "published")
    /\ UNCHANGED <<senderDisk, recvRow, recvJournal, partial, sActive, rActive,
                   xfer, channel, senderProc, rrec, offered>>

\* commitResume fails: a collision, an I/O or database error, no space, or a
\* link that could not be made durable and was removed again.
CommitFails(s) ==
    /\ rpc[s] \in {"commit", "marking", "linking"}
    /\ DiscardReceive(xfer[s])
    /\ RejectResume(s)
    /\ UNCHANGED <<senderDisk, sActive, xfer, toR, senderProc, rrec, offered>>

\* markCommittedRecord: tombstone and observation in one transaction.
MarkCommitted(s) ==
    /\ rpc[s] = "published"
    /\ recvRow[xfer[s]].state \in {"committing", "pending"}
    /\ recvRow' = [recvRow EXCEPT ![xfer[s]].state = "pending"]
    /\ recvJournal' = recvJournal \cup {xfer[s]}
    /\ RGoto(s, "confirming")
    /\ UNCHANGED <<senderDisk, partial, dest, sActive, rActive, xfer, channel,
                   senderProc, rrec, offered, history>>

SendCommitted(s) ==
    /\ rpc[s] = "confirming"
    /\ SendToS(s, Msg("committed"))
    /\ RGoto(s, "await_final_ack")
    /\ UNCHANGED <<senderDisk, receiverDisk, sActive, rActive, xfer, up, toR,
                   senderProc, rrec, offered, history>>

OnFinalAck(s) ==
    /\ rpc[s] = "await_final_ack"
    /\ HasFromS(s, "ack")
    /\ TakeFromS(s)
    /\ RGoto(s, "finishing")
    /\ UNCHANGED <<senderDisk, receiverDisk, sActive, rActive, xfer, up, toS,
                   senderProc, rrec, offered, history>>

\* finishReceive: only a pending row is removed, under its own context.
FinishReceive(s) ==
    LET t == xfer[s]
        pending == recvRow[t].state = "pending"
    IN
    /\ rpc[s] = "finishing"
    /\ recvRow' = [recvRow EXCEPT ![t] = IF pending THEN NoRecvRow ELSE @]
    /\ partial' = [partial EXCEPT ![t] = IF pending THEN Empty ELSE @]
    /\ RReturn(s)
    /\ UNCHANGED <<senderDisk, recvJournal, dest, sActive, xfer, toR, toS,
                   senderProc, rrec, offered, history>>

OnRejectAck(s) ==
    /\ rpc[s] = "await_reject_ack"
    /\ HasFromS(s, "ack")
    /\ TakeFromS(s)
    /\ RReturn(s)
    /\ UNCHANGED <<senderDisk, receiverDisk, sActive, xfer, toS, senderProc,
                   rrec, offered, history>>

RecvFails(s) ==
    /\ ~up[s]
    /\ rpc[s] \notin {"off", "finishing", "panic", "end"}
    /\ RReturn(s)
    /\ UNCHANGED <<senderDisk, receiverDisk, sActive, xfer, toR, toS, senderProc,
                   rrec, offered, history>>

ReceiverStep(s) ==
    \/ ReceiveOffer(s) \/ ConfirmPriorCommit(s) \/ RejectOffer(s) \/ AdmitOffer(s)
    \/ OpenPartial(s) \/ RefuseForSpace(s) \/ ReceiveChunk(s) \/ OnComplete(s)
    \/ VerifyPartial(s) \/ InspectDestination(s) \/ MarkCommitting(s)
    \/ LinkDestination(s) \/ CommitFails(s) \/ MarkCommitted(s)
    \/ SendCommitted(s) \/ OnFinalAck(s) \/ FinishReceive(s) \/ OnRejectAck(s)
    \/ RecvFails(s)

(***************************************************************************)
(* Crashes, maintenance and the users of both machines.                    *)
(***************************************************************************)
SenderCrash ==
    /\ spc' = [s \in Sessions |-> IF spc[s] = "off" THEN "off" ELSE "end"]
    /\ sActive' = [t \in Transfers |-> Idle]
    /\ up' = [s \in Sessions |-> FALSE]
    /\ UNCHANGED <<senderDisk, receiverDisk, rActive, xfer, toR, toS, stok, sent,
                   sok, receiverProc, history>>

ReceiverCrash ==
    /\ ReceiverStops(Stopped(rpc))
    /\ UNCHANGED <<senderDisk, receiverDisk, sActive, xfer, toR, toS, senderProc,
                   rrec, offered, history>>

\* ExpireSenders, GC and Delete skip or refuse a row with an active operation.
RemoveSend(t) ==
    /\ sActive[t] = Idle
    /\ sendRow[t].state # "none"
    /\ sendRow' = [sendRow EXCEPT ![t] = NoSendRow]
    /\ UNCHANGED <<sendJournal, source, receiverDisk, sActive, rActive, xfer,
                   channel, senderProc, receiverProc, history>>

\* GC on the receiver: evidence of a public publication does not expire.
ExpireReceive(t) ==
    /\ rActive[t] = Idle
    /\ recvRow[t].state # "none"
    /\ ~(t \in Public /\ recvRow[t].state \in CommitStates)
    /\ RemoveReceive(t)
    /\ UNCHANGED <<senderDisk, sActive, rActive, xfer, channel, senderProc,
                   receiverProc>>

\* Mutant: any inactive row may be deleted.
DeleteReceiveAnyState(t) ==
    /\ rActive[t] = Idle
    /\ recvRow[t].state # "none"
    /\ recvRow' = [recvRow EXCEPT ![t] = NoRecvRow]
    /\ partial' = [partial EXCEPT ![t] = Empty]
    /\ UNCHANGED <<senderDisk, recvJournal, dest, sActive, rActive, xfer, channel,
                   senderProc, receiverProc, history>>

\* "px transfer delete" takes only inactive transferring rows.
DeleteReceive(t) ==
    /\ rActive[t] = Idle
    /\ recvRow[t].state = "transferring"
    /\ recvRow' = [recvRow EXCEPT ![t] = NoRecvRow]
    /\ partial' = [partial EXCEPT ![t] = Empty]
    /\ UNCHANGED <<senderDisk, recvJournal, dest, sActive, rActive, xfer, channel,
                   senderProc, receiverProc, history>>

\* The user edits the source while the transfer exists.
SourceChanges(t) ==
    /\ source[t] = "same"
    /\ source' = [source EXCEPT ![t] = "changed"]
    /\ UNCHANGED <<sendRow, sendJournal, receiverDisk, sActive, rActive, xfer,
                   channel, senderProc, receiverProc, history>>

\* The spool loses what a stopped operation had written to it.
SpoolFault(t) ==
    /\ rActive[t] = Idle
    /\ partial[t].len > 0 /\ partial[t].ok
    /\ partial' = [partial EXCEPT ![t].ok = FALSE]
    /\ UNCHANGED <<senderDisk, recvRow, recvJournal, dest, sActive, rActive, xfer,
                   channel, senderProc, receiverProc, history>>

\* The receiving user takes a file away, or puts one there.
UserMoves(n) ==
    /\ \/ dest[n] # Free /\ dest' = [dest EXCEPT ![n] = Free]
       \/ /\ dest[n] = Free
          /\ \E c \in Contents : dest' = [dest EXCEPT ![n] = c]
    /\ UNCHANGED <<senderDisk, recvRow, recvJournal, partial, sActive, rActive,
                   xfer, channel, senderProc, receiverProc, history>>

(***************************************************************************)
(* The specification.                                                      *)
(***************************************************************************)
Environment ==
    \/ SenderCrash \/ ReceiverCrash
    \/ \E t \in Transfers : \/ RemoveSend(t) \/ ExpireReceive(t) \/ DeleteReceive(t)
                            \/ SourceChanges(t) \/ SpoolFault(t)
    \/ \E n \in Names : UserMoves(n)

Next ==
    \/ \E s \in Sessions : \/ SubmitSend(s) \/ ClaimSend(s) \/ Break(s)
                           \/ SenderStep(s) \/ ReceiverStep(s)
    \/ Environment

Spec == Init /\ [][Next]_vars

\* Both goroutines of a session keep being scheduled.  Nothing is assumed of
\* the network, the users, the timers or the crashes.
Fairness == \A s \in Sessions : WF_vars(SenderStep(s)) /\ WF_vars(ReceiverStep(s))
FairSpec == Spec /\ Fairness

(***************************************************************************)
(* Properties.                                                             *)
(***************************************************************************)

\* Each endpoint's recorded claim is backed by the one before it: the sender
\* observes a commit (observeSend) only of a transfer whose receiver recorded
\* the publication (markCommittedRecord), and the receiver records it only of
\* a transfer whose destination was linked (commitResume), whatever was
\* lost, retried or interrupted in between.
CommitEvidenceChain ==
    /\ sendJournal \subseteq recvJournal
    /\ recvJournal \subseteq published

\* commitResume never links content the manifest hash denies, although the
\* source may change under the stream and the spool may lose data between
\* an interrupted commit and its retry.
NoDamagedPublication == \A n \in Names : dest[n] # Damaged

\* A publication the sender has not observed keeps its commit intent or its
\* tombstone at the receiver, so that a retry can be answered, unless the
\* record expired or an error at commit time discarded it.
CommitEvidence ==
    \A t \in Transfers :
        t \in published \ lapsed =>
            t \in sendJournal \/ recvRow[t].state \in CommitStates

Pub == INSTANCE Publication WITH recorded <- recvJournal, observed <- sendJournal

\* Seen from outside, the protocol only ever publishes whole files where
\* nothing was (root.Link), and records and observes commits in that order:
\* crashes, retries, expiry and competing transfers are invisible.
ImplementsPublication == Pub!Spec

\* While the tombstone of a transfer stands, no attempt publishes it again,
\* even if the user has moved the first copy away: the retry is answered
\* with the prior outcome.
TombstoneStopsRepublication ==
    [][\A s \in Sessions :
          recvRow[xfer[s]].state = "pending" /\ rpc[s] = "linking"
              => rpc'[s] # "published"]_vars

\* A session that was opened ends on both sides: the two goroutines never
\* wait for each other for ever, even if the network neither breaks the
\* session nor loses anything.
SessionsEnd ==
    \A s \in Sessions :
        spc[s] # "off" ~> spc[s] = "end" /\ rpc[s] \in {"end", "panic"}

(***************************************************************************)
(* The inductive invariant behind CommitEvidenceChain, NoDamagedPublication *)
(* and ImplementsPublication.  Each part names the state that carries a    *)
(* claim from the link to the sender's journal.                            *)
(***************************************************************************)

\* A sender that streams has not sent everything.
SendersCount == \A s \in Sessions : spc[s] = "stream" => sent[s] < NChunks

\* A receiving operation past its offer holds the registry entry.
Owns ==
    \A s \in Sessions :
        rpc[s] \notin {"off", "await_offer", "panic", "end"} => rActive[xfer[s]] = s

\* What is about to be linked was verified, and nobody else can touch it.
Verified ==
    \A s \in Sessions :
        rpc[s] \in {"commit", "marking", "linking"} => partial[xfer[s]].ok

\* What is about to be recorded was linked or found in place.
LinkedIsPublished ==
    \A s \in Sessions : rpc[s] = "published" => xfer[s] \in published

\* Tombstones, copies of them and confirmations follow the receiver's record.
PendingIsRecorded ==
    /\ \A t \in Transfers : recvRow[t].state = "pending" => t \in recvJournal
    /\ \A s \in Sessions : rrec[s].state = "pending" => xfer[s] \in recvJournal
    /\ \A s \in Sessions : rpc[s] = "confirming" => xfer[s] \in recvJournal

Committed(q) == \E i \in DOMAIN q : q[i].type = "committed"

ConfirmationIsRecorded ==
    \A s \in Sessions : Committed(toS[s]) => xfer[s] \in recvJournal

EvidenceInv ==
    /\ Owns
    /\ Verified
    /\ NoDamagedPublication
    /\ LinkedIsPublished
    /\ PendingIsRecorded
    /\ ConfirmationIsRecorded
    /\ CommitEvidenceChain

=============================================================================

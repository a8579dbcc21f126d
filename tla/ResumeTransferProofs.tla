------------------------ MODULE ResumeTransferProofs ------------------------
(***************************************************************************)
(* Proofs about ResumeTransfer, for any transfers, sessions, names,        *)
(* contents, payload length and limits that satisfy ConstantsAssumption.   *)
(*                                                                         *)
(* TypeOK is inductive together with SendersCount.  EvidenceInv is         *)
(* inductive relative to TypeOK; it implies CommitEvidenceChain and        *)
(* NoDamagedPublication and carries the refinement of Publication.         *)
(* KeptInv is inductive relative to both; it adds the rows in hand and the *)
(* acknowledgements on their way, and implies CommitEvidence.              *)
(***************************************************************************)
EXTENDS ResumeTransfer, TLAPS

(***************************************************************************)
(* Type correctness.                                                       *)
(***************************************************************************)
SpcType == spc' \in [Sessions -> SendPCs]
RpcType == rpc' \in [Sessions -> RecvPCs]
SActiveType == sActive' \in [Transfers -> Sessions \cup {Idle}]
RActiveType == rActive' \in [Transfers -> Sessions \cup {Idle}]
UpType == up' \in [Sessions -> BOOLEAN]
ToRType == toR' \in [Sessions -> Seq(Msgs)]
ToSType == toS' \in [Sessions -> Seq(Msgs)]

\* Every message the two goroutines build is a message.
LEMMA MessageTypes ==
    /\ \A ty \in MsgTypes : Msg(ty) \in Msgs
    /\ \A k \in Tokens : Offer(k) \in Msgs
    /\ \A k \in Tokens, f \in BOOLEAN : Ready(k, f) \in Msgs
    /\ \A b \in BOOLEAN : Chunk(b) \in Msgs
  BY DEF Msg, Msgs, MsgTypes, Offer, Ready, Chunk, Tokens

\* Sending on a session keeps its queues sequences of messages.
LEMMA SendTypes ==
    ASSUME TypeOK, NEW s \in Sessions, NEW m \in Msgs
    PROVE  (SendToR(s, m) => ToRType) /\ (SendToS(s, m) => ToSType)
  <1>1. Append(toR[s], m) \in Seq(Msgs) /\ Append(toS[s], m) \in Seq(Msgs)
    BY DEF TypeOK
  <1> QED
    BY <1>1 DEF TypeOK, SendToR, SendToS, ToRType, ToSType

\* What is at the head of a queue is a message, and so is what remains.
LEMMA TakeTypes ==
    ASSUME TypeOK, NEW s \in Sessions, NEW ty
    PROVE  /\ HasFromS(s, ty) => Head(toR[s]) \in Msgs /\ (TakeFromS(s) => ToRType)
           /\ HasFromR(s, ty) => Head(toS[s]) \in Msgs /\ (TakeFromR(s) => ToSType)
  <1>1. toR[s] \in Seq(Msgs) /\ toS[s] \in Seq(Msgs)
    BY DEF TypeOK
  <1>2. HasFromS(s, ty) => Head(toR[s]) \in Msgs /\ Tail(toR[s]) \in Seq(Msgs)
    BY <1>1 DEF HasFromS
  <1>3. HasFromR(s, ty) => Head(toS[s]) \in Msgs /\ Tail(toS[s]) \in Seq(Msgs)
    BY <1>1 DEF HasFromR
  <1>4. HasFromS(s, ty) /\ TakeFromS(s) => ToRType
    BY <1>2 DEF TakeFromS, ToRType, TypeOK
  <1>5. HasFromR(s, ty) /\ TakeFromR(s) => ToSType
    BY <1>3 DEF TakeFromR, ToSType, TypeOK
  <1> QED
    BY <1>2, <1>3, <1>4, <1>5

\* SGoto and SReturn keep the sender's control state well typed.
LEMMA SenderReturns ==
    ASSUME TypeOK, NEW s \in Sessions
    PROVE  /\ \A pc \in SendPCs : SGoto(s, pc) => SpcType
           /\ SReturn(s) => SpcType /\ SActiveType /\ UpType
  <1>1. \A pc \in SendPCs : SGoto(s, pc) => SpcType
    BY DEF TypeOK, SGoto, SpcType
  <1>2. SReturn(s) => SpcType
    BY <1>1 DEF SReturn, SendPCs
  <1>3. SReturn(s) => SActiveType /\ UpType
    BY DEF TypeOK, SReturn, Released, SActiveType, UpType
  <1> QED
    BY <1>1, <1>2, <1>3

\* RGoto and RReturn keep the receiver's control state well typed.
LEMMA ReceiverReturns ==
    ASSUME TypeOK, NEW s \in Sessions
    PROVE  /\ \A pc \in RecvPCs : RGoto(s, pc) => RpcType
           /\ RReturn(s) => RpcType /\ RActiveType /\ UpType
  <1>1. \A pc \in RecvPCs : RGoto(s, pc) => RpcType
    BY DEF TypeOK, RGoto, RpcType
  <1>2. RReturn(s) => RpcType
    BY <1>1 DEF RReturn, RecvPCs
  <1>3. RReturn(s) => RActiveType /\ UpType
    BY DEF TypeOK, RReturn, Released, RActiveType, UpType
  <1> QED
    BY <1>1, <1>2, <1>3

\* Every step of SendResumable keeps the types; SendChunk needs SendersCount.
LEMMA SenderKeepsType ==
    ASSUME TypeOK, SendersCount, NEW s \in Sessions, SenderStep(s)
    PROVE  TypeOK' /\ SendersCount'
  <1> USE DEF senderDisk, receiverDisk, senderProc, receiverProc, channel, history
  <1>t. xfer[s] \in Transfers /\ stok[s] \in Tokens
    BY DEF TypeOK
  <1>1. CASE AcquireSend(s)
    <2>1. SpcType /\ SActiveType /\ UpType
      <3>1. CASE SReturn(s)
        BY <3>1, SenderReturns
      <3>2. CASE /\ sActive' = [sActive EXCEPT ![xfer[s]] = s]
                 /\ SGoto(s, "leased")
                 /\ up' = up
        BY <1>t, <3>2, SenderReturns DEF SActiveType, UpType, TypeOK, SendPCs
      <3> QED
        BY <1>1, <3>1, <3>2 DEF AcquireSend
    <2>2. SendersCount'
      BY <1>1 DEF AcquireSend, SGoto, SReturn, SendersCount, TypeOK
    <2> QED
      BY <1>1, <2>1, <2>2 DEF AcquireSend, TypeOK, SpcType, SActiveType, UpType
  <1>2. CASE OfferTransfer(s)
    <2>1. ToRType
      BY <1>2, <1>t, MessageTypes, SendTypes DEF OfferTransfer, ToRType, TypeOK
    <2>2. [state |-> "transferring", token |-> stok[s]] \in SendRows
      BY <1>t DEF SendRows, SendStates
    <2>3. sendRow' \in [Transfers -> SendRows]
      BY <1>2, <1>t, <2>2 DEF OfferTransfer, TypeOK
    <2>4. SpcType /\ SActiveType /\ UpType
      BY <1>2, SenderReturns DEF OfferTransfer, SpcType, SActiveType, UpType, TypeOK, SendPCs
    <2>5. SendersCount'
      BY <1>2 DEF OfferTransfer, SGoto, SReturn, SendersCount, TypeOK
    <2> QED
      BY <1>2, <2>1, <2>3, <2>4, <2>5 DEF OfferTransfer, TypeOK, SpcType, SActiveType, UpType, ToRType
  <1>3. CASE OnOfferRejected(s)
    <2>1. ToRType /\ ToSType /\ SpcType
      BY <1>3, MessageTypes, SendTypes, TakeTypes, SenderReturns
      DEF OnOfferRejected, MsgTypes, SendPCs
    <2>2. SendersCount'
      BY <1>3 DEF OnOfferRejected, SGoto, SendersCount, TypeOK
    <2> QED
      BY <1>3, <2>1, <2>2 DEF OnOfferRejected, TypeOK, SpcType, ToRType, ToSType
  <1>4. CASE OnReady(s)
    <2> DEFINE m == Head(toS[s])
               row == [state |-> "transferring", token |-> m.token]
    <2>1. m \in Msgs /\ ToSType
      BY <1>4, TakeTypes DEF OnReady
    <2>2. m.token \in Tokens /\ m.full \in BOOLEAN
      BY <2>1 DEF Msgs
    <2>3. row \in SendRows
      BY <2>2 DEF SendRows, SendStates
    <2> HIDE DEF m, row
    <2>4. /\ stok' \in [Sessions -> Tokens]
          /\ sendRow' \in [Transfers -> SendRows]
      BY <1>4, <1>t, <2>2, <2>3 DEF OnReady, m, row, TypeOK
    <2>5. sent' \in [Sessions -> 0 .. NChunks] /\ sok' \in [Sessions -> BOOLEAN]
      BY <1>4, <2>2, ConstantsAssumption DEF OnReady, m, TypeOK
    <2>6. SpcType
      BY <1>4, SenderReturns DEF OnReady, SendPCs
    <2>7. SendersCount'
      BY <1>4, ConstantsAssumption DEF OnReady, SGoto, SendersCount, TypeOK
    <2> QED
      BY <1>4, <2>1, <2>4, <2>5, <2>6, <2>7 DEF OnReady, TypeOK, SpcType, ToSType
  <1>5. CASE SendChunk(s)
    <2>1. ToRType /\ SpcType
      BY <1>5, MessageTypes, SendTypes, SenderReturns DEF SendChunk, SendPCs
    <2>2. /\ sent' \in [Sessions -> 0 .. NChunks]
          /\ sok' \in [Sessions -> BOOLEAN]
          /\ SendersCount'
      BY <1>5, ConstantsAssumption DEF SendChunk, SGoto, SendersCount, TypeOK
    <2> QED
      BY <1>5, <2>1, <2>2 DEF SendChunk, TypeOK, SpcType, ToRType
  <1>6. CASE OnPayloadAck(s)
    <2>1. ToSType /\ SpcType
      BY <1>6, TakeTypes, SenderReturns DEF OnPayloadAck, SendPCs
    <2>2. SendersCount'
      BY <1>6 DEF OnPayloadAck, SGoto, SendersCount, TypeOK
    <2> QED
      BY <1>6, <2>1, <2>2 DEF OnPayloadAck, TypeOK, SpcType, ToSType
  <1>7. CASE CompletePayload(s)
    <2>1. ToRType
      BY <1>7, MessageTypes, SendTypes DEF CompletePayload, MsgTypes
    <2>2. SpcType /\ SActiveType /\ UpType
      BY <1>7, SenderReturns DEF CompletePayload, SpcType, SActiveType, UpType, TypeOK, SendPCs
    <2>3. SendersCount'
      BY <1>7 DEF CompletePayload, SGoto, SReturn, SendersCount, TypeOK
    <2> QED
      BY <1>7, <2>1, <2>2, <2>3 DEF CompletePayload, TypeOK, SpcType, SActiveType, UpType, ToRType
  <1>8. CASE OnCommitRejected(s)
    <2>1. ToRType /\ ToSType /\ SpcType /\ SActiveType /\ UpType
      BY <1>8, MessageTypes, SendTypes, TakeTypes, SenderReturns DEF OnCommitRejected, MsgTypes
    <2>2. SendersCount'
      BY <1>8 DEF OnCommitRejected, SGoto, SReturn, SendersCount, TypeOK
    <2> QED
      BY <1>8, <2>1, <2>2
      DEF OnCommitRejected, TypeOK, SpcType, SActiveType, UpType, ToRType, ToSType
  <1>9. CASE OnCommitted(s)
    <2>1. ToSType /\ SpcType
      BY <1>9, TakeTypes, SenderReturns DEF OnCommitted, SendPCs
    <2>2. SendersCount' /\ sendJournal' \subseteq Transfers
      BY <1>9, <1>t DEF OnCommitted, SGoto, SendersCount, TypeOK
    <2> QED
      BY <1>9, <2>1, <2>2 DEF OnCommitted, TypeOK, SpcType, ToSType
  <1>10. CASE AckCommit(s)
    <2>1. ToRType /\ SpcType
      BY <1>10, MessageTypes, SendTypes, SenderReturns DEF AckCommit, SendPCs, MsgTypes
    <2>2. SendersCount'
      BY <1>10 DEF AckCommit, SGoto, SendersCount, TypeOK
    <2> QED
      BY <1>10, <2>1, <2>2 DEF AckCommit, TypeOK, SpcType, ToRType
  <1>11. CASE FinishSend(s)
    <2>1. SpcType /\ SActiveType /\ UpType
      BY <1>11, SenderReturns DEF FinishSend
    <2>2. NoSendRow \in SendRows
      BY DEF NoSendRow, SendRows, SendStates, Tokens
    <2>3. SendersCount' /\ sendRow' \in [Transfers -> SendRows]
      BY <1>11, <2>2 DEF FinishSend, SGoto, SReturn, SendersCount, TypeOK
    <2> QED
      BY <1>11, <2>1, <2>3 DEF FinishSend, TypeOK, SpcType, SActiveType, UpType
  <1>12. CASE SendFails(s)
    <2>1. SpcType /\ SActiveType /\ UpType
      BY <1>12, SenderReturns DEF SendFails
    <2>2. SendersCount'
      BY <1>12 DEF SendFails, SGoto, SReturn, SendersCount, TypeOK
    <2> QED
      BY <1>12, <2>1, <2>2 DEF SendFails, TypeOK, SpcType, SActiveType, UpType
  <1> QED
    BY <1>1, <1>2, <1>3, <1>4, <1>5, <1>6, <1>7, <1>8, <1>9, <1>10, <1>11, <1>12 DEF SenderStep

\* The rows and partials that the receiver writes are rows and partials.
LEMMA RowTypes ==
    /\ NoRecvRow \in RecvRows
    /\ \A s \in Sessions : [state |-> "transferring", token |-> s] \in RecvRows
    /\ Empty \in Partials
    /\ \A p \in Partials, st \in RecvStates : Truncated(p, st) \in Partials
  BY ConstantsAssumption
  DEF NoRecvRow, RecvRows, RecvStates, Tokens, Empty, Partials, Truncated

\* A stop of the receiving agent keeps the types.
LEMMA StopTypes ==
    ASSUME TypeOK, NEW pcs \in [Sessions -> RecvPCs], ReceiverStops(pcs)
    PROVE  RpcType /\ RActiveType /\ UpType
  BY DEF ReceiverStops, RpcType, RActiveType, UpType

\* Removing a row with its partial, or failing to, keeps the types.
LEMMA RemovalTypes ==
    ASSUME TypeOK, NEW t \in Transfers, DiscardReceive(t) \/ RemoveReceive(t)
    PROVE  /\ recvRow' \in [Transfers -> RecvRows]
           /\ partial' \in [Transfers -> Partials]
           /\ lapsed' \subseteq Transfers
           /\ UNCHANGED <<recvJournal, dest, published>>
  <1>1. CASE RemoveReceive(t)
    BY <1>1, RowTypes DEF TypeOK, RemoveReceive
  <1>2. CASE UNCHANGED <<receiverDisk, history>>
    BY <1>2 DEF TypeOK, receiverDisk, history
  <1> QED
    BY <1>1, <1>2 DEF DiscardReceive

\* Every step of ReceiveResumable keeps the types.
LEMMA ReceiverKeepsType ==
    ASSUME TypeOK, NEW s \in Sessions, ReceiverStep(s)
    PROVE  TypeOK'
  <1> USE DEF senderDisk, receiverDisk, senderProc, receiverProc, channel, history
  <1>t. /\ xfer[s] \in Transfers
        /\ rrec[s] \in RecvRows
        /\ recvRow[xfer[s]] \in RecvRows
        /\ partial[xfer[s]] \in Partials
    BY DEF TypeOK
  <1>1. CASE ReceiveOffer(s)
    <2>1. Head(toR[s]) \in Msgs /\ ToRType
      BY <1>1, TakeTypes DEF ReceiveOffer
    <2>2. offered' \in [Sessions -> Tokens]
      BY <1>1, <2>1 DEF ReceiveOffer, TypeOK, Msgs
    <2>3. CASE rActive[xfer[s]] = Idle
      <3>1. /\ rActive' = [rActive EXCEPT ![xfer[s]] = s]
            /\ rrec' = [rrec EXCEPT ![s] = recvRow[xfer[s]]]
            /\ RGoto(s, "acquired")
            /\ up' = up
        BY <1>1, <2>3 DEF ReceiveOffer
      <3>2. RpcType /\ RActiveType /\ rrec' \in [Sessions -> RecvRows]
        BY <1>t, <3>1, ReceiverReturns DEF RActiveType, TypeOK, RecvPCs
      <3> QED
        BY <1>1, <2>1, <2>2, <3>1, <3>2 DEF ReceiveOffer, TypeOK, RpcType, RActiveType, ToRType
    <2>4. CASE rActive[xfer[s]] # Idle
      <3> DEFINE pcs == [Stopped(rpc) EXCEPT ![s] = "panic"]
      <3>1. pcs \in [Sessions -> RecvPCs]
        BY DEF Stopped, TypeOK, RecvPCs
      <3> HIDE DEF pcs
      <3>2. ReceiverStops(pcs) /\ rrec' = rrec
        BY <1>1, <2>4 DEF ReceiveOffer, pcs
      <3>3. RpcType /\ RActiveType /\ UpType
        BY <3>1, <3>2, StopTypes
      <3> QED
        BY <1>1, <2>1, <2>2, <3>2, <3>3
        DEF ReceiveOffer, TypeOK, RpcType, RActiveType, UpType, ToRType
    <2> QED
      BY <2>3, <2>4
  <1>2. CASE ConfirmPriorCommit(s)
    <2>1. ToSType /\ RpcType /\ recvJournal' \subseteq Transfers
      BY <1>2, <1>t, MessageTypes, SendTypes, ReceiverReturns
      DEF ConfirmPriorCommit, RecvPCs, MsgTypes, TypeOK
    <2> QED
      BY <1>2, <2>1 DEF ConfirmPriorCommit, TypeOK, RpcType, ToSType
  <1>3. CASE RejectOffer(s)
    <2>1. ToSType /\ RpcType
      BY <1>3, MessageTypes, SendTypes, ReceiverReturns DEF RejectOffer, RejectResume, RecvPCs, MsgTypes
    <2> QED
      BY <1>3, <2>1 DEF RejectOffer, RejectResume, TypeOK, RpcType, ToSType
  <1>4. CASE AdmitOffer(s)
    <2> DEFINE row == IF rrec[s].state = "none"
                      THEN [state |-> "transferring", token |-> s] ELSE rrec[s]
    <2>1. row \in RecvRows
      BY <1>t, RowTypes
    <2> HIDE DEF row
    <2>2. /\ recvRow' = [recvRow EXCEPT ![xfer[s]] = row]
          /\ rrec' = [rrec EXCEPT ![s] = row]
          /\ RpcType
      BY <1>4, ReceiverReturns DEF AdmitOffer, row, RecvPCs
    <2>3. recvRow' \in [Transfers -> RecvRows] /\ rrec' \in [Sessions -> RecvRows]
      BY <1>t, <2>1, <2>2 DEF TypeOK
    <2> QED
      BY <1>4, <2>2, <2>3 DEF AdmitOffer, TypeOK, RpcType
  <1>5. CASE OpenPartial(s)
    <2>1. rrec[s].token \in Tokens /\ rrec[s].state \in RecvStates
      BY <1>t DEF RecvRows
    <2>2. partial' \in [Transfers -> Partials]
      BY <1>5, <1>t, <2>1, RowTypes DEF OpenPartial, TypeOK
    <2>3. Ready(rrec[s].token, rrec[s].state = "committing") \in Msgs
      BY <2>1, MessageTypes
    <2>4. ToSType /\ RpcType
      BY <1>5, <2>3, SendTypes, ReceiverReturns DEF OpenPartial, RecvPCs
    <2> QED
      BY <1>5, <2>2, <2>4 DEF OpenPartial, TypeOK, RpcType, ToSType
  <1>6. CASE RefuseForSpace(s)
    <2>1. rrec[s].state \in RecvStates
      BY <1>t DEF RecvRows
    <2>2. partial' \in [Transfers -> Partials]
      BY <1>6, <1>t, <2>1, RowTypes DEF RefuseForSpace, TypeOK
    <2>3. recvRow' \in [Transfers -> RecvRows]
      BY <1>6, <1>t, RowTypes DEF RefuseForSpace, TypeOK
    <2>4. ToSType /\ RpcType
      BY <1>6, MessageTypes, SendTypes, ReceiverReturns
      DEF RefuseForSpace, RejectResume, RecvPCs, MsgTypes
    <2> QED
      BY <1>6, <2>2, <2>3, <2>4 DEF RefuseForSpace, RejectResume, TypeOK, RpcType, ToSType
  <1>7. CASE ReceiveChunk(s)
    <2>1. Head(toR[s]) \in Msgs /\ ToRType
      BY <1>7, TakeTypes DEF ReceiveChunk
    <2>2. ToSType
      BY <1>7, MessageTypes, SendTypes DEF ReceiveChunk, ToSType, TypeOK, MsgTypes
    <2>3. [len |-> partial[xfer[s]].len + 1, ok |-> partial[xfer[s]].ok /\ Head(toR[s]).ok]
             \in Partials
      BY <1>7, <1>t, <2>1, ConstantsAssumption DEF ReceiveChunk, Partials, Msgs
    <2>4. partial' \in [Transfers -> Partials]
      BY <1>7, <1>t, <2>3 DEF ReceiveChunk, TypeOK
    <2> QED
      BY <1>7, <2>1, <2>2, <2>4 DEF ReceiveChunk, TypeOK, ToRType, ToSType
  <1>8. CASE OnComplete(s)
    <2>1. ToRType
      BY <1>8, TakeTypes DEF OnComplete
    <2>2. RpcType /\ RActiveType /\ UpType
      BY <1>8, ReceiverReturns DEF OnComplete, RActiveType, UpType, TypeOK, RecvPCs
    <2> QED
      BY <1>8, <2>1, <2>2 DEF OnComplete, TypeOK, RpcType, RActiveType, UpType, ToRType
  <1>9. CASE VerifyPartial(s)
    <2>1. RpcType /\ UNCHANGED <<rActive, up>>
      BY <1>9, ReceiverReturns DEF VerifyPartial, RejectResume, RecvPCs
    <2>2. ToSType
      BY <1>9, MessageTypes, SendTypes DEF VerifyPartial, RejectResume, MsgTypes, ToSType, TypeOK
    <2>3. CASE partial[xfer[s]].ok
      BY <1>9, <2>1, <2>2, <2>3 DEF VerifyPartial, TypeOK, RpcType, ToSType
    <2>4. CASE ~partial[xfer[s]].ok
      <3>1. DiscardReceive(xfer[s])
        BY <1>9, <2>4 DEF VerifyPartial
      <3> QED
        BY <1>9, <1>t, <2>1, <2>2, <3>1, RemovalTypes DEF VerifyPartial, TypeOK, RpcType, ToSType
    <2> QED
      BY <2>3, <2>4
  <1>10. CASE InspectDestination(s)
    <2>1. RpcType /\ published' \subseteq Transfers /\ lapsed' \subseteq Transfers
      BY <1>10, <1>t, ReceiverReturns DEF InspectDestination, FoundInPlace, RecvPCs, TypeOK
    <2> QED
      BY <1>10, <2>1 DEF InspectDestination, TypeOK, RpcType
  <1>11. CASE MarkCommitting(s)
    <2>1. RpcType
      BY <1>11, ReceiverReturns DEF MarkCommitting, RecvPCs
    <2>2. recvRow' \in [Transfers -> RecvRows]
      BY <1>11, <1>t DEF MarkCommitting, RecvRows, RecvStates, TypeOK
    <2> QED
      BY <1>11, <2>1, <2>2 DEF MarkCommitting, TypeOK, RpcType
  <1>12. CASE LinkDestination(s)
    <2>1. RpcType
      BY <1>12, ReceiverReturns DEF LinkDestination, RecvPCs
    <2>2. /\ dest' \in [Names -> DestStates]
          /\ published' \subseteq Transfers
          /\ lapsed' \subseteq Transfers
      BY <1>12, <1>t, ConstantsAssumption DEF LinkDestination, DestStates, TypeOK
    <2> QED
      BY <1>12, <2>1, <2>2 DEF LinkDestination, TypeOK, RpcType
  <1>13. CASE CommitFails(s)
    <2>1. ToSType /\ RpcType /\ UNCHANGED <<rActive, up>>
      BY <1>13, MessageTypes, SendTypes, ReceiverReturns
      DEF CommitFails, RejectResume, RecvPCs, MsgTypes
    <2> QED
      BY <1>13, <1>t, <2>1, RemovalTypes DEF CommitFails, TypeOK, RpcType, ToSType
  <1>14. CASE MarkCommitted(s)
    <2>1. RpcType /\ recvJournal' \subseteq Transfers
      BY <1>14, <1>t, ReceiverReturns DEF MarkCommitted, RecvPCs, TypeOK
    <2>2. recvRow' \in [Transfers -> RecvRows]
      BY <1>14, <1>t DEF MarkCommitted, RecvRows, RecvStates, TypeOK
    <2> QED
      BY <1>14, <2>1, <2>2 DEF MarkCommitted, TypeOK, RpcType
  <1>15. CASE SendCommitted(s)
    <2>1. ToSType /\ RpcType
      BY <1>15, MessageTypes, SendTypes, ReceiverReturns DEF SendCommitted, RecvPCs, MsgTypes
    <2> QED
      BY <1>15, <2>1 DEF SendCommitted, TypeOK, RpcType, ToSType
  <1>16. CASE OnFinalAck(s)
    <2>1. ToRType /\ RpcType
      BY <1>16, TakeTypes, ReceiverReturns DEF OnFinalAck, RecvPCs
    <2> QED
      BY <1>16, <2>1 DEF OnFinalAck, TypeOK, RpcType, ToRType
  <1>17. CASE FinishReceive(s)
    <2>1. RpcType /\ RActiveType /\ UpType
      BY <1>17, ReceiverReturns DEF FinishReceive
    <2>2. recvRow' \in [Transfers -> RecvRows] /\ partial' \in [Transfers -> Partials]
      BY <1>17, <1>t, RowTypes DEF FinishReceive, TypeOK
    <2> QED
      BY <1>17, <2>1, <2>2 DEF FinishReceive, TypeOK, RpcType, RActiveType, UpType
  <1>18. CASE OnRejectAck(s)
    <2>1. ToRType /\ RpcType /\ RActiveType /\ UpType
      BY <1>18, TakeTypes, ReceiverReturns DEF OnRejectAck
    <2> QED
      BY <1>18, <2>1 DEF OnRejectAck, TypeOK, RpcType, RActiveType, UpType, ToRType
  <1>19. CASE RecvFails(s)
    <2>1. RpcType /\ RActiveType /\ UpType
      BY <1>19, ReceiverReturns DEF RecvFails
    <2> QED
      BY <1>19, <2>1 DEF RecvFails, TypeOK, RpcType, RActiveType, UpType
  <1> QED
    BY <1>1, <1>2, <1>3, <1>4, <1>5, <1>6, <1>7, <1>8, <1>9, <1>10, <1>11, <1>12, <1>13,
       <1>14, <1>15, <1>16, <1>17, <1>18, <1>19 DEF ReceiverStep

\* The receiver does not touch the sender's counters.
LEMMA ReceiverKeepsCount ==
    ASSUME SendersCount, NEW s \in Sessions, ReceiverStep(s)
    PROVE  SendersCount'
  <1>1. UNCHANGED <<spc, sent>>
    BY DEF ReceiverStep, ReceiveOffer, ConfirmPriorCommit, RejectOffer, AdmitOffer, OpenPartial,
        RefuseForSpace, ReceiveChunk, OnComplete, VerifyPartial, InspectDestination,
        MarkCommitting, LinkDestination, CommitFails, MarkCommitted, SendCommitted, OnFinalAck,
        FinishReceive, OnRejectAck, RecvFails, senderProc
  <1> QED
    BY <1>1 DEF SendersCount

\* Submissions, broken sessions, crashes, maintenance and users keep the types.
LEMMA OthersKeepType ==
    ASSUME TypeOK, SendersCount,
           \/ \E s \in Sessions : SubmitSend(s) \/ ClaimSend(s) \/ Break(s)
           \/ Environment
    PROVE  TypeOK' /\ SendersCount'
  <1> USE DEF senderDisk, receiverDisk, senderProc, receiverProc, channel, history
  <1>1. ASSUME NEW s \in Sessions, SubmitSend(s) \/ ClaimSend(s)
        PROVE  TypeOK' /\ SendersCount'
    <2>1. xfer[s] \in Transfers /\ sendRow[xfer[s]].token \in Tokens
      BY DEF TypeOK, SendRows
    <2>2. stok' \in [Sessions -> Tokens] /\ UpType
      BY <1>1, <2>1 DEF SubmitSend, ClaimSend, TypeOK, UpType
    <2>3. RpcType /\ SpcType
      <3>1. RGoto(s, "await_offer") /\ (SGoto(s, "prepared") \/ SGoto(s, "leased"))
        BY <1>1 DEF SubmitSend, ClaimSend, RGoto
      <3> QED
        BY <3>1, SenderReturns, ReceiverReturns DEF RecvPCs, SendPCs
    <2>4. SActiveType
      <3>1. sActive' \in {sActive, [sActive EXCEPT ![xfer[s]] = s]}
        BY <1>1 DEF SubmitSend, ClaimSend
      <3> QED
        BY <2>1, <3>1 DEF TypeOK, SActiveType
    <2>5. SendersCount'
      BY <1>1 DEF SubmitSend, ClaimSend, SGoto, SendersCount, TypeOK
    <2> QED
      BY <1>1, <2>2, <2>3, <2>4, <2>5
      DEF SubmitSend, ClaimSend, TypeOK, UpType, RpcType, SpcType, SActiveType
  <1>2. ASSUME NEW s \in Sessions, Break(s)
        PROVE  TypeOK' /\ SendersCount'
    BY <1>2 DEF Break, TypeOK, SendersCount
  <1>3. CASE SenderCrash
    BY <1>3 DEF SenderCrash, TypeOK, SendersCount, SendPCs
  <1>4. CASE ReceiverCrash
    <2>1. Stopped(rpc) \in [Sessions -> RecvPCs]
      BY DEF Stopped, TypeOK, RecvPCs
    <2>2. RpcType /\ RActiveType /\ UpType
      BY <1>4, <2>1, StopTypes DEF ReceiverCrash
    <2> QED
      BY <1>4, <2>2 DEF ReceiverCrash, TypeOK, SendersCount, RpcType, RActiveType, UpType
  <1>5. ASSUME NEW t \in Transfers, RemoveSend(t)
        PROVE  TypeOK' /\ SendersCount'
    <2>1. NoSendRow \in SendRows
      BY DEF NoSendRow, SendRows, SendStates, Tokens
    <2> QED
      BY <1>5, <2>1 DEF RemoveSend, TypeOK, SendersCount
  <1>6. ASSUME NEW t \in Transfers, ExpireReceive(t) \/ DeleteReceive(t)
        PROVE  TypeOK' /\ SendersCount'
    <2>1. CASE ExpireReceive(t)
      BY <2>1, RemovalTypes DEF ExpireReceive, TypeOK, SendersCount
    <2>2. CASE DeleteReceive(t)
      BY <2>2, RowTypes DEF DeleteReceive, TypeOK, SendersCount
    <2> QED
      BY <1>6, <2>1, <2>2
  <1>7. ASSUME NEW t \in Transfers, SourceChanges(t)
        PROVE  TypeOK' /\ SendersCount'
    BY <1>7 DEF SourceChanges, TypeOK, SendersCount
  <1>8. ASSUME NEW t \in Transfers, SpoolFault(t)
        PROVE  TypeOK' /\ SendersCount'
    <2>1. partial' \in [Transfers -> Partials]
      BY <1>8 DEF SpoolFault, TypeOK, Partials
    <2> QED
      BY <1>8, <2>1 DEF SpoolFault, TypeOK, SendersCount
  <1>9. ASSUME NEW n \in Names, UserMoves(n)
        PROVE  TypeOK' /\ SendersCount'
    <2>1. dest' \in [Names -> DestStates]
      BY <1>9 DEF UserMoves, TypeOK, DestStates
    <2> QED
      BY <1>9, <2>1 DEF UserMoves, TypeOK, SendersCount
  <1> QED
    BY <1>1, <1>2, <1>3, <1>4, <1>5, <1>6, <1>7, <1>8, <1>9 DEF Environment

\* The type invariant holds initially.
LEMMA InitType == Init => TypeOK /\ SendersCount
  <1> SUFFICES ASSUME Init PROVE TypeOK /\ SendersCount
    OBVIOUS
  <1>1. NoSendRow \in SendRows
    BY DEF NoSendRow, SendRows, SendStates, Tokens
  <1>2. [s \in Sessions |-> <<>>] \in [Sessions -> Seq(Msgs)]
    OBVIOUS
  <1> QED
    BY <1>1, <1>2, RowTypes, ConstantsAssumption
    DEF Init, TypeOK, SendersCount, SendPCs, RecvPCs, Tokens, DestStates

\* Every step keeps the type invariant.
LEMMA NextType == TypeOK /\ SendersCount /\ [Next]_vars => TypeOK' /\ SendersCount'
  <1> SUFFICES ASSUME TypeOK, SendersCount, [Next]_vars PROVE TypeOK' /\ SendersCount'
    OBVIOUS
  <1>1. CASE UNCHANGED vars
    BY <1>1 DEF vars, TypeOK, SendersCount, senderDisk, receiverDisk, channel, senderProc,
        receiverProc, history
  <1>2. CASE Next
    BY <1>2, SenderKeepsType, ReceiverKeepsType, ReceiverKeepsCount, OthersKeepType DEF Next
  <1> QED
    BY <1>1, <1>2

\* In every reachable state the rows, partials, registries, queues and program
\* counters of both agents have the values the code can give them; in particular
\* SendResumable never sends more chunks than the manifest declares.
THEOREM TypeCorrect == Spec => []TypeOK
  <1>1. Spec => [](TypeOK /\ SendersCount)
    BY InitType, NextType, PTL DEF Spec
  <1> QED
    BY <1>1, PTL

(***************************************************************************)
(* The evidence invariant.                                                 *)
(***************************************************************************)

\* A message of the type is in the queue.
Carries(q, type) == \E i \in DOMAIN q : q[i].type = type

\* What carries a message of a type after a message is added or taken.
LEMMA CarriesFacts ==
    ASSUME NEW q \in Seq(Msgs), NEW ty
    PROVE  /\ \A m \in Msgs : Carries(Append(q, m), ty) => Carries(q, ty) \/ m.type = ty
           /\ q # <<>> /\ Carries(Tail(q), ty) => Carries(q, ty)
           /\ q # <<>> /\ Head(q).type = ty => Carries(q, ty)
  <1>1. ASSUME NEW m \in Msgs, Carries(Append(q, m), ty), ~Carries(q, ty)
        PROVE  m.type = ty
    <2>1. PICK i \in DOMAIN Append(q, m) : Append(q, m)[i].type = ty
      BY <1>1 DEF Carries
    <2>2. i \in 1 .. Len(q) => i \in DOMAIN q /\ Append(q, m)[i] = q[i]
      OBVIOUS
    <2>3. i = Len(q) + 1
      BY <1>1, <2>1, <2>2 DEF Carries
    <2> QED
      BY <2>1, <2>3
  <1>2. ASSUME q # <<>>, Carries(Tail(q), ty)
        PROVE  Carries(q, ty)
    <2>1. PICK i \in DOMAIN Tail(q) : Tail(q)[i].type = ty
      BY <1>2 DEF Carries
    <2>2. i + 1 \in DOMAIN q /\ Tail(q)[i] = q[i + 1]
      BY <1>2
    <2> QED
      BY <2>1, <2>2 DEF Carries
  <1>3. ASSUME q # <<>>, Head(q).type = ty
        PROVE  Carries(q, ty)
    <2>1. 1 \in DOMAIN q /\ q[1] = Head(q)
      BY <1>3
    <2> QED
      BY <1>3, <2>1 DEF Carries
  <1> QED
    BY <1>1, <1>2, <1>3

\* Where a confirmation can be in a queue that grows or shrinks.
LEMMA QueueFacts ==
    ASSUME NEW q \in Seq(Msgs)
    PROVE  /\ \A m \in Msgs : Committed(Append(q, m)) => Committed(q) \/ m.type = "committed"
           /\ q # <<>> /\ Committed(Tail(q)) => Committed(q)
           /\ q # <<>> /\ Head(q).type = "committed" => Committed(q)
  <1>1. \A k : Committed(k) <=> Carries(k, "committed")
    BY DEF Committed, Carries
  <1> QED
    BY <1>1, CarriesFacts

\* Sending to the sender anything but "committed" adds no confirmation.
LEMMA SendFacts ==
    ASSUME TypeOK, NEW s \in Sessions, NEW m \in Msgs, SendToS(s, m)
    PROVE  \A r \in Sessions :
               Committed(toS'[r]) => Committed(toS[r]) \/ (r = s /\ m.type = "committed")
  <1> TAKE r \in Sessions
  <1>1. toS[s] \in Seq(Msgs)
    BY DEF TypeOK
  <1>2. toS'[r] = IF r = s THEN Append(toS[s], m) ELSE toS[r]
    BY DEF SendToS, TypeOK
  <1> QED
    BY <1>1, <1>2, QueueFacts

\* The steps that leave the receiver's registry, disk and claims alone.
LEMMA Frame ==
    ASSUME EvidenceInv,
           UNCHANGED <<rActive, partial, dest, published, recvRow, rrec, recvJournal, xfer>>,
           \A r \in Sessions : rpc'[r] \in {rpc[r], "off", "await_offer", "panic", "end"},
           \A r \in Sessions : Committed(toS'[r]) => Committed(toS[r]),
           sendJournal' \subseteq recvJournal
    PROVE  EvidenceInv'
  BY DEF EvidenceInv, Owns, Verified, NoDamagedPublication, LinkedIsPublished,
      PendingIsRecorded, ConfirmationIsRecorded, CommitEvidenceChain

\* The sender only observes what a confirmation in its queue claims.
LEMMA SenderKeepsEvidence ==
    ASSUME TypeOK, EvidenceInv, NEW s \in Sessions,
           SenderStep(s) \/ SubmitSend(s) \/ ClaimSend(s) \/ Break(s)
    PROVE  EvidenceInv'
  <1> USE DEF senderDisk, receiverDisk, senderProc, receiverProc, channel, history
  <1>1. UNCHANGED <<rActive, partial, dest, published, recvRow, rrec, recvJournal, xfer>>
    BY DEF SenderStep, AcquireSend, OfferTransfer, OnOfferRejected, OnReady, SendChunk, OnPayloadAck,
        CompletePayload, OnCommitRejected, OnCommitted, AckCommit, FinishSend, SendFails,
        SubmitSend, ClaimSend, Break
  <1>2. \A r \in Sessions : rpc'[r] \in {rpc[r], "off", "await_offer", "panic", "end"}
    BY DEF SenderStep, AcquireSend, OfferTransfer, OnOfferRejected, OnReady, SendChunk, OnPayloadAck,
        CompletePayload, OnCommitRejected, OnCommitted, AckCommit, FinishSend, SendFails,
        SubmitSend, ClaimSend, Break, TypeOK
  <1>3. toS' = toS \/ \E ty : HasFromR(s, ty) /\ TakeFromR(s)
    BY DEF SenderStep, AcquireSend, OfferTransfer, OnOfferRejected, OnReady, SendChunk, OnPayloadAck,
        CompletePayload, OnCommitRejected, OnCommitted, AckCommit, FinishSend, SendFails,
        SubmitSend, ClaimSend, Break
  <1>4. \A r \in Sessions : Committed(toS'[r]) => Committed(toS[r])
    <2>1. CASE toS' = toS
      BY <2>1
    <2>2. ASSUME NEW ty, HasFromR(s, ty), TakeFromR(s)
          PROVE  \A r \in Sessions : Committed(toS'[r]) => Committed(toS[r])
      <3>1. toS[s] \in Seq(Msgs) /\ toS[s] # <<>>
        BY <2>2 DEF TypeOK, HasFromR
      <3>2. \A r \in Sessions : toS'[r] = IF r = s THEN Tail(toS[s]) ELSE toS[r]
        BY <2>2 DEF TakeFromR, TypeOK
      <3> QED
        BY <3>1, <3>2, QueueFacts
    <2> QED
      BY <1>3, <2>1, <2>2
  <1>5. sendJournal' \subseteq recvJournal
    <2>1. CASE OnCommitted(s)
      <3>1. toS[s] \in Seq(Msgs) /\ toS[s] # <<>> /\ Head(toS[s]).type = "committed"
        BY <2>1 DEF TypeOK, OnCommitted, HasFromR
      <3>2. Committed(toS[s])
        BY <3>1, QueueFacts
      <3> QED
        BY <2>1, <3>2 DEF OnCommitted, EvidenceInv, ConfirmationIsRecorded, CommitEvidenceChain
    <2>2. CASE ~OnCommitted(s)
      <3>1. sendJournal' = sendJournal
        BY <2>2 DEF SenderStep, AcquireSend, OfferTransfer, OnOfferRejected, OnReady, SendChunk,
            OnPayloadAck, CompletePayload, OnCommitRejected, AckCommit, FinishSend, SendFails,
            SubmitSend, ClaimSend, Break
      <3> QED
        BY <3>1 DEF EvidenceInv, CommitEvidenceChain
    <2> QED
      BY <2>1, <2>2
  <1> QED
    BY <1>1, <1>2, <1>4, <1>5, Frame

\* Removing a row creates neither tombstones nor damaged partials.
LEMMA RowStates ==
    ASSUME TypeOK, NEW t \in Transfers, RemoveReceive(t) \/ DiscardReceive(t)
    PROVE  /\ \A u \in Transfers : recvRow'[u].state = "pending" => recvRow[u].state = "pending"
           /\ \A u \in Transfers : partial[u].ok => partial'[u].ok
           /\ UNCHANGED <<recvJournal, dest, published>>
  <1>1. CASE RemoveReceive(t)
    BY <1>1 DEF RemoveReceive, NoRecvRow, Empty, TypeOK
  <1>2. CASE UNCHANGED <<receiverDisk, history>>
    BY <1>2 DEF receiverDisk, history
  <1> QED
    BY <1>1, <1>2 DEF DiscardReceive

\* The steps by which a receiving operation goes on, without linking,
\* recording or confirming anything.
LEMMA ReceiverFrame ==
    ASSUME TypeOK, EvidenceInv, NEW s \in Sessions,
           \A r \in Sessions \ {s} : rpc'[r] = rpc[r],
           rActive[xfer[s]] = s => rpc'[s] \notin {"published", "confirming"},
           rActive' = rActive,
           rpc[s] \notin {"off", "await_offer", "panic", "end"},
           UNCHANGED <<dest, published, recvJournal, sendJournal, xfer>>,
           \A u \in Transfers : recvRow'[u].state = "pending" => recvRow[u].state = "pending",
           \A u \in Transfers \ {xfer[s]} : partial[u].ok => partial'[u].ok,
           rpc'[s] \in {"commit", "marking", "linking"} => partial'[xfer[s]].ok,
           \A r \in Sessions : rrec'[r].state = "pending" => rrec[r].state = "pending",
           \A r \in Sessions : Committed(toS'[r]) => Committed(toS[r])
    PROVE  EvidenceInv'
  <1>1. rActive[xfer[s]] = s
    BY DEF EvidenceInv, Owns
  <1>2. Owns'
    BY <1>1 DEF EvidenceInv, Owns
  <1>3. Verified'
    <2> SUFFICES ASSUME NEW r \in Sessions, rpc'[r] \in {"commit", "marking", "linking"}
                 PROVE  partial'[xfer[r]].ok
      BY DEF Verified
    <2>1. CASE r = s
      BY <2>1
    <2>2. CASE r # s
      <3>1. rActive[xfer[r]] = r /\ partial[xfer[r]].ok
        BY <2>2 DEF EvidenceInv, Owns, Verified
      <3>2. xfer[r] \in Transfers \ {xfer[s]}
        BY <1>1, <2>2, <3>1 DEF TypeOK
      <3> QED
        BY <3>1, <3>2
    <2> QED
      BY <2>1, <2>2
  <1>4. NoDamagedPublication' /\ LinkedIsPublished'
    BY <1>1 DEF EvidenceInv, NoDamagedPublication, LinkedIsPublished
  <1>5. PendingIsRecorded' /\ ConfirmationIsRecorded' /\ CommitEvidenceChain'
    BY <1>1 DEF EvidenceInv, PendingIsRecorded, ConfirmationIsRecorded, CommitEvidenceChain
  <1> QED
    BY <1>2, <1>3, <1>4, <1>5 DEF EvidenceInv

\* The operation returns and gives its registry entry back.
LEMMA ReturnFrame ==
    ASSUME TypeOK, EvidenceInv, NEW s \in Sessions, RReturn(s),
           rpc[s] \notin {"off", "panic", "end"},
           UNCHANGED <<dest, published, recvJournal, sendJournal, xfer, rrec, toS>>,
           \A u \in Transfers : recvRow'[u].state = "pending" => recvRow[u].state = "pending",
           \A u \in Transfers : partial[u].ok => partial'[u].ok
    PROVE  EvidenceInv'
  <1>1. \A r \in Sessions : rpc'[r] = IF r = s THEN "end" ELSE rpc[r]
    BY DEF RReturn, RGoto, TypeOK
  <1>2. \A u \in Transfers : rActive'[u] = IF rActive[u] = s THEN Idle ELSE rActive[u]
    BY DEF RReturn, Released
  <1>3. Owns'
    BY <1>1, <1>2 DEF EvidenceInv, Owns, TypeOK
  <1>4. Verified'
    BY <1>1 DEF EvidenceInv, Verified, TypeOK
  <1>5. NoDamagedPublication' /\ LinkedIsPublished'
    BY <1>1 DEF EvidenceInv, NoDamagedPublication, LinkedIsPublished
  <1>6. PendingIsRecorded' /\ ConfirmationIsRecorded' /\ CommitEvidenceChain'
    BY <1>1 DEF EvidenceInv, PendingIsRecorded, ConfirmationIsRecorded, CommitEvidenceChain
  <1> QED
    BY <1>3, <1>4, <1>5, <1>6 DEF EvidenceInv

\* The agent stops: nothing claims anything any more except the disk and
\* the messages on their way.
LEMMA StopFrame ==
    ASSUME TypeOK, EvidenceInv,
           \A r \in Sessions : rpc'[r] \in {"off", "panic", "end"},
           UNCHANGED <<receiverDisk, sendJournal, published, xfer, toS>>,
           \A r \in Sessions : rrec'[r].state = "pending" => rrec[r].state = "pending"
    PROVE  EvidenceInv'
  BY DEF EvidenceInv, Owns, Verified, NoDamagedPublication, LinkedIsPublished,
      PendingIsRecorded, ConfirmationIsRecorded, CommitEvidenceChain, receiverDisk

\* Rejections, acknowledgements and "ready" confirm nothing.
LEMMA OtherMessages ==
    ASSUME TypeOK, NEW s \in Sessions, NEW m \in Msgs, m.type # "committed", SendToS(s, m)
    PROVE  \A r \in Sessions : Committed(toS'[r]) => Committed(toS[r])
  BY SendFacts

\* rejectResume moves only its own operation and confirms nothing.
LEMMA RejectFacts ==
    ASSUME TypeOK, NEW s \in Sessions, RejectResume(s)
    PROVE  /\ rpc' = [rpc EXCEPT ![s] = "await_reject_ack"]
           /\ rActive' = rActive
           /\ \A r \in Sessions : Committed(toS'[r]) => Committed(toS[r])
  <1>1. Msg("rejected") \in Msgs /\ Msg("rejected").type # "committed"
    BY MessageTypes DEF MsgTypes, Msg
  <1>2. /\ SendToS(s, Msg("rejected"))
        /\ rpc' = [rpc EXCEPT ![s] = "await_reject_ack"]
        /\ rActive' = rActive
    BY DEF RejectResume, RGoto
  <1>3. \A r \in Sessions : Committed(toS'[r]) => Committed(toS[r])
    BY <1>1, <1>2, OtherMessages
  <1> QED
    BY <1>2, <1>3

\* Every step of ReceiveResumable keeps the evidence invariant.
LEMMA ReceiverKeepsEvidence ==
    ASSUME TypeOK, EvidenceInv, NEW s \in Sessions, ReceiverStep(s)
    PROVE  EvidenceInv'
  <1> USE DEF senderDisk, receiverDisk, senderProc, receiverProc, channel, history
  <1>t. xfer[s] \in Transfers /\ rrec[s] \in RecvRows
    BY DEF TypeOK
  <1>1. CASE ReceiveOffer(s)
    <2>1. CASE rActive[xfer[s]] = Idle
      <3>1. /\ rActive' = [rActive EXCEPT ![xfer[s]] = s]
            /\ rrec' = [rrec EXCEPT ![s] = recvRow[xfer[s]]]
            /\ rpc' = [rpc EXCEPT ![s] = "acquired"]
            /\ UNCHANGED <<receiverDisk, sendJournal, published, xfer, toS>>
        BY <1>1, <2>1 DEF ReceiveOffer, RGoto
      <3>2. Owns'
        BY <1>t, <2>1, <3>1, ConstantsAssumption DEF EvidenceInv, Owns, TypeOK
      <3>3. Verified' /\ NoDamagedPublication' /\ LinkedIsPublished'
        BY <3>1 DEF EvidenceInv, Verified, NoDamagedPublication, LinkedIsPublished, TypeOK
      <3>4. PendingIsRecorded'
        BY <1>t, <3>1 DEF EvidenceInv, PendingIsRecorded, TypeOK
      <3>5. ConfirmationIsRecorded' /\ CommitEvidenceChain'
        BY <3>1 DEF EvidenceInv, ConfirmationIsRecorded, CommitEvidenceChain
      <3> QED
        BY <3>2, <3>3, <3>4, <3>5 DEF EvidenceInv
    <2>2. CASE rActive[xfer[s]] # Idle
      <3>1. \A r \in Sessions : rpc'[r] \in {"off", "panic", "end"}
        BY <1>1, <2>2 DEF ReceiveOffer, ReceiverStops, Stopped
      <3>2. UNCHANGED <<receiverDisk, sendJournal, published, xfer, toS, rrec>>
        BY <1>1, <2>2 DEF ReceiveOffer
      <3> QED
        BY <3>1, <3>2, StopFrame
    <2> QED
      BY <2>1, <2>2
  <1>2. CASE ConfirmPriorCommit(s)
    <2>1. xfer[s] \in recvJournal
      BY <1>2 DEF ConfirmPriorCommit, EvidenceInv, PendingIsRecorded
    <2>2. /\ recvJournal' = recvJournal
          /\ rpc' = [rpc EXCEPT ![s] = "await_final_ack"]
          /\ UNCHANGED <<recvRow, partial, dest, published, sendJournal, rActive, rrec, xfer>>
      BY <1>2, <2>1 DEF ConfirmPriorCommit, RGoto
    <2>3. Owns' /\ Verified' /\ NoDamagedPublication' /\ LinkedIsPublished'
      BY <1>2, <2>2 DEF ConfirmPriorCommit, EvidenceInv, Owns, Verified, NoDamagedPublication,
          LinkedIsPublished, TypeOK
    <2>4. PendingIsRecorded' /\ CommitEvidenceChain'
      BY <2>2 DEF EvidenceInv, PendingIsRecorded, CommitEvidenceChain, TypeOK
    <2>5. Msg("committed") \in Msgs
      BY MessageTypes DEF MsgTypes
    <2>6. \A r \in Sessions : Committed(toS'[r]) => Committed(toS[r]) \/ r = s
      BY <1>2, <2>5, SendFacts DEF ConfirmPriorCommit
    <2>7. ConfirmationIsRecorded'
      BY <2>1, <2>2, <2>6 DEF EvidenceInv, ConfirmationIsRecorded
    <2> QED
      BY <2>3, <2>4, <2>7 DEF EvidenceInv
  <1>3. CASE RejectOffer(s)
    <2>1. /\ rpc[s] = "acquired" /\ RejectResume(s)
          /\ UNCHANGED <<recvRow, recvJournal, partial, dest, published, sendJournal, xfer, rrec>>
      BY <1>3 DEF RejectOffer
    <2>2. /\ \A r \in Sessions \ {s} : rpc'[r] = rpc[r]
          /\ rpc'[s] = "await_reject_ack"
          /\ rActive' = rActive
          /\ \A r \in Sessions : Committed(toS'[r]) => Committed(toS[r])
      BY <2>1, RejectFacts DEF TypeOK
    <2> QED
      BY <2>1, <2>2, ReceiverFrame
  <1>4. CASE AdmitOffer(s)
    <2> DEFINE row == IF rrec[s].state = "none"
                      THEN [state |-> "transferring", token |-> s] ELSE rrec[s]
    <2>1. row.state # "pending"
      BY <1>4 DEF AdmitOffer
    <2> HIDE DEF row
    <2>2. /\ recvRow' = [recvRow EXCEPT ![xfer[s]] = row]
          /\ rrec' = [rrec EXCEPT ![s] = row]
          /\ rpc' = [rpc EXCEPT ![s] = "opening"]
          /\ UNCHANGED <<rActive, dest, published, recvJournal, sendJournal, xfer, partial, toS>>
      BY <1>4 DEF AdmitOffer, row, RGoto
    <2>3. /\ \A u \in Transfers : recvRow'[u].state = "pending" => recvRow[u].state = "pending"
          /\ \A r \in Sessions : rrec'[r].state = "pending" => rrec[r].state = "pending"
      BY <2>1, <2>2 DEF TypeOK
    <2>4. rpc[s] = "acquired" /\ rpc'[s] = "opening" /\ \A r \in Sessions \ {s} : rpc'[r] = rpc[r]
      BY <1>4, <2>2 DEF AdmitOffer, TypeOK
    <2> QED
      BY <2>2, <2>3, <2>4, ReceiverFrame
  <1>5. CASE OpenPartial(s)
    <2>1. rrec[s].token \in Tokens
      BY <1>t DEF RecvRows
    <2> DEFINE m == Ready(rrec[s].token, rrec[s].state = "committing")
    <2>2. m \in Msgs /\ m.type # "committed"
      BY <2>1, MessageTypes DEF Ready, Msg
    <2> HIDE DEF m
    <2>3. SendToS(s, m)
      BY <1>5 DEF OpenPartial, m
    <2>4. \A r \in Sessions : Committed(toS'[r]) => Committed(toS[r])
      BY <2>2, <2>3, OtherMessages
    <2>5. /\ rpc' = [rpc EXCEPT ![s] = "receive"]
          /\ rpc[s] = "opening"
          /\ \A u \in Transfers \ {xfer[s]} : partial'[u] = partial[u]
          /\ UNCHANGED <<rActive, dest, published, recvJournal, recvRow, sendJournal, xfer, rrec>>
      BY <1>5 DEF OpenPartial, RGoto, TypeOK
    <2> QED
      BY <2>4, <2>5, ReceiverFrame DEF TypeOK
  <1>6. CASE RefuseForSpace(s)
    <2>1. /\ \A u \in Transfers : recvRow'[u].state = "pending" => recvRow[u].state = "pending"
          /\ \A u \in Transfers \ {xfer[s]} : partial'[u] = partial[u]
      BY <1>6 DEF RefuseForSpace, NoRecvRow, TypeOK
    <2>2. /\ rpc[s] = "opening"
          /\ UNCHANGED <<dest, published, recvJournal, sendJournal, xfer, rrec>>
          /\ RejectResume(s)
      BY <1>6 DEF RefuseForSpace
    <2> QED
      BY <2>1, <2>2, RejectFacts, ReceiverFrame DEF TypeOK
  <1>7. CASE ReceiveChunk(s)
    <2>1. Msg("ack") \in Msgs /\ Msg("ack").type # "committed"
      BY MessageTypes DEF MsgTypes, Msg
    <2>2. \A r \in Sessions : Committed(toS'[r]) => Committed(toS[r])
      BY <1>7, <2>1, OtherMessages DEF ReceiveChunk
    <2>3. /\ rpc[s] = "receive"
          /\ \A u \in Transfers \ {xfer[s]} : partial'[u] = partial[u]
          /\ UNCHANGED <<rpc, rActive, dest, published, recvJournal, recvRow, sendJournal, xfer, rrec>>
      BY <1>7 DEF ReceiveChunk, TypeOK
    <2> QED
      BY <2>2, <2>3, ReceiverFrame
  <1>8. CASE OnComplete(s)
    <2>1. /\ rpc[s] = "receive"
          /\ UNCHANGED <<receiverDisk, published, sendJournal, xfer, rrec, toS>>
          /\ \/ rpc' = [rpc EXCEPT ![s] = "verify"] /\ rActive' = rActive
             \/ RReturn(s)
      BY <1>8 DEF OnComplete, RGoto
    <2>2. CASE rpc' = [rpc EXCEPT ![s] = "verify"] /\ rActive' = rActive
      BY <2>1, <2>2, ReceiverFrame DEF TypeOK
    <2>3. CASE RReturn(s)
      BY <2>1, <2>3, ReturnFrame
    <2> QED
      BY <2>1, <2>2, <2>3
  <1>9. CASE VerifyPartial(s)
    <2>1. CASE partial[xfer[s]].ok
      <3>1. /\ rpc[s] = "verify"
            /\ rpc' = [rpc EXCEPT ![s] = "commit"]
            /\ UNCHANGED <<receiverDisk, rActive, published, sendJournal, xfer, rrec, toS>>
        BY <1>9, <2>1 DEF VerifyPartial, RGoto
      <3> QED
        BY <2>1, <3>1, ReceiverFrame DEF TypeOK
    <2>2. CASE ~partial[xfer[s]].ok
      <3>1. /\ rpc[s] = "verify"
            /\ DiscardReceive(xfer[s])
            /\ RejectResume(s)
            /\ UNCHANGED <<sendJournal, xfer, rrec>>
        BY <1>9, <2>2 DEF VerifyPartial
      <3>2. /\ \A r \in Sessions \ {s} : rpc'[r] = rpc[r]
            /\ rpc'[s] = "await_reject_ack"
            /\ rActive' = rActive
            /\ \A r \in Sessions : Committed(toS'[r]) => Committed(toS[r])
        BY <3>1, RejectFacts DEF TypeOK
      <3>3. /\ \A u \in Transfers : recvRow'[u].state = "pending" => recvRow[u].state = "pending"
            /\ \A u \in Transfers : partial[u].ok => partial'[u].ok
            /\ UNCHANGED <<recvJournal, dest, published>>
        BY <1>t, <3>1, RowStates
      <3> QED
        BY <3>1, <3>2, <3>3, ReceiverFrame
    <2> QED
      BY <2>1, <2>2
  <1>10. CASE InspectDestination(s)
    <2>1. /\ rpc[s] = "commit"
          /\ UNCHANGED <<receiverDisk, rActive, sendJournal, xfer, rrec, toS>>
          /\ \/ rpc' \in {[rpc EXCEPT ![s] = "linking"], [rpc EXCEPT ![s] = "marking"]}
                /\ published' = published
             \/ rpc' = [rpc EXCEPT ![s] = "published"] /\ published' = published \cup {xfer[s]}
      BY <1>10 DEF InspectDestination, FoundInPlace, RGoto
    <2>2. partial[xfer[s]].ok
      BY <2>1 DEF EvidenceInv, Verified
    <2>3. CASE /\ rpc' \in {[rpc EXCEPT ![s] = "linking"], [rpc EXCEPT ![s] = "marking"]}
               /\ published' = published
      BY <2>1, <2>2, <2>3, ReceiverFrame DEF TypeOK
    <2>4. CASE rpc' = [rpc EXCEPT ![s] = "published"] /\ published' = published \cup {xfer[s]}
      BY <2>1, <2>4 DEF EvidenceInv, Owns, Verified, NoDamagedPublication, LinkedIsPublished,
          PendingIsRecorded, ConfirmationIsRecorded, CommitEvidenceChain, TypeOK
    <2> QED
      BY <2>1, <2>3, <2>4
  <1>11. CASE MarkCommitting(s)
    <2>1. /\ rpc[s] = "marking"
          /\ rpc' = [rpc EXCEPT ![s] = "linking"]
          /\ \A u \in Transfers : recvRow'[u].state = "pending" => recvRow[u].state = "pending"
          /\ UNCHANGED <<rActive, partial, dest, recvJournal, published, sendJournal, xfer, rrec, toS>>
      BY <1>11 DEF MarkCommitting, RGoto, TypeOK, RecvRows
    <2>2. partial[xfer[s]].ok
      BY <2>1 DEF EvidenceInv, Verified
    <2> QED
      BY <2>1, <2>2, ReceiverFrame DEF TypeOK
  <1>12. CASE LinkDestination(s)
    <2>1. partial[xfer[s]].ok /\ rActive[xfer[s]] = s
      BY <1>12 DEF LinkDestination, EvidenceInv, Verified, Owns
    <2>2. /\ dest' = [dest EXCEPT ![DestOf[xfer[s]]] = ContentOf[xfer[s]]]
          /\ published' = published \cup {xfer[s]}
          /\ rpc' = [rpc EXCEPT ![s] = "published"]
          /\ UNCHANGED <<recvRow, recvJournal, partial, rActive, sendJournal, xfer, rrec, toS>>
      BY <1>12, <2>1 DEF LinkDestination, RGoto
    <2>3. Owns' /\ Verified'
      BY <2>1, <2>2 DEF EvidenceInv, Owns, Verified, TypeOK
    <2>4. NoDamagedPublication'
      BY <1>t, <2>2, ConstantsAssumption DEF EvidenceInv, NoDamagedPublication, TypeOK
    <2>5. LinkedIsPublished'
      BY <1>t, <2>2 DEF EvidenceInv, LinkedIsPublished, TypeOK
    <2>6. PendingIsRecorded' /\ ConfirmationIsRecorded' /\ CommitEvidenceChain'
      BY <2>2 DEF EvidenceInv, PendingIsRecorded, ConfirmationIsRecorded, CommitEvidenceChain, TypeOK
    <2> QED
      BY <2>3, <2>4, <2>5, <2>6 DEF EvidenceInv
  <1>13. CASE CommitFails(s)
    <2>1. /\ rpc[s] \in {"commit", "marking", "linking"}
          /\ DiscardReceive(xfer[s])
          /\ RejectResume(s)
          /\ UNCHANGED <<sendJournal, xfer, rrec>>
      BY <1>13 DEF CommitFails
    <2>2. /\ \A r \in Sessions \ {s} : rpc'[r] = rpc[r]
          /\ rpc'[s] = "await_reject_ack"
          /\ rActive' = rActive
          /\ \A r \in Sessions : Committed(toS'[r]) => Committed(toS[r])
      BY <2>1, RejectFacts DEF TypeOK
    <2>3. /\ \A u \in Transfers : recvRow'[u].state = "pending" => recvRow[u].state = "pending"
          /\ \A u \in Transfers : partial[u].ok => partial'[u].ok
          /\ UNCHANGED <<recvJournal, dest, published>>
      BY <1>t, <2>1, RowStates
    <2> QED
      BY <2>1, <2>2, <2>3, ReceiverFrame
  <1>14. CASE MarkCommitted(s)
    <2>1. xfer[s] \in published /\ rActive[xfer[s]] = s
      BY <1>14 DEF MarkCommitted, EvidenceInv, LinkedIsPublished, Owns
    <2>2. /\ recvRow' = [recvRow EXCEPT ![xfer[s]].state = "pending"]
          /\ recvJournal' = recvJournal \cup {xfer[s]}
          /\ rpc' = [rpc EXCEPT ![s] = "confirming"]
          /\ UNCHANGED <<partial, dest, published, rActive, sendJournal, xfer, rrec, toS>>
      BY <1>14 DEF MarkCommitted, RGoto
    <2>3. Owns' /\ Verified' /\ NoDamagedPublication' /\ LinkedIsPublished'
      BY <2>1, <2>2 DEF EvidenceInv, Owns, Verified, NoDamagedPublication, LinkedIsPublished, TypeOK
    <2>4. PendingIsRecorded'
      BY <2>2 DEF EvidenceInv, PendingIsRecorded, TypeOK
    <2>5. ConfirmationIsRecorded' /\ CommitEvidenceChain'
      BY <2>1, <2>2 DEF EvidenceInv, ConfirmationIsRecorded, CommitEvidenceChain
    <2> QED
      BY <2>3, <2>4, <2>5 DEF EvidenceInv
  <1>15. CASE SendCommitted(s)
    <2>1. xfer[s] \in recvJournal
      BY <1>15 DEF SendCommitted, EvidenceInv, PendingIsRecorded
    <2>2. /\ rpc' = [rpc EXCEPT ![s] = "await_final_ack"]
          /\ UNCHANGED <<receiverDisk, published, sendJournal, rActive, rrec, xfer>>
      BY <1>15 DEF SendCommitted, RGoto
    <2>3. Owns' /\ Verified' /\ NoDamagedPublication' /\ LinkedIsPublished'
      BY <1>15, <2>2 DEF SendCommitted, EvidenceInv, Owns, Verified, NoDamagedPublication,
          LinkedIsPublished, TypeOK
    <2>4. PendingIsRecorded' /\ CommitEvidenceChain'
      BY <2>2 DEF EvidenceInv, PendingIsRecorded, CommitEvidenceChain, TypeOK
    <2>5. Msg("committed") \in Msgs
      BY MessageTypes DEF MsgTypes
    <2>6. \A r \in Sessions : Committed(toS'[r]) => Committed(toS[r]) \/ r = s
      BY <1>15, <2>5, SendFacts DEF SendCommitted
    <2>7. ConfirmationIsRecorded'
      BY <2>1, <2>2, <2>6 DEF EvidenceInv, ConfirmationIsRecorded
    <2> QED
      BY <2>3, <2>4, <2>7 DEF EvidenceInv
  <1>16. CASE OnFinalAck(s)
    <2>1. /\ rpc[s] = "await_final_ack"
          /\ rpc' = [rpc EXCEPT ![s] = "finishing"]
          /\ UNCHANGED <<receiverDisk, rActive, published, sendJournal, xfer, rrec, toS>>
      BY <1>16 DEF OnFinalAck, RGoto
    <2> QED
      BY <2>1, ReceiverFrame DEF TypeOK
  <1>17. CASE FinishReceive(s)
    <2>1. /\ rpc[s] = "finishing"
          /\ RReturn(s)
          /\ UNCHANGED <<recvJournal, dest, published, sendJournal, xfer, rrec, toS>>
      BY <1>17 DEF FinishReceive
    <2>2. /\ \A u \in Transfers : recvRow'[u].state = "pending" => recvRow[u].state = "pending"
          /\ \A u \in Transfers : partial[u].ok => partial'[u].ok
      BY <1>17 DEF FinishReceive, NoRecvRow, Empty, TypeOK
    <2> QED
      BY <2>1, <2>2, ReturnFrame
  <1>18. CASE OnRejectAck(s)
    <2>1. /\ rpc[s] = "await_reject_ack"
          /\ RReturn(s)
          /\ UNCHANGED <<receiverDisk, published, sendJournal, xfer, rrec, toS>>
      BY <1>18 DEF OnRejectAck
    <2> QED
      BY <2>1, ReturnFrame
  <1>19. CASE RecvFails(s)
    <2>1. /\ rpc[s] \notin {"off", "panic", "end"}
          /\ RReturn(s)
          /\ UNCHANGED <<receiverDisk, published, sendJournal, xfer, rrec, toS>>
      BY <1>19 DEF RecvFails
    <2> QED
      BY <2>1, ReturnFrame
  <1> QED
    BY <1>1, <1>2, <1>3, <1>4, <1>5, <1>6, <1>7, <1>8, <1>9, <1>10, <1>11, <1>12, <1>13,
       <1>14, <1>15, <1>16, <1>17, <1>18, <1>19 DEF ReceiverStep


\* Crashes, maintenance and users leave the evidence chain intact: they touch
\* a partial only while no operation owns it, and publish nothing.
LEMMA EnvironmentKeepsEvidence ==
    ASSUME TypeOK, EvidenceInv, Environment
    PROVE  EvidenceInv'
  <1> USE DEF senderDisk, receiverDisk, senderProc, receiverProc, channel, history
  <1>1. CASE SenderCrash
    BY <1>1, Frame DEF SenderCrash, EvidenceInv, CommitEvidenceChain
  <1>2. CASE ReceiverCrash
    <2>1. \A r \in Sessions : rpc'[r] \in {"off", "panic", "end"}
      BY <1>2 DEF ReceiverCrash, ReceiverStops, Stopped
    <2>2. UNCHANGED <<receiverDisk, sendJournal, published, xfer, toS, rrec>>
      BY <1>2 DEF ReceiverCrash
    <2> QED
      BY <2>1, <2>2, StopFrame
  <1>3. ASSUME NEW t \in Transfers, RemoveSend(t) \/ SourceChanges(t)
        PROVE  EvidenceInv'
    BY <1>3, Frame DEF RemoveSend, SourceChanges, EvidenceInv, CommitEvidenceChain
  <1>4. ASSUME NEW t \in Transfers, ExpireReceive(t) \/ DeleteReceive(t) \/ SpoolFault(t)
        PROVE  EvidenceInv'
    <2>1. UNCHANGED <<rActive, rpc, rrec, dest, published, recvJournal, sendJournal, xfer, toS>>
      BY <1>4, RowStates DEF ExpireReceive, DeleteReceive, SpoolFault
    <2>2. \A u \in Transfers : recvRow'[u].state = "pending" => recvRow[u].state = "pending"
      <3>1. CASE ExpireReceive(t)
        BY <3>1, RowStates DEF ExpireReceive
      <3>2. CASE DeleteReceive(t)
        BY <3>2 DEF DeleteReceive, NoRecvRow, TypeOK
      <3>3. CASE SpoolFault(t)
        BY <3>3 DEF SpoolFault
      <3> QED
        BY <1>4, <3>1, <3>2, <3>3
    <2>3. rActive[t] = Idle
      BY <1>4 DEF ExpireReceive, DeleteReceive, SpoolFault
    <2>4. \A u \in Transfers \ {t} : partial'[u] = partial[u]
      BY <1>4 DEF ExpireReceive, DeleteReceive, SpoolFault, RemoveReceive, TypeOK
    <2>5. ASSUME NEW r \in Sessions, rpc[r] \in {"commit", "marking", "linking"}
          PROVE  partial'[xfer[r]].ok
      <3>1. rActive[xfer[r]] = r /\ partial[xfer[r]].ok
        BY <2>5 DEF EvidenceInv, Owns, Verified
      <3>2. xfer[r] \in Transfers \ {t}
        BY <2>3, <3>1, ConstantsAssumption DEF TypeOK
      <3> QED
        BY <2>4, <3>1, <3>2
    <2>6. Owns' /\ Verified'
      BY <2>1, <2>5 DEF EvidenceInv, Owns, Verified
    <2>7. NoDamagedPublication' /\ LinkedIsPublished'
      BY <2>1 DEF EvidenceInv, NoDamagedPublication, LinkedIsPublished
    <2>8. PendingIsRecorded' /\ ConfirmationIsRecorded' /\ CommitEvidenceChain'
      BY <2>1, <2>2 DEF EvidenceInv, PendingIsRecorded, ConfirmationIsRecorded, CommitEvidenceChain
    <2> QED
      BY <2>6, <2>7, <2>8 DEF EvidenceInv
  <1>5. ASSUME NEW n \in Names, UserMoves(n)
        PROVE  EvidenceInv'
    <2>1. /\ \A k \in Names : dest'[k] \in Contents \cup {dest[k], Free}
          /\ UNCHANGED <<recvRow, recvJournal, partial, published, sendJournal, rActive, rpc,
                         rrec, xfer, toS>>
      BY <1>5 DEF UserMoves, TypeOK
    <2>2. NoDamagedPublication' /\ LinkedIsPublished'
      BY <2>1, ConstantsAssumption DEF EvidenceInv, NoDamagedPublication, LinkedIsPublished
    <2>3. Owns' /\ Verified' /\ PendingIsRecorded' /\ ConfirmationIsRecorded' /\ CommitEvidenceChain'
      BY <2>1 DEF EvidenceInv, Owns, Verified, PendingIsRecorded, ConfirmationIsRecorded,
          CommitEvidenceChain
    <2> QED
      BY <2>2, <2>3 DEF EvidenceInv
  <1> QED
    BY <1>1, <1>2, <1>3, <1>4, <1>5 DEF Environment

\* The evidence invariant holds initially.
LEMMA InitEvidence == Init => EvidenceInv
  BY ConstantsAssumption
  DEF Init, EvidenceInv, Owns, Verified, NoDamagedPublication, LinkedIsPublished,
      PendingIsRecorded, ConfirmationIsRecorded, Committed, CommitEvidenceChain, NoRecvRow

\* Every step keeps the evidence invariant.
LEMMA NextEvidence == TypeOK /\ EvidenceInv /\ [Next]_vars => EvidenceInv'
  <1> SUFFICES ASSUME TypeOK, EvidenceInv, [Next]_vars PROVE EvidenceInv'
    OBVIOUS
  <1>1. CASE UNCHANGED vars
    BY <1>1, Frame DEF vars, EvidenceInv, CommitEvidenceChain, senderDisk, receiverDisk, channel,
        receiverProc, history
  <1>2. CASE Next
    BY <1>2, SenderKeepsEvidence, ReceiverKeepsEvidence, EnvironmentKeepsEvidence DEF Next
  <1> QED
    BY <1>1, <1>2

\* The inductive invariant holds in every reachable state.
LEMMA EvidenceHolds == Spec => [](TypeOK /\ EvidenceInv)
  <1>1. Spec => []EvidenceInv
    BY TypeCorrect, InitEvidence, NextEvidence, PTL DEF Spec
  <1> QED
    BY <1>1, TypeCorrect, PTL

\* The sender's journal (observeSend) claims only what the receiver's journal
\* (markCommittedRecord) claims, and that claims only what commitResume
\* linked: for any number of transfers and attempts and any payload.
THEOREM EvidenceChain == Spec => []CommitEvidenceChain
  <1>1. TypeOK /\ EvidenceInv => CommitEvidenceChain
    BY DEF EvidenceInv
  <1> QED
    BY <1>1, EvidenceHolds, PTL

\* No content the manifest hash denies is ever linked by commitResume, although
\* sources change under the stream and spools are damaged between attempts.
THEOREM OnlyVerifiedContent == Spec => []NoDamagedPublication
  <1>1. TypeOK /\ EvidenceInv => NoDamagedPublication
    BY DEF EvidenceInv
  <1> QED
    BY <1>1, EvidenceHolds, PTL


(***************************************************************************)
(* Refinement.                                                             *)
(***************************************************************************)

\* The steps the abstract specification does not see.
LEMMA Stutters ==
    ASSUME UNCHANGED <<dest, published, recvJournal, sendJournal>>
    PROVE  UNCHANGED Pub!pubVars
  BY DEF Pub!pubVars

\* The sender's steps are observations or invisible.
LEMMA SenderRefines ==
    ASSUME TypeOK, EvidenceInv, NEW s \in Sessions,
           SenderStep(s) \/ SubmitSend(s) \/ ClaimSend(s) \/ Break(s)
    PROVE  [Pub!Next]_(Pub!pubVars)
  <1> USE DEF senderDisk, receiverDisk, senderProc, receiverProc, channel, history
  <1>1. CASE OnCommitted(s)
    <2>1. xfer[s] \in Transfers /\ toS[s] \in Seq(Msgs)
      BY DEF TypeOK
    <2>2. Committed(toS[s])
      BY <1>1, <2>1, QueueFacts DEF OnCommitted, HasFromR
    <2>3. xfer[s] \in recvJournal
      BY <2>2 DEF EvidenceInv, ConfirmationIsRecorded
    <2>4. Pub!Observe(xfer[s])
      BY <1>1, <2>3 DEF OnCommitted, Pub!Observe
    <2> QED
      BY <2>1, <2>4 DEF Pub!Next
  <1>2. CASE ~OnCommitted(s)
    <2>1. UNCHANGED <<dest, published, recvJournal, sendJournal>>
      BY <1>2 DEF SenderStep, AcquireSend, OfferTransfer, OnOfferRejected, OnReady, SendChunk,
          OnPayloadAck, CompletePayload, OnCommitRejected, AckCommit, FinishSend, SendFails,
          SubmitSend, ClaimSend, Break
    <2> QED
      BY <2>1, Stutters
  <1> QED
    BY <1>1, <1>2

\* The receiver's steps publish, recognise, record, or are invisible.
LEMMA ReceiverRefines ==
    ASSUME TypeOK, EvidenceInv, NEW s \in Sessions, ReceiverStep(s)
    PROVE  [Pub!Next]_(Pub!pubVars)
  <1> USE DEF senderDisk, receiverDisk, senderProc, receiverProc, channel, history
  <1>t. xfer[s] \in Transfers
    BY DEF TypeOK
  <1>1. CASE LinkDestination(s)
    <2>1. partial[xfer[s]].ok
      BY <1>1 DEF LinkDestination, EvidenceInv, Verified
    <2>2. Pub!Publish(xfer[s])
      BY <1>1, <2>1 DEF LinkDestination, Pub!Publish
    <2> QED
      BY <1>t, <2>2 DEF Pub!Next
  <1>2. CASE MarkCommitted(s)
    <2>1. xfer[s] \in published
      BY <1>2 DEF MarkCommitted, EvidenceInv, LinkedIsPublished
    <2>2. Pub!Record(xfer[s])
      BY <1>2, <2>1 DEF MarkCommitted, Pub!Record
    <2> QED
      BY <1>t, <2>2 DEF Pub!Next
  <1>3. CASE ConfirmPriorCommit(s)
    <2>1. xfer[s] \in recvJournal
      BY <1>3 DEF ConfirmPriorCommit, EvidenceInv, PendingIsRecorded
    <2>2. UNCHANGED <<dest, published, recvJournal, sendJournal>>
      BY <1>3, <2>1 DEF ConfirmPriorCommit
    <2> QED
      BY <2>2, Stutters
  <1>4. CASE VerifyPartial(s) \/ CommitFails(s)
    <2>1. DiscardReceive(xfer[s]) \/ UNCHANGED <<receiverDisk, history>>
      BY <1>4 DEF VerifyPartial, CommitFails
    <2>2. UNCHANGED <<dest, published, recvJournal>>
      BY <1>t, <2>1, RowStates
    <2>3. sendJournal' = sendJournal
      BY <1>4 DEF VerifyPartial, CommitFails
    <2> QED
      BY <2>2, <2>3, Stutters
  <1>5. CASE \/ ReceiveOffer(s) \/ RejectOffer(s) \/ AdmitOffer(s) \/ OpenPartial(s)
             \/ RefuseForSpace(s) \/ ReceiveChunk(s) \/ OnComplete(s) \/ MarkCommitting(s)
             \/ SendCommitted(s) \/ OnFinalAck(s) \/ FinishReceive(s)
             \/ OnRejectAck(s) \/ RecvFails(s)
    <2>1. UNCHANGED <<dest, published, recvJournal, sendJournal>>
      BY <1>5 DEF ReceiveOffer, RejectOffer, AdmitOffer, OpenPartial, RefuseForSpace, ReceiveChunk,
          OnComplete, MarkCommitting, SendCommitted, OnFinalAck,
          FinishReceive, OnRejectAck, RecvFails
    <2> QED
      BY <2>1, Stutters
  <1>6. CASE InspectDestination(s)
    <2>1. CASE dest[DestOf[xfer[s]]] = ContentOf[xfer[s]] /\ FoundInPlace(s)
      <3>1. Pub!Recognise(xfer[s])
        BY <1>6, <2>1 DEF InspectDestination, FoundInPlace, Pub!Recognise
      <3> QED
        BY <1>t, <3>1 DEF Pub!Next
    <2>2. CASE UNCHANGED history
      BY <1>6, <2>2, Stutters DEF InspectDestination
    <2> QED
      BY <1>6, <2>1, <2>2 DEF InspectDestination
  <1> QED
    BY <1>1, <1>2, <1>3, <1>4, <1>5, <1>6 DEF ReceiverStep

\* Of the environment only the receiving user is visible.
LEMMA EnvironmentRefines ==
    ASSUME TypeOK, EvidenceInv, Environment
    PROVE  [Pub!Next]_(Pub!pubVars)
  <1> USE DEF senderDisk, receiverDisk, senderProc, receiverProc, channel, history
  <1>1. CASE SenderCrash \/ ReceiverCrash
    BY <1>1, Stutters DEF SenderCrash, ReceiverCrash
  <1>2. ASSUME NEW t \in Transfers, \/ RemoveSend(t) \/ ExpireReceive(t) \/ DeleteReceive(t)
                                    \/ SourceChanges(t) \/ SpoolFault(t)
        PROVE  UNCHANGED Pub!pubVars
    BY <1>2, Stutters
    DEF RemoveSend, ExpireReceive, RemoveReceive, DeleteReceive, SourceChanges, SpoolFault
  <1>3. ASSUME NEW n \in Names, UserMoves(n)
        PROVE  Pub!Next
    <2>1. Pub!UserMoves(n)
      BY <1>3 DEF UserMoves, Pub!UserMoves
    <2> QED
      BY <2>1 DEF Pub!Next
  <1> QED
    BY <1>1, <1>2, <1>3 DEF Environment

\* The recoverable send protocol implements the abstract publication: every
\* step of either agent, of a crash, of maintenance or of a user is one
\* publication where nothing was, one record or observation that the previous
\* claim justifies, a user's move, or invisible.
THEOREM Refinement == Spec => ImplementsPublication
  <1>1. Init => Pub!Init
    BY DEF Init, Pub!Init
  <1>2. TypeOK /\ EvidenceInv /\ [Next]_vars => [Pub!Next]_(Pub!pubVars)
    <2> SUFFICES ASSUME TypeOK, EvidenceInv, [Next]_vars PROVE [Pub!Next]_(Pub!pubVars)
      OBVIOUS
    <2>1. CASE UNCHANGED vars
      BY <2>1, Stutters DEF vars, senderDisk, receiverDisk, history
    <2>2. CASE Next
      BY <2>2, SenderRefines, ReceiverRefines, EnvironmentRefines DEF Next
    <2> QED
      BY <2>1, <2>2
  <1> QED
    BY <1>1, <1>2, EvidenceHolds, PTL DEF Spec, ImplementsPublication, Pub!Spec

(***************************************************************************)
(* Publications that are not observed keep their evidence.                 *)
(***************************************************************************)

\* The row of a transfer is what the operation that owns it read or wrote
\* last; its commit intent is on record before and after the link.
RowHeld ==
    \A s \in Sessions :
        /\ rpc[s] \in {"acquired", "opening", "receive", "verify", "commit", "marking"} =>
              recvRow[xfer[s]] = rrec[s]
        /\ rpc[s] \in {"linking", "published"} => recvRow[xfer[s]].state = "committing"

\* A session that has not admitted its offer has issued no token.
TokensNew ==
    \A s \in Sessions : rpc[s] \in {"off", "await_offer", "acquired"} =>
        \A t \in Transfers : recvRow[t].token # s

\* A row that a session created has no commit intent yet when it is opened.
CreatedHere ==
    \A s \in Sessions : rpc[s] = "opening" /\ rrec[s].token = s => rrec[s].state = "transferring"

RowInv == RowHeld /\ TokensNew /\ CreatedHere

\* The receiver has rejected the attempt, or its operation is over.
Over == {"await_reject_ack", "panic", "end"}

\* An acknowledgement that a receiving operation takes for that of its
\* confirmation follows the observation of the commit.
AckInv ==
    \A s \in Sessions :
        /\ spc[s] = "acking" => xfer[s] \in sendJournal
        /\ Carries(toR[s], "ack") => xfer[s] \in sendJournal \/ rpc[s] \in Over
        /\ Carries(toS[s], "rejected") => rpc[s] \in Over
        /\ rpc[s] = "finishing" => xfer[s] \in sendJournal

\* The steps of a receiving operation that leave its row and its record alone
\* reach no state that claims more of them.
LEMMA MovesKeepRows ==
    ASSUME TypeOK, RowInv, NEW s \in Sessions,
           ConfirmPriorCommit(s) \/ RejectOffer(s) \/ OpenPartial(s) \/ ReceiveChunk(s) \/
             OnComplete(s) \/ InspectDestination(s) \/ LinkDestination(s) \/ SendCommitted(s)
             \/ OnFinalAck(s) \/ OnRejectAck(s) \/ RecvFails(s)
    PROVE  RowInv'
  <1> USE DEF senderDisk, receiverDisk, senderProc, receiverProc, channel, history
  <1>1. UNCHANGED <<recvRow, rrec, xfer>> /\ \A r \in Sessions \ {s} : rpc'[r] = rpc[r]
    BY DEF TypeOK, RGoto, RReturn, RejectResume, FoundInPlace, ConfirmPriorCommit, RejectOffer,
      OpenPartial, ReceiveChunk, OnComplete, InspectDestination, LinkDestination,
      SendCommitted, OnFinalAck, OnRejectAck, RecvFails
  <1>2. /\ rpc'[s] \in {"acquired", "opening", "receive", "verify", "commit", "marking"} =>
              rpc[s] \in {"acquired", "opening", "receive", "verify", "commit", "marking"}
        /\ rpc'[s] \in {"linking", "published"} =>
              \/ rpc[s] = "linking"
              \/ rpc[s] = "commit" /\ rrec[s].state = "committing"
              \/ rpc'[s] = rpc[s]
        /\ rpc'[s] \in {"off", "await_offer", "acquired", "opening"} => rpc'[s] = rpc[s]
    BY DEF TypeOK, RGoto, RReturn, RejectResume, FoundInPlace, ConfirmPriorCommit, RejectOffer,
      OpenPartial, ReceiveChunk, OnComplete, InspectDestination, LinkDestination,
      SendCommitted, OnFinalAck, OnRejectAck, RecvFails
  <1>3. RowHeld'
    BY <1>1, <1>2 DEF RowInv, RowHeld
  <1>4. TokensNew' /\ CreatedHere'
    BY <1>1, <1>2 DEF RowInv, TokensNew, CreatedHere
  <1> QED
    BY <1>3, <1>4 DEF RowInv

\* What an operation does to the row it owns touches no other operation's.
LEMMA OwnRow ==
    ASSUME TypeOK, EvidenceInv, RowInv, NEW s \in Sessions,
           rpc[s] \notin {"off", "await_offer", "panic", "end"},
           xfer' = xfer,
           \A r \in Sessions \ {s} : rpc'[r] = rpc[r] /\ rrec'[r] = rrec[r],
           \A t \in Transfers \ {xfer[s]} : recvRow'[t] = recvRow[t],
           rpc'[s] \in {"acquired", "opening", "receive", "verify", "commit", "marking"} =>
              recvRow'[xfer[s]] = rrec'[s],
           rpc'[s] \in {"linking", "published"} => recvRow'[xfer[s]].state = "committing"
    PROVE  RowHeld'
  <1> SUFFICES ASSUME NEW r \in Sessions
               PROVE  /\ rpc'[r] \in {"acquired", "opening", "receive", "verify", "commit", "marking"}
                            => recvRow'[xfer[r]] = rrec'[r]
                      /\ rpc'[r] \in {"linking", "published"} => recvRow'[xfer[r]].state = "committing"
    BY DEF RowHeld
  <1>1. CASE r = s
    BY <1>1
  <1>2. CASE r # s /\ rpc[r] \in {"acquired", "opening", "receive", "verify", "commit", "marking",
                                  "linking", "published"}
    <2>1. rActive[xfer[r]] = r /\ rActive[xfer[s]] = s
      BY <1>2 DEF EvidenceInv, Owns
    <2>2. xfer[r] \in Transfers \ {xfer[s]}
      BY <1>2, <2>1 DEF TypeOK
    <2> QED
      BY <1>2, <2>2 DEF RowInv, RowHeld
  <1>3. CASE r # s /\ rpc[r] \notin {"acquired", "opening", "receive", "verify", "commit", "marking",
                                     "linking", "published"}
    BY <1>3
  <1> QED
    BY <1>1, <1>2, <1>3

\* Every step of ReceiveResumable keeps the rows in hand.
LEMMA ReceiverKeepsRows ==
    ASSUME TypeOK, EvidenceInv, RowInv, NEW s \in Sessions, ReceiverStep(s)
    PROVE  RowInv'
  <1> USE DEF senderDisk, receiverDisk, senderProc, receiverProc, channel, history
  <1>t. xfer[s] \in Transfers /\ rrec[s] \in RecvRows /\ NoToken # s
    BY ConstantsAssumption DEF TypeOK
  <1>1. CASE ReceiveOffer(s)
    <2>1. CASE rActive[xfer[s]] = Idle
      <3>1. /\ rpc[s] = "await_offer" /\ rpc' = [rpc EXCEPT ![s] = "acquired"]
            /\ rrec' = [rrec EXCEPT ![s] = recvRow[xfer[s]]]
            /\ UNCHANGED <<recvRow, xfer>>
        BY <1>1, <2>1 DEF ReceiveOffer, RGoto
      <3>2. \A r \in Sessions \ {s} : rpc'[r] = rpc[r] /\ rrec'[r] = rrec[r]
        BY <3>1 DEF TypeOK
      <3>3. rpc'[s] = "acquired" /\ rrec'[s] = recvRow[xfer[s]]
        BY <3>1 DEF TypeOK
      <3>4. RowHeld'
        BY <3>1, <3>2, <3>3 DEF RowInv, RowHeld
      <3>5. TokensNew' /\ CreatedHere'
        BY <3>1, <3>2, <3>3 DEF RowInv, TokensNew, CreatedHere
      <3> QED
        BY <3>4, <3>5 DEF RowInv
    <2>2. CASE rActive[xfer[s]] # Idle
      <3>1. rpc[s] = "await_offer" /\ rpc' = [Stopped(rpc) EXCEPT ![s] = "panic"]
        BY <1>1, <2>2 DEF ReceiveOffer, ReceiverStops
      <3>2. recvRow' = recvRow
        BY <1>1 DEF ReceiveOffer
      <3>3. \A r \in Sessions : rpc'[r] \in {"panic", "end"} \/ (rpc'[r] = "off" /\ rpc[r] = "off")
        BY <3>1 DEF Stopped
      <3>4. RowHeld' /\ CreatedHere'
        BY <3>3 DEF RowHeld, CreatedHere
      <3>5. TokensNew'
        BY <3>2, <3>3 DEF RowInv, TokensNew
      <3> QED
        BY <3>4, <3>5 DEF RowInv
    <2> QED
      BY <2>1, <2>2
  <1>2. CASE AdmitOffer(s)
    <2> DEFINE row == IF rrec[s].state = "none"
                      THEN [state |-> "transferring", token |-> s] ELSE rrec[s]
    <2>1. /\ rpc[s] = "acquired" /\ rpc' = [rpc EXCEPT ![s] = "opening"]
          /\ recvRow' = [recvRow EXCEPT ![xfer[s]] = row]
          /\ rrec' = [rrec EXCEPT ![s] = row]
          /\ xfer' = xfer
      BY <1>2 DEF AdmitOffer, RGoto
    <2>2. recvRow[xfer[s]] = rrec[s] /\ rrec[s].token # s
      BY <1>t, <2>1 DEF RowInv, RowHeld, TokensNew
    <2>3. row.token = s => row.state = "transferring"
      BY <2>2
    <2>4. row.token \in {s, rrec[s].token}
      OBVIOUS
    <2> HIDE DEF row
    <2>5. /\ rpc'[s] = "opening" /\ rrec'[s] = row /\ recvRow'[xfer[s]] = row
          /\ \A r \in Sessions \ {s} : rpc'[r] = rpc[r] /\ rrec'[r] = rrec[r]
          /\ \A t \in Transfers \ {xfer[s]} : recvRow'[t] = recvRow[t]
      BY <1>t, <2>1 DEF TypeOK
    <2>6. RowHeld'
      BY <2>1, <2>5, OwnRow
    <2>7. TokensNew'
      <3> SUFFICES ASSUME NEW r \in Sessions, rpc'[r] \in {"off", "await_offer", "acquired"},
                          NEW t \in Transfers
                   PROVE  recvRow'[t].token # r
        BY DEF TokensNew
      <3>1. r # s /\ recvRow[t].token # r /\ recvRow[xfer[s]].token # r
        BY <1>t, <2>5 DEF RowInv, TokensNew
      <3> QED
        BY <2>2, <2>4, <2>5, <3>1
    <2>8. CreatedHere'
      BY <2>3, <2>5 DEF RowInv, CreatedHere
    <2> QED
      BY <2>6, <2>7, <2>8 DEF RowInv
  <1>3. CASE RefuseForSpace(s) \/ VerifyPartial(s) \/ CommitFails(s)
    <2>1. /\ rpc[s] \in {"opening", "verify", "commit", "marking", "linking"}
          /\ \/ rpc' = [rpc EXCEPT ![s] = "await_reject_ack"]
             \/ rpc[s] = "verify" /\ rpc' = [rpc EXCEPT ![s] = "commit"] /\ recvRow' = recvRow
          /\ UNCHANGED <<rrec, xfer>>
      BY <1>3 DEF RefuseForSpace, VerifyPartial, CommitFails, RejectResume, RGoto
    <2>2. /\ \A t \in Transfers \ {xfer[s]} : recvRow'[t] = recvRow[t]
          /\ recvRow'[xfer[s]] \in {NoRecvRow, recvRow[xfer[s]]}
      <3>1. CASE recvRow' = recvRow
        BY <3>1
      <3>2. CASE \E row \in {NoRecvRow, recvRow[xfer[s]]} : recvRow' = [recvRow EXCEPT ![xfer[s]] = row]
        BY <1>t, <3>2 DEF TypeOK
      <3> QED
        BY <1>3, <3>1, <3>2 DEF RefuseForSpace, VerifyPartial, CommitFails, DiscardReceive,
            RemoveReceive
    <2>3. /\ \A r \in Sessions \ {s} : rpc'[r] = rpc[r] /\ rrec'[r] = rrec[r]
          /\ \/ rpc'[s] = "await_reject_ack"
             \/ rpc[s] = "verify" /\ rpc'[s] = "commit" /\ recvRow' = recvRow /\ rrec' = rrec
      BY <2>1 DEF TypeOK
    <2>4. RowHeld'
      <3>1. rpc'[s] \in {"acquired", "opening", "receive", "verify", "commit", "marking"}
              => recvRow'[xfer[s]] = rrec'[s]
        BY <2>3 DEF RowInv, RowHeld
      <3> QED
        BY <2>1, <2>2, <2>3, <3>1, OwnRow
    <2>5. TokensNew'
      BY <1>t, <2>2, <2>3, ConstantsAssumption DEF RowInv, TokensNew, NoRecvRow
    <2>6. CreatedHere'
      BY <2>3 DEF RowInv, CreatedHere
    <2> QED
      BY <2>4, <2>5, <2>6 DEF RowInv
  <1>4. CASE MarkCommitting(s) \/ MarkCommitted(s)
    <2>1. PICK pc \in {"linking", "confirming"}, st \in {"committing", "pending"} :
            /\ rpc' = [rpc EXCEPT ![s] = pc]
            /\ recvRow' = [recvRow EXCEPT ![xfer[s]].state = st]
            /\ pc = "linking" => st = "committing"
      BY <1>4 DEF MarkCommitting, MarkCommitted, RGoto
    <2>2. rpc[s] \in {"marking", "published"} /\ UNCHANGED <<rrec, xfer>>
      BY <1>4 DEF MarkCommitting, MarkCommitted
    <2>3. /\ \A r \in Sessions \ {s} : rpc'[r] = rpc[r] /\ rrec'[r] = rrec[r]
          /\ rpc'[s] = pc
      BY <2>1, <2>2 DEF TypeOK
    <2>4. /\ \A t \in Transfers \ {xfer[s]} : recvRow'[t] = recvRow[t]
          /\ recvRow'[xfer[s]].state = st
          /\ \A t \in Transfers : recvRow'[t].token = recvRow[t].token
      BY <1>t, <2>1 DEF TypeOK, RecvRows
    <2>5. RowHeld'
      BY <2>1, <2>2, <2>3, <2>4, OwnRow
    <2>6. TokensNew' /\ CreatedHere'
      BY <2>2, <2>3, <2>4 DEF RowInv, TokensNew, CreatedHere
    <2> QED
      BY <2>5, <2>6 DEF RowInv
  <1>5. CASE FinishReceive(s)
    <2>1. /\ rpc[s] = "finishing" /\ rpc' = [rpc EXCEPT ![s] = "end"]
          /\ recvRow' \in {recvRow, [recvRow EXCEPT ![xfer[s]] = NoRecvRow]}
          /\ UNCHANGED <<rrec, xfer>>
      BY <1>5 DEF FinishReceive, RReturn, RGoto, TypeOK
    <2>2. /\ \A r \in Sessions \ {s} : rpc'[r] = rpc[r] /\ rrec'[r] = rrec[r]
          /\ \A t \in Transfers \ {xfer[s]} : recvRow'[t] = recvRow[t]
          /\ recvRow'[xfer[s]] \in {NoRecvRow, recvRow[xfer[s]]}
          /\ rpc'[s] = "end"
      BY <1>t, <2>1 DEF TypeOK
    <2>3. RowHeld'
      BY <2>1, <2>2, OwnRow
    <2>4. TokensNew' /\ CreatedHere'
      BY <1>t, <2>2, ConstantsAssumption DEF RowInv, TokensNew, CreatedHere, NoRecvRow
    <2> QED
      BY <2>3, <2>4 DEF RowInv
  <1> QED
    BY <1>1, <1>2, <1>3, <1>4, <1>5, MovesKeepRows DEF ReceiverStep

\* So does everything else: a row is removed only while no operation owns it.
LEMMA OthersKeepRows ==
    ASSUME TypeOK, EvidenceInv, RowInv,
           \/ Environment
           \/ \E s \in Sessions : SenderStep(s) \/ SubmitSend(s) \/ ClaimSend(s) \/ Break(s)
    PROVE  RowInv'
  <1> USE DEF senderDisk, receiverDisk, senderProc, receiverProc, channel, history
  <1>1. ASSUME NEW t \in Transfers, ExpireReceive(t) \/ DeleteReceive(t)
        PROVE  RowInv'
    <2>1. /\ rActive[t] = Idle /\ UNCHANGED <<rpc, rrec, xfer>>
          /\ recvRow' = [recvRow EXCEPT ![t] = NoRecvRow]
      BY <1>1 DEF ExpireReceive, DeleteReceive, RemoveReceive
    <2>2. /\ \A u \in Transfers \ {t} : recvRow'[u] = recvRow[u]
          /\ recvRow'[t] = NoRecvRow
      BY <2>1 DEF TypeOK
    <2>3. \A r \in Sessions : rpc[r] \notin {"off", "await_offer", "panic", "end"} =>
            xfer[r] \in Transfers \ {t}
      BY <2>1, ConstantsAssumption DEF EvidenceInv, Owns, TypeOK
    <2>4. RowHeld'
      BY <2>1, <2>2, <2>3 DEF RowInv, RowHeld
    <2>5. TokensNew' /\ CreatedHere'
      BY <2>1, <2>2, ConstantsAssumption DEF RowInv, TokensNew, CreatedHere, NoRecvRow
    <2> QED
      BY <2>4, <2>5 DEF RowInv
  <1>2. ASSUME UNCHANGED <<recvRow, rrec, xfer>>,
               \A r \in Sessions :
                  \/ rpc'[r] \in {rpc[r], "panic", "end"}
                  \/ rpc[r] = "off" /\ rpc'[r] = "await_offer"
        PROVE  RowInv'
    BY <1>2 DEF RowInv, RowHeld, TokensNew, CreatedHere
  <1>3. ASSUME NEW s \in Sessions, SenderStep(s) \/ SubmitSend(s) \/ ClaimSend(s) \/ Break(s)
        PROVE  RowInv'
    <2>1. UNCHANGED <<recvRow, rrec, xfer>>
      BY <1>3 DEF SenderStep, AcquireSend, OfferTransfer, OnOfferRejected, OnReady, SendChunk,
          OnPayloadAck, CompletePayload, OnCommitRejected, OnCommitted, AckCommit, FinishSend,
          SendFails, SubmitSend, ClaimSend, Break
    <2>2. rpc' = rpc \/ (rpc[s] = "off" /\ rpc' = [rpc EXCEPT ![s] = "await_offer"])
      BY <1>3 DEF SenderStep, AcquireSend, OfferTransfer, OnOfferRejected, OnReady, SendChunk,
          OnPayloadAck, CompletePayload, OnCommitRejected, OnCommitted, AckCommit, FinishSend,
          SendFails, SubmitSend, ClaimSend, Break
    <2> QED
      BY <1>2, <2>1, <2>2 DEF TypeOK
  <1>4. CASE SenderCrash \/ ReceiverCrash
    BY <1>2, <1>4 DEF SenderCrash, ReceiverCrash, ReceiverStops, Stopped, TypeOK
  <1>5. ASSUME NEW t \in Transfers, RemoveSend(t) \/ SourceChanges(t) \/ SpoolFault(t)
        PROVE  RowInv'
    BY <1>2, <1>5 DEF RemoveSend, SourceChanges, SpoolFault
  <1>6. ASSUME NEW n \in Names, UserMoves(n)
        PROVE  RowInv'
    BY <1>2, <1>6 DEF UserMoves
  <1> QED
    BY <1>1, <1>3, <1>4, <1>5, <1>6 DEF Environment

\* Sending adds a message of its own type to one queue, taking adds none.
LEMMA ChannelFacts ==
    ASSUME TypeOK, NEW s \in Sessions, NEW ty
    PROVE  /\ HasFromS(s, ty) => Carries(toR[s], ty)
           /\ HasFromR(s, ty) => Carries(toS[s], ty)
           /\ \A k : HasFromS(s, k) /\ TakeFromS(s) =>
                 \A r \in Sessions : Carries(toR'[r], ty) => Carries(toR[r], ty)
           /\ \A k : HasFromR(s, k) /\ TakeFromR(s) =>
                 \A r \in Sessions : Carries(toS'[r], ty) => Carries(toS[r], ty)
           /\ \A m \in Msgs : SendToR(s, m) =>
                 \A r \in Sessions :
                    Carries(toR'[r], ty) => Carries(toR[r], ty) \/ (r = s /\ m.type = ty)
           /\ \A m \in Msgs : SendToS(s, m) =>
                 \A r \in Sessions :
                    Carries(toS'[r], ty) => Carries(toS[r], ty) \/ (r = s /\ m.type = ty)
  <1>1. toR[s] \in Seq(Msgs) /\ toS[s] \in Seq(Msgs)
    BY DEF TypeOK
  <1>2. HasFromS(s, ty) => Carries(toR[s], ty)
    BY <1>1, CarriesFacts DEF HasFromS
  <1>3. HasFromR(s, ty) => Carries(toS[s], ty)
    BY <1>1, CarriesFacts DEF HasFromR
  <1>4. ASSUME NEW k, HasFromS(s, k), TakeFromS(s), NEW r \in Sessions, Carries(toR'[r], ty)
        PROVE  Carries(toR[r], ty)
    <2>1. toR[s] # <<>> /\ toR'[r] = IF r = s THEN Tail(toR[s]) ELSE toR[r]
      BY <1>4 DEF HasFromS, TakeFromS, TypeOK
    <2> QED
      BY <1>1, <1>4, <2>1, CarriesFacts
  <1>5. ASSUME NEW k, HasFromR(s, k), TakeFromR(s), NEW r \in Sessions, Carries(toS'[r], ty)
        PROVE  Carries(toS[r], ty)
    <2>1. toS[s] # <<>> /\ toS'[r] = IF r = s THEN Tail(toS[s]) ELSE toS[r]
      BY <1>5 DEF HasFromR, TakeFromR, TypeOK
    <2> QED
      BY <1>1, <1>5, <2>1, CarriesFacts
  <1>6. ASSUME NEW m \in Msgs, SendToR(s, m), NEW r \in Sessions, Carries(toR'[r], ty)
        PROVE  Carries(toR[r], ty) \/ (r = s /\ m.type = ty)
    <2>1. toR'[r] = IF r = s THEN Append(toR[s], m) ELSE toR[r]
      BY <1>6 DEF SendToR, TypeOK
    <2> QED
      BY <1>1, <1>6, <2>1, CarriesFacts
  <1>7. ASSUME NEW m \in Msgs, SendToS(s, m), NEW r \in Sessions, Carries(toS'[r], ty)
        PROVE  Carries(toS[r], ty) \/ (r = s /\ m.type = ty)
    <2>1. toS'[r] = IF r = s THEN Append(toS[s], m) ELSE toS[r]
      BY <1>7 DEF SendToS, TypeOK
    <2> QED
      BY <1>1, <1>7, <2>1, CarriesFacts
  <1> QED
    BY <1>2, <1>3, <1>4, <1>5, <1>6, <1>7

\* What a step must not do to the acknowledgements on their way.
LEMMA AckFrame ==
    ASSUME AckInv, xfer' = xfer, sendJournal \subseteq sendJournal',
           \A r \in Sessions : spc'[r] = "acking" => spc[r] = "acking" \/ xfer[r] \in sendJournal',
           \A r \in Sessions : rpc[r] \in Over => rpc'[r] \in Over,
           \A r \in Sessions : Carries(toR'[r], "ack") =>
              Carries(toR[r], "ack") \/ xfer[r] \in sendJournal' \/ rpc'[r] \in Over,
           \A r \in Sessions : Carries(toS'[r], "rejected") =>
              Carries(toS[r], "rejected") \/ rpc'[r] \in Over,
           \A r \in Sessions : rpc'[r] = "finishing" => rpc[r] = "finishing" \/ xfer[r] \in sendJournal'
    PROVE  AckInv'
  BY DEF AckInv

\* The types of the messages that are no acknowledgement and no rejection.
LEMMA MessageKinds ==
    /\ \A ty \in MsgTypes : Msg(ty) \in Msgs /\ Msg(ty).type = ty
    /\ \A k \in Tokens : Offer(k) \in Msgs /\ Offer(k).type = "offer"
    /\ \A k \in Tokens, f \in BOOLEAN : Ready(k, f) \in Msgs /\ Ready(k, f).type = "ready"
    /\ \A b \in BOOLEAN : Chunk(b) \in Msgs /\ Chunk(b).type = "chunk"
  <1>1. \A ty : Msg(ty).type = ty /\ \A k, f : Ready(k, f).type = "ready"
    BY DEF Msg, Ready
  <1>2. \A k : Offer(k).type = "offer" /\ Chunk(k).type = "chunk"
    BY DEF Msg, Offer, Chunk
  <1> QED
    BY <1>1, <1>2, MessageTypes

\* The sender acknowledges a rejection it took, or a commit it has observed.
LEMMA SenderKeepsAcks ==
    ASSUME TypeOK, AckInv, NEW s \in Sessions,
           SenderStep(s) \/ SubmitSend(s) \/ ClaimSend(s) \/ Break(s)
    PROVE  AckInv'
  <1> USE DEF senderDisk, receiverDisk, senderProc, receiverProc, channel, history
  <1>1. xfer' = xfer /\ sendJournal \subseteq sendJournal'
    BY DEF SenderStep, AcquireSend, OfferTransfer, OnOfferRejected, OnReady, SendChunk,
        OnPayloadAck, CompletePayload, OnCommitRejected, OnCommitted, AckCommit, FinishSend,
        SendFails, SubmitSend, ClaimSend, Break
  <1>2. \A r \in Sessions : rpc'[r] = rpc[r] \/ (rpc[r] = "off" /\ rpc'[r] = "await_offer")
    BY DEF SenderStep, AcquireSend, OfferTransfer, OnOfferRejected, OnReady, SendChunk,
        OnPayloadAck, CompletePayload, OnCommitRejected, OnCommitted, AckCommit, FinishSend,
        SendFails, SubmitSend, ClaimSend, Break, TypeOK
  <1>3. \A r \in Sessions : spc'[r] = "acking" => spc[r] = "acking" \/ xfer[r] \in sendJournal'
    <2>1. CASE OnCommitted(s)
      BY <2>1 DEF OnCommitted, SGoto, TypeOK
    <2>2. CASE ~OnCommitted(s)
      BY <2>2 DEF SenderStep, AcquireSend, OfferTransfer, OnOfferRejected, OnReady, SendChunk,
          OnPayloadAck, CompletePayload, OnCommitRejected, AckCommit, FinishSend, SendFails,
          SubmitSend, ClaimSend, Break, SGoto, SReturn, TypeOK
    <2> QED
      BY <2>1, <2>2
  <1>4. toS' = toS \/ \E k : HasFromR(s, k) /\ TakeFromR(s)
    BY DEF SenderStep, AcquireSend, OfferTransfer, OnOfferRejected, OnReady, SendChunk,
        OnPayloadAck, CompletePayload, OnCommitRejected, OnCommitted, AckCommit, FinishSend,
        SendFails, SubmitSend, ClaimSend, Break
  <1>5. \A r \in Sessions : Carries(toS'[r], "rejected") => Carries(toS[r], "rejected")
    BY <1>4, ChannelFacts
  <1>6. \/ toR' = toR
        \/ \E m \in Msgs : /\ SendToR(s, m)
                           /\ m.type = "ack" => HasFromR(s, "rejected") \/ spc[s] = "acking"
    <2>1. CASE OfferTransfer(s)
      BY <2>1, MessageKinds DEF OfferTransfer, TypeOK
    <2>2. CASE SendChunk(s)
      BY <2>2, MessageKinds DEF SendChunk
    <2>3. CASE CompletePayload(s)
      BY <2>3, MessageKinds DEF CompletePayload, MsgTypes
    <2>4. CASE OnOfferRejected(s) \/ OnCommitRejected(s) \/ AckCommit(s)
      BY <2>4, MessageKinds DEF OnOfferRejected, OnCommitRejected, AckCommit, MsgTypes
    <2> QED
      BY <2>1, <2>2, <2>3, <2>4 DEF SenderStep, AcquireSend, OnReady, OnPayloadAck, OnCommitted,
          FinishSend, SendFails, SubmitSend, ClaimSend, Break
  <1>7. \A r \in Sessions : Carries(toR'[r], "ack") =>
          Carries(toR[r], "ack") \/ xfer[r] \in sendJournal' \/ rpc'[r] \in Over
    <2>1. CASE toR' = toR
      BY <2>1
    <2>2. ASSUME NEW m \in Msgs, SendToR(s, m),
                 m.type = "ack" => HasFromR(s, "rejected") \/ spc[s] = "acking"
          PROVE  \A r \in Sessions : Carries(toR'[r], "ack") =>
                   Carries(toR[r], "ack") \/ xfer[r] \in sendJournal' \/ rpc'[r] \in Over
      <3>1. m.type = "ack" => Carries(toS[s], "rejected") \/ spc[s] = "acking"
        BY <2>2, ChannelFacts
      <3>2. m.type = "ack" => xfer[s] \in sendJournal' \/ rpc'[s] \in Over
        BY <1>1, <1>2, <3>1 DEF AckInv, Over
      <3> QED
        BY <2>2, <3>2, ChannelFacts
    <2> QED
      BY <1>6, <2>1, <2>2
  <1> QED
    BY <1>1, <1>2, <1>3, <1>5, <1>7, AckFrame DEF Over

\* The receiver rejects only to wait for the acknowledgement of that, and
\* takes one for that of its confirmation only if it has not rejected.
LEMMA ReceiverKeepsAcks ==
    ASSUME TypeOK, AckInv, NEW s \in Sessions, ReceiverStep(s)
    PROVE  AckInv'
  <1> USE DEF senderDisk, receiverDisk, senderProc, receiverProc, channel, history
  <1>1. UNCHANGED <<xfer, sendJournal, spc>>
    BY DEF ReceiverStep, ReceiveOffer, ConfirmPriorCommit, RejectOffer, AdmitOffer, OpenPartial,
        RefuseForSpace, ReceiveChunk, OnComplete, VerifyPartial, InspectDestination,
        MarkCommitting, LinkDestination, CommitFails, MarkCommitted, SendCommitted, OnFinalAck,
        FinishReceive, OnRejectAck, RecvFails
  <1>2. toR' = toR \/ \E k : HasFromS(s, k) /\ TakeFromS(s)
    BY DEF ReceiverStep, ReceiveOffer, ConfirmPriorCommit, RejectOffer, AdmitOffer, OpenPartial,
        RefuseForSpace, ReceiveChunk, OnComplete, VerifyPartial, InspectDestination,
        MarkCommitting, LinkDestination, CommitFails, MarkCommitted, SendCommitted, OnFinalAck,
        FinishReceive, OnRejectAck, RecvFails
  <1>3. \A r \in Sessions : Carries(toR'[r], "ack") => Carries(toR[r], "ack")
    BY <1>2, ChannelFacts
  <1>4. \A r \in Sessions : rpc[r] \in Over => rpc'[r] \in Over
    <2>1. CASE ReceiveOffer(s)
      BY <2>1 DEF ReceiveOffer, RGoto, ReceiverStops, Stopped, Over, TypeOK
    <2>2. CASE OnRejectAck(s) \/ RecvFails(s)
      BY <2>2 DEF OnRejectAck, RecvFails, RReturn, RGoto, Over, TypeOK
    <2>3. CASE ~ReceiveOffer(s) /\ ~OnRejectAck(s) /\ ~RecvFails(s)
      <3>1. rpc[s] \notin Over
        BY <2>3 DEF ReceiverStep, ConfirmPriorCommit, RejectOffer, AdmitOffer, OpenPartial,
            RefuseForSpace, ReceiveChunk, OnComplete, VerifyPartial, InspectDestination,
            MarkCommitting, LinkDestination, CommitFails, MarkCommitted, SendCommitted,
            OnFinalAck, FinishReceive, Over
      <3>2. \A r \in Sessions \ {s} : rpc'[r] = rpc[r]
        BY <2>3 DEF ReceiverStep, ConfirmPriorCommit, RejectOffer, AdmitOffer, OpenPartial,
            RefuseForSpace, ReceiveChunk, OnComplete, VerifyPartial, InspectDestination,
            MarkCommitting, LinkDestination, CommitFails, MarkCommitted, SendCommitted,
            OnFinalAck, FinishReceive, RejectResume, FoundInPlace, RGoto, RReturn, TypeOK
      <3> QED
        BY <3>1, <3>2
    <2> QED
      BY <2>1, <2>2, <2>3
  <1>5. \A r \in Sessions : Carries(toS'[r], "rejected") =>
          Carries(toS[r], "rejected") \/ rpc'[r] \in Over
    <2>1. CASE RejectOffer(s) \/ RefuseForSpace(s) \/ CommitFails(s) \/ RejectResume(s)
      <3>1. RejectResume(s)
        BY <2>1 DEF RejectOffer, RefuseForSpace, CommitFails
      <3>2. rpc'[s] \in Over
        BY <3>1 DEF RejectResume, RGoto, Over, TypeOK
      <3>3. SendToS(s, Msg("rejected")) /\ Msg("rejected") \in Msgs
        BY <3>1, MessageKinds DEF RejectResume, MsgTypes
      <3> QED
        BY <3>2, <3>3, ChannelFacts
    <2>2. ASSUME NEW m \in Msgs, SendToS(s, m), m.type # "rejected"
          PROVE  \A r \in Sessions : Carries(toS'[r], "rejected") => Carries(toS[r], "rejected")
      BY <2>2, ChannelFacts
    <2>3. CASE ConfirmPriorCommit(s) \/ SendCommitted(s)
      BY <2>2, <2>3, MessageKinds DEF ConfirmPriorCommit, SendCommitted, MsgTypes
    <2>4. CASE OpenPartial(s)
      <3>1. rrec[s].token \in Tokens
        BY DEF TypeOK, RecvRows
      <3> QED
        BY <2>2, <2>4, <3>1, MessageKinds DEF OpenPartial
    <2>5. CASE ReceiveChunk(s)
      BY <2>2, <2>5, MessageKinds DEF ReceiveChunk, MsgTypes
    <2>6. CASE toS' = toS
      BY <2>6
    <2> QED
      BY <2>1, <2>3, <2>4, <2>5, <2>6 DEF ReceiverStep, ReceiveOffer, AdmitOffer, OnComplete,
          VerifyPartial, InspectDestination, MarkCommitting, LinkDestination, MarkCommitted,
          OnFinalAck, FinishReceive, OnRejectAck, RecvFails
  <1>6. \A r \in Sessions : rpc'[r] = "finishing" => rpc[r] = "finishing" \/ xfer[r] \in sendJournal'
    <2>1. CASE OnFinalAck(s)
      <3>1. Carries(toR[s], "ack") /\ rpc[s] \notin Over
        BY <2>1, ChannelFacts DEF OnFinalAck, Over
      <3>2. xfer[s] \in sendJournal'
        BY <1>1, <3>1 DEF AckInv
      <3> QED
        BY <2>1, <3>2 DEF OnFinalAck, RGoto, TypeOK
    <2>2. CASE ReceiveOffer(s)
      BY <2>2 DEF ReceiveOffer, RGoto, ReceiverStops, Stopped, TypeOK
    <2>3. CASE ~OnFinalAck(s) /\ ~ReceiveOffer(s)
      <3>1. \A r \in Sessions \ {s} : rpc'[r] = rpc[r]
        BY <2>3 DEF ReceiverStep, ConfirmPriorCommit, RejectOffer, AdmitOffer, OpenPartial,
            RefuseForSpace, ReceiveChunk, OnComplete, VerifyPartial, InspectDestination,
            MarkCommitting, LinkDestination, CommitFails, MarkCommitted, SendCommitted,
            FinishReceive, OnRejectAck, RecvFails, RejectResume, FoundInPlace, RGoto, RReturn, TypeOK
      <3>2. rpc'[s] # "finishing"
        BY <2>3 DEF ReceiverStep, ConfirmPriorCommit, RejectOffer, AdmitOffer, OpenPartial,
            RefuseForSpace, ReceiveChunk, OnComplete, VerifyPartial, InspectDestination,
            MarkCommitting, LinkDestination, CommitFails, MarkCommitted, SendCommitted,
            FinishReceive, OnRejectAck, RecvFails, RejectResume, FoundInPlace, RGoto, RReturn, TypeOK
      <3> QED
        BY <3>1, <3>2
    <2> QED
      BY <2>1, <2>2, <2>3
  <1> QED
    BY <1>1, <1>3, <1>4, <1>5, <1>6, AckFrame

\* Crashes, maintenance and users send nothing.
LEMMA EnvironmentKeepsAcks ==
    ASSUME TypeOK, AckInv, Environment
    PROVE  AckInv'
  <1> USE DEF senderDisk, receiverDisk, senderProc, receiverProc, channel, history
  <1>1. UNCHANGED <<xfer, sendJournal, toR, toS>>
    BY DEF Environment, SenderCrash, ReceiverCrash, RemoveSend, ExpireReceive, DeleteReceive,
        SourceChanges, SpoolFault, UserMoves
  <1>2. \A r \in Sessions : spc'[r] \in {spc[r], "off", "end"}
    BY DEF Environment, SenderCrash, ReceiverCrash, RemoveSend, ExpireReceive, DeleteReceive,
        SourceChanges, SpoolFault, UserMoves
  <1>3. \A r \in Sessions : rpc'[r] \in {rpc[r], "end"}
    BY DEF Environment, SenderCrash, ReceiverCrash, RemoveSend, ExpireReceive, DeleteReceive,
        SourceChanges, SpoolFault, UserMoves, ReceiverStops, Stopped
  <1> QED
    BY <1>1, <1>2, <1>3, AckFrame DEF Over

\* Every step of ReceiveResumable keeps the evidence: commitResume links under
\* its intent, and finishReceive forgets only what the sender has observed.
LEMMA ReceiverKeepsCommits ==
    ASSUME TypeOK, EvidenceInv, RowInv, AckInv, CommitEvidence, NEW s \in Sessions, ReceiverStep(s)
    PROVE  CommitEvidence'
  <1> USE DEF senderDisk, receiverDisk, senderProc, receiverProc, channel, history
  <1>t. xfer[s] \in Transfers /\ recvRow[xfer[s]] \in RecvRows
    BY DEF TypeOK
  <1>1. CASE \/ ReceiveOffer(s) \/ ConfirmPriorCommit(s) \/ RejectOffer(s) \/ OpenPartial(s)
             \/ ReceiveChunk(s) \/ OnComplete(s) \/ SendCommitted(s) \/ OnFinalAck(s)
             \/ OnRejectAck(s) \/ RecvFails(s)
    <2>1. UNCHANGED <<recvRow, sendJournal, published, lapsed>>
      BY <1>1 DEF ReceiveOffer, ConfirmPriorCommit, RejectOffer, OpenPartial, ReceiveChunk,
          OnComplete, SendCommitted, OnFinalAck, OnRejectAck, RecvFails
    <2> QED
      BY <2>1 DEF CommitEvidence
  <1>2. CASE AdmitOffer(s)
    <2>1. /\ recvRow[xfer[s]] = rrec[s]
          /\ recvRow' = [recvRow EXCEPT ![xfer[s]] =
                IF rrec[s].state = "none" THEN [state |-> "transferring", token |-> s] ELSE rrec[s]]
          /\ UNCHANGED <<sendJournal, published, lapsed>>
      BY <1>2 DEF AdmitOffer, RowInv, RowHeld
    <2> QED
      BY <1>t, <2>1 DEF CommitEvidence, CommitStates, TypeOK
  <1>3. CASE RefuseForSpace(s)
    <2>1. /\ recvRow[xfer[s]] = rrec[s]
          /\ rrec[s].token = s => rrec[s].state = "transferring"
          /\ UNCHANGED <<sendJournal, published, lapsed>>
      BY <1>3 DEF RefuseForSpace, RowInv, RowHeld, CreatedHere
    <2>2. \E row \in RecvRows :
             /\ recvRow' = [recvRow EXCEPT ![xfer[s]] = row]
             /\ row = recvRow[xfer[s]] \/ recvRow[xfer[s]].state = "transferring"
      BY <1>3, <1>t, <2>1, RowTypes DEF RefuseForSpace
    <2> QED
      BY <1>t, <2>1, <2>2 DEF CommitEvidence, CommitStates, TypeOK
  <1>4. CASE VerifyPartial(s) \/ CommitFails(s)
    <2>1. sendJournal' = sendJournal
      BY <1>4 DEF VerifyPartial, CommitFails
    <2>2. CASE UNCHANGED <<recvRow, published, lapsed>>
      BY <2>1, <2>2 DEF CommitEvidence
    <2>3. CASE RemoveReceive(xfer[s])
      BY <1>t, <2>1, <2>3 DEF RemoveReceive, CommitEvidence, TypeOK
    <2> QED
      BY <1>4, <2>2, <2>3 DEF VerifyPartial, CommitFails, DiscardReceive
  <1>5. CASE InspectDestination(s)
    <2>1. UNCHANGED <<recvRow, sendJournal>>
      BY <1>5 DEF InspectDestination
    <2>2. CASE rrec[s].state = "committing" /\ FoundInPlace(s)
      <3>1. recvRow[xfer[s]].state = "committing"
        BY <1>5, <2>2 DEF InspectDestination, RowInv, RowHeld
      <3> QED
        BY <2>1, <2>2, <3>1 DEF FoundInPlace, CommitEvidence, CommitStates
    <2>3. CASE UNCHANGED <<published, lapsed>>
      BY <2>1, <2>3 DEF CommitEvidence
    <2> QED
      BY <1>5, <2>2, <2>3 DEF InspectDestination
  <1>6. CASE LinkDestination(s)
    <2>1. recvRow[xfer[s]].state = "committing"
      BY <1>6 DEF LinkDestination, RowInv, RowHeld
    <2>2. /\ published' = published \cup {xfer[s]} /\ lapsed' = lapsed \ {xfer[s]}
          /\ UNCHANGED <<recvRow, sendJournal>>
      BY <1>6 DEF LinkDestination
    <2> QED
      BY <2>1, <2>2 DEF CommitEvidence, CommitStates
  <1>7. CASE MarkCommitting(s) \/ MarkCommitted(s)
    <2>1. /\ \E st \in CommitStates : recvRow' = [recvRow EXCEPT ![xfer[s]].state = st]
          /\ UNCHANGED <<sendJournal, published, lapsed>>
      BY <1>7 DEF MarkCommitting, MarkCommitted, CommitStates
    <2> QED
      BY <1>t, <2>1 DEF CommitEvidence, TypeOK, RecvRows
  <1>8. CASE FinishReceive(s)
    <2>1. xfer[s] \in sendJournal
      BY <1>8 DEF FinishReceive, AckInv
    <2>2. /\ \A u \in Transfers \ {xfer[s]} : recvRow'[u] = recvRow[u]
          /\ UNCHANGED <<sendJournal, published, lapsed>>
      BY <1>8 DEF FinishReceive, TypeOK
    <2> QED
      BY <2>1, <2>2 DEF CommitEvidence
  <1> QED
    BY <1>1, <1>2, <1>3, <1>4, <1>5, <1>6, <1>7, <1>8 DEF ReceiverStep

\* Expiry is on record, a deleted row was not committed, and nothing else
\* touches the rows.
LEMMA OthersKeepCommits ==
    ASSUME TypeOK, CommitEvidence,
           \/ Environment
           \/ \E s \in Sessions : SenderStep(s) \/ SubmitSend(s) \/ ClaimSend(s) \/ Break(s)
    PROVE  CommitEvidence'
  <1> USE DEF senderDisk, receiverDisk, senderProc, receiverProc, channel, history
  <1>1. ASSUME NEW t \in Transfers, ExpireReceive(t)
        PROVE  CommitEvidence'
    BY <1>1 DEF ExpireReceive, RemoveReceive, CommitEvidence, TypeOK
  <1>2. ASSUME NEW t \in Transfers, DeleteReceive(t)
        PROVE  CommitEvidence'
    BY <1>2 DEF DeleteReceive, CommitEvidence, CommitStates, TypeOK
  <1>3. ASSUME UNCHANGED <<recvRow, published, lapsed>>, sendJournal \subseteq sendJournal'
        PROVE  CommitEvidence'
    BY <1>3 DEF CommitEvidence
  <1>4. ASSUME NEW s \in Sessions, SenderStep(s) \/ SubmitSend(s) \/ ClaimSend(s) \/ Break(s)
        PROVE  CommitEvidence'
    <2>1. UNCHANGED <<recvRow, published, lapsed>> /\ sendJournal \subseteq sendJournal'
      BY <1>4 DEF SenderStep, AcquireSend, OfferTransfer, OnOfferRejected, OnReady, SendChunk,
          OnPayloadAck, CompletePayload, OnCommitRejected, OnCommitted, AckCommit, FinishSend,
          SendFails, SubmitSend, ClaimSend, Break
    <2> QED
      BY <1>3, <2>1
  <1>5. CASE SenderCrash \/ ReceiverCrash
    BY <1>3, <1>5 DEF SenderCrash, ReceiverCrash
  <1>6. ASSUME NEW t \in Transfers, RemoveSend(t) \/ SourceChanges(t) \/ SpoolFault(t)
        PROVE  CommitEvidence'
    BY <1>3, <1>6 DEF RemoveSend, SourceChanges, SpoolFault
  <1>7. ASSUME NEW n \in Names, UserMoves(n)
        PROVE  CommitEvidence'
    BY <1>3, <1>7 DEF UserMoves
  <1> QED
    BY <1>1, <1>2, <1>4, <1>5, <1>6, <1>7 DEF Environment

\* The inductive invariant behind CommitEvidence.
KeptInv == RowInv /\ AckInv /\ CommitEvidence

\* Nothing is received, published or acknowledged at first.
LEMMA InitKept == Init => KeptInv
  BY ConstantsAssumption
  DEF Init, KeptInv, RowInv, RowHeld, TokensNew, CreatedHere, AckInv, Carries, CommitEvidence, NoRecvRow

\* Every step keeps rows, acknowledgements and evidence.
LEMMA NextKept == TypeOK /\ EvidenceInv /\ KeptInv /\ [Next]_vars => KeptInv'
  <1> SUFFICES ASSUME TypeOK, EvidenceInv, KeptInv, [Next]_vars PROVE KeptInv'
    OBVIOUS
  <1> USE DEF KeptInv
  <1>1. CASE UNCHANGED vars
    <2>1. UNCHANGED <<recvRow, rrec, rpc, spc, xfer, toR, toS, sendJournal, published, lapsed>>
      BY <1>1 DEF vars, senderDisk, receiverDisk, senderProc, receiverProc, channel, history
    <2>2. RowInv'
      BY <2>1 DEF RowInv, RowHeld, TokensNew, CreatedHere
    <2>3. AckInv' /\ CommitEvidence'
      BY <2>1 DEF AckInv, CommitEvidence
    <2> QED
      BY <2>2, <2>3
  <1>2. ASSUME NEW s \in Sessions, ReceiverStep(s)
        PROVE  KeptInv'
    BY <1>2, ReceiverKeepsRows, ReceiverKeepsAcks, ReceiverKeepsCommits
  <1>3. ASSUME NEW s \in Sessions, SenderStep(s) \/ SubmitSend(s) \/ ClaimSend(s) \/ Break(s)
        PROVE  KeptInv'
    BY <1>3, OthersKeepRows, SenderKeepsAcks, OthersKeepCommits
  <1>4. CASE Environment
    BY <1>4, OthersKeepRows, EnvironmentKeepsAcks, OthersKeepCommits
  <1> QED
    BY <1>1, <1>2, <1>3, <1>4 DEF Next

\* The strengthened invariant holds in every reachable state.
LEMMA KeptHolds == Spec => [](TypeOK /\ EvidenceInv /\ KeptInv)
  <1>1. Spec => []KeptInv
    BY EvidenceHolds, InitKept, NextKept, PTL DEF Spec
  <1> QED
    BY <1>1, EvidenceHolds, PTL

\* A publication whose commit the sender has not observed keeps its commit
\* intent or its tombstone at the receiver (finishReceive removes it only after
\* the acknowledgement of observeSend), unless it expired or an error at commit
\* time discarded it.
THEOREM EvidenceKept == Spec => []CommitEvidence
  <1>1. TypeOK /\ EvidenceInv /\ KeptInv => CommitEvidence
    BY DEF KeptInv
  <1> QED
    BY <1>1, KeptHolds, PTL

\* While a tombstone stands no attempt links its transfer again: commitResume
\* reaches the link only under a commit intent, which only the owner of the row
\* turns into a tombstone.
THEOREM NoRepublication == Spec => TombstoneStopsRepublication
  <1>1. KeptInv => \A s \in Sessions :
          recvRow[xfer[s]].state = "pending" /\ rpc[s] = "linking" => rpc'[s] # "published"
    BY DEF KeptInv, RowInv, RowHeld
  <1> QED
    BY <1>1, KeptHolds, PTL DEF TombstoneStopsRepublication

=============================================================================

------------------------- MODULE GetTransferProofs -------------------------
(***************************************************************************)
(* Proofs about GetTransfer, for any gets, names, quota and number of      *)
(* crashes that satisfy GetAssumption and NoneAssumption.                  *)
(*                                                                         *)
(* The argument is the lease: whoever works on a stage, its owner or a get *)
(* that reaps it, holds the lease of its row (LeaseInv), so nobody else    *)
(* changes row or directory meanwhile, and both can be followed from step  *)
(* to step (StageInv).  OutcomeInv follows what was linked to what is      *)
(* reported.                                                               *)
(***************************************************************************)
EXTENDS GetTransfer, TLAPS

(***************************************************************************)
(* The parts of TypeOK, one for each variable or group of variables.       *)
(***************************************************************************)
RowType == row \in [Gets -> Rows \cup {None}]
DiskType == disk \in [Gets -> (SUBSET Entries) \cup {None}]
WorldType == dest \in [Names -> Gets \cup {None, User}] /\ parent \in BOOLEAN
AgentType == up \in BOOLEAN /\ crashes \in 0 .. MaxCrashes
PcType == pc \in [Gets -> PCs]
LocType == loc \in [Gets -> [tgt : Gets, seen : Rows \cup {None}, todo : SUBSET Gets]]
ActiveType ==
    active \subseteq {g \in Gets : loc[g].tgt = g /\
                          pc[g] \in Building \cup Holding \cup Cleaning \cup {"record_link"}}
OutcomeType == outcome \in [Gets -> {"none", "failed", "committed", "pending"}]
LinkType == link \in [Gets -> [open : BOOLEAN, toR : Seq(ToRequester), toS : Seq(ToServer)]]
SpcType == spc \in [Gets -> SPCs]
HistoryType == good \in [Gets -> BOOLEAN] /\ published \subseteq Gets

Types ==
    /\ RowType /\ DiskType /\ WorldType /\ AgentType /\ PcType /\ LocType /\ ActiveType
    /\ OutcomeType /\ LinkType /\ SpcType /\ HistoryType

(***************************************************************************)
(* The inductive invariant.                                                *)
(***************************************************************************)
Starting == {"idle", "metadata", "create", "reap"}
Owning == Building \cup Holding \cup {"record_link"}
Working == Owning \cup Cleaning

\* Nothing runs in an agent that is down.
DownIsIdle == ~up => \A g \in Gets : pc[g] \in {"idle", "returned", "dead"}

\* Only a cleanup works on the stage of another get.
OnlyCleanersReap == \A g \in Gets : pc[g] \notin Cleaning => loc[g].tgt = g

\* Whoever works on a stage has its row, under its own lease.
WorkersHoldLease ==
    \A g \in Gets : pc[g] \in Working =>
        row[loc[g].tgt] # None /\ row[loc[g].tgt].lease = g

\* A get that has not reserved its row, which includes one that reaps, has none.
BeginnersHaveNothing ==
    \A g \in Gets : pc[g] \in Starting \/ loc[g].tgt # g => row[g] = None /\ disk[g] = None

LeaseInv == DownIsIdle /\ OnlyCleanersReap /\ WorkersHoldLease /\ BeginnersHaveNothing

\* What the directory looks like while its owner builds and holds it.
BuiltSoFar ==
    \A g \in Gets :
        /\ pc[g] = "mkdir" => disk[g] = None
        /\ pc[g] \in {"mkdir", "open_stage", "record_stage"} => row[g].phase = "reserved" /\ ~row[g].sid
        /\ pc[g] \in {"open_stage", "record_stage", "marker"} => disk[g] = {}
        /\ pc[g] = "marker" => row[g].phase = "stage_created"
        /\ pc[g] \in Owning \ {"mkdir", "open_stage", "record_stage"} => row[g].sid
        /\ pc[g] \in {"record_marker", "data"} => disk[g] = {"marker"}
        /\ pc[g] = "unprobe" => disk[g] = {"marker", "data", "probe"}
        /\ pc[g] \in {"probe", "record_data", "record_link"} \cup Holding => disk[g] = {"marker", "data"}

\* What a cleanup relies on from its inspection to its end.
CleanupKnows ==
    \A g \in Gets :
        LET h == loc[g].tgt IN
        /\ pc[g] = "inspect" /\ loc[g].seen # None
              => loc[g].seen.phase = row[h].phase /\ loc[g].seen.sid = row[h].sid
        /\ pc[g] = "adopt" => disk[h] = {}
        /\ pc[g] = "authorize" => disk[h] # None /\ "marker" \in disk[h]
        /\ pc[g] = "empty" => /\ disk[h] # None /\ "marker" \in disk[h]
                              /\ row[h].phase = "cleanup_authorized" /\ row[h].sid
        /\ pc[g] = "drop" => disk[h] = None

\* The directory of every row, leased or not, has a shape that a cleanup accepts.
EveryShapeKnown ==
    \A g \in Gets : row[g] # None =>
        \/ Markerless(g)
        \/ disk[g] = None
        \/ disk[g] = {} /\ (IF row[g].sid THEN row[g].phase = "cleanup_authorized"
                                        ELSE row[g].phase = "reserved")
        \/ row[g].sid /\ disk[g] # None /\ "marker" \in disk[g]

StageInv == BuiltSoFar /\ CleanupKnows /\ EveryShapeKnown /\ StageOnRecord

\* Before its link a get has linked and reported nothing.
NothingYet ==
    \A g \in Gets :
        pc[g] \in Starting \cup Building \cup Holding \/ loc[g].tgt # g
            => outcome[g] = "none" /\ g \notin published

\* A get is at its link only with the announced bytes.
LinkedIsGood ==
    \A g \in Gets :
        /\ pc[g] \in {"publishing", "validate", "link", "record_link"} => good[g]
        /\ pc[g] = "record_link" => outcome[g] = "none"
        /\ g \in published => good[g]
        /\ outcome[g] \in {"committed", "pending"} => g \in published

\* A linked file is accounted for, unless the agent stopped at that moment.
LinkedIsReported ==
    \A g \in Gets :
        /\ pc[g] = "record_link" => g \in published
        /\ g \in published /\ pc[g] \notin {"record_link", "dead"}
              => outcome[g] \in {"committed", "pending"}
        /\ outcome[g] = "failed" => pc[g] = "returned" /\ g \notin published

\* The confirmation is sent by a get that has returned as committed.
ConfirmedIsCommitted ==
    \A g \in Gets :
        spc[g] = "ok" \/ (\E i \in DOMAIN link[g].toS : link[g].toS[i] = "committed")
            => pc[g] = "returned" /\ outcome[g] = "committed"

OutcomeInv == NothingYet /\ LinkedIsGood /\ LinkedIsReported /\ ConfirmedIsCommitted

Inv == Types /\ LeaseInv /\ StageInv /\ OutcomeInv

(***************************************************************************)
(* What the helpers of the model do to the types.                          *)
(***************************************************************************)
\* None is neither a row nor a directory.
LEMMA Absent ==
    None \notin Rows /\ None \notin SUBSET Entries
  BY NoneAssumption

\* A closed session has empty queues.
LEMMA EmptyQueue ==
    \A S : <<>> \in Seq(S)
  OBVIOUS

\* Every update of a row leaves rows.
LEMMA RowUpdates ==
    ASSUME RowType, NEW h \in Gets, row[h] # None
    PROVE  /\ row[h] \in Rows
           /\ \A g \in Gets \cup {None} :
                 /\ row' = [row EXCEPT ![h].lease = g] => RowType' /\ row'[h] \in Rows
                 /\ row' = [row EXCEPT ![h].lease = g, ![h].due = FALSE] => RowType' /\ row'[h] \in Rows
           /\ row' = [row EXCEPT ![h].due = TRUE] => RowType' /\ row'[h] \in Rows
           /\ \A p \in Phases :
                 /\ row' = [row EXCEPT ![h].phase = p, ![h].sid = TRUE] => RowType' /\ row'[h] \in Rows
                 /\ row' = [row EXCEPT ![h].phase = p, ![h].sid = TRUE, ![h].due = TRUE] => RowType' /\ row'[h] \in Rows
           /\ row' = row => RowType' /\ row'[h] \in Rows
           /\ [row[h] EXCEPT !.lease = None] \in Rows
  <1>1. row[h] \in Rows
    BY DEF RowType
  <1>2. \A g \in Gets \cup {None} :
          /\ row' = [row EXCEPT ![h].lease = g] => RowType' /\ row'[h] \in Rows
          /\ row' = [row EXCEPT ![h].lease = g, ![h].due = FALSE] => RowType' /\ row'[h] \in Rows
    BY <1>1 DEF RowType, Rows
  <1>3. \A p \in Phases :
          /\ row' = [row EXCEPT ![h].phase = p, ![h].sid = TRUE] => RowType' /\ row'[h] \in Rows
          /\ row' = [row EXCEPT ![h].phase = p, ![h].sid = TRUE, ![h].due = TRUE] => RowType' /\ row'[h] \in Rows
    BY <1>1 DEF RowType, Rows
  <1>4. row' = [row EXCEPT ![h].due = TRUE] \/ row' = row => RowType' /\ row'[h] \in Rows
    BY <1>1 DEF RowType, Rows
  <1>5. [row[h] EXCEPT !.lease = None] \in Rows
    BY <1>1 DEF Rows
  <1> QED
    BY <1>1, <1>2, <1>3, <1>4, <1>5

\* Sending, taking and closing keep the queues typed.
LEMMA LinkUpdates ==
    ASSUME LinkType, NEW g \in Gets
    PROVE  /\ link[g] \in [open : BOOLEAN, toR : Seq(ToRequester), toS : Seq(ToServer)]
           /\ \A m : Has(g, "toS", m) => Tail(link[g].toS) \in Seq(ToServer)
           /\ \A m \in ToServer : Send(g, "toS", m) => LinkType'
           /\ \A m : Has(g, "toR", m) /\ Take(g, "toR") => LinkType'
           /\ Close(g, "toR") => LinkType'
           /\ Close(g, "toS") => LinkType'
  <1>1. link[g] \in [open : BOOLEAN, toR : Seq(ToRequester), toS : Seq(ToServer)]
    BY DEF LinkType
  <1>2. link[g].toR \in Seq(ToRequester) /\ link[g].toS \in Seq(ToServer)
    BY <1>1
  <1>3. ASSUME NEW m \in ToServer, Send(g, "toS", m) PROVE LinkType'
    <2>1. Append(link[g].toS, m) \in Seq(ToServer)
      BY <1>2, <1>3
    <2> QED
      BY <1>1, <1>3, <2>1 DEF LinkType, Send
  <1>4. ASSUME NEW m, Has(g, "toR", m), Take(g, "toR") PROVE LinkType'
    <2>1. Tail(link[g].toR) \in Seq(ToRequester)
      BY <1>2, <1>4 DEF Has
    <2> QED
      BY <1>1, <1>4, <2>1 DEF LinkType, Take
  <1>5. ASSUME Close(g, "toR") PROVE LinkType'
    BY <1>1, <1>5, EmptyQueue DEF LinkType, Close
  <1>6. ASSUME Close(g, "toS") PROVE LinkType'
    BY <1>1, <1>6, EmptyQueue DEF LinkType, Close
  <1>7. ASSUME NEW m, Has(g, "toS", m) PROVE Tail(link[g].toS) \in Seq(ToServer)
    BY <1>2, <1>7 DEF Has
  <1> QED
    BY <1>1, <1>3, <1>4, <1>5, <1>6, <1>7

\* What remains in a queue was in it.
LEMMA TailHolds ==
    ASSUME NEW S, NEW q \in Seq(S), q # <<>>, NEW i \in DOMAIN Tail(q)
    PROVE  i + 1 \in DOMAIN q /\ Tail(q)[i] = q[i + 1]
  OBVIOUS

\* What the requester takes or closes does not touch what is under way to the server.
LEMMA ToServerKept ==
    ASSUME LinkType, NEW g \in Gets, Close(g, "toR") \/ Take(g, "toR"), NEW k \in Gets
    PROVE  link'[k].toS = link[k].toS
  <1>1. link[g] \in [open : BOOLEAN, toR : Seq(ToRequester), toS : Seq(ToServer)]
    BY DEF LinkType
  <1>2. CASE Close(g, "toR")
    BY <1>1, <1>2 DEF LinkType, Close
  <1>3. CASE Take(g, "toR")
    BY <1>1, <1>3 DEF LinkType, Take
  <1> QED
    BY <1>2, <1>3

\* Every update of a worker's locals keeps them typed.
LEMMA LocUpdates ==
    ASSUME LocType, NEW g \in Gets
    PROVE  /\ loc[g].todo \subseteq Gets /\ loc[g].tgt \in Gets
           /\ loc' = loc => LocType'
           /\ loc' = [loc EXCEPT ![g] = Locals(g)] => LocType'
           /\ loc' = [loc EXCEPT ![g].tgt = g, ![g].seen = None] => LocType'
           /\ \A r \in Rows \cup {None} : loc' = [loc EXCEPT ![g].seen = r] => LocType'
           /\ \A T \in SUBSET Gets : loc' = [loc EXCEPT ![g].todo = T] => LocType'
           /\ \A h \in Gets, r \in Rows \cup {None} :
                 loc' = [loc EXCEPT ![g] = [tgt |-> h, seen |-> r, todo |-> @.todo \ {h}]] => LocType'
  <1>1. loc[g] \in [tgt : Gets, seen : Rows \cup {None}, todo : SUBSET Gets]
    BY DEF LocType
  <1>2. Locals(g) \in [tgt : Gets, seen : Rows \cup {None}, todo : SUBSET Gets]
    BY DEF Locals
  <1> QED
    BY <1>1, <1>2 DEF LocType

\* Two gets never work on the same stage.
LEMMA OneWorker ==
    ASSUME WorkersHoldLease, NEW g \in Gets, NEW h \in Gets,
           pc[g] \in Working, pc[h] \in Working, loc[g].tgt = loc[h].tgt
    PROVE  g = h
  BY DEF WorkersHoldLease

\* A get that builds or holds a stage works on its own.
LEMMA OwnersOwn ==
    ASSUME OnlyCleanersReap, NEW g \in Gets, pc[g] \in Owning
    PROVE  loc[g].tgt = g /\ pc[g] \in Working
  BY DEF OnlyCleanersReap, Owning, Working, Building, Holding, Cleaning

\* The end of a cleanup keeps the queues typed.
LEMMA ContinueLink ==
    ASSUME LinkType, NEW g \in Gets, NEW clean \in BOOLEAN, Continue(g, clean)
    PROVE  LinkType'
  <1>1. link[g] \in [open : BOOLEAN, toR : Seq(ToRequester), toS : Seq(ToServer)]
    BY LinkUpdates
  <1>2. link[g].toS \in Seq(ToServer) /\ Append(link[g].toS, "committed") \in Seq(ToServer)
    BY <1>1 DEF ToServer
  <1>3. CASE loc[g].tgt # g
    BY <1>3 DEF Continue, LinkType
  <1>4. CASE loc[g].tgt = g
    <2>1. PICK q \in Seq(ToServer) : link' = [link EXCEPT ![g].open = FALSE, ![g].toR = <<>>, ![g].toS = q]
      BY <1>2, <1>4 DEF Continue
    <2> QED
      BY <1>1, <2>1, EmptyQueue DEF LinkType
  <1> QED
    BY <1>3, <1>4

(***************************************************************************)
(* Every action keeps the invariant: one lemma for each action, with one   *)
(* step for what the action leaves alone and one for each conjunct that it *)
(* disturbs.                                                               *)
(***************************************************************************)
LEMMA ServeGetKeepsInv ==
    ASSUME Inv, NEW g \in Gets, ServeGet(g)
    PROVE  Inv'
  <1> USE DEF Inv, Types
  <1>1. RowType' /\ DiskType' /\ WorldType' /\ AgentType' /\ PcType' /\ LocType' /\ ActiveType'
        /\ OutcomeType' /\ HistoryType' /\ DownIsIdle' /\ OnlyCleanersReap' /\ WorkersHoldLease'
        /\ BeginnersHaveNothing' /\ BuiltSoFar' /\ CleanupKnows' /\ EveryShapeKnown' /\
        StageOnRecord' /\ NothingYet' /\ LinkedIsGood' /\ LinkedIsReported'
    BY SMTT(30) DEF LeaseInv, StageInv, OutcomeInv, RowType, DiskType, WorldType, AgentType, PcType,
      LocType, ActiveType, OutcomeType, HistoryType, DownIsIdle, OnlyCleanersReap,
      WorkersHoldLease, BeginnersHaveNothing, BuiltSoFar, CleanupKnows, EveryShapeKnown,
      Markerless, StageOnRecord, NothingYet, LinkedIsGood, LinkedIsReported, ServeGet, store,
      world, agent, worker
  <1>2. LinkType'
    BY DEF LinkType, RowType, DiskType, WorldType, AgentType, PcType, LocType, ActiveType,
      OutcomeType, SpcType, HistoryType, ServeGet, Has, store, world, agent, worker,
      ToRequester, ToServer, Rows, Phases, Entries, PCs, Building, Holding, Cleaning, SPCs
  <1>3. SpcType'
    BY DEF SpcType, ServeGet, SPCs
  <1>4. ConfirmedIsCommitted'
    <2>1. /\ link'[g].toS = Tail(link[g].toS) /\ link[g].toS # <<>>
          /\ \A k \in Gets \ {g} : link'[k].toS = link[k].toS
          /\ \A k \in Gets : spc'[k] = "ok" => spc[k] = "ok"
          /\ pc' = pc /\ outcome' = outcome
      BY DEF Inv, Types, LinkType, SpcType, ServeGet, Has, worker
    <2>2. link[g].toS \in Seq(ToServer)
      BY LinkUpdates DEF Inv, Types
    <2>3. \A i \in DOMAIN link'[g].toS : i + 1 \in DOMAIN link[g].toS /\ link'[g].toS[i] = link[g].toS[i + 1]
      BY <2>1, <2>2, TailHolds
    <2>4. ASSUME NEW i \in DOMAIN link'[g].toS, link'[g].toS[i] = "committed"
          PROVE  \E j \in DOMAIN link[g].toS : link[g].toS[j] = "committed"
      BY <2>3, <2>4
    <2>5. ASSUME NEW k \in Gets, spc'[k] = "ok" \/ \E i \in DOMAIN link'[k].toS : link'[k].toS[i] = "committed"
          PROVE  pc'[k] = "returned" /\ outcome'[k] = "committed"
      <3>1. CASE k = g
        BY <2>1, <2>4, <2>5, <3>1 DEF Inv, OutcomeInv, ConfirmedIsCommitted
      <3>2. CASE k # g
        BY <2>1, <2>5, <3>2 DEF Inv, OutcomeInv, ConfirmedIsCommitted
      <3> QED
        BY <3>1, <3>2
    <2> QED
      BY <2>5 DEF ConfirmedIsCommitted
  <1> QED
    BY <1>1, <1>2, <1>3, <1>4 DEF Inv, Types, LeaseInv, StageInv, OutcomeInv

LEMMA StreamFileKeepsInv ==
    ASSUME Inv, NEW g \in Gets, StreamFile(g)
    PROVE  Inv'
  <1> USE DEF Inv, Types
  <1>1. RowType' /\ DiskType' /\ WorldType' /\ AgentType' /\ PcType' /\ LocType' /\ ActiveType'
        /\ OutcomeType' /\ HistoryType' /\ DownIsIdle' /\ OnlyCleanersReap' /\ WorkersHoldLease'
        /\ BeginnersHaveNothing' /\ BuiltSoFar' /\ CleanupKnows' /\ EveryShapeKnown' /\
        StageOnRecord' /\ NothingYet' /\ LinkedIsGood' /\ LinkedIsReported'
    BY DEF LeaseInv, StageInv, OutcomeInv, RowType, DiskType, WorldType, AgentType, PcType,
      LocType, ActiveType, OutcomeType, HistoryType, DownIsIdle, OnlyCleanersReap,
      WorkersHoldLease, BeginnersHaveNothing, BuiltSoFar, CleanupKnows, EveryShapeKnown,
      Markerless, StageOnRecord, NothingYet, LinkedIsGood, LinkedIsReported, StreamFile, store,
      world, agent, worker
  <1>2. LinkType'
    <2>1. PICK content \in {"same", "changed"} :
            link' = [link EXCEPT ![g].toS = Tail(@), ![g].toR = @ \o <<content, "complete">>]
      BY DEF StreamFile
    <2>2. link[g].toR \o <<content, "complete">> \in Seq(ToRequester)
      BY LinkUpdates DEF Inv, Types, ToRequester
    <2> QED
      BY SMTT(30), <2>1, <2>2, LinkUpdates DEF Inv, Types, StreamFile, LinkType
  <1>3. SpcType'
    BY DEF SpcType, StreamFile, SPCs
  <1>4. ConfirmedIsCommitted'
    BY DEF OutcomeInv, ConfirmedIsCommitted, PcType, OutcomeType, LinkType, SpcType, StreamFile,
      Has, worker, Building, Holding, Cleaning
  <1> QED
    BY <1>1, <1>2, <1>3, <1>4 DEF Inv, Types, LeaseInv, StageInv, OutcomeInv

LEMMA OnConfirmationKeepsInv ==
    ASSUME Inv, NEW g \in Gets, OnConfirmation(g)
    PROVE  Inv'
  <1> USE DEF Inv, Types, OnConfirmation
  <1>1. RowType' /\ DiskType' /\ WorldType' /\ AgentType' /\ PcType' /\ LocType' /\ ActiveType'
        /\ OutcomeType' /\ HistoryType' /\ DownIsIdle' /\ OnlyCleanersReap' /\ WorkersHoldLease'
        /\ BeginnersHaveNothing' /\ BuiltSoFar' /\ CleanupKnows' /\ EveryShapeKnown' /\
        StageOnRecord' /\ NothingYet' /\ LinkedIsGood' /\ LinkedIsReported'
    BY DEF LeaseInv, StageInv, OutcomeInv, RowType, DiskType, WorldType, AgentType, PcType,
      LocType, ActiveType, OutcomeType, HistoryType, DownIsIdle, OnlyCleanersReap,
      WorkersHoldLease, BeginnersHaveNothing, BuiltSoFar, CleanupKnows, EveryShapeKnown,
      Markerless, StageOnRecord, NothingYet, LinkedIsGood, LinkedIsReported, store, world,
      agent, worker
  <1>2. LinkType'
    BY LinkUpdates, EmptyQueue DEF LinkType, Has
  <1>3. SpcType'
    BY DEF SpcType, SPCs
  <1>4. ConfirmedIsCommitted'
    BY DEF OutcomeInv, ConfirmedIsCommitted, PcType, OutcomeType, LinkType, SpcType, Has,
      worker, Building, Holding, Cleaning
  <1> QED
    BY <1>1, <1>2, <1>3, <1>4 DEF Inv, Types, LeaseInv, StageInv, OutcomeInv

LEMMA ServeFailsKeepsInv ==
    ASSUME Inv, NEW g \in Gets, ServeFails(g)
    PROVE  Inv'
  <1> USE DEF Inv, Types, ServeFails
  <1>1. RowType' /\ DiskType' /\ WorldType' /\ AgentType' /\ PcType' /\ LocType' /\ ActiveType'
        /\ OutcomeType' /\ HistoryType' /\ DownIsIdle' /\ OnlyCleanersReap' /\ WorkersHoldLease'
        /\ BeginnersHaveNothing' /\ BuiltSoFar' /\ CleanupKnows' /\ EveryShapeKnown' /\
        StageOnRecord' /\ NothingYet' /\ LinkedIsGood' /\ LinkedIsReported'
    BY DEF LeaseInv, StageInv, OutcomeInv, RowType, DiskType, WorldType, AgentType, PcType,
      LocType, ActiveType, OutcomeType, HistoryType, DownIsIdle, OnlyCleanersReap,
      WorkersHoldLease, BeginnersHaveNothing, BuiltSoFar, CleanupKnows, EveryShapeKnown,
      Markerless, StageOnRecord, NothingYet, LinkedIsGood, LinkedIsReported, store, world,
      agent, worker
  <1>2. LinkType'
    BY LinkUpdates, EmptyQueue DEF LinkType, Has, Close
  <1>3. SpcType'
    BY DEF SpcType, SPCs
  <1>4. ConfirmedIsCommitted'
    BY DEF OutcomeInv, ConfirmedIsCommitted, PcType, OutcomeType, LinkType, SpcType, Has, Close,
      worker, Building, Holding, Cleaning
  <1> QED
    BY <1>1, <1>2, <1>3, <1>4 DEF Inv, Types, LeaseInv, StageInv, OutcomeInv

LEMMA RequestGetKeepsInv ==
    ASSUME Inv, NEW g \in Gets, RequestGet(g)
    PROVE  Inv'
  <1> USE DEF Inv, Types, RequestGet
  <1>1. RowType' /\ DiskType' /\ WorldType' /\ AgentType' /\ LocType' /\ OutcomeType' /\
        SpcType' /\ HistoryType' /\ EveryShapeKnown' /\ StageOnRecord'
    BY DEF StageInv, RowType, DiskType, WorldType, AgentType, LocType, OutcomeType, SpcType,
      HistoryType, EveryShapeKnown, Markerless, StageOnRecord, store, world, agent
  <1>2. PcType'
    BY DEF PcType, Goto, PCs, Building, Holding, Cleaning
  <1>3. ActiveType'
    BY DEF ActiveType, PcType, LocType, Goto, store, Building, Holding, Cleaning
  <1>4. LinkType'
    BY GetAssumption, Absent, LinkUpdates, EmptyQueue DEF LinkType, Send, ToRequester,
      ToServer
  <1>5. DownIsIdle'
    BY DEF LeaseInv, DownIsIdle, AgentType, PcType, Goto, agent, Building, Holding, Cleaning
  <1>6. OnlyCleanersReap'
    BY DEF LeaseInv, OnlyCleanersReap, PcType, LocType, Goto, Cleaning, Building, Holding
  <1>7. WorkersHoldLease'
    BY DEF LeaseInv, WorkersHoldLease, RowType, PcType, LocType, Goto, store, Working, Owning,
      Building, Holding, Cleaning
  <1>8. BeginnersHaveNothing'
    BY DEF LeaseInv, BeginnersHaveNothing, RowType, DiskType, PcType, LocType, Goto, store,
      world, Starting, Building, Holding, Cleaning
  <1>9. BuiltSoFar'
    BY DEF StageInv, BuiltSoFar, RowType, DiskType, PcType, Goto, store, world, Owning,
      Building, Holding, Cleaning
  <1>10. CleanupKnows'
    BY DEF StageInv, CleanupKnows, RowType, DiskType, PcType, LocType, Goto, store, world,
      Building, Holding, Cleaning
  <1>11. NothingYet'
    BY DEF OutcomeInv, NothingYet, PcType, LocType, OutcomeType, HistoryType, Goto, Starting,
      Building, Holding, Cleaning
  <1>12. LinkedIsGood'
    BY DEF OutcomeInv, LinkedIsGood, PcType, OutcomeType, HistoryType, Goto, Building, Holding,
      Cleaning
  <1>13. LinkedIsReported'
    BY DEF OutcomeInv, LinkedIsReported, PcType, OutcomeType, HistoryType, Goto, Building,
      Holding, Cleaning
  <1>14. ConfirmedIsCommitted'
    BY DEF OutcomeInv, ConfirmedIsCommitted, PcType, OutcomeType, LinkType, SpcType, Goto, Send,
      Building, Holding, Cleaning
  <1> QED
    BY <1>1, <1>2, <1>3, <1>4, <1>5, <1>6, <1>7, <1>8, <1>9, <1>10, <1>11, <1>12, <1>13, <1>14
      DEF Inv, Types, LeaseInv, StageInv, OutcomeInv

LEMMA OnMetadataKeepsInv ==
    ASSUME Inv, NEW g \in Gets, OnMetadata(g)
    PROVE  Inv'
  <1> USE DEF Inv, Types
  <1>1. RowType' /\ DiskType' /\ WorldType' /\ AgentType' /\ SpcType' /\ HistoryType' /\
        EveryShapeKnown' /\ StageOnRecord'
    BY DEF StageInv, RowType, DiskType, WorldType, AgentType, SpcType, HistoryType,
      EveryShapeKnown, Markerless, StageOnRecord, OnMetadata, store, world, agent
  <1>2. PcType'
    BY DEF PcType, OnMetadata, Goto, Return, Locals, PCs, Building, Holding, Cleaning
  <1>3. LocType'
    BY LocUpdates DEF Inv, Types, OnMetadata, Return
  <1>4. ActiveType'
    BY DEF ActiveType, PcType, LocType, OnMetadata, Goto, Return, Locals, store, Building,
      Holding, Cleaning
  <1>5. OutcomeType'
    BY DEF OutcomeType, OnMetadata, Return, Locals
  <1>6. LinkType'
    BY LinkUpdates, EmptyQueue DEF LinkType, OnMetadata, Has, Take, Return, Locals, Close
  <1>7. DownIsIdle'
    BY DEF LeaseInv, DownIsIdle, AgentType, PcType, OnMetadata, Goto, Return, Locals, agent,
      Building, Holding, Cleaning
  <1>8. OnlyCleanersReap'
    BY DEF LeaseInv, OnlyCleanersReap, PcType, LocType, OnMetadata, Goto, Return, Locals,
      Cleaning, Building, Holding
  <1>9. WorkersHoldLease'
    BY DEF LeaseInv, WorkersHoldLease, RowType, PcType, LocType, OnMetadata, Goto, Return,
      Locals, store, Working, Owning, Building, Holding, Cleaning
  <1>10. BeginnersHaveNothing'
    BY DEF LeaseInv, BeginnersHaveNothing, RowType, DiskType, PcType, LocType, OnMetadata, Goto,
      Return, Locals, store, world, Starting, Building, Holding, Cleaning
  <1>11. BuiltSoFar'
    BY DEF StageInv, BuiltSoFar, RowType, DiskType, PcType, OnMetadata, Goto, Return, Locals,
      store, world, Owning, Building, Holding, Cleaning
  <1>12. CleanupKnows'
    BY DEF StageInv, CleanupKnows, RowType, DiskType, PcType, LocType, OnMetadata, Goto, Return,
      Locals, store, world, Building, Holding, Cleaning
  <1>13. NothingYet'
    BY DEF OutcomeInv, NothingYet, PcType, LocType, OutcomeType, HistoryType, OnMetadata, Goto,
      Return, Locals, Starting, Building, Holding, Cleaning
  <1>14. LinkedIsGood'
    BY DEF OutcomeInv, LinkedIsGood, PcType, OutcomeType, HistoryType, OnMetadata, Goto, Return,
      Locals, Building, Holding, Cleaning
  <1>15. LinkedIsReported'
    BY DEF OutcomeInv, LinkedIsReported, RowType, DiskType, WorldType, AgentType, PcType,
      LocType, ActiveType, OutcomeType, LinkType, SpcType, HistoryType, NothingYet,
      LinkedIsGood, ConfirmedIsCommitted, OnMetadata, Goto, Return, Locals, Building, Holding,
      Cleaning, Starting
  <1>16. ConfirmedIsCommitted'
    <2>1. pc[g] # "returned" /\ spc' = spc
      BY DEF OnMetadata
    <2>2. \A k \in Gets : link'[k].toS = link[k].toS
      BY ToServerKept DEF Inv, Types, OnMetadata, Return
    <2>3. \A k \in Gets \ {g} : pc'[k] = pc[k] /\ outcome'[k] = outcome[k]
      BY DEF Inv, Types, PcType, OutcomeType, OnMetadata, Return, Goto
    <2> QED
      BY <2>1, <2>2, <2>3 DEF Inv, OutcomeInv, ConfirmedIsCommitted
  <1> QED
    BY <1>1, <1>2, <1>3, <1>4, <1>5, <1>6, <1>7, <1>8, <1>9, <1>10, <1>11, <1>12, <1>13, <1>14,
      <1>15, <1>16 DEF Inv, Types, LeaseInv, StageInv, OutcomeInv

LEMMA SelectResidueKeepsInv ==
    ASSUME Inv, NEW g \in Gets, SelectResidue(g)
    PROVE  Inv'
  <1> USE DEF Inv, Types
  <1>1. RowType' /\ DiskType' /\ WorldType' /\ AgentType' /\ OutcomeType' /\ LinkType' /\
        SpcType' /\ HistoryType' /\ EveryShapeKnown' /\ StageOnRecord'
    BY DEF StageInv, RowType, DiskType, WorldType, AgentType, OutcomeType, LinkType, SpcType,
      HistoryType, EveryShapeKnown, Markerless, StageOnRecord, SelectResidue, store, world,
      agent
  <1>2. PcType'
    BY DEF PcType, SelectResidue, Goto, PCs, Building, Holding, Cleaning
  <1>3. LocType'
    <2>1. {h \in Gets : Unleased(h) /\ row[h].due} \in SUBSET Gets
      OBVIOUS
    <2> QED
      BY <2>1, LocUpdates DEF Inv, Types, SelectResidue
  <1>4. ActiveType'
    BY DEF ActiveType, PcType, LocType, SelectResidue, Goto, store, Building, Holding, Cleaning
  <1>5. DownIsIdle'
    BY DEF LeaseInv, DownIsIdle, AgentType, PcType, SelectResidue, Goto, agent, Building,
      Holding, Cleaning
  <1>6. OnlyCleanersReap'
    BY DEF LeaseInv, OnlyCleanersReap, PcType, LocType, SelectResidue, Goto, Cleaning, Building,
      Holding
  <1>7. WorkersHoldLease'
    BY DEF LeaseInv, WorkersHoldLease, RowType, PcType, LocType, SelectResidue, Unleased, Goto,
      store, Working, Owning, Building, Holding, Cleaning
  <1>8. BeginnersHaveNothing'
    BY DEF LeaseInv, BeginnersHaveNothing, RowType, DiskType, PcType, LocType, SelectResidue,
      Unleased, Goto, store, world, Starting, Building, Holding, Cleaning
  <1>9. BuiltSoFar'
    BY DEF StageInv, BuiltSoFar, RowType, DiskType, PcType, SelectResidue, Unleased, Goto,
      store, world, Owning, Building, Holding, Cleaning
  <1>10. CleanupKnows'
    BY DEF StageInv, CleanupKnows, RowType, DiskType, PcType, LocType, SelectResidue, Unleased,
      Goto, store, world, Building, Holding, Cleaning
  <1>11. NothingYet'
    BY DEF OutcomeInv, NothingYet, PcType, LocType, OutcomeType, HistoryType, SelectResidue,
      Goto, Starting, Building, Holding, Cleaning
  <1>12. LinkedIsGood'
    BY DEF OutcomeInv, LinkedIsGood, PcType, OutcomeType, HistoryType, SelectResidue, Goto,
      Building, Holding, Cleaning
  <1>13. LinkedIsReported'
    BY DEF OutcomeInv, LinkedIsReported, PcType, OutcomeType, HistoryType, SelectResidue, Goto,
      Building, Holding, Cleaning
  <1>14. ConfirmedIsCommitted'
    BY DEF OutcomeInv, ConfirmedIsCommitted, PcType, OutcomeType, LinkType, SpcType,
      SelectResidue, Goto, Building, Holding, Cleaning
  <1> QED
    BY <1>1, <1>2, <1>3, <1>4, <1>5, <1>6, <1>7, <1>8, <1>9, <1>10, <1>11, <1>12, <1>13, <1>14
      DEF Inv, Types, LeaseInv, StageInv, OutcomeInv

LEMMA ReserveKeepsInv ==
    ASSUME Inv, NEW g \in Gets, Reserve(g)
    PROVE  Inv'
  <1> USE DEF Inv, Types
  <1>1. DiskType' /\ WorldType' /\ AgentType' /\ OutcomeType' /\ LinkType' /\ SpcType' /\
        HistoryType'
    BY DEF DiskType, WorldType, AgentType, OutcomeType, LinkType, SpcType, HistoryType, Reserve,
      world, agent
  <1>2. RowType'
    BY DEF RowType, Reserve, Locals, Rows, Phases
  <1>3. PcType'
    BY DEF PcType, Reserve, Locals, Goto, PCs, Building, Holding, Cleaning
  <1>4. LocType'
    BY DEF LeaseInv, LocType, BeginnersHaveNothing, OnlyCleanersReap, PcType, Reserve, Locals,
      Starting, Cleaning, Building, Holding
  <1>5. ActiveType'
    BY DEF ActiveType, PcType, LocType, Reserve, Locals, Goto, Building, Holding, Cleaning
  <1>6. DownIsIdle'
    BY DEF LeaseInv, DownIsIdle, AgentType, PcType, Reserve, Locals, Goto, agent, Building,
      Holding, Cleaning
  <1>7. OnlyCleanersReap'
    BY DEF LeaseInv, OnlyCleanersReap, PcType, LocType, Reserve, Locals, Goto, Cleaning,
      Building, Holding
  <1>8. WorkersHoldLease'
    <2>a. [phase |-> "reserved", sid |-> FALSE, lease |-> g, due |-> TRUE] \in Rows
      BY DEF Rows, Phases
    <2>1. row[g] = None /\ row'[g].lease = g /\ row'[g] # None /\ \A k \in Gets \ {g} : row'[k] = row[k]
      BY <2>a, Absent DEF Inv, Types, LeaseInv, BeginnersHaveNothing, Starting, Reserve, RowType
    <2>2. \A k \in Gets \ {g} : loc'[k] = loc[k] /\ pc'[k] = pc[k]
      BY DEF Reserve, Goto, Inv, Types, PcType, LocType
    <2>3. loc'[g].tgt = g
      BY DEF Reserve, Locals, Inv, Types, LocType
    <2>4. \A k \in Gets : loc[k].tgt \in Gets
      BY LocUpdates DEF Inv, Types
    <2> QED
      BY <2>1, <2>2, <2>3, <2>4 DEF Inv, LeaseInv, WorkersHoldLease
  <1>9. BeginnersHaveNothing'
    BY DEF LeaseInv, BeginnersHaveNothing, RowType, DiskType, PcType, LocType, Reserve, Locals,
      Goto, world, Starting, Building, Holding, Cleaning
  <1>10. BuiltSoFar'
    BY DEF LeaseInv, StageInv, BuiltSoFar, RowType, DiskType, PcType, DownIsIdle,
      OnlyCleanersReap, WorkersHoldLease, BeginnersHaveNothing, CleanupKnows, EveryShapeKnown,
      StageOnRecord, LocType, Reserve, Locals, Goto, world, Owning, Building, Holding, Cleaning,
      Working, Starting, Markerless
  <1>11. CleanupKnows'
    <2>1. row[g] = None /\ \A k \in Gets \ {g} : row'[k] = row[k]
      BY DEF Inv, Types, LeaseInv, BeginnersHaveNothing, Starting, Reserve, RowType
    <2>2. \A k \in Gets \ {g} : loc'[k] = loc[k] /\ pc'[k] = pc[k]
      BY DEF Reserve, Goto, Inv, Types, PcType, LocType
    <2>3. pc'[g] = "mkdir" /\ disk' = disk
      BY DEF Reserve, Goto, Inv, Types, PcType, world
    <2>4. \A k \in Gets : pc[k] \in Cleaning => loc[k].tgt # g
      BY <2>1 DEF Inv, LeaseInv, WorkersHoldLease, Working
    <2>5. \A k \in Gets : loc[k].tgt \in Gets
      BY LocUpdates DEF Inv, Types
    <2> QED
      BY <2>1, <2>2, <2>3, <2>4, <2>5 DEF Inv, StageInv, CleanupKnows, Cleaning
  <1>12. EveryShapeKnown'
    BY DEF LeaseInv, StageInv, EveryShapeKnown, RowType, DiskType, DownIsIdle, OnlyCleanersReap,
      WorkersHoldLease, BeginnersHaveNothing, BuiltSoFar, CleanupKnows, StageOnRecord, LocType,
      PcType, Reserve, Locals, world, Markerless, Cleaning, Working, Owning, Building, Holding,
      Starting
  <1>13. StageOnRecord'
    BY DEF LeaseInv, StageInv, StageOnRecord, RowType, DiskType, DownIsIdle, OnlyCleanersReap,
      WorkersHoldLease, BeginnersHaveNothing, BuiltSoFar, CleanupKnows, EveryShapeKnown,
      LocType, PcType, Reserve, Locals, world, Cleaning, Working, Owning, Building, Holding,
      Starting, Markerless
  <1>14. NothingYet'
    BY DEF OutcomeInv, NothingYet, PcType, LocType, OutcomeType, HistoryType, Reserve, Locals,
      Goto, Starting, Building, Holding, Cleaning
  <1>15. LinkedIsGood'
    BY DEF OutcomeInv, LinkedIsGood, PcType, OutcomeType, HistoryType, Reserve, Locals, Goto,
      Building, Holding, Cleaning
  <1>16. LinkedIsReported'
    BY DEF OutcomeInv, LinkedIsReported, PcType, OutcomeType, HistoryType, Reserve, Locals,
      Goto, Building, Holding, Cleaning
  <1>17. ConfirmedIsCommitted'
    BY DEF OutcomeInv, ConfirmedIsCommitted, PcType, OutcomeType, LinkType, SpcType, Reserve,
      Locals, Goto, Building, Holding, Cleaning
  <1> QED
    BY <1>1, <1>2, <1>3, <1>4, <1>5, <1>6, <1>7, <1>8, <1>9, <1>10, <1>11, <1>12, <1>13, <1>14,
      <1>15, <1>16, <1>17 DEF Inv, Types, LeaseInv, StageInv, OutcomeInv

LEMMA RequestFailsKeepsInv ==
    ASSUME Inv, NEW g \in Gets, RequestFails(g)
    PROVE  Inv'
  <1> USE DEF Inv, Types, RequestFails
  <1>1. RowType' /\ DiskType' /\ WorldType' /\ AgentType' /\ SpcType' /\ HistoryType' /\
        EveryShapeKnown' /\ StageOnRecord'
    BY DEF StageInv, RowType, DiskType, WorldType, AgentType, SpcType, HistoryType,
      EveryShapeKnown, Markerless, StageOnRecord, store, world, agent
  <1>2. PcType'
    BY DEF PcType, Return, Goto, Locals, PCs, Building, Holding, Cleaning
  <1>3. LocType'
    BY DEF LeaseInv, LocType, BeginnersHaveNothing, OnlyCleanersReap, PcType, Return, Locals,
      Starting, Cleaning, Building, Holding
  <1>4. ActiveType'
    BY DEF ActiveType, PcType, LocType, Return, Goto, Locals, store, Building, Holding, Cleaning
  <1>5. OutcomeType'
    BY DEF OutcomeType, Return, Locals
  <1>6. LinkType'
    BY LinkUpdates, EmptyQueue DEF LinkType, Return, Locals, Close
  <1>7. DownIsIdle'
    BY DEF LeaseInv, DownIsIdle, AgentType, PcType, Return, Goto, Locals, agent, Building,
      Holding, Cleaning
  <1>8. OnlyCleanersReap'
    BY DEF LeaseInv, OnlyCleanersReap, PcType, LocType, Return, Goto, Locals, Cleaning,
      Building, Holding
  <1>9. WorkersHoldLease'
    BY DEF LeaseInv, WorkersHoldLease, RowType, PcType, LocType, Return, Goto, Locals, store,
      Working, Owning, Building, Holding, Cleaning
  <1>10. BeginnersHaveNothing'
    BY DEF LeaseInv, BeginnersHaveNothing, RowType, DiskType, PcType, LocType, Return, Goto,
      Locals, store, world, Starting, Building, Holding, Cleaning
  <1>11. BuiltSoFar'
    BY DEF StageInv, BuiltSoFar, RowType, DiskType, PcType, Return, Goto, Locals, store, world,
      Owning, Building, Holding, Cleaning
  <1>12. CleanupKnows'
    BY DEF StageInv, CleanupKnows, RowType, DiskType, PcType, LocType, Return, Goto, Locals,
      store, world, Building, Holding, Cleaning
  <1>13. NothingYet'
    BY DEF OutcomeInv, NothingYet, PcType, LocType, OutcomeType, HistoryType, Return, Goto,
      Locals, Starting, Building, Holding, Cleaning
  <1>14. LinkedIsGood'
    BY DEF OutcomeInv, LinkedIsGood, PcType, OutcomeType, HistoryType, Return, Goto, Locals,
      Building, Holding, Cleaning
  <1>15. LinkedIsReported'
    BY DEF OutcomeInv, LinkedIsReported, RowType, DiskType, WorldType, AgentType, PcType,
      LocType, ActiveType, OutcomeType, LinkType, SpcType, HistoryType, NothingYet,
      LinkedIsGood, ConfirmedIsCommitted, Return, Goto, Locals, Building, Holding, Cleaning,
      Starting
  <1>16. ConfirmedIsCommitted'
    BY DEF OutcomeInv, ConfirmedIsCommitted, RowType, DiskType, WorldType, AgentType, PcType,
      LocType, ActiveType, OutcomeType, LinkType, SpcType, HistoryType, NothingYet,
      LinkedIsGood, LinkedIsReported, Return, Goto, Locals, Close, store, world, agent, Rows,
      Phases, Entries, PCs, Building, Holding, Cleaning, ToRequester, ToServer, SPCs, Starting
  <1> QED
    BY <1>1, <1>2, <1>3, <1>4, <1>5, <1>6, <1>7, <1>8, <1>9, <1>10, <1>11, <1>12, <1>13, <1>14,
      <1>15, <1>16 DEF Inv, Types, LeaseInv, StageInv, OutcomeInv

LEMMA MakeStageKeepsInv ==
    ASSUME Inv, NEW g \in Gets, MakeStage(g)
    PROVE  Inv'
  <1> USE DEF Inv, Types, MakeStage
  <1>1. RowType' /\ WorldType' /\ AgentType' /\ LocType' /\ OutcomeType' /\ LinkType' /\
        SpcType' /\ HistoryType'
    BY DEF RowType, WorldType, AgentType, LocType, OutcomeType, LinkType, SpcType, HistoryType,
      store, agent
  <1>2. DiskType'
    BY DEF DiskType
  <1>3. PcType'
    BY DEF PcType, Goto, PCs, Building, Holding, Cleaning
  <1>4. ActiveType'
    BY DEF ActiveType, PcType, LocType, Goto, store, Building, Holding, Cleaning
  <1>5. DownIsIdle'
    BY DEF LeaseInv, DownIsIdle, AgentType, PcType, Goto, agent, Building, Holding, Cleaning
  <1>6. OnlyCleanersReap'
    BY DEF LeaseInv, OnlyCleanersReap, PcType, LocType, Goto, Cleaning, Building, Holding
  <1>7. WorkersHoldLease'
    BY DEF LeaseInv, WorkersHoldLease, RowType, PcType, LocType, Goto, store, Working, Owning,
      Building, Holding, Cleaning
  <1>8. BeginnersHaveNothing'
    BY DEF LeaseInv, StageInv, BeginnersHaveNothing, RowType, DiskType, PcType, LocType,
      DownIsIdle, OnlyCleanersReap, WorkersHoldLease, BuiltSoFar, CleanupKnows, EveryShapeKnown,
      StageOnRecord, Goto, store, Starting, Building, Holding, Cleaning, Working, Owning,
      Markerless
  <1>9. BuiltSoFar'
    BY DEF StageInv, BuiltSoFar, RowType, DiskType, PcType, Goto, store, Owning, Building,
      Holding, Cleaning
  <1>10. CleanupKnows'
    BY DEF LeaseInv, StageInv, CleanupKnows, RowType, DiskType, PcType, LocType, DownIsIdle,
      OnlyCleanersReap, WorkersHoldLease, BeginnersHaveNothing, BuiltSoFar, EveryShapeKnown,
      StageOnRecord, Goto, store, Building, Holding, Cleaning, Working, Owning, Starting,
      Markerless
  <1>11. EveryShapeKnown'
    BY DEF StageInv, EveryShapeKnown, RowType, DiskType, WorldType, AgentType, PcType, LocType,
      ActiveType, OutcomeType, LinkType, SpcType, HistoryType, BuiltSoFar, CleanupKnows,
      StageOnRecord, store, Markerless, Building, Holding, Cleaning, Owning
  <1>12. StageOnRecord'
    BY DEF LeaseInv, StageInv, StageOnRecord, RowType, DiskType, DownIsIdle, OnlyCleanersReap,
      WorkersHoldLease, BeginnersHaveNothing, BuiltSoFar, CleanupKnows, EveryShapeKnown,
      LocType, PcType, store, Cleaning, Working, Owning, Building, Holding, Starting, Markerless
  <1>13. NothingYet'
    BY DEF OutcomeInv, NothingYet, PcType, LocType, OutcomeType, HistoryType, Goto, Starting,
      Building, Holding, Cleaning
  <1>14. LinkedIsGood'
    BY DEF OutcomeInv, LinkedIsGood, PcType, OutcomeType, HistoryType, Goto, Building, Holding,
      Cleaning
  <1>15. LinkedIsReported'
    BY DEF OutcomeInv, LinkedIsReported, PcType, OutcomeType, HistoryType, Goto, Building,
      Holding, Cleaning
  <1>16. ConfirmedIsCommitted'
    BY DEF OutcomeInv, ConfirmedIsCommitted, PcType, OutcomeType, LinkType, SpcType, Goto,
      Building, Holding, Cleaning
  <1> QED
    BY <1>1, <1>2, <1>3, <1>4, <1>5, <1>6, <1>7, <1>8, <1>9, <1>10, <1>11, <1>12, <1>13, <1>14,
      <1>15, <1>16 DEF Inv, Types, LeaseInv, StageInv, OutcomeInv

LEMMA OpenStageKeepsInv ==
    ASSUME Inv, NEW g \in Gets, OpenStage(g)
    PROVE  Inv'
  <1> USE DEF Inv, Types, OpenStage
  <1>1. RowType' /\ DiskType' /\ WorldType' /\ AgentType' /\ LocType' /\ OutcomeType' /\
        LinkType' /\ SpcType' /\ HistoryType' /\ EveryShapeKnown' /\ StageOnRecord'
    BY DEF StageInv, RowType, DiskType, WorldType, AgentType, LocType, OutcomeType, LinkType,
      SpcType, HistoryType, EveryShapeKnown, Markerless, StageOnRecord, store, world, agent
  <1>2. PcType'
    BY DEF PcType, Goto, PCs, Building, Holding, Cleaning
  <1>3. ActiveType'
    BY DEF ActiveType, PcType, LocType, Goto, store, Building, Holding, Cleaning
  <1>4. DownIsIdle'
    BY DEF LeaseInv, DownIsIdle, AgentType, PcType, Goto, agent, Building, Holding, Cleaning
  <1>5. OnlyCleanersReap'
    BY DEF LeaseInv, OnlyCleanersReap, PcType, LocType, Goto, Cleaning, Building, Holding
  <1>6. WorkersHoldLease'
    BY DEF LeaseInv, WorkersHoldLease, RowType, PcType, LocType, Goto, store, Working, Owning,
      Building, Holding, Cleaning
  <1>7. BeginnersHaveNothing'
    BY DEF LeaseInv, BeginnersHaveNothing, RowType, DiskType, PcType, LocType, Goto, store,
      world, Starting, Building, Holding, Cleaning
  <1>8. BuiltSoFar'
    BY DEF StageInv, BuiltSoFar, RowType, DiskType, PcType, Goto, store, world, Owning,
      Building, Holding, Cleaning
  <1>9. CleanupKnows'
    BY DEF StageInv, CleanupKnows, RowType, DiskType, PcType, LocType, Goto, store, world,
      Building, Holding, Cleaning
  <1>10. NothingYet'
    BY DEF OutcomeInv, NothingYet, PcType, LocType, OutcomeType, HistoryType, Goto, Starting,
      Building, Holding, Cleaning
  <1>11. LinkedIsGood'
    BY DEF OutcomeInv, LinkedIsGood, PcType, OutcomeType, HistoryType, Goto, Building, Holding,
      Cleaning
  <1>12. LinkedIsReported'
    BY DEF OutcomeInv, LinkedIsReported, PcType, OutcomeType, HistoryType, Goto, Building,
      Holding, Cleaning
  <1>13. ConfirmedIsCommitted'
    BY DEF OutcomeInv, ConfirmedIsCommitted, PcType, OutcomeType, LinkType, SpcType, Goto,
      Building, Holding, Cleaning
  <1> QED
    BY <1>1, <1>2, <1>3, <1>4, <1>5, <1>6, <1>7, <1>8, <1>9, <1>10, <1>11, <1>12, <1>13 DEF Inv,
      Types, LeaseInv, StageInv, OutcomeInv

LEMMA RecordPhaseKeepsInv ==
    ASSUME Inv, NEW g \in Gets, RecordPhase(g)
    PROVE  Inv'
  <1> USE DEF Inv, Types
  <1>1. DiskType' /\ WorldType' /\ AgentType' /\ LocType' /\ OutcomeType' /\ LinkType' /\
        SpcType' /\ HistoryType'
    BY DEF DiskType, WorldType, AgentType, LocType, OutcomeType, LinkType, SpcType, HistoryType,
      RecordPhase, world, agent
  <1>2. RowType'
    BY RowUpdates DEF Inv, Types, Phases, RecordPhase, Record
  <1>3. PcType'
    BY DEF PcType, RecordPhase, Goto, PCs, Building, Holding, Cleaning
  <1>4. ActiveType'
    BY DEF ActiveType, PcType, LocType, RecordPhase, Record, Goto, world, agent, Building,
      Holding, Cleaning
  <1>5. DownIsIdle'
    BY DEF LeaseInv, DownIsIdle, AgentType, PcType, RecordPhase, Goto, agent, Building, Holding,
      Cleaning
  <1>6. OnlyCleanersReap'
    BY DEF LeaseInv, OnlyCleanersReap, PcType, LocType, RecordPhase, Goto, Cleaning, Building,
      Holding
  <1>7. WorkersHoldLease'
    BY GetAssumption, Absent DEF LeaseInv, WorkersHoldLease, RowType, PcType, LocType,
      RecordPhase, Record, Goto, Working, Owning, Building, Holding, Cleaning, Rows, Phases, PCs
  <1>8. BeginnersHaveNothing'
    BY DEF LeaseInv, BeginnersHaveNothing, RowType, DiskType, PcType, LocType, RecordPhase,
      Record, Goto, world, Starting, Building, Holding, Cleaning
  <1>9. BuiltSoFar'
    BY DEF StageInv, BuiltSoFar, RowType, DiskType, PcType, RecordPhase, Record, Goto, world,
      Owning, Building, Holding, Rows, Phases, Entries, PCs, Cleaning
  <1>10. CleanupKnows'
    BY DEF LeaseInv, StageInv, CleanupKnows, RowType, DiskType, PcType, LocType, DownIsIdle,
      OnlyCleanersReap, WorkersHoldLease, BeginnersHaveNothing, BuiltSoFar, EveryShapeKnown,
      StageOnRecord, RecordPhase, Record, Goto, world, Building, Holding, Cleaning, Working,
      Owning, Starting, Markerless
  <1>11. EveryShapeKnown'
    BY DEF LeaseInv, StageInv, EveryShapeKnown, RowType, DiskType, DownIsIdle, OnlyCleanersReap,
      WorkersHoldLease, BeginnersHaveNothing, BuiltSoFar, CleanupKnows, StageOnRecord, LocType,
      PcType, RecordPhase, Record, world, Markerless, Rows, Phases, Entries, Cleaning, Working,
      Owning, Building, Holding, Starting, PCs
  <1>12. StageOnRecord'
    BY GetAssumption, Absent DEF StageInv, StageOnRecord, RowType, DiskType,
      RecordPhase, Record, world, Rows, Phases, Entries
  <1>13. NothingYet'
    BY DEF OutcomeInv, NothingYet, PcType, LocType, OutcomeType, HistoryType, RecordPhase, Goto,
      Starting, Building, Holding, Cleaning
  <1>14. LinkedIsGood'
    BY DEF OutcomeInv, LinkedIsGood, PcType, OutcomeType, HistoryType, RecordPhase, Goto,
      Building, Holding, Cleaning
  <1>15. LinkedIsReported'
    BY DEF OutcomeInv, LinkedIsReported, PcType, OutcomeType, HistoryType, RecordPhase, Goto,
      Building, Holding, Cleaning
  <1>16. ConfirmedIsCommitted'
    BY ZenonT(60) DEF OutcomeInv, ConfirmedIsCommitted, PcType, OutcomeType, LinkType, SpcType,
      RecordPhase, Goto, Building, Holding, Cleaning
  <1> QED
    BY <1>1, <1>2, <1>3, <1>4, <1>5, <1>6, <1>7, <1>8, <1>9, <1>10, <1>11, <1>12, <1>13, <1>14,
      <1>15, <1>16 DEF Inv, Types, LeaseInv, StageInv, OutcomeInv

LEMMA MakeEntryKeepsInv ==
    ASSUME Inv, NEW g \in Gets, MakeEntry(g)
    PROVE  Inv'
  <1> USE DEF Inv, Types
  <1>1. RowType' /\ WorldType' /\ AgentType' /\ LocType' /\ OutcomeType' /\ LinkType' /\
        SpcType' /\ HistoryType'
    BY DEF RowType, WorldType, AgentType, LocType, OutcomeType, LinkType, SpcType, HistoryType,
      MakeEntry, store, agent
  <1>2. DiskType'
    <2>1. disk[g] # None /\ disk[g] \in SUBSET Entries
      <3>1. disk[g] \in {{}, {"marker"}, {"marker", "data"}, {"marker", "data", "probe"}}
        BY DEF Inv, MakeEntry, StageInv, BuiltSoFar
      <3> QED
        BY <3>1, Absent DEF Entries
    <2>2. PICK e \in Entries : disk' = [disk EXCEPT ![g] = @ \cup {e}] \/ disk' = [disk EXCEPT ![g] = @ \ {e}]
       BY DEF MakeEntry, Entries
    <2>3. disk[g] \cup {e} \in SUBSET Entries /\ disk[g] \ {e} \in SUBSET Entries
       BY <2>1
    <2> QED
       BY <2>2, <2>3 DEF Inv, Types, DiskType
  <1>3. PcType'
    BY DEF PcType, MakeEntry, Goto, PCs, Building, Holding, Cleaning
  <1>4. ActiveType'
    BY DEF ActiveType, PcType, LocType, MakeEntry, Goto, store, Building, Holding, Cleaning
  <1>5. DownIsIdle'
    BY DEF LeaseInv, DownIsIdle, AgentType, PcType, MakeEntry, Goto, agent, Building, Holding,
      Cleaning
  <1>6. OnlyCleanersReap'
    BY DEF LeaseInv, OnlyCleanersReap, PcType, LocType, MakeEntry, Goto, Cleaning, Building,
      Holding
  <1>7. WorkersHoldLease'
    BY DEF LeaseInv, WorkersHoldLease, RowType, PcType, LocType, MakeEntry, Goto, store,
      Working, Owning, Building, Holding, Cleaning
  <1>8. BeginnersHaveNothing'
    BY DEF LeaseInv, StageInv, BeginnersHaveNothing, RowType, DiskType, PcType, LocType,
      DownIsIdle, OnlyCleanersReap, WorkersHoldLease, BuiltSoFar, CleanupKnows, EveryShapeKnown,
      StageOnRecord, MakeEntry, Goto, store, Starting, Building, Holding, Cleaning, Working,
      Owning, Markerless
  <1>9. BuiltSoFar'
    BY DEF StageInv, BuiltSoFar, RowType, DiskType, PcType, MakeEntry, Goto, store, Owning,
      Building, Holding, Cleaning
  <1>10. CleanupKnows'
    BY DEF LeaseInv, StageInv, CleanupKnows, RowType, DiskType, PcType, LocType, DownIsIdle,
      OnlyCleanersReap, WorkersHoldLease, BeginnersHaveNothing, BuiltSoFar, EveryShapeKnown,
      StageOnRecord, MakeEntry, Goto, store, Building, Holding, Cleaning, Working, Owning,
      Starting, Markerless
  <1>11. EveryShapeKnown'
    BY DEF LeaseInv, StageInv, EveryShapeKnown, RowType, DiskType, DownIsIdle, OnlyCleanersReap,
      WorkersHoldLease, BeginnersHaveNothing, BuiltSoFar, CleanupKnows, StageOnRecord, LocType,
      PcType, MakeEntry, store, Markerless, Cleaning, Working, Owning, Building, Holding,
      Starting
  <1>12. StageOnRecord'
    BY GetAssumption, Absent DEF StageInv, StageOnRecord, RowType, DiskType, WorldType,
      AgentType, PcType, LocType, ActiveType, OutcomeType, LinkType, SpcType, HistoryType,
      BuiltSoFar, CleanupKnows, EveryShapeKnown, MakeEntry, store, Rows, Phases, Entries, PCs,
      Building, Holding, Cleaning, ToRequester, ToServer, SPCs, Owning, Markerless
  <1>13. NothingYet'
    BY DEF OutcomeInv, NothingYet, PcType, LocType, OutcomeType, HistoryType, MakeEntry, Goto,
      Starting, Building, Holding, Cleaning
  <1>14. LinkedIsGood'
    BY DEF OutcomeInv, LinkedIsGood, PcType, OutcomeType, HistoryType, MakeEntry, Goto,
      Building, Holding, Cleaning
  <1>15. LinkedIsReported'
    BY DEF OutcomeInv, LinkedIsReported, PcType, OutcomeType, HistoryType, MakeEntry, Goto,
      Building, Holding, Cleaning
  <1>16. ConfirmedIsCommitted'
    BY DEF OutcomeInv, ConfirmedIsCommitted, PcType, OutcomeType, LinkType, SpcType, MakeEntry,
      Goto, Building, Holding, Cleaning
  <1> QED
    BY <1>1, <1>2, <1>3, <1>4, <1>5, <1>6, <1>7, <1>8, <1>9, <1>10, <1>11, <1>12, <1>13, <1>14,
      <1>15, <1>16 DEF Inv, Types, LeaseInv, StageInv, OutcomeInv

LEMMA SendReadyKeepsInv ==
    ASSUME Inv, NEW g \in Gets, SendReady(g)
    PROVE  Inv'
  <1> USE DEF Inv, Types, SendReady
  <1>1. RowType' /\ DiskType' /\ WorldType' /\ AgentType' /\ LocType' /\ OutcomeType' /\
        SpcType' /\ HistoryType' /\ EveryShapeKnown' /\ StageOnRecord'
    BY DEF StageInv, RowType, DiskType, WorldType, AgentType, LocType, OutcomeType, SpcType,
      HistoryType, EveryShapeKnown, Markerless, StageOnRecord, store, world, agent
  <1>2. PcType'
    BY DEF PcType, Goto, PCs, Building, Holding, Cleaning
  <1>3. ActiveType'
    BY DEF ActiveType, PcType, LocType, Goto, store, Building, Holding, Cleaning
  <1>4. LinkType'
    BY GetAssumption, Absent, LinkUpdates, EmptyQueue DEF LinkType, Send, ToRequester,
      ToServer
  <1>5. DownIsIdle'
    BY DEF LeaseInv, DownIsIdle, AgentType, PcType, Goto, agent, Building, Holding, Cleaning
  <1>6. OnlyCleanersReap'
    BY DEF LeaseInv, OnlyCleanersReap, PcType, LocType, Goto, Cleaning, Building, Holding
  <1>7. WorkersHoldLease'
    BY DEF LeaseInv, WorkersHoldLease, RowType, PcType, LocType, Goto, store, Working, Owning,
      Building, Holding, Cleaning
  <1>8. BeginnersHaveNothing'
    BY DEF LeaseInv, BeginnersHaveNothing, RowType, DiskType, PcType, LocType, Goto, store,
      world, Starting, Building, Holding, Cleaning
  <1>9. BuiltSoFar'
    BY DEF StageInv, BuiltSoFar, RowType, DiskType, PcType, Goto, store, world, Owning,
      Building, Holding, Cleaning
  <1>10. CleanupKnows'
    BY DEF StageInv, CleanupKnows, RowType, DiskType, PcType, LocType, Goto, store, world,
      Building, Holding, Cleaning
  <1>11. NothingYet'
    BY DEF OutcomeInv, NothingYet, PcType, LocType, OutcomeType, HistoryType, Goto, Starting,
      Building, Holding, Cleaning
  <1>12. LinkedIsGood'
    BY DEF OutcomeInv, LinkedIsGood, PcType, OutcomeType, HistoryType, Goto, Building, Holding,
      Cleaning
  <1>13. LinkedIsReported'
    BY DEF OutcomeInv, LinkedIsReported, PcType, OutcomeType, HistoryType, Goto, Building,
      Holding, Cleaning
  <1>14. ConfirmedIsCommitted'
    BY DEF OutcomeInv, ConfirmedIsCommitted, PcType, OutcomeType, LinkType, SpcType, Send, Goto,
      Building, Holding, Cleaning
  <1> QED
    BY <1>1, <1>2, <1>3, <1>4, <1>5, <1>6, <1>7, <1>8, <1>9, <1>10, <1>11, <1>12, <1>13, <1>14
      DEF Inv, Types, LeaseInv, StageInv, OutcomeInv

LEMMA OnChunkKeepsInv ==
    ASSUME Inv, NEW g \in Gets, OnChunk(g)
    PROVE  Inv'
  <1> USE DEF Inv, Types, OnChunk
  <1>1. RowType' /\ DiskType' /\ WorldType' /\ AgentType' /\ LocType' /\ OutcomeType' /\
        SpcType' /\ EveryShapeKnown' /\ StageOnRecord'
    BY DEF StageInv, RowType, DiskType, WorldType, AgentType, LocType, OutcomeType, SpcType,
      EveryShapeKnown, Markerless, StageOnRecord, store, world, agent
  <1>2. PcType'
    BY DEF PcType, Goto, PCs, Building, Holding, Cleaning
  <1>3. ActiveType'
    BY DEF ActiveType, PcType, LocType, Goto, store, Building, Holding, Cleaning
  <1>4. LinkType'
    BY LinkUpdates, EmptyQueue DEF LinkType, Has, Take
  <1>5. HistoryType'
    BY DEF HistoryType
  <1>6. DownIsIdle'
    BY DEF LeaseInv, DownIsIdle, AgentType, PcType, Goto, agent, Building, Holding, Cleaning
  <1>7. OnlyCleanersReap'
    BY DEF LeaseInv, OnlyCleanersReap, PcType, LocType, Goto, Cleaning, Building, Holding
  <1>8. WorkersHoldLease'
    BY DEF LeaseInv, WorkersHoldLease, RowType, PcType, LocType, Goto, store, Working, Owning,
      Building, Holding, Cleaning
  <1>9. BeginnersHaveNothing'
    BY DEF LeaseInv, BeginnersHaveNothing, RowType, DiskType, PcType, LocType, Goto, store,
      world, Starting, Building, Holding, Cleaning
  <1>10. BuiltSoFar'
    BY DEF StageInv, BuiltSoFar, RowType, DiskType, PcType, Goto, store, world, Owning,
      Building, Holding, Cleaning
  <1>11. CleanupKnows'
    BY DEF StageInv, CleanupKnows, RowType, DiskType, PcType, LocType, Goto, store, world,
      Building, Holding, Cleaning
  <1>12. NothingYet'
    BY DEF OutcomeInv, NothingYet, PcType, LocType, OutcomeType, HistoryType, Goto, Starting,
      Building, Holding, Cleaning
  <1>13. LinkedIsGood'
    BY DEF OutcomeInv, LinkedIsGood, RowType, DiskType, WorldType, AgentType, PcType, LocType,
      ActiveType, OutcomeType, LinkType, SpcType, HistoryType, NothingYet, LinkedIsReported,
      ConfirmedIsCommitted, Goto, Building, Holding, Cleaning, Starting
  <1>14. LinkedIsReported'
    BY DEF OutcomeInv, LinkedIsReported, PcType, OutcomeType, HistoryType, Goto, Building,
      Holding, Cleaning
  <1>15. ConfirmedIsCommitted'
    BY DEF OutcomeInv, ConfirmedIsCommitted, PcType, OutcomeType, LinkType, SpcType, Has, Take,
      Goto, Building, Holding, Cleaning
  <1> QED
    BY <1>1, <1>2, <1>3, <1>4, <1>5, <1>6, <1>7, <1>8, <1>9, <1>10, <1>11, <1>12, <1>13, <1>14,
      <1>15 DEF Inv, Types, LeaseInv, StageInv, OutcomeInv

LEMMA OnCompleteKeepsInv ==
    ASSUME Inv, NEW g \in Gets, OnComplete(g)
    PROVE  Inv'
  <1> USE DEF Inv, Types
  <1>1. RowType' /\ DiskType' /\ WorldType' /\ AgentType' /\ OutcomeType' /\ SpcType' /\
        HistoryType' /\ EveryShapeKnown' /\ StageOnRecord'
    BY DEF StageInv, RowType, DiskType, WorldType, AgentType, OutcomeType, SpcType, HistoryType,
      EveryShapeKnown, Markerless, StageOnRecord, OnComplete, store, world, agent
  <1>2. PcType'
    BY DEF PcType, OnComplete, Goto, Cleanup, PCs, Building, Holding, Cleaning
  <1>3. LocType'
    <2>1. row[g] \in Rows \cup {None}
      BY DEF Inv, Types, RowType
    <2> QED
      BY <2>1, LocUpdates DEF Inv, Types, OnComplete, Cleanup
  <1>4. ActiveType'
    BY DEF ActiveType, PcType, LocType, OnComplete, Goto, Cleanup, store, Building, Holding,
      Cleaning
  <1>5. LinkType'
    BY LinkUpdates, EmptyQueue DEF LinkType, OnComplete, Has, Take
  <1>6. DownIsIdle'
    BY DEF LeaseInv, DownIsIdle, AgentType, PcType, OnComplete, Goto, Cleanup, agent, Building,
      Holding, Cleaning
  <1>7. OnlyCleanersReap'
    BY DEF LeaseInv, OnlyCleanersReap, PcType, LocType, OnComplete, Goto, Cleanup, Cleaning,
      Building, Holding
  <1>8. WorkersHoldLease'
    BY DEF LeaseInv, WorkersHoldLease, RowType, PcType, LocType, OnComplete, Goto, Cleanup,
      store, Working, Owning, Building, Holding, Cleaning
  <1>9. BeginnersHaveNothing'
    BY DEF LeaseInv, BeginnersHaveNothing, RowType, DiskType, PcType, LocType, OnComplete, Goto,
      Cleanup, store, world, Starting, Building, Holding, Cleaning
  <1>10. BuiltSoFar'
    BY DEF StageInv, BuiltSoFar, RowType, DiskType, PcType, OnComplete, Goto, Cleanup, store,
      world, Owning, Building, Holding, Cleaning
  <1>11. CleanupKnows'
    BY DEF LeaseInv, StageInv, CleanupKnows, RowType, DiskType, PcType, LocType, DownIsIdle,
      OnlyCleanersReap, WorkersHoldLease, BeginnersHaveNothing, BuiltSoFar, EveryShapeKnown,
      StageOnRecord, OnComplete, Goto, Cleanup, store, world, Building, Holding, Cleaning,
      Working, Owning, Starting, Markerless
  <1>12. NothingYet'
    BY DEF OutcomeInv, NothingYet, PcType, LocType, OutcomeType, HistoryType, OnComplete, Goto,
      Cleanup, Starting, Building, Holding, Cleaning
  <1>13. LinkedIsGood'
    BY DEF OutcomeInv, LinkedIsGood, PcType, OutcomeType, HistoryType, OnComplete, Goto,
      Cleanup, Building, Holding, Cleaning
  <1>14. LinkedIsReported'
    BY DEF OutcomeInv, LinkedIsReported, PcType, OutcomeType, HistoryType, OnComplete, Goto,
      Cleanup, Building, Holding, Cleaning
  <1>15. ConfirmedIsCommitted'
    BY DEF OutcomeInv, ConfirmedIsCommitted, PcType, OutcomeType, LinkType, SpcType, OnComplete,
      Has, Take, Goto, Cleanup, Building, Holding, Cleaning
  <1> QED
    BY <1>1, <1>2, <1>3, <1>4, <1>5, <1>6, <1>7, <1>8, <1>9, <1>10, <1>11, <1>12, <1>13, <1>14,
      <1>15 DEF Inv, Types, LeaseInv, StageInv, OutcomeInv

LEMMA ValidatePublicationKeepsInv ==
    ASSUME Inv, NEW g \in Gets, ValidatePublication(g)
    PROVE  Inv'
  <1> USE DEF Inv, Types, ValidatePublication
  <1>1. RowType' /\ DiskType' /\ WorldType' /\ AgentType' /\ LocType' /\ OutcomeType' /\
        LinkType' /\ SpcType' /\ HistoryType' /\ EveryShapeKnown' /\ StageOnRecord'
    BY DEF StageInv, RowType, DiskType, WorldType, AgentType, LocType, OutcomeType, LinkType,
      SpcType, HistoryType, EveryShapeKnown, Markerless, StageOnRecord, store, world, agent
  <1>2. PcType'
    BY DEF PcType, Goto, PCs, Building, Holding, Cleaning
  <1>3. ActiveType'
    BY DEF ActiveType, PcType, LocType, Goto, store, Building, Holding, Cleaning
  <1>4. DownIsIdle'
    BY DEF LeaseInv, DownIsIdle, AgentType, PcType, Goto, agent, Building, Holding, Cleaning
  <1>5. OnlyCleanersReap'
    BY DEF LeaseInv, OnlyCleanersReap, PcType, LocType, Goto, Cleaning, Building, Holding
  <1>6. WorkersHoldLease'
    BY DEF LeaseInv, WorkersHoldLease, RowType, PcType, LocType, Goto, store, Working, Owning,
      Building, Holding, Cleaning
  <1>7. BeginnersHaveNothing'
    BY DEF LeaseInv, BeginnersHaveNothing, RowType, DiskType, PcType, LocType, Goto, store,
      world, Starting, Building, Holding, Cleaning
  <1>8. BuiltSoFar'
    BY DEF StageInv, BuiltSoFar, RowType, DiskType, PcType, Goto, store, world, Owning,
      Building, Holding, Cleaning
  <1>9. CleanupKnows'
    BY DEF StageInv, CleanupKnows, RowType, DiskType, PcType, LocType, Goto, store, world,
      Building, Holding, Cleaning
  <1>10. NothingYet'
    BY DEF OutcomeInv, NothingYet, PcType, LocType, OutcomeType, HistoryType, Goto, Starting,
      Building, Holding, Cleaning
  <1>11. LinkedIsGood'
    BY DEF OutcomeInv, LinkedIsGood, PcType, OutcomeType, HistoryType, Goto, Building, Holding,
      Cleaning
  <1>12. LinkedIsReported'
    BY DEF OutcomeInv, LinkedIsReported, PcType, OutcomeType, HistoryType, Goto, Building,
      Holding, Cleaning
  <1>13. ConfirmedIsCommitted'
    BY DEF OutcomeInv, ConfirmedIsCommitted, PcType, OutcomeType, LinkType, SpcType, Goto,
      Building, Holding, Cleaning
  <1> QED
    BY <1>1, <1>2, <1>3, <1>4, <1>5, <1>6, <1>7, <1>8, <1>9, <1>10, <1>11, <1>12, <1>13 DEF Inv,
      Types, LeaseInv, StageInv, OutcomeInv

LEMMA LinkDataKeepsInv ==
    ASSUME Inv, NEW g \in Gets, LinkData(g)
    PROVE  Inv'
  <1> USE DEF Inv, Types, LinkData
  <1>1. RowType' /\ DiskType' /\ AgentType' /\ LocType' /\ OutcomeType' /\ LinkType' /\ SpcType'
        /\ EveryShapeKnown' /\ StageOnRecord'
    BY DEF StageInv, RowType, DiskType, AgentType, LocType, OutcomeType, LinkType, SpcType,
      EveryShapeKnown, Markerless, StageOnRecord, store, agent
  <1>2. WorldType'
    BY DEF WorldType
  <1>3. PcType'
    BY DEF PcType, Goto, PCs, Building, Holding, Cleaning
  <1>4. ActiveType'
    BY DEF ActiveType, PcType, LocType, Goto, store, Building, Holding, Cleaning
  <1>5. HistoryType'
    BY DEF HistoryType
  <1>6. DownIsIdle'
    BY DEF LeaseInv, DownIsIdle, AgentType, PcType, Goto, agent, Building, Holding, Cleaning
  <1>7. OnlyCleanersReap'
    BY DEF LeaseInv, OnlyCleanersReap, PcType, LocType, Goto, Cleaning, Building, Holding
  <1>8. WorkersHoldLease'
    BY DEF LeaseInv, WorkersHoldLease, RowType, PcType, LocType, Goto, store, Working, Owning,
      Building, Holding, Cleaning
  <1>9. BeginnersHaveNothing'
    BY DEF LeaseInv, BeginnersHaveNothing, RowType, DiskType, PcType, LocType, Goto, store,
      Starting, Building, Holding, Cleaning
  <1>10. BuiltSoFar'
    BY DEF StageInv, BuiltSoFar, RowType, DiskType, PcType, Goto, store, Owning, Building,
      Holding, Cleaning
  <1>11. CleanupKnows'
    BY DEF StageInv, CleanupKnows, RowType, DiskType, PcType, LocType, Goto, store, Building,
      Holding, Cleaning
  <1>12. NothingYet'
    BY DEF LeaseInv, OutcomeInv, NothingYet, PcType, LocType, OutcomeType, HistoryType,
      BeginnersHaveNothing, OnlyCleanersReap, Goto, Starting, Building, Holding, Cleaning
  <1>13. LinkedIsGood'
    BY DEF OutcomeInv, LinkedIsGood, RowType, DiskType, WorldType, AgentType, PcType, LocType,
      ActiveType, OutcomeType, LinkType, SpcType, HistoryType, NothingYet, LinkedIsReported,
      ConfirmedIsCommitted, Goto, Building, Holding, Cleaning, Starting
  <1>14. LinkedIsReported'
    BY DEF OutcomeInv, LinkedIsReported, PcType, OutcomeType, HistoryType, Goto, Building,
      Holding, Cleaning
  <1>15. ConfirmedIsCommitted'
    BY DEF OutcomeInv, ConfirmedIsCommitted, PcType, OutcomeType, LinkType, SpcType, Goto,
      Building, Holding, Cleaning
  <1> QED
    BY <1>1, <1>2, <1>3, <1>4, <1>5, <1>6, <1>7, <1>8, <1>9, <1>10, <1>11, <1>12, <1>13, <1>14,
      <1>15 DEF Inv, Types, LeaseInv, StageInv, OutcomeInv

LEMMA RecordLinkKeepsInv ==
    ASSUME Inv, NEW g \in Gets, RecordLink(g)
    PROVE  Inv'
  <1> USE DEF Inv, Types
  <1>1. DiskType' /\ WorldType' /\ AgentType' /\ LinkType' /\ SpcType' /\ HistoryType'
    BY DEF DiskType, WorldType, AgentType, LinkType, SpcType, HistoryType, RecordLink, world,
      agent
  <1>2. RowType'
    BY ZenonT(60) DEF RowType, RecordLink, Record, Rows, Phases
  <1>3. PcType'
    BY DEF PcType, RecordLink, Cleanup, Goto, PCs, Building, Holding, Cleaning
  <1>4. LocType'
    <2>1. RowType'
      BY RowUpdates DEF Inv, Types, RecordLink, Record, Phases
    <2>2. row'[g] \in Rows \cup {None}
      BY <2>1 DEF RowType
    <2> QED
      BY <2>2, LocUpdates DEF Inv, Types, RecordLink, Cleanup
  <1>5. ActiveType'
    BY DEF ActiveType, PcType, LocType, RecordLink, Cleanup, Goto, Building, Holding, Cleaning
  <1>6. OutcomeType'
    BY DEF OutcomeType, RecordLink
  <1>7. DownIsIdle'
    BY DEF LeaseInv, DownIsIdle, AgentType, PcType, RecordLink, Cleanup, Goto, agent, Building,
      Holding, Cleaning
  <1>8. OnlyCleanersReap'
    BY DEF LeaseInv, OnlyCleanersReap, PcType, LocType, RecordLink, Cleanup, Goto, Cleaning,
      Building, Holding
  <1>9. WorkersHoldLease'
    <2>1. row[g] \in Rows
      BY RowUpdates DEF Inv, Types, RecordLink, Record
    <2>a. row'[g] # None
      BY <2>1, RowUpdates, Absent DEF Inv, Types, RecordLink, Record, Phases
    <2>2. \A k \in Gets : row[k] # None => row'[k] # None /\ row'[k].lease = row[k].lease
      BY <2>1, <2>a DEF Inv, Types, RowType, RecordLink, Record, Rows
    <2>3. \A k \in Gets : loc'[k].tgt = loc[k].tgt /\ (pc'[k] \in Working => pc[k] \in Working)
      BY DEF RecordLink, Cleanup, Goto, Inv, Types, PcType, LocType, Working, Owning
    <2> QED
      BY <2>2, <2>3, LocUpdates DEF Inv, Types, LeaseInv, WorkersHoldLease
  <1>10. BeginnersHaveNothing'
    BY DEF LeaseInv, BeginnersHaveNothing, RowType, DiskType, PcType, LocType, RecordLink,
      Record, Cleanup, Goto, world, Starting, Building, Holding, Cleaning
  <1>11. BuiltSoFar'
    BY DEF StageInv, BuiltSoFar, RowType, DiskType, PcType, RecordLink, Record, Cleanup, Goto,
      world, Owning, Building, Holding, Cleaning
  <1>12. CleanupKnows'
    <2>1. row[g] \in Rows /\ pc[g] \in Owning
      BY RowUpdates DEF Inv, Types, RecordLink, Record, Owning
    <2>2. /\ pc'[g] = "inspect" /\ loc'[g].tgt = g /\ loc'[g].seen = row'[g] /\ disk' = disk
          /\ \A k \in Gets \ {g} : loc'[k] = loc[k] /\ pc'[k] = pc[k] /\ row'[k] = row[k]
      BY <2>1, OwnersOwn DEF RecordLink, Record, Cleanup, Goto, Inv, Types, LeaseInv, PcType, LocType, RowType, world
    <2>4. \A k \in Gets \ {g} : pc[k] \in Cleaning => loc[k].tgt # g
      BY <2>1, OwnersOwn, OneWorker DEF Inv, LeaseInv, Working
    <2>5. \A k \in Gets : loc[k].tgt \in Gets
      BY LocUpdates DEF Inv, Types
    <2> QED
      BY <2>1, <2>2, <2>4, <2>5 DEF Inv, StageInv, CleanupKnows, Cleaning
  <1>13. EveryShapeKnown'
    BY DEF StageInv, EveryShapeKnown, RowType, DiskType, RecordLink, Record, world, Markerless
  <1>14. StageOnRecord'
    BY GetAssumption, Absent DEF StageInv, StageOnRecord, RowType, DiskType, RecordLink,
      Record, world, Rows, Phases, Entries
  <1>15. NothingYet'
    BY DEF OutcomeInv, NothingYet, RowType, DiskType, WorldType, AgentType, PcType, LocType,
      ActiveType, OutcomeType, LinkType, SpcType, HistoryType, LinkedIsGood, LinkedIsReported,
      ConfirmedIsCommitted, RecordLink, Cleanup, Goto, Starting, Building, Holding, Cleaning
  <1>16. LinkedIsGood'
    BY DEF OutcomeInv, LinkedIsGood, RowType, DiskType, WorldType, AgentType, PcType, LocType,
      ActiveType, OutcomeType, LinkType, SpcType, HistoryType, NothingYet, LinkedIsReported,
      ConfirmedIsCommitted, RecordLink, Cleanup, Goto, Building, Holding, Cleaning, Starting
  <1>17. LinkedIsReported'
    BY DEF OutcomeInv, LinkedIsReported, PcType, OutcomeType, HistoryType, RecordLink, Cleanup,
      Goto, Building, Holding, Cleaning
  <1>18. ConfirmedIsCommitted'
    BY DEF OutcomeInv, ConfirmedIsCommitted, PcType, OutcomeType, LinkType, SpcType, RecordLink,
      Cleanup, Goto, Building, Holding, Cleaning
  <1> QED
    BY <1>1, <1>2, <1>3, <1>4, <1>5, <1>6, <1>7, <1>8, <1>9, <1>10, <1>11, <1>12, <1>13, <1>14,
      <1>15, <1>16, <1>17, <1>18 DEF Inv, Types, LeaseInv, StageInv, OutcomeInv

LEMMA LinkUnrecordedKeepsInv ==
    ASSUME Inv, NEW g \in Gets, LinkUnrecorded(g)
    PROVE  Inv'
  <1> USE DEF Inv, Types, LinkUnrecorded
  <1>1. RowType' /\ DiskType' /\ WorldType' /\ AgentType' /\ LocType' /\ LinkType' /\ SpcType'
        /\ HistoryType' /\ EveryShapeKnown' /\ StageOnRecord'
    BY DEF StageInv, RowType, DiskType, WorldType, AgentType, LocType, LinkType, SpcType,
      HistoryType, EveryShapeKnown, Markerless, StageOnRecord, store, world, agent
  <1>2. PcType'
    BY DEF PcType, Goto, PCs, Building, Holding, Cleaning
  <1>3. ActiveType'
    BY DEF ActiveType, PcType, LocType, Goto, store, Building, Holding, Cleaning
  <1>4. OutcomeType'
    BY DEF OutcomeType
  <1>5. DownIsIdle'
    BY DEF LeaseInv, DownIsIdle, AgentType, PcType, Goto, agent, Building, Holding, Cleaning
  <1>6. OnlyCleanersReap'
    BY DEF LeaseInv, OnlyCleanersReap, PcType, LocType, Goto, Cleaning, Building, Holding
  <1>7. WorkersHoldLease'
    BY DEF LeaseInv, WorkersHoldLease, RowType, PcType, LocType, Goto, store, Working, Owning,
      Building, Holding, Cleaning
  <1>8. BeginnersHaveNothing'
    BY DEF LeaseInv, BeginnersHaveNothing, RowType, DiskType, PcType, LocType, Goto, store,
      world, Starting, Building, Holding, Cleaning
  <1>9. BuiltSoFar'
    BY DEF StageInv, BuiltSoFar, RowType, DiskType, PcType, Goto, store, world, Owning,
      Building, Holding, Cleaning
  <1>10. CleanupKnows'
    BY DEF StageInv, CleanupKnows, RowType, DiskType, PcType, LocType, Goto, store, world,
      Building, Holding, Cleaning
  <1>11. NothingYet'
    BY DEF OutcomeInv, NothingYet, RowType, DiskType, WorldType, AgentType, PcType, LocType,
      ActiveType, OutcomeType, LinkType, SpcType, HistoryType, LinkedIsGood, LinkedIsReported,
      ConfirmedIsCommitted, Goto, Starting, Building, Holding, Cleaning
  <1>12. LinkedIsGood'
    BY DEF OutcomeInv, LinkedIsGood, RowType, DiskType, WorldType, AgentType, PcType, LocType,
      ActiveType, OutcomeType, LinkType, SpcType, HistoryType, NothingYet, LinkedIsReported,
      ConfirmedIsCommitted, Goto, Building, Holding, Cleaning, Starting
  <1>13. LinkedIsReported'
    BY DEF OutcomeInv, LinkedIsReported, PcType, OutcomeType, HistoryType, Goto, Building,
      Holding, Cleaning
  <1>14. ConfirmedIsCommitted'
    BY DEF OutcomeInv, ConfirmedIsCommitted, PcType, OutcomeType, LinkType, SpcType, Goto,
      Building, Holding, Cleaning
  <1> QED
    BY <1>1, <1>2, <1>3, <1>4, <1>5, <1>6, <1>7, <1>8, <1>9, <1>10, <1>11, <1>12, <1>13, <1>14
      DEF Inv, Types, LeaseInv, StageInv, OutcomeInv

LEMMA StageFailsKeepsInv ==
    ASSUME Inv, NEW g \in Gets, StageFails(g)
    PROVE  Inv'
  <1> USE DEF Inv, Types, StageFails
  <1>1. RowType' /\ DiskType' /\ WorldType' /\ AgentType' /\ OutcomeType' /\ LinkType' /\
        SpcType' /\ HistoryType' /\ EveryShapeKnown' /\ StageOnRecord'
    BY DEF StageInv, RowType, DiskType, WorldType, AgentType, OutcomeType, LinkType, SpcType,
      HistoryType, EveryShapeKnown, Markerless, StageOnRecord, store, world, agent
  <1>2. PcType'
    BY DEF PcType, Building, Holding, Cleanup, Goto, PCs, Cleaning
  <1>3. LocType'
    BY RowUpdates, LocUpdates DEF LeaseInv, LocType, BeginnersHaveNothing, OnlyCleanersReap,
      PcType, Building, Holding, Cleanup, Starting, Cleaning
  <1>4. ActiveType'
    BY DEF ActiveType, PcType, LocType, Building, Holding, Cleanup, Goto, store, Cleaning
  <1>5. DownIsIdle'
    BY DEF LeaseInv, DownIsIdle, AgentType, PcType, Building, Holding, Cleanup, Goto, agent,
      Cleaning
  <1>6. OnlyCleanersReap'
    BY DEF LeaseInv, OnlyCleanersReap, PcType, LocType, Building, Holding, Cleanup, Goto,
      Cleaning
  <1>7. WorkersHoldLease'
    BY DEF LeaseInv, WorkersHoldLease, RowType, PcType, LocType, Building, Holding, Cleanup,
      Goto, store, Working, Owning, Cleaning
  <1>8. BeginnersHaveNothing'
    BY DEF LeaseInv, BeginnersHaveNothing, RowType, DiskType, PcType, LocType, Building,
      Holding, Cleanup, Goto, store, world, Starting, Cleaning
  <1>9. BuiltSoFar'
    BY DEF StageInv, BuiltSoFar, RowType, DiskType, PcType, Building, Holding, Cleanup, Goto,
      store, world, Owning, Cleaning
  <1>10. CleanupKnows'
    BY DEF LeaseInv, StageInv, CleanupKnows, RowType, DiskType, PcType, LocType, DownIsIdle,
      OnlyCleanersReap, WorkersHoldLease, BeginnersHaveNothing, BuiltSoFar, EveryShapeKnown,
      StageOnRecord, Building, Holding, Cleanup, Goto, store, world, Cleaning, Working, Owning,
      Starting, Markerless
  <1>11. NothingYet'
    BY DEF OutcomeInv, NothingYet, PcType, LocType, OutcomeType, HistoryType, Building, Holding,
      Cleanup, Goto, Starting, Cleaning
  <1>12. LinkedIsGood'
    BY DEF OutcomeInv, LinkedIsGood, PcType, OutcomeType, HistoryType, Building, Holding,
      Cleanup, Goto, Cleaning
  <1>13. LinkedIsReported'
    BY DEF OutcomeInv, LinkedIsReported, PcType, OutcomeType, HistoryType, Building, Holding,
      Cleanup, Goto, Cleaning
  <1>14. ConfirmedIsCommitted'
    BY DEF OutcomeInv, ConfirmedIsCommitted, PcType, OutcomeType, LinkType, SpcType, Building,
      Holding, Cleanup, Goto, Cleaning
  <1> QED
    BY <1>1, <1>2, <1>3, <1>4, <1>5, <1>6, <1>7, <1>8, <1>9, <1>10, <1>11, <1>12, <1>13, <1>14
      DEF Inv, Types, LeaseInv, StageInv, OutcomeInv

LEMMA InspectKeepsInv ==
    ASSUME Inv, NEW g \in Gets, Inspect(g)
    PROVE  Inv'
  <1> USE DEF Inv, Types, Inspect
  <1>1. RowType' /\ DiskType' /\ WorldType' /\ AgentType' /\ LocType' /\ OutcomeType' /\
        LinkType' /\ SpcType' /\ HistoryType' /\ EveryShapeKnown' /\ StageOnRecord'
    BY DEF StageInv, RowType, DiskType, WorldType, AgentType, LocType, OutcomeType, LinkType,
      SpcType, HistoryType, EveryShapeKnown, Markerless, StageOnRecord, store, world, agent
  <1>2. PcType'
    BY DEF PcType, Goto, PCs, Building, Holding, Cleaning
  <1>3. ActiveType'
    BY DEF ActiveType, PcType, LocType, Goto, store, Building, Holding, Cleaning
  <1>4. DownIsIdle'
    BY DEF LeaseInv, DownIsIdle, AgentType, PcType, Goto, agent, Building, Holding, Cleaning
  <1>5. OnlyCleanersReap'
    BY DEF LeaseInv, OnlyCleanersReap, PcType, LocType, Goto, Cleaning, Building, Holding
  <1>6. WorkersHoldLease'
    BY DEF LeaseInv, WorkersHoldLease, RowType, PcType, LocType, Goto, store, Working, Owning,
      Building, Holding, Cleaning
  <1>7. BeginnersHaveNothing'
    BY DEF LeaseInv, BeginnersHaveNothing, RowType, DiskType, PcType, LocType, Goto, store,
      world, Starting, Building, Holding, Cleaning
  <1>8. BuiltSoFar'
    BY DEF StageInv, BuiltSoFar, RowType, DiskType, PcType, Goto, store, world, Owning,
      Building, Holding, Cleaning
  <1>9. CleanupKnows'
    BY DEF StageInv, CleanupKnows, RowType, DiskType, PcType, LocType, Goto, store, world,
      Building, Holding, Cleaning
  <1>10. NothingYet'
    BY DEF OutcomeInv, NothingYet, PcType, LocType, OutcomeType, HistoryType, Goto, Starting,
      Building, Holding, Cleaning
  <1>11. LinkedIsGood'
    BY DEF OutcomeInv, LinkedIsGood, PcType, OutcomeType, HistoryType, Goto, Building, Holding,
      Cleaning
  <1>12. LinkedIsReported'
    BY DEF OutcomeInv, LinkedIsReported, PcType, OutcomeType, HistoryType, Goto, Building,
      Holding, Cleaning
  <1>13. ConfirmedIsCommitted'
    BY DEF OutcomeInv, ConfirmedIsCommitted, PcType, OutcomeType, LinkType, SpcType, Goto,
      Building, Holding, Cleaning
  <1> QED
    BY <1>1, <1>2, <1>3, <1>4, <1>5, <1>6, <1>7, <1>8, <1>9, <1>10, <1>11, <1>12, <1>13 DEF Inv,
      Types, LeaseInv, StageInv, OutcomeInv

LEMMA AuthorizeKeepsInv ==
    ASSUME Inv, NEW g \in Gets, Authorize(g)
    PROVE  Inv'
  <1> USE DEF Inv, Types
  <1>1. DiskType' /\ WorldType' /\ AgentType' /\ LocType' /\ OutcomeType' /\ LinkType' /\
        SpcType' /\ HistoryType'
    BY DEF DiskType, WorldType, AgentType, LocType, OutcomeType, LinkType, SpcType, HistoryType,
      Authorize, world, agent
  <1>2. RowType'
    <2>1. loc[g].tgt \in Gets /\ row[loc[g].tgt] # None
      BY LocUpdates DEF Inv, Types, Authorize
    <2> QED
      BY <2>1, RowUpdates DEF Inv, Types, Authorize, Phases
  <1>3. PcType'
    BY DEF PcType, Authorize, Goto, PCs, Building, Holding, Cleaning
  <1>4. ActiveType'
    BY DEF ActiveType, PcType, LocType, Authorize, Goto, Building, Holding, Cleaning
  <1>5. DownIsIdle'
    BY DEF LeaseInv, DownIsIdle, AgentType, PcType, Authorize, Goto, agent, Building, Holding,
      Cleaning
  <1>6. OnlyCleanersReap'
    BY DEF LeaseInv, OnlyCleanersReap, PcType, LocType, Authorize, Goto, Cleaning, Building,
      Holding
  <1>7. WorkersHoldLease'
    <2>1. loc[g].tgt \in Gets /\ row[loc[g].tgt] \in Rows
      BY LocUpdates, RowUpdates DEF Inv, Types, Authorize
    <2>a. row'[loc[g].tgt] # None
      BY <2>1, RowUpdates, Absent DEF Inv, Types, Authorize, Phases
    <2>2. \A k \in Gets : row[k] # None => row'[k] # None /\ row'[k].lease = row[k].lease
      BY <2>1, <2>a DEF Inv, Types, RowType, Authorize, Rows
    <2>3. \A k \in Gets : loc'[k] = loc[k] /\ (pc'[k] \in Working => pc[k] \in Working)
      BY DEF Authorize, Goto, Inv, Types, PcType, Working, Cleaning
    <2> QED
      BY <2>2, <2>3, LocUpdates DEF Inv, Types, LeaseInv, WorkersHoldLease
  <1>8. BeginnersHaveNothing'
    BY DEF LeaseInv, BeginnersHaveNothing, RowType, DiskType, PcType, LocType, Authorize, Goto,
      world, Starting, Building, Holding, Cleaning
  <1>9. BuiltSoFar'
    BY DEF LeaseInv, StageInv, BuiltSoFar, RowType, DiskType, PcType, DownIsIdle,
      OnlyCleanersReap, WorkersHoldLease, BeginnersHaveNothing, CleanupKnows, EveryShapeKnown,
      StageOnRecord, LocType, Authorize, Goto, world, Owning, Building, Holding, Cleaning,
      Working, Starting, Markerless
  <1>10. CleanupKnows'
    <2> DEFINE h == loc[g].tgt
    <2>1. h \in Gets /\ row[h] \in Rows /\ pc[g] \in {"authorize", "adopt"}
      BY LocUpdates, RowUpdates DEF Inv, Types, Authorize
    <2>2. /\ pc'[g] = (IF pc[g] = "authorize" THEN "empty" ELSE "rmdir")
          /\ loc' = loc /\ disk' = disk
          /\ row'[h].phase = "cleanup_authorized" /\ row'[h].sid
          /\ \A k \in Gets \ {g} : pc'[k] = pc[k]
          /\ \A k \in Gets \ {h} : row'[k] = row[k]
      BY <2>1 DEF Authorize, Goto, Inv, Types, PcType, RowType, Rows, world
    <2>4. \A k \in Gets \ {g} : pc[k] \in Cleaning => loc[k].tgt # h
      BY <2>1, OneWorker DEF Inv, LeaseInv, Working, Cleaning
    <2>5. \A k \in Gets : loc[k].tgt \in Gets
      BY LocUpdates DEF Inv, Types
    <2> QED
      BY <2>1, <2>2, <2>4, <2>5 DEF Inv, StageInv, CleanupKnows, Cleaning
  <1>11. EveryShapeKnown'
    BY DEF StageInv, EveryShapeKnown, RowType, DiskType, Authorize, world, Markerless
  <1>12. StageOnRecord'
    BY GetAssumption, Absent DEF StageInv, StageOnRecord, RowType, DiskType, Authorize,
      world, Rows, Phases, Entries
  <1>13. NothingYet'
    BY DEF OutcomeInv, NothingYet, PcType, LocType, OutcomeType, HistoryType, Authorize, Goto,
      Starting, Building, Holding, Cleaning
  <1>14. LinkedIsGood'
    BY DEF OutcomeInv, LinkedIsGood, PcType, OutcomeType, HistoryType, Authorize, Goto,
      Building, Holding, Cleaning
  <1>15. LinkedIsReported'
    BY DEF OutcomeInv, LinkedIsReported, PcType, OutcomeType, HistoryType, Authorize, Goto,
      Building, Holding, Cleaning
  <1>16. ConfirmedIsCommitted'
    BY DEF OutcomeInv, ConfirmedIsCommitted, PcType, OutcomeType, LinkType, SpcType, Authorize,
      Goto, Building, Holding, Cleaning
  <1> QED
    BY <1>1, <1>2, <1>3, <1>4, <1>5, <1>6, <1>7, <1>8, <1>9, <1>10, <1>11, <1>12, <1>13, <1>14,
      <1>15, <1>16 DEF Inv, Types, LeaseInv, StageInv, OutcomeInv

LEMMA RemoveEntryKeepsInv ==
    ASSUME Inv, NEW g \in Gets, RemoveEntry(g)
    PROVE  Inv'
  <1> USE DEF Inv, Types
  <1>1. RowType' /\ WorldType' /\ AgentType' /\ LocType' /\ OutcomeType' /\ LinkType' /\
        SpcType' /\ HistoryType'
    BY DEF RowType, WorldType, AgentType, LocType, OutcomeType, LinkType, SpcType, HistoryType,
      RemoveEntry, store, agent
  <1>2. DiskType'
    <2> DEFINE h == loc[g].tgt
    <2>1. h \in Gets
      BY LocUpdates DEF Inv, Types
    <2>2. disk[h] \in SUBSET Entries
      BY <2>1, LocUpdates DEF Inv, Types, DiskType, RemoveEntry, StageInv, CleanupKnows
    <2>3. PICK e : disk' = [disk EXCEPT ![h] = @ \ {e}]
      BY DEF RemoveEntry
    <2>4. disk[h] \ {e} \in SUBSET Entries
      BY <2>2
    <2> QED
      BY <2>1, <2>3, <2>4 DEF Inv, Types, DiskType
  <1>3. PcType'
    BY DEF PcType, RemoveEntry, Goto, PCs, Building, Holding, Cleaning
  <1>4. ActiveType'
    BY DEF ActiveType, PcType, LocType, RemoveEntry, Goto, store, Building, Holding, Cleaning
  <1>5. DownIsIdle'
    BY DEF LeaseInv, DownIsIdle, AgentType, PcType, RemoveEntry, Goto, agent, Building, Holding,
      Cleaning
  <1>6. OnlyCleanersReap'
    BY DEF LeaseInv, OnlyCleanersReap, PcType, LocType, RemoveEntry, Goto, Cleaning, Building,
      Holding
  <1>7. WorkersHoldLease'
    BY DEF LeaseInv, WorkersHoldLease, RowType, PcType, LocType, RemoveEntry, Goto, store,
      Working, Owning, Building, Holding, Cleaning
  <1>8. BeginnersHaveNothing'
    BY DEF LeaseInv, BeginnersHaveNothing, RowType, DiskType, WorldType, AgentType, PcType,
      LocType, ActiveType, OutcomeType, LinkType, SpcType, HistoryType, DownIsIdle,
      OnlyCleanersReap, WorkersHoldLease, RemoveEntry, Goto, store, Starting, Building, Holding,
      Cleaning, Working, Owning
  <1>9. BuiltSoFar'
    BY DEF LeaseInv, StageInv, BuiltSoFar, RowType, DiskType, PcType, DownIsIdle,
      OnlyCleanersReap, WorkersHoldLease, BeginnersHaveNothing, CleanupKnows, EveryShapeKnown,
      StageOnRecord, LocType, RemoveEntry, Goto, store, Owning, Building, Holding, Cleaning,
      Working, Starting, Markerless
  <1>10. CleanupKnows'
    BY GetAssumption, Absent, OneWorker, OwnersOwn DEF LeaseInv, StageInv, CleanupKnows,
      RowType, DiskType, PcType, LocType, DownIsIdle, OnlyCleanersReap, WorkersHoldLease,
      BeginnersHaveNothing, BuiltSoFar, EveryShapeKnown, StageOnRecord, RemoveEntry, Goto,
      store, Building, Holding, Cleaning, Working, Owning, Starting, Markerless
  <1>11. EveryShapeKnown'
    BY DEF StageInv, EveryShapeKnown, RowType, DiskType, WorldType, AgentType, PcType, LocType,
      ActiveType, OutcomeType, LinkType, SpcType, HistoryType, BuiltSoFar, CleanupKnows,
      StageOnRecord, RemoveEntry, store, Markerless, Rows, Phases, Entries, PCs, Building,
      Holding, Cleaning, ToRequester, ToServer, SPCs, Owning
  <1>12. StageOnRecord'
    BY DEF StageInv, StageOnRecord, RowType, DiskType, WorldType, AgentType, PcType, LocType,
      ActiveType, OutcomeType, LinkType, SpcType, HistoryType, BuiltSoFar, CleanupKnows,
      EveryShapeKnown, RemoveEntry, store, Building, Holding, Cleaning, Owning, Markerless
  <1>13. NothingYet'
    BY DEF OutcomeInv, NothingYet, PcType, LocType, OutcomeType, HistoryType, RemoveEntry, Goto,
      Starting, Building, Holding, Cleaning
  <1>14. LinkedIsGood'
    BY DEF OutcomeInv, LinkedIsGood, PcType, OutcomeType, HistoryType, RemoveEntry, Goto,
      Building, Holding, Cleaning
  <1>15. LinkedIsReported'
    BY DEF OutcomeInv, LinkedIsReported, PcType, OutcomeType, HistoryType, RemoveEntry, Goto,
      Building, Holding, Cleaning
  <1>16. ConfirmedIsCommitted'
    BY DEF OutcomeInv, ConfirmedIsCommitted, PcType, OutcomeType, LinkType, SpcType,
      RemoveEntry, Goto, Building, Holding, Cleaning
  <1> QED
    BY <1>1, <1>2, <1>3, <1>4, <1>5, <1>6, <1>7, <1>8, <1>9, <1>10, <1>11, <1>12, <1>13, <1>14,
      <1>15, <1>16 DEF Inv, Types, LeaseInv, StageInv, OutcomeInv

LEMMA RemoveStageKeepsInv ==
    ASSUME Inv, NEW g \in Gets, RemoveStage(g)
    PROVE  Inv'
  <1> USE DEF Inv, Types, RemoveStage
  <1>1. RowType' /\ WorldType' /\ AgentType' /\ LocType' /\ OutcomeType' /\ LinkType' /\
        SpcType' /\ HistoryType'
    BY DEF RowType, WorldType, AgentType, LocType, OutcomeType, LinkType, SpcType, HistoryType,
      store, agent
  <1>2. DiskType'
    BY DEF DiskType
  <1>3. PcType'
    BY DEF PcType, Goto, PCs, Building, Holding, Cleaning
  <1>4. ActiveType'
    BY DEF ActiveType, PcType, LocType, Goto, store, Building, Holding, Cleaning
  <1>5. DownIsIdle'
    BY DEF LeaseInv, DownIsIdle, AgentType, PcType, Goto, agent, Building, Holding, Cleaning
  <1>6. OnlyCleanersReap'
    BY DEF LeaseInv, OnlyCleanersReap, PcType, LocType, Goto, Cleaning, Building, Holding
  <1>7. WorkersHoldLease'
    BY DEF LeaseInv, WorkersHoldLease, RowType, PcType, LocType, Goto, store, Working, Owning,
      Building, Holding, Cleaning
  <1>8. BeginnersHaveNothing'
    BY DEF LeaseInv, BeginnersHaveNothing, RowType, DiskType, PcType, LocType, Goto, store,
      Starting, Building, Holding, Cleaning
  <1>9. BuiltSoFar'
    BY DEF LeaseInv, StageInv, BuiltSoFar, RowType, DiskType, PcType, DownIsIdle,
      OnlyCleanersReap, WorkersHoldLease, BeginnersHaveNothing, CleanupKnows, EveryShapeKnown,
      StageOnRecord, LocType, Goto, store, Owning, Building, Holding, Cleaning, Working,
      Starting, Markerless
  <1>10. CleanupKnows'
    BY DEF LeaseInv, StageInv, CleanupKnows, RowType, DiskType, PcType, LocType, DownIsIdle,
      OnlyCleanersReap, WorkersHoldLease, BeginnersHaveNothing, BuiltSoFar, EveryShapeKnown,
      StageOnRecord, Goto, store, Building, Holding, Cleaning, Working, Owning, Starting,
      Markerless
  <1>11. EveryShapeKnown'
    BY DEF StageInv, EveryShapeKnown, RowType, DiskType, store, Markerless
  <1>12. StageOnRecord'
    BY DEF StageInv, StageOnRecord, RowType, DiskType, store
  <1>13. NothingYet'
    BY DEF OutcomeInv, NothingYet, PcType, LocType, OutcomeType, HistoryType, Goto, Starting,
      Building, Holding, Cleaning
  <1>14. LinkedIsGood'
    BY DEF OutcomeInv, LinkedIsGood, PcType, OutcomeType, HistoryType, Goto, Building, Holding,
      Cleaning
  <1>15. LinkedIsReported'
    BY DEF OutcomeInv, LinkedIsReported, PcType, OutcomeType, HistoryType, Goto, Building,
      Holding, Cleaning
  <1>16. ConfirmedIsCommitted'
    BY DEF OutcomeInv, ConfirmedIsCommitted, PcType, OutcomeType, LinkType, SpcType, Goto,
      Building, Holding, Cleaning
  <1> QED
    BY <1>1, <1>2, <1>3, <1>4, <1>5, <1>6, <1>7, <1>8, <1>9, <1>10, <1>11, <1>12, <1>13, <1>14,
      <1>15, <1>16 DEF Inv, Types, LeaseInv, StageInv, OutcomeInv

LEMMA DropRowKeepsInv ==
    ASSUME Inv, NEW g \in Gets, DropRow(g)
    PROVE  Inv'
  <1> USE DEF Inv, Types
  <1>1. DiskType' /\ WorldType' /\ AgentType' /\ SpcType' /\ HistoryType'
    BY DEF DiskType, WorldType, AgentType, SpcType, HistoryType, DropRow, world, agent
  <1>2. RowType'
    BY DEF RowType, DropRow, Locals
  <1>3. PcType'
    BY DEF PcType, DropRow, Continue, Goto, Locals, PCs, Building, Holding, Cleaning
  <1>4. LocType'
    BY LocUpdates DEF Inv, Types, DropRow, Continue
  <1>5. ActiveType'
    BY DEF ActiveType, PcType, LocType, DropRow, Continue, Goto, Locals, Building, Holding,
      Cleaning
  <1>6. OutcomeType'
    BY DEF OutcomeType, DropRow, Continue, Locals
  <1>7. LinkType'
    BY ContinueLink DEF Inv, Types, DropRow
  <1>8. DownIsIdle'
    BY DEF LeaseInv, DownIsIdle, AgentType, PcType, DropRow, Continue, Goto, Locals, agent,
      Building, Holding, Cleaning
  <1>9. OnlyCleanersReap'
    BY DEF LeaseInv, OnlyCleanersReap, PcType, LocType, DropRow, Continue, Goto, Locals,
      Cleaning, Building, Holding
  <1>10. WorkersHoldLease'
    BY DEF LeaseInv, WorkersHoldLease, RowType, PcType, LocType, DropRow, Continue, Goto,
      Locals, Working, Owning, Building, Holding, Cleaning
  <1>11. BeginnersHaveNothing'
    BY DEF LeaseInv, BeginnersHaveNothing, RowType, DiskType, PcType, LocType, DropRow,
      Continue, Goto, Locals, world, Starting, Building, Holding, Cleaning
  <1>12. BuiltSoFar'
    BY DEF LeaseInv, StageInv, BuiltSoFar, RowType, DiskType, PcType, DownIsIdle,
      OnlyCleanersReap, WorkersHoldLease, BeginnersHaveNothing, CleanupKnows, EveryShapeKnown,
      StageOnRecord, LocType, DropRow, Continue, Goto, Locals, world, Owning, Building, Holding,
      Cleaning, Working, Starting, Markerless
  <1>13. CleanupKnows'
    BY DEF LeaseInv, StageInv, CleanupKnows, RowType, DiskType, PcType, LocType, DownIsIdle,
      OnlyCleanersReap, WorkersHoldLease, BeginnersHaveNothing, BuiltSoFar, EveryShapeKnown,
      StageOnRecord, DropRow, Continue, Goto, Locals, world, Building, Holding, Cleaning,
      Working, Owning, Starting, Markerless
  <1>14. EveryShapeKnown'
    BY DEF StageInv, EveryShapeKnown, RowType, DiskType, DropRow, Locals, world, Markerless
  <1>15. StageOnRecord'
    BY DEF StageInv, StageOnRecord, RowType, DiskType, WorldType, AgentType, PcType, LocType,
      ActiveType, OutcomeType, LinkType, SpcType, HistoryType, BuiltSoFar, CleanupKnows,
      EveryShapeKnown, DropRow, Locals, world, Building, Holding, Cleaning, Owning, Markerless
  <1>16. NothingYet'
    BY DEF OutcomeInv, NothingYet, PcType, LocType, OutcomeType, HistoryType, DropRow, Continue,
      Goto, Locals, Starting, Building, Holding, Cleaning
  <1>17. LinkedIsGood'
    BY DEF OutcomeInv, LinkedIsGood, PcType, OutcomeType, HistoryType, DropRow, Continue, Goto,
      Locals, Building, Holding, Cleaning
  <1>18. LinkedIsReported'
    BY DEF OutcomeInv, LinkedIsReported, PcType, OutcomeType, HistoryType, DropRow, Continue,
      Goto, Locals, Building, Holding, Cleaning
  <1>19. ConfirmedIsCommitted'
    BY DEF OutcomeInv, ConfirmedIsCommitted, PcType, OutcomeType, LinkType, SpcType, DropRow,
      Continue, Goto, Locals, Building, Holding, Cleaning
  <1> QED
    BY <1>1, <1>2, <1>3, <1>4, <1>5, <1>6, <1>7, <1>8, <1>9, <1>10, <1>11, <1>12, <1>13, <1>14,
      <1>15, <1>16, <1>17, <1>18, <1>19 DEF Inv, Types, LeaseInv, StageInv, OutcomeInv

LEMMA CleanupFailsKeepsInv ==
    ASSUME Inv, NEW g \in Gets, CleanupFails(g)
    PROVE  Inv'
  <1> USE DEF Inv, Types, CleanupFails
  <1>1. RowType' /\ DiskType' /\ WorldType' /\ AgentType' /\ LocType' /\ OutcomeType' /\
        LinkType' /\ SpcType' /\ HistoryType' /\ EveryShapeKnown' /\ StageOnRecord'
    BY DEF StageInv, RowType, DiskType, WorldType, AgentType, LocType, OutcomeType, LinkType,
      SpcType, HistoryType, EveryShapeKnown, Markerless, StageOnRecord, store, world, agent
  <1>2. PcType'
    BY DEF PcType, Cleaning, Goto, PCs, Building, Holding
  <1>3. ActiveType'
    BY DEF ActiveType, PcType, LocType, Cleaning, Goto, store, Building, Holding
  <1>4. DownIsIdle'
    BY DEF LeaseInv, DownIsIdle, AgentType, PcType, Cleaning, Goto, agent, Building, Holding
  <1>5. OnlyCleanersReap'
    BY DEF LeaseInv, OnlyCleanersReap, PcType, LocType, Cleaning, Goto, Building, Holding
  <1>6. WorkersHoldLease'
    BY DEF LeaseInv, WorkersHoldLease, RowType, PcType, LocType, Cleaning, Goto, store, Working,
      Owning, Building, Holding
  <1>7. BeginnersHaveNothing'
    BY DEF LeaseInv, BeginnersHaveNothing, RowType, DiskType, PcType, LocType, Cleaning, Goto,
      store, world, Starting, Building, Holding
  <1>8. BuiltSoFar'
    BY DEF StageInv, BuiltSoFar, RowType, DiskType, PcType, Cleaning, Goto, store, world,
      Owning, Building, Holding
  <1>9. CleanupKnows'
    BY DEF StageInv, CleanupKnows, RowType, DiskType, PcType, LocType, Cleaning, Goto, store,
      world, Building, Holding
  <1>10. NothingYet'
    BY DEF OutcomeInv, NothingYet, PcType, LocType, OutcomeType, HistoryType, Cleaning, Goto,
      Starting, Building, Holding
  <1>11. LinkedIsGood'
    BY DEF OutcomeInv, LinkedIsGood, PcType, OutcomeType, HistoryType, Cleaning, Goto, Building,
      Holding
  <1>12. LinkedIsReported'
    BY DEF OutcomeInv, LinkedIsReported, PcType, OutcomeType, HistoryType, Cleaning, Goto,
      Building, Holding
  <1>13. ConfirmedIsCommitted'
    BY DEF OutcomeInv, ConfirmedIsCommitted, PcType, OutcomeType, LinkType, SpcType, Cleaning,
      Goto, Building, Holding
  <1> QED
    BY <1>1, <1>2, <1>3, <1>4, <1>5, <1>6, <1>7, <1>8, <1>9, <1>10, <1>11, <1>12, <1>13 DEF Inv,
      Types, LeaseInv, StageInv, OutcomeInv

LEMMA SettleKeepsInv ==
    ASSUME Inv, NEW g \in Gets, Settle(g)
    PROVE  Inv'
  <1> USE DEF Inv, Types
  <1>1. DiskType' /\ WorldType' /\ AgentType' /\ SpcType' /\ HistoryType'
    BY DEF DiskType, WorldType, AgentType, SpcType, HistoryType, Settle, world, agent
  <1>2. RowType'
    BY RowUpdates DEF RowType, Settle, Locals
  <1>3. PcType'
    BY DEF PcType, Settle, Continue, Goto, Locals, PCs, Building, Holding, Cleaning
  <1>4. LocType'
    BY LocUpdates DEF Inv, Types, Settle, Continue
  <1>5. ActiveType'
    BY DEF ActiveType, PcType, LocType, Settle, Continue, Goto, Locals, Building, Holding,
      Cleaning
  <1>6. OutcomeType'
    BY DEF OutcomeType, Settle, Continue, Locals
  <1>7. LinkType'
    BY ContinueLink DEF Inv, Types, Settle
  <1>8. DownIsIdle'
    BY DEF LeaseInv, DownIsIdle, AgentType, PcType, Settle, Continue, Goto, Locals, agent,
      Building, Holding, Cleaning
  <1>9. OnlyCleanersReap'
    BY DEF LeaseInv, OnlyCleanersReap, PcType, LocType, Settle, Continue, Goto, Locals,
      Cleaning, Building, Holding
  <1>10. WorkersHoldLease'
    BY DEF LeaseInv, StageInv, WorkersHoldLease, RowType, PcType, LocType, DownIsIdle,
      OnlyCleanersReap, BeginnersHaveNothing, BuiltSoFar, CleanupKnows, EveryShapeKnown,
      StageOnRecord, DiskType, Settle, Continue, Goto, Locals, Working, Owning, Building,
      Holding, Cleaning, Starting, Markerless
  <1>11. BeginnersHaveNothing'
    BY DEF LeaseInv, BeginnersHaveNothing, RowType, DiskType, PcType, LocType, Settle, Continue,
      Goto, Locals, world, Starting, Building, Holding, Cleaning
  <1>12. BuiltSoFar'
    BY DEF StageInv, BuiltSoFar, RowType, DiskType, PcType, Settle, Continue, Goto, Locals,
      world, Owning, Building, Holding, Cleaning
  <1>13. CleanupKnows'
    BY DEF StageInv, CleanupKnows, RowType, DiskType, PcType, LocType, Settle, Continue, Goto,
      Locals, world, Building, Holding, Cleaning
  <1>14. EveryShapeKnown'
    BY DEF StageInv, EveryShapeKnown, RowType, DiskType, Settle, Locals, world, Markerless
  <1>15. StageOnRecord'
    BY GetAssumption, Absent DEF StageInv, StageOnRecord, RowType, DiskType, Settle,
      Locals, world, Rows, Phases, Entries
  <1>16. NothingYet'
    BY GetAssumption, Absent DEF OutcomeInv, NothingYet, PcType, LocType, OutcomeType,
      HistoryType, Settle, Continue, Goto, Locals, Starting, Building, Holding, Cleaning
  <1>17. LinkedIsGood'
    BY DEF OutcomeInv, LinkedIsGood, RowType, DiskType, WorldType, AgentType, PcType, LocType,
      ActiveType, OutcomeType, LinkType, SpcType, HistoryType, NothingYet, LinkedIsReported,
      ConfirmedIsCommitted, Settle, Continue, Goto, Locals, Building, Holding, Cleaning,
      Starting
  <1>18. LinkedIsReported'
    BY DEF OutcomeInv, LinkedIsReported, PcType, OutcomeType, HistoryType, Settle, Continue,
      Goto, Locals, Building, Holding, Cleaning
  <1>19. ConfirmedIsCommitted'
    BY DEF OutcomeInv, ConfirmedIsCommitted, PcType, OutcomeType, LinkType, SpcType, Settle,
      Continue, Goto, Locals, Building, Holding, Cleaning
  <1> QED
    BY <1>1, <1>2, <1>3, <1>4, <1>5, <1>6, <1>7, <1>8, <1>9, <1>10, <1>11, <1>12, <1>13, <1>14,
      <1>15, <1>16, <1>17, <1>18, <1>19 DEF Inv, Types, LeaseInv, StageInv, OutcomeInv

LEMMA SettleFailsKeepsInv ==
    ASSUME Inv, NEW g \in Gets, SettleFails(g)
    PROVE  Inv'
  <1> USE DEF Inv, Types
  <1>1. DiskType' /\ WorldType' /\ AgentType' /\ SpcType' /\ HistoryType'
    BY DEF DiskType, WorldType, AgentType, SpcType, HistoryType, SettleFails, world, agent
  <1>2. RowType'
    <2>1. CASE UNCHANGED row
      BY <2>1 DEF Inv, Types, RowType
    <2>2. CASE row[loc[g].tgt] # None /\ row' = [row EXCEPT ![loc[g].tgt].lease = None]
      <3>1. loc[g].tgt \in Gets
        BY LocUpdates DEF Inv, Types
      <3> QED
        BY <2>2, <3>1, RowUpdates DEF Inv, Types
    <2> QED
      BY <2>1, <2>2 DEF SettleFails
  <1>3. PcType'
    BY DEF PcType, SettleFails, Continue, Goto, Locals, Return, PCs, Building, Holding, Cleaning
  <1>4. LocType'
    BY LocUpdates DEF Inv, Types, SettleFails, Continue, Return
  <1>5. ActiveType'
    BY DEF ActiveType, PcType, LocType, SettleFails, Continue, Goto, Locals, Return, Building,
      Holding, Cleaning
  <1>6. OutcomeType'
    BY DEF OutcomeType, SettleFails, Continue, Locals, Return
  <1>7. LinkType'
    BY ContinueLink, LinkUpdates DEF Inv, Types, SettleFails, Return
  <1>8. DownIsIdle'
    BY DEF LeaseInv, DownIsIdle, AgentType, PcType, SettleFails, Continue, Goto, Locals, Return,
      agent, Building, Holding, Cleaning
  <1>9. OnlyCleanersReap'
    BY DEF LeaseInv, OnlyCleanersReap, PcType, LocType, SettleFails, Continue, Goto, Locals,
      Return, Cleaning, Building, Holding
  <1>10. WorkersHoldLease'
    BY DEF LeaseInv, WorkersHoldLease, RowType, PcType, LocType, SettleFails, Continue, Goto,
      Locals, Return, Working, Owning, Building, Holding, Cleaning
  <1>11. BeginnersHaveNothing'
    BY DEF LeaseInv, BeginnersHaveNothing, RowType, DiskType, PcType, LocType, SettleFails,
      Continue, Goto, Locals, Return, world, Starting, Building, Holding, Cleaning
  <1>12. BuiltSoFar'
    BY DEF StageInv, BuiltSoFar, RowType, DiskType, PcType, SettleFails, Continue, Goto, Locals,
      Return, world, Owning, Building, Holding, Rows, Phases, Entries, PCs, Cleaning
  <1>13. CleanupKnows'
    BY DEF StageInv, CleanupKnows, RowType, DiskType, PcType, LocType, SettleFails, Continue,
      Goto, Locals, Return, world, Rows, Phases, Entries, PCs, Building, Holding, Cleaning
  <1>14. EveryShapeKnown'
    BY DEF StageInv, EveryShapeKnown, RowType, DiskType, SettleFails, Locals, world, Markerless,
      Rows, Phases, Entries
  <1>15. StageOnRecord'
    BY GetAssumption, Absent DEF StageInv, StageOnRecord, RowType, DiskType,
      SettleFails, Locals, world, Rows, Phases, Entries
  <1>16. NothingYet'
    BY DEF OutcomeInv, NothingYet, PcType, LocType, OutcomeType, HistoryType, SettleFails,
      Continue, Goto, Locals, Return, Starting, Building, Holding, Cleaning
  <1>17. LinkedIsGood'
    BY DEF OutcomeInv, LinkedIsGood, RowType, DiskType, WorldType, AgentType, PcType, LocType,
      ActiveType, OutcomeType, LinkType, SpcType, HistoryType, NothingYet, LinkedIsReported,
      ConfirmedIsCommitted, SettleFails, Continue, Goto, Locals, Return, Building, Holding,
      Cleaning, Starting
  <1>18. LinkedIsReported'
    <2>1. CASE loc[g].tgt = g
      BY <2>1 DEF Inv, Types, OutcomeInv, LinkedIsReported, LinkedIsGood, SettleFails, Continue, Goto, PcType, OutcomeType
    <2>2. CASE loc[g].tgt # g
      BY <2>2 DEF Inv, Types, OutcomeInv, LinkedIsReported, NothingYet, SettleFails, Return, Goto, PcType, OutcomeType
    <2> QED
      BY <2>1, <2>2
  <1>19. ConfirmedIsCommitted'
    <2>1. pc[g] # "returned" /\ spc' = spc
      BY DEF SettleFails
    <2>3. /\ \A k \in Gets \ {g} : pc'[k] = pc[k] /\ outcome'[k] = outcome[k]
      BY DEF Inv, Types, PcType, OutcomeType, SettleFails, Continue, Return, Goto
    <2>4. \A k \in Gets : link'[k].toS = link[k].toS
      <3>1. CASE loc[g].tgt = g
        <4>1. link' = [link EXCEPT ![g].open = FALSE, ![g].toR = <<>>, ![g].toS = link[g].toS]
          BY <3>1 DEF SettleFails, Continue
        <4> QED
          BY <4>1 DEF Inv, Types, LinkType
      <3>2. CASE loc[g].tgt # g
        BY <3>2, ToServerKept DEF Inv, Types, SettleFails, Return
      <3> QED
        BY <3>1, <3>2
    <2> QED
      BY <2>1, <2>3, <2>4 DEF Inv, OutcomeInv, ConfirmedIsCommitted
  <1> QED
    BY <1>1, <1>2, <1>3, <1>4, <1>5, <1>6, <1>7, <1>8, <1>9, <1>10, <1>11, <1>12, <1>13, <1>14,
      <1>15, <1>16, <1>17, <1>18, <1>19 DEF Inv, Types, LeaseInv, StageInv, OutcomeInv

LEMMA BreakSessionKeepsInv ==
    ASSUME Inv, NEW g \in Gets, BreakSession(g)
    PROVE  Inv'
  <1> USE DEF Inv, Types, BreakSession
  <1>1. RowType' /\ DiskType' /\ WorldType' /\ AgentType' /\ PcType' /\ LocType' /\ ActiveType'
        /\ OutcomeType' /\ SpcType' /\ HistoryType' /\ DownIsIdle' /\ OnlyCleanersReap' /\
        WorkersHoldLease' /\ BeginnersHaveNothing' /\ BuiltSoFar' /\ CleanupKnows' /\
        EveryShapeKnown' /\ StageOnRecord' /\ NothingYet' /\ LinkedIsGood' /\ LinkedIsReported'
    BY DEF LeaseInv, StageInv, OutcomeInv, RowType, DiskType, WorldType, AgentType, PcType,
      LocType, ActiveType, OutcomeType, SpcType, HistoryType, DownIsIdle, OnlyCleanersReap,
      WorkersHoldLease, BeginnersHaveNothing, BuiltSoFar, CleanupKnows, EveryShapeKnown,
      Markerless, StageOnRecord, NothingYet, LinkedIsGood, LinkedIsReported, store, world,
      agent, worker
  <1>2. LinkType'
    BY DEF LinkType, Broken
  <1>3. ConfirmedIsCommitted'
    BY DEF OutcomeInv, ConfirmedIsCommitted, PcType, OutcomeType, LinkType, SpcType, Broken,
      worker, Building, Holding, Cleaning
  <1> QED
    BY <1>1, <1>2, <1>3 DEF Inv, Types, LeaseInv, StageInv, OutcomeInv

LEMMA BecomeDueKeepsInv ==
    ASSUME Inv, NEW g \in Gets, BecomeDue(g)
    PROVE  Inv'
  <1> USE DEF Inv, Types
  <1>1. DiskType' /\ WorldType' /\ AgentType' /\ PcType' /\ LocType' /\ ActiveType' /\
        OutcomeType' /\ LinkType' /\ SpcType' /\ HistoryType' /\ DownIsIdle' /\
        OnlyCleanersReap' /\ NothingYet' /\ LinkedIsGood' /\ LinkedIsReported' /\
        ConfirmedIsCommitted'
    BY DEF LeaseInv, OutcomeInv, DiskType, WorldType, AgentType, PcType, LocType, ActiveType,
      OutcomeType, LinkType, SpcType, HistoryType, DownIsIdle, OnlyCleanersReap, NothingYet,
      LinkedIsGood, LinkedIsReported, ConfirmedIsCommitted, BecomeDue, world, agent, worker
  <1>2. RowType'
    BY RowUpdates DEF RowType, BecomeDue
  <1>3. WorkersHoldLease'
    <2>1. \A k \in Gets : row[k] # None => row'[k] # None /\ row'[k].lease = row[k].lease
      BY RowUpdates, Absent DEF Inv, Types, RowType, BecomeDue, Rows
    <2> QED
      BY <2>1, LocUpdates DEF Inv, Types, LeaseInv, WorkersHoldLease, BecomeDue, worker
  <1>4. BeginnersHaveNothing'
    BY DEF LeaseInv, BeginnersHaveNothing, RowType, DiskType, PcType, LocType, BecomeDue, world,
      worker, Starting, Building, Holding, Cleaning
  <1>5. BuiltSoFar'
    BY DEF StageInv, BuiltSoFar, RowType, DiskType, PcType, BecomeDue, world, worker, Owning,
      Building, Holding, Cleaning
  <1>6. CleanupKnows'
    BY DEF StageInv, CleanupKnows, RowType, DiskType, PcType, LocType, BecomeDue, world, worker,
      Building, Holding, Cleaning
  <1>7. EveryShapeKnown'
    BY DEF StageInv, EveryShapeKnown, RowType, DiskType, BecomeDue, world, Markerless
  <1>8. StageOnRecord'
    BY GetAssumption, Absent DEF StageInv, StageOnRecord, RowType, DiskType, BecomeDue,
      world, Rows, Phases, Entries
  <1> QED
    BY <1>1, <1>2, <1>3, <1>4, <1>5, <1>6, <1>7, <1>8 DEF Inv, Types, LeaseInv, StageInv,
      OutcomeInv

LEMMA ClaimResidueKeepsInv ==
    ASSUME Inv, NEW g \in Gets, NEW h \in Gets, ClaimResidue(g, h)
    PROVE  Inv'
  <1> USE DEF Inv, Types
  <1>1. DiskType' /\ WorldType' /\ AgentType' /\ OutcomeType' /\ LinkType' /\ SpcType' /\
        HistoryType'
    BY DEF DiskType, WorldType, AgentType, OutcomeType, LinkType, SpcType, HistoryType,
      ClaimResidue, world, agent
  <1>2. RowType'
    <2>1. CASE Unleased(h) /\ row' = [row EXCEPT ![h].lease = g]
      BY <2>1, RowUpdates DEF Inv, Types, Unleased
    <2>2. CASE UNCHANGED row
      BY <2>2 DEF Inv, Types, RowType
    <2> QED
      BY <2>1, <2>2 DEF ClaimResidue
  <1>3. PcType'
    BY DEF PcType, ClaimResidue, Goto, PCs, Building, Holding, Cleaning
  <1>4. LocType'
    <2>1. row'[h] \in Rows \cup {None}
      BY <1>2 DEF RowType
    <2>2. loc[g].todo \ {h} \in SUBSET Gets
      BY LocUpdates DEF Inv, Types
    <2>3. CASE loc' = [loc EXCEPT ![g] = [tgt |-> h, seen |-> row'[h], todo |-> @.todo \ {h}]]
      BY <2>1, <2>3, LocUpdates DEF Inv, Types
    <2>4. CASE loc' = [loc EXCEPT ![g].todo = @ \ {h}]
      BY <2>2, <2>4, LocUpdates DEF Inv, Types
    <2> QED
      BY <2>3, <2>4 DEF ClaimResidue
  <1>5. ActiveType'
    BY DEF ActiveType, PcType, LocType, ClaimResidue, Goto, Building, Holding, Cleaning
  <1>6. DownIsIdle'
    BY DEF LeaseInv, DownIsIdle, AgentType, PcType, ClaimResidue, Goto, agent, Building,
      Holding, Cleaning
  <1>7. OnlyCleanersReap'
    BY DEF LeaseInv, OnlyCleanersReap, PcType, LocType, ClaimResidue, Goto, Cleaning, Building,
      Holding
  <1>8. WorkersHoldLease'
    BY GetAssumption, Absent DEF LeaseInv, WorkersHoldLease, RowType, PcType, LocType,
      ClaimResidue, Unleased, Goto, Working, Owning, Building, Holding, Cleaning, Rows, Phases,
      PCs
  <1>9. BeginnersHaveNothing'
    BY DEF LeaseInv, BeginnersHaveNothing, RowType, DiskType, PcType, LocType, ClaimResidue,
      Unleased, Goto, world, Starting, Building, Holding, Cleaning
  <1>10. BuiltSoFar'
    BY DEF StageInv, BuiltSoFar, RowType, DiskType, PcType, ClaimResidue, Unleased, Goto, world,
      Owning, Building, Holding, Rows, Phases, Entries, PCs, Cleaning
  <1>11. CleanupKnows'
    BY DEF StageInv, CleanupKnows, RowType, DiskType, PcType, LocType, ClaimResidue, Unleased,
      Goto, world, Rows, Phases, Entries, PCs, Building, Holding, Cleaning
  <1>12. EveryShapeKnown'
    BY DEF StageInv, EveryShapeKnown, RowType, DiskType, ClaimResidue, Unleased, world,
      Markerless, Rows, Phases, Entries
  <1>13. StageOnRecord'
    BY GetAssumption, Absent DEF StageInv, StageOnRecord, RowType, DiskType,
      ClaimResidue, Unleased, world, Rows, Phases, Entries
  <1>14. NothingYet'
    BY DEF OutcomeInv, NothingYet, PcType, LocType, OutcomeType, HistoryType, ClaimResidue,
      Goto, Starting, Building, Holding, Cleaning
  <1>15. LinkedIsGood'
    BY DEF OutcomeInv, LinkedIsGood, PcType, OutcomeType, HistoryType, ClaimResidue, Goto,
      Building, Holding, Cleaning
  <1>16. LinkedIsReported'
    BY DEF OutcomeInv, LinkedIsReported, PcType, OutcomeType, HistoryType, ClaimResidue, Goto,
      Building, Holding, Cleaning
  <1>17. ConfirmedIsCommitted'
    BY DEF OutcomeInv, ConfirmedIsCommitted, PcType, OutcomeType, LinkType, SpcType,
      ClaimResidue, Goto, Building, Holding, Cleaning
  <1> QED
    BY <1>1, <1>2, <1>3, <1>4, <1>5, <1>6, <1>7, <1>8, <1>9, <1>10, <1>11, <1>12, <1>13, <1>14,
      <1>15, <1>16, <1>17 DEF Inv, Types, LeaseInv, StageInv, OutcomeInv

LEMMA ClaimFailsKeepsInv ==
    ASSUME Inv, NEW g \in Gets, NEW h \in Gets, ClaimFails(g, h)
    PROVE  Inv'
  <1> USE DEF Inv, Types
  <1>1. DiskType' /\ WorldType' /\ AgentType' /\ SpcType' /\ HistoryType'
    BY DEF DiskType, WorldType, AgentType, SpcType, HistoryType, ClaimFails, world, agent
  <1>2. RowType'
    BY RowUpdates DEF RowType, ClaimFails, Unleased, Locals
  <1>3. PcType'
    BY DEF PcType, ClaimFails, Return, Goto, Locals, PCs, Building, Holding, Cleaning
  <1>4. LocType'
    BY DEF LeaseInv, LocType, BeginnersHaveNothing, OnlyCleanersReap, PcType, ClaimFails,
      Return, Locals, Starting, Cleaning, Building, Holding
  <1>5. ActiveType'
    BY DEF ActiveType, PcType, LocType, ClaimFails, Return, Goto, Locals, Building, Holding,
      Cleaning
  <1>6. OutcomeType'
    BY DEF OutcomeType, ClaimFails, Return, Locals
  <1>7. LinkType'
    BY LinkUpdates, EmptyQueue DEF LinkType, ClaimFails, Return, Locals, Close
  <1>8. DownIsIdle'
    BY DEF LeaseInv, DownIsIdle, AgentType, PcType, ClaimFails, Return, Goto, Locals, agent,
      Building, Holding, Cleaning
  <1>9. OnlyCleanersReap'
    BY DEF LeaseInv, OnlyCleanersReap, PcType, LocType, ClaimFails, Return, Goto, Locals,
      Cleaning, Building, Holding
  <1>10. WorkersHoldLease'
    BY GetAssumption, Absent DEF LeaseInv, WorkersHoldLease, RowType, PcType, LocType,
      ClaimFails, Unleased, Return, Goto, Locals, Working, Owning, Building, Holding, Cleaning
  <1>11. BeginnersHaveNothing'
    BY DEF LeaseInv, BeginnersHaveNothing, RowType, DiskType, PcType, LocType, ClaimFails,
      Unleased, Return, Goto, Locals, world, Starting, Building, Holding, Cleaning
  <1>12. BuiltSoFar'
    BY DEF StageInv, BuiltSoFar, RowType, DiskType, PcType, ClaimFails, Unleased, Return, Goto,
      Locals, world, Owning, Building, Holding, Cleaning
  <1>13. CleanupKnows'
    BY DEF StageInv, CleanupKnows, RowType, DiskType, PcType, LocType, ClaimFails, Unleased,
      Return, Goto, Locals, world, Building, Holding, Cleaning
  <1>14. EveryShapeKnown'
    BY DEF StageInv, EveryShapeKnown, RowType, DiskType, ClaimFails, Unleased, Locals, world,
      Markerless
  <1>15. StageOnRecord'
    BY GetAssumption, Absent DEF StageInv, StageOnRecord, RowType, DiskType, ClaimFails,
      Unleased, Locals, world, Rows, Phases, Entries
  <1>16. NothingYet'
    BY DEF OutcomeInv, NothingYet, PcType, LocType, OutcomeType, HistoryType, ClaimFails,
      Return, Goto, Locals, Starting, Building, Holding, Cleaning
  <1>17. LinkedIsGood'
    BY DEF OutcomeInv, LinkedIsGood, PcType, OutcomeType, HistoryType, ClaimFails, Return, Goto,
      Locals, Building, Holding, Cleaning
  <1>18. LinkedIsReported'
    BY DEF OutcomeInv, LinkedIsReported, RowType, DiskType, WorldType, AgentType, PcType,
      LocType, ActiveType, OutcomeType, LinkType, SpcType, HistoryType, NothingYet,
      LinkedIsGood, ConfirmedIsCommitted, ClaimFails, Return, Goto, Locals, Building, Holding,
      Cleaning, Starting
  <1>19. ConfirmedIsCommitted'
    <2>1. pc[g] # "returned"
      BY DEF ClaimFails
    <2>2. /\ \A k \in Gets : link'[k].toS = link[k].toS /\ spc'[k] = spc[k]
          /\ \A k \in Gets \ {g} : pc'[k] = pc[k] /\ outcome'[k] = outcome[k]
      BY DEF Inv, Types, LinkType, PcType, OutcomeType, ClaimFails, Return, Goto, Close
    <2> QED
      BY <2>1, <2>2 DEF Inv, OutcomeInv, ConfirmedIsCommitted
  <1> QED
    BY <1>1, <1>2, <1>3, <1>4, <1>5, <1>6, <1>7, <1>8, <1>9, <1>10, <1>11, <1>12, <1>13, <1>14,
      <1>15, <1>16, <1>17, <1>18, <1>19 DEF Inv, Types, LeaseInv, StageInv, OutcomeInv

LEMMA CrashKeepsInv ==
    ASSUME Inv, Crash
    PROVE  Inv'
  <1> USE DEF Inv, Types
  <1>1. RowType' /\ DiskType' /\ WorldType' /\ OutcomeType' /\ SpcType' /\ HistoryType' /\
        EveryShapeKnown' /\ StageOnRecord'
    BY DEF StageInv, RowType, DiskType, WorldType, OutcomeType, SpcType, HistoryType,
      EveryShapeKnown, Markerless, StageOnRecord, Crash, world
  <1>2. AgentType'
    <2>1. up' = FALSE
      BY DEF Crash
    <2>2. crashes' \in 0 .. MaxCrashes
      BY GetAssumption DEF Inv, Types, AgentType, Crash
    <2> QED
      BY <2>1, <2>2 DEF AgentType
  <1>3. PcType'
    BY DEF PcType, Crash, Locals, Broken, PCs, Building, Holding, Cleaning
  <1>4. LocType'
    BY DEF LocType, Crash, Locals, Broken
  <1>5. ActiveType'
    BY DEF ActiveType, PcType, LocType, Crash, Locals, Broken, Building, Holding, Cleaning
  <1>6. LinkType'
    BY DEF LinkType, Crash, Locals, Broken
  <1>7. DownIsIdle'
    BY DEF LeaseInv, DownIsIdle, AgentType, PcType, Crash, Locals, Broken, Building, Holding,
      Cleaning
  <1>8. OnlyCleanersReap'
    BY DEF LeaseInv, OnlyCleanersReap, PcType, LocType, Crash, Locals, Broken, Cleaning,
      Building, Holding
  <1>9. WorkersHoldLease'
    BY DEF LeaseInv, WorkersHoldLease, RowType, PcType, LocType, Crash, Locals, Broken, Working,
      Owning, Building, Holding, Cleaning
  <1>10. BeginnersHaveNothing'
    BY DEF LeaseInv, BeginnersHaveNothing, RowType, DiskType, PcType, LocType, Crash, Locals,
      Broken, world, Starting, Building, Holding, Cleaning
  <1>11. BuiltSoFar'
    BY DEF StageInv, BuiltSoFar, RowType, DiskType, PcType, Crash, Locals, Broken, world,
      Owning, Building, Holding, Cleaning
  <1>12. CleanupKnows'
    BY DEF StageInv, CleanupKnows, RowType, DiskType, PcType, LocType, Crash, Locals, Broken,
      world, Building, Holding, Cleaning
  <1>13. NothingYet'
    BY DEF OutcomeInv, NothingYet, PcType, LocType, OutcomeType, HistoryType, Crash, Locals,
      Broken, Starting, Building, Holding, Cleaning
  <1>14. LinkedIsGood'
    BY DEF OutcomeInv, LinkedIsGood, PcType, OutcomeType, HistoryType, Crash, Locals, Broken,
      Building, Holding, Cleaning
  <1>15. LinkedIsReported'
    BY DEF OutcomeInv, LinkedIsReported, PcType, OutcomeType, HistoryType, Crash, Locals,
      Broken, Building, Holding, Cleaning
  <1>16. ConfirmedIsCommitted'
    BY DEF OutcomeInv, ConfirmedIsCommitted, PcType, OutcomeType, LinkType, SpcType, Crash,
      Locals, Broken, Building, Holding, Cleaning
  <1> QED
    BY <1>1, <1>2, <1>3, <1>4, <1>5, <1>6, <1>7, <1>8, <1>9, <1>10, <1>11, <1>12, <1>13, <1>14,
      <1>15, <1>16 DEF Inv, Types, LeaseInv, StageInv, OutcomeInv

LEMMA StartupKeepsInv ==
    ASSUME Inv, Startup
    PROVE  Inv'
  <1> USE DEF Inv, Types, Startup
  <1>1. DiskType' /\ WorldType' /\ PcType' /\ LocType' /\ OutcomeType' /\ LinkType' /\ SpcType'
        /\ HistoryType' /\ OnlyCleanersReap' /\ NothingYet' /\ LinkedIsGood' /\
        LinkedIsReported' /\ ConfirmedIsCommitted'
    BY DEF LeaseInv, OutcomeInv, DiskType, WorldType, PcType, LocType, OutcomeType, LinkType,
      SpcType, HistoryType, OnlyCleanersReap, NothingYet, LinkedIsGood, LinkedIsReported,
      ConfirmedIsCommitted, world, worker
  <1>2. RowType'
    BY RowUpdates DEF RowType
  <1>3. AgentType'
    BY DEF AgentType
  <1>4. ActiveType'
    BY DEF ActiveType, PcType, LocType, worker, Building, Holding, Cleaning
  <1>5. DownIsIdle'
    BY DEF LeaseInv, DownIsIdle, AgentType, PcType, worker, Building, Holding, Cleaning
  <1>6. WorkersHoldLease'
    BY DEF LeaseInv, WorkersHoldLease, RowType, DiskType, WorldType, AgentType, PcType, LocType,
      ActiveType, OutcomeType, LinkType, SpcType, HistoryType, DownIsIdle, OnlyCleanersReap,
      BeginnersHaveNothing, worker, Working, Owning, Building, Holding, Cleaning, Starting
  <1>7. BeginnersHaveNothing'
    BY DEF LeaseInv, BeginnersHaveNothing, RowType, DiskType, PcType, LocType, world, worker,
      Starting, Building, Holding, Cleaning
  <1>8. BuiltSoFar'
    BY DEF StageInv, BuiltSoFar, RowType, DiskType, PcType, world, worker, Owning, Building,
      Holding, Cleaning
  <1>9. CleanupKnows'
    BY DEF StageInv, CleanupKnows, RowType, DiskType, PcType, LocType, world, worker, Building,
      Holding, Cleaning
  <1>10. EveryShapeKnown'
    BY DEF StageInv, EveryShapeKnown, RowType, DiskType, world, Markerless
  <1>11. StageOnRecord'
    BY GetAssumption, Absent DEF StageInv, StageOnRecord, RowType, DiskType, world,
      Rows, Phases, Entries
  <1> QED
    BY <1>1, <1>2, <1>3, <1>4, <1>5, <1>6, <1>7, <1>8, <1>9, <1>10, <1>11 DEF Inv, Types,
      LeaseInv, StageInv, OutcomeInv

LEMMA UserTouchesKeepsInv ==
    ASSUME Inv, UserTouches
    PROVE  Inv'
  <1> USE DEF Inv, Types, UserTouches
  <1>1. RowType' /\ DiskType' /\ AgentType' /\ PcType' /\ LocType' /\ ActiveType' /\
        OutcomeType' /\ LinkType' /\ SpcType' /\ HistoryType' /\ DownIsIdle' /\
        OnlyCleanersReap' /\ WorkersHoldLease' /\ BeginnersHaveNothing' /\ BuiltSoFar' /\
        CleanupKnows' /\ EveryShapeKnown' /\ StageOnRecord' /\ NothingYet' /\ LinkedIsGood' /\
        LinkedIsReported' /\ ConfirmedIsCommitted'
    BY DEF LeaseInv, StageInv, OutcomeInv, RowType, DiskType, AgentType, PcType, LocType,
      ActiveType, OutcomeType, LinkType, SpcType, HistoryType, DownIsIdle, OnlyCleanersReap,
      WorkersHoldLease, BeginnersHaveNothing, BuiltSoFar, CleanupKnows, EveryShapeKnown,
      Markerless, StageOnRecord, NothingYet, LinkedIsGood, LinkedIsReported,
      ConfirmedIsCommitted, store, agent, worker
  <1>2. WorldType'
    BY DEF WorldType
  <1> QED
    BY <1>1, <1>2 DEF Inv, Types, LeaseInv, StageInv, OutcomeInv

\* The invariant holds initially.
LEMMA InitInv ==
    Init => Inv
  <1> SUFFICES ASSUME Init PROVE Inv
    OBVIOUS
  <1>1. Types
    BY GetAssumption, EmptyQueue
    DEF Init, Types, RowType, DiskType, WorldType, AgentType, PcType, PCs, LocType, Locals,
      ActiveType, OutcomeType, LinkType, SpcType, SPCs, HistoryType
  <1>2. LeaseInv
    BY DEF Init, LeaseInv, DownIsIdle, OnlyCleanersReap, WorkersHoldLease, BeginnersHaveNothing,
      Locals, Working, Owning, Building, Holding, Cleaning
  <1>3. StageInv
    BY DEF Init, StageInv, BuiltSoFar, CleanupKnows, EveryShapeKnown, StageOnRecord, Owning,
      Building, Holding
  <1>4. OutcomeInv
    BY DEF Init, OutcomeInv, NothingYet, LinkedIsGood, LinkedIsReported, ConfirmedIsCommitted
  <1> QED
    BY <1>1, <1>2, <1>3, <1>4 DEF Inv

\* A step that changes nothing keeps the invariant.
LEMMA StutterKeepsInv ==
    ASSUME Inv, UNCHANGED vars
    PROVE  Inv'
  BY DEF Inv, Types, RowType, DiskType, WorldType, AgentType, PcType, LocType, ActiveType,
    OutcomeType, LinkType, SpcType, HistoryType, LeaseInv, DownIsIdle, OnlyCleanersReap,
    WorkersHoldLease, BeginnersHaveNothing, StageInv, BuiltSoFar, CleanupKnows, EveryShapeKnown,
    Markerless, StageOnRecord, OutcomeInv, NothingYet, LinkedIsGood, LinkedIsReported,
    ConfirmedIsCommitted, vars

\* The invariant is inductive.
LEMMA InvIsInductive ==
    Inv /\ [Next]_vars => Inv'
  <1> SUFFICES ASSUME Inv, [Next]_vars PROVE Inv'
    OBVIOUS
  <1>1. CASE \E g \in Gets : ServeStep(g)
    BY <1>1, ServeGetKeepsInv, StreamFileKeepsInv, OnConfirmationKeepsInv, ServeFailsKeepsInv
    DEF ServeStep
  <1>2. CASE \E g \in Gets : GetStep(g)
    <2>1. PICK g \in Gets : GetStep(g)
      BY <1>2
    <2>2. CASE \E h \in Gets : ClaimResidue(g, h) \/ ClaimFails(g, h)
      BY <2>2, ClaimResidueKeepsInv, ClaimFailsKeepsInv
    <2> QED
      BY <2>1, <2>2, RequestGetKeepsInv, OnMetadataKeepsInv, SelectResidueKeepsInv,
        ReserveKeepsInv, RequestFailsKeepsInv, MakeStageKeepsInv, OpenStageKeepsInv,
        RecordPhaseKeepsInv, MakeEntryKeepsInv, SendReadyKeepsInv, OnChunkKeepsInv,
        OnCompleteKeepsInv, ValidatePublicationKeepsInv, LinkDataKeepsInv, RecordLinkKeepsInv,
        LinkUnrecordedKeepsInv, StageFailsKeepsInv, InspectKeepsInv, AuthorizeKeepsInv,
        RemoveEntryKeepsInv, RemoveStageKeepsInv, DropRowKeepsInv, CleanupFailsKeepsInv,
        SettleKeepsInv, SettleFailsKeepsInv
      DEF GetStep
  <1>3. CASE Environment
    BY <1>3, BreakSessionKeepsInv, BecomeDueKeepsInv, CrashKeepsInv, StartupKeepsInv,
      UserTouchesKeepsInv
    DEF Environment
  <1>4. CASE UNCHANGED vars
    BY <1>4, StutterKeepsInv
  <1> QED
    BY <1>1, <1>2, <1>3, <1>4 DEF Next

(***************************************************************************)
(* The theorems.                                                           *)
(***************************************************************************)
\* Every reachable state satisfies the invariant.
LEMMA InvHolds ==
    Spec => []Inv
  BY InitInv, InvIsInductive, PTL DEF Spec

\* The parts make up TypeOK.
LEMMA TypesAreTypeOK ==
    Types => TypeOK
  BY DEF Types, TypeOK, RowType, DiskType, WorldType, AgentType, PcType, LocType, ActiveType,
    OutcomeType, LinkType, SpcType, HistoryType

\* The variables of GetTransfer stay within their types; what is registered as active is
\* a stage that its own get builds, holds or cleans.
THEOREM TypeCorrect ==
    Spec => []TypeOK
  <1>1. Inv => TypeOK
    BY TypesAreTypeOK DEF Inv
  <1> QED
    BY <1>1, InvHolds, PTL

\* No get that reaps ever takes the row or the stage of one that builds or holds it,
\* whatever the interleaving of reaping, crashes and restarts (claim, Startup).
THEOREM LiveStages ==
    Spec => []LiveStageIntact
  <1>1. Inv => LiveStageIntact
    <2> SUFFICES ASSUME Inv, NEW g \in Gets
                 PROVE  /\ pc[g] \in Building \cup Holding => row[g] # None /\ row[g].lease = g
                        /\ pc[g] \in Holding => disk[g] = {"marker", "data"}
      BY DEF LiveStageIntact
    <2>1. ASSUME pc[g] \in Building \cup Holding
          PROVE  row[g] # None /\ row[g].lease = g
      BY <2>1, OwnersOwn DEF Inv, LeaseInv, WorkersHoldLease, Owning
    <2>2. ASSUME pc[g] \in Holding
          PROVE  disk[g] = {"marker", "data"}
      BY <2>2 DEF Inv, StageInv, BuiltSoFar
    <2> QED
      BY <2>1, <2>2
  <1> QED
    BY <1>1, InvHolds, PTL

\* Through crashes, failed steps and partial cleanups every stage directory has its row, and
\* one that nobody leases has a shape that the next cleanup accepts (cleanupOpened).
THEOREM Residue ==
    Spec => []ResidueOnRecord
  <1>1. Inv => ResidueOnRecord
    BY TypesAreTypeOK
    DEF Inv, StageInv, EveryShapeKnown, ResidueOnRecord, ResidueIsRecoverable, Unleased
  <1> QED
    BY <1>1, InvHolds, PTL

\* What a get and the agent that serves it report is what happened to the file.
THEOREM TrueOutcomes ==
    Spec => []OutcomesAreTrue
  <1>1. Inv => OutcomesAreTrue
    BY DEF Inv, OutcomeInv, LinkedIsGood, LinkedIsReported, ConfirmedIsCommitted, OutcomesAreTrue
  <1> QED
    BY <1>1, InvHolds, PTL

=============================================================================
